--------------------------- MODULE MCKeyRotation ---------------------------
(***************************************************************************)
(* Model of KeyRotation: two pods.                                         *)
(***************************************************************************)
EXTENDS KeyRotation

CONSTANTS p1, p2

MCPods == {p1, p2}
MCKeys == {k1, k2}

=============================================================================
