---------------------------- MODULE MCOrderCache ----------------------------
(***************************************************************************)
(* Model of OrderCache: two readers of one order.                          *)
(***************************************************************************)
EXTENDS OrderCache

CONSTANTS r1, r2

MCReaders == {r1, r2}

=============================================================================
