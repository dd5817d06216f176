--------------------------- MODULE MCOrderPlace ---------------------------
(***************************************************************************)
(* Models of OrderPlace: alice sends a request, its retry with the same    *)
(* key, and one without a key.                                             *)
(***************************************************************************)
EXTENDS OrderPlace

CONSTANTS alice, k1, i1, i2

TwoRequests == 1 .. 2
ThreeRequests == 1 .. 3
MCBuyers == {alice}
MCBuyer == [q \in Requests |-> alice]
MCKey == [q \in Requests |-> IF q < 3 THEN k1 ELSE NoKey]
TwoRelays == {i1, i2}

=============================================================================
