-------------------------- MODULE MCProvisioning --------------------------
(***************************************************************************)
(* Three people register, perhaps more than once; the second has an email  *)
(* that the consumer's schema refuses.                                     *)
(***************************************************************************)
EXTENDS Provisioning

CONSTANTS i1, e1, e2, e3

ThreeRequests == 1 .. 3
ThreePeople == [q \in Requests |-> CASE q = 1 -> e1 [] q = 2 -> e2 [] q = 3 -> e3]
TheSecond == {e2}
MCRelays == {i1}

=============================================================================
