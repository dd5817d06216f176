------------------------------ MODULE MCAccount ------------------------------
(***************************************************************************)
(* Model of AccountReplies: alice's balance covers each of her first two   *)
(* orders, not both, and her third is free; carol has no Account row until *)
(* user.created or a refund makes one.                                     *)
(***************************************************************************)
EXTENDS AccountReplies

CONSTANTS o1, o2, o3, o4, alice, carol

MCOrders == {o1, o2, o3, o4}
MCCustomers == {alice, carol}
MCCustomer == [o \in MCOrders |-> IF o = o4 THEN carol ELSE alice]
MCAmount == [o \in MCOrders |-> CASE o = o1 -> 2 [] o = o3 -> 0 [] OTHER -> 3]
MCOpening == [c \in MCCustomers |-> IF c = alice THEN 4 ELSE 0]

=============================================================================
