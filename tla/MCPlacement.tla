---------------------------- MODULE MCPlacement ----------------------------
(***************************************************************************)
(* Models of Placement.  The orders of one customer compete for the last   *)
(* piece of an offer and for a balance that covers one of them.            *)
(***************************************************************************)
EXTENDS Placement, TLC

CONSTANTS o1, o2, alice, f1

TwoOrders == {o1, o2}
MCCustomers == {alice}
MCOffers == {f1}
MCCustomer == [o \in Orders |-> alice]
UnitAmount == [o \in Orders |-> 1]
\* o2 is free, which an order may be.
FreeAmount == [o \in Orders |-> IF o = o1 THEN 1 ELSE 0]
MCOpening == [c \in MCCustomers |-> 1]
ScarceStock == [f \in MCOffers |-> 1]
AmpleStock == [f \in MCOffers |-> 2]
MCQuantity == [o \in Orders |-> [f \in MCOffers |-> 1]]
\* The two orders differ in nothing, so an invariant need not tell them apart.
OrderSymmetry == Permutations(TwoOrders)
NoOffers == {}
ForwardAndPaid == Forward \cup {"markPaid"}
Backward == Activities \ Forward

=============================================================================
