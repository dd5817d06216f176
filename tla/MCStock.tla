------------------------------ MODULE MCStock ------------------------------
(***************************************************************************)
(* Model of Stock and its transactions: two orders that compete for two    *)
(* offers, of which the first has too little for both, and a third         *)
(* connection for a second delivery or the release of either.              *)
(***************************************************************************)
EXTENDS StockTransactions, TLC

CONSTANTS o1, o2, t1, t2, t3

MCOrders == {o1, o2}
MCOffers == {1, 2}
MCTx == {t1, t2, t3}
MCOnHand == [f \in MCOffers |-> 3]
MCQuantity == [o \in MCOrders |-> [f \in MCOffers |-> IF o = o1 /\ f = 2 THEN 1 ELSE 2]]

\* Connections are alike.
TxSymmetry == Permutations(MCTx)

=============================================================================
