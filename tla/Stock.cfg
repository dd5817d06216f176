CONSTANTS
  o1 = o1
  o2 = o2
  t1 = t1
  t2 = t2
  t3 = t3
  Orders <- MCOrders
  Offers <- MCOffers
  OnHand <- MCOnHand
  Quantity <- MCQuantity
  Tx <- MCTx
  MaxAttempts = 2
SPECIFICATION TxSpec
SYMMETRY TxSymmetry
INVARIANTS
  ReservedIsHeld
  NotOversold
  AllOrNothing
  OnlyReleasesDeadlock
PROPERTIES
  AtomicStock
