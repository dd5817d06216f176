CONSTANTS
  o1 = o1
  o2 = o2
  alice = alice
  f1 = f1
  Orders <- TwoOrders
  Customers <- MCCustomers
  Customer <- MCCustomer
  Amount <- UnitAmount
  Opening <- MCOpening
  Offers <- MCOffers
  OnHand <- AmpleStock
  Quantity <- MCQuantity
  LateKinds <- ForwardAndPaid
  Cancellable <- TwoOrders
  Withdrawable <- MCOffers
SPECIFICATION Spec
INVARIANT PaidIsBacked
INVARIANT UnpaidIsNotCharged
INVARIANT OutboxTellsStatus
INVARIANT EndedHoldsNoStock
SYMMETRY OrderSymmetry
