CONSTANTS
  o1 = o1
  o2 = o2
  alice = alice
  f1 = f1
  Orders <- TwoOrders
  Customers <- MCCustomers
  Customer <- MCCustomer
  Amount <- FreeAmount
  Opening <- MCOpening
  Offers <- MCOffers
  OnHand <- ScarceStock
  Quantity <- MCQuantity
  LateKinds <- Backward
  Cancellable <- TwoOrders
  Withdrawable <- NoOffers
SPECIFICATION FairSpec
PROPERTY EveryOrderSettles
