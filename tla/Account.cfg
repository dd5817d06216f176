CONSTANTS
  o1 = o1
  o2 = o2
  o3 = o3
  o4 = o4
  alice = alice
  carol = carol
  Orders <- MCOrders
  Customers <- MCCustomers
  Customer <- MCCustomer
  Amount <- MCAmount
  Opening <- MCOpening
SPECIFICATION SpecReplies
INVARIANT BalanceIsLedger
INVARIANT AtMostOnce
INVARIANT RefundAnswerStands
PROPERTY RefundIsFinal
