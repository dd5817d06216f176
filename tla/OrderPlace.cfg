CONSTANTS
  alice = alice
  k1 = k1
  i1 = i1
  i2 = i2
  NoKey = NoKey
  Requests <- ThreeRequests
  Buyers <- MCBuyers
  Buyer <- MCBuyer
  Key <- MCKey
  Relays <- TwoRelays
  BatchSize = 2
  MaxFaults = 1
SPECIFICATION FairSpec
INVARIANT OneOrderPerKey
INVARIANT OneWorkflowPerOrder
PROPERTY EveryOrderIsStarted
PROPERTY EveryRequestIsAnswered
