CONSTANTS
  i1 = i1
  e1 = e1
  e2 = e2
  e3 = e3
  Requests <- ThreeRequests
  Login <- ThreePeople
  Refused <- TheSecond
  Relays <- MCRelays
  BatchSize = 1
  MaxFaults = 1
SPECIFICATION FairSpec
INVARIANT TablesFollowTopics
PROPERTY EveryIdentityIsProvisioned
