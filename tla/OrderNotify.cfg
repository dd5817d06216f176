CONSTANTS
  i1 = i1
  i2 = i2
  c1 = c1
  o1 = o1
  o2 = o2
  NoInstance = NoInstance
  Rows <- MCRows
  Aggregate <- MCAggregate
  Relays <- MCRelays
  BatchSize = 3
  MaxFaults = 1
  Instances <- MCInstances
  Clients <- MCClients
  Watched <- MCWatched
  HistoryLimit = 2
  MaxRestarts = 1
SPECIFICATION Spec
INVARIANT HistoryIsLog
INVARIANT ResumesOnAnyInstance
INVARIANT StreamMovesForward
