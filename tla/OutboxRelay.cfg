CONSTANTS
  i1 = i1
  i2 = i2
  o1 = o1
  o2 = o2
  Rows <- ThreeRows
  Aggregate <- MCAggregate
  Relays <- TwoRelays
  BatchSize = 2
  MaxFaults = 2
SPECIFICATION FairSpec
CHECK_DEADLOCK FALSE
INVARIANT PublishedIsSent
PROPERTY AtLeastOnceLog
PROPERTY OvertakenOnlyWhileHeld
PROPERTY EveryRowIsPublished
