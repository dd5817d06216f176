CONSTANTS
  r1 = r1
  r2 = r2
  Free = Free
  Orphan = Orphan
  NoEntry = NoEntry
  Readers <- MCReaders
  Ttl = 1
  Jitter = 1
  Horizon = 3
SPECIFICATION FairSpec
INVARIANT OneLoads
INVARIANT StaleOnlyByRace
PROPERTY EveryReadReturns
