SPECIFICATION FairSpec
CONSTANTS
  MaxSessions = 2
  kCapacity = 3
  kMaxPacketsPerTick = 2
  Hours = {0, 1}
  SyncMod = 4
INVARIANT NothingBuffered
