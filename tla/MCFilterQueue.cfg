SPECIFICATION FairSpec
CONSTANTS
  denyAll = denyAll
  allowA = allowA
  allowB = allowB
  tooLong = tooLong
  Write <- MCWrite
  LenOf <- MCLenOf
  NoBytes = NoBytes
  kFilterQueueDepth = 4
  kFilterCmdBytes = 7
  CounterMod = 2
INVARIANTS
  IInv
  NoSharedSlot
  NoTornCommand
PROPERTIES
  ImplementsFifo
  PublishedIsTaken
