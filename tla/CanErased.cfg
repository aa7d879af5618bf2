SPECIFICATION FairSpec
CONSTANTS
  CanId = {0, 1, 2}
  Interval = {0, 2}
  kMaxIds = 2
  Wrap = 8
  CounterMod = 2
  Capacity = 2
  MaxWrites = 2
  kFramesPerPass = 1
  BootTime = 6
  MaxElapsed = 3
  MaxStep = 2
  Never = Never
PROPERTY NoLossErased
