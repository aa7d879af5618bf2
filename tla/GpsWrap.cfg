SPECIFICATION ReceiverSpec
CONSTANTS
  kMaxRateHz = 25
  kMaxConcurrentRateHz = 10
  kWakeMs = 20
  kProbeMs = 250
  Wrap = 1000
  ProbeTimes = {0, 749, 750, 999}
  kPvtBits = 1000
  Requests = {1, 5, 10, 25}
  FactoryBauds = {9600, 38400}
  FactoryRates = {1, 5}
  MaxSaves = 1
  MaxResets = 1
INVARIANT
  FoundIfTalkative
