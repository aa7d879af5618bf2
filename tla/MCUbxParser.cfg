SPECIFICATION Spec
CONSTANTS
  ByteMod = 3
  kSync1 = 2
  kSync2 = 1
  kClassNav = 1
  kIdPvt = 0
  kPvtLength = 2
  kMaxPayload = 4
INVARIANTS
  InStep
  DecodedIsReceived
  SilenceBounded
