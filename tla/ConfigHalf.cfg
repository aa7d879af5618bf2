SPECIFICATION Spec
CONSTANTS
  teletrack = teletrack
  mx5 = mx5
  Names = {teletrack, mx5}
  Rates = {10, 25}
  Default <- MCDefault
  NoKey = NoKey
  Torn = Torn
  kRenameFlushDelayMs = 2
  MaxPass = 1
  Wrap = 4
INVARIANT AllOrNothing
