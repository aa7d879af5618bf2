SPECIFICATION HSpec
CONSTANTS
  kHoldMs = 10
  kDebounceMs = 2
  kClickMaxMs = 4
  kMultiClickWindowMs = 9
  kClicksForScreen = 3
  MaxStep = 3
INVARIANT ThreeAreTriple
