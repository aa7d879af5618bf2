\* The button with a debounce time of two, clicks shorter than four, a window
\* of nine and a hold of ten, sampled at most three apart.
SPECIFICATION HSpec
CONSTANTS
  kHoldMs = 10
  kDebounceMs = 2
  kClickMaxMs = 4
  kMultiClickWindowMs = 9
  kClicksForScreen = 3
  MaxStep = 3
INVARIANTS
  Coherent
  TripleEarned
  TripleReported
PROPERTY HoldEarned
