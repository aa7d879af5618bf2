SPECIFICATION Spec
CONSTANTS
  kWindowMs = 3
  kLostPollMs = 2
  kLostMax = 1
  Wrap = 6
  CounterWrap = 4
  MaxStep = 2
  MaxArrivals = 2
  MaxLost = 2
INVARIANTS
  WindowBounded
  LossesConserved
  StatusWarranted
