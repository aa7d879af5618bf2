SPECIFICATION Spec
CONSTANTS
  Tasks = {"web", "loop"}
  LoopTask = "loop"
  Free = "free"
  kRows = 2
  MaxLines = 3
  kMinRedraw = 2
  kHoldStep = 2
  kSecond = 4
  kHold = 8
  Wrap = 8
  MaxStep = 2
  MaxEvents = 3
PROPERTY
  HoldGoes
