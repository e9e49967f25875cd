SPECIFICATION WaitsSpec
CONSTANTS
  a = a
  b = b
  Sources = {a, b}
  Kinds <- AllKinds
  Timeouts <- SomeTimeouts
  TicksPerMs = 2
  ForeverMs = 1
  SliceMs = 1
  Interval = 3
INVARIANT SleepWithinTimeout
PROPERTY ResultJustified TimeoutNotEarly WaitEnds
