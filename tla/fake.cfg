SPECIFICATION EventSpec
CONSTANTS
  Rounds = 12
  FifoBytes = 2
  EarlyStart = FALSE
INVARIANT Lockstep HeldUntilReleased DescriptorsValid
PROPERTY TestEnds
CHECK_DEADLOCK FALSE
