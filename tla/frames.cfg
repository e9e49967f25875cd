SPECIFICATION FramesSpec
CONSTANTS
  v1 = v1
  v2 = v2
  c1 = c1
  Servers = {v1, v2}
  Clients = {c1}
  Conflating = {}
  NumBuffers <- TwoThenOne
  NoServer = NoServer
  MaxFrames <- ThreeThenOne
INVARIANT FrameIntact MappedExactly FailsOnlyWithServer
CHECK_DEADLOCK FALSE
