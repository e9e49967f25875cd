SPECIFICATION FairRestartSpec
CONSTANTS
  v1 = v1
  v2 = v2
  c1 = c1
  Servers = {v1, v2}
  Clients = {c1}
  Conflating = {c1}
  NumBuffers <- NoneThenOne
  NoServer = NoServer
  MaxFrames <- NoneThenOne
PROPERTY ShutdownEnds Reconnects
CHECK_DEADLOCK FALSE
