SPECIFICATION FairSocketSpec
CONSTANTS
  p1 = p1
  p2 = p2
  s1 = s1
  s2 = s2
  Size = 48
  CycleMod = 3
  PtrMod = 56
  MsgSizes = {8}
  NumReaders = 1
  Publishers = {p1}
  Subscribers = {s1}
  Conflated = {}
  NoUid = NoUid
  MaxSends = 4
  PollTicks = 1
  Timeouts <- SomeTimeouts
INVARIANT OverdueOnlyIfSeen
PROPERTY NeverStuck NoEarlyTimeout
