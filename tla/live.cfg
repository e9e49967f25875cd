SPECIFICATION FairSpec
CONSTANTS
  p1 = p1
  p2 = p2
  s1 = s1
  s2 = s2
  Size = 72
  CycleMod = 3
  PtrMod = 80
  MsgSizes = {8, 16}
  NumReaders = 1
  Publishers = {p1}
  Subscribers = {s1}
  Conflated = {}
  NoUid = NoUid
  MaxSends = 3
INVARIANT StoresInBounds
PROPERTY CallsReturn CatchesUp
