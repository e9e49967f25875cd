SPECIFICATION RecordedSpec
CONSTANTS
  p1 = p1
  p2 = p2
  s1 = s1
  s2 = s2
  Size = 80
  CycleMod = 2
  PtrMod = 88
  MsgSizes = {8, 16}
  NumReaders = 1
  Publishers = {p1}
  Subscribers = {s1}
  Conflated = {}
  NoUid = NoUid
  MaxSends = 5
INVARIANT NoGarbage LoadsInBounds DeliveredIntact
PROPERTY ImplementsPubSub
