SPECIFICATION RecordedSpec
CONSTANTS
  p1 = p1
  p2 = p2
  s1 = s1
  s2 = s2
  Size = 104
  CycleMod = 3
  PtrMod = 112
  MsgSizes = {16}
  NumReaders = 1
  Publishers = {p1, p2}
  Subscribers = {s1}
  Conflated = {s1}
  NoUid = NoUid
  MaxSends = 4
INVARIANT DeliveredIntact UpdatedMeansCaughtUp
PROPERTY ImplementsPubSub
