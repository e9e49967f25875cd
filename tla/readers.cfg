SPECIFICATION SteadySpec
CONSTANTS
  p1 = p1
  p2 = p2
  s1 = s1
  s2 = s2
  Size = 48
  CycleMod = 3
  PtrMod = 56
  MsgSizes = {8}
  NumReaders = 2
  Publishers = {p1}
  Subscribers = {s1, s2}
  Conflated = {}
  NoUid = NoUid
  MaxSends = 3
SYMMETRY Sym
INVARIANT OwnersCounted UpdatedMeansCaughtUp
