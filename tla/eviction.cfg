SPECIFICATION Spec
CONSTANTS
  p1 = p1
  p2 = p2
  s1 = s1
  s2 = s2
  Size = 48
  CycleMod = 3
  PtrMod = 56
  MsgSizes = {8}
  NumReaders = 1
  Publishers = {p1}
  Subscribers = {s1, s2}
  Conflated = {s1, s2}
  NoUid = NoUid
  MaxSends = 2
SYMMETRY Sym
INVARIANT TypeOK
