SPECIFICATION CarefulSpec
CONSTANTS
  m1 = m1
  m2 = m2
  Procs = {m1, m2}
  Scenarios <- ThreeScenarios
  Files = {1, 2, 3, 4}
  Addrs = {1, 2, 3}
  Sizes = {2}
  Heap = {"zero", "stale"}
INVARIANT Backed HoldsExactly NothingLeftBehind
