CONSTANTS
  s1 = s1
  s2 = s2
  k1 = k1
  k2 = k2
  None = None
  Services = {s1, s2}
  Conns = {k1, k2}
  AdvOnDisc = TRUE
  Central = FALSE
  Parallel = FALSE
  EarlyEdits = FALSE
  MaxQueue = 4
  MaxResets = 1
SPECIFICATION Spec
INVARIANTS TypeOK PeersMatchLinks ServedServices RemovedInvisible AdvDataLoaded
