CONSTANTS
  t1 = t1
  t2 = t2
  k1 = k1
  k2 = k2
  None = None
  Conns = {k1, k2}
  Tasks = {t1, t2}
  Home <- TwoLinks
  Readers = {t1, t2}
  Writers = {}
  Size <- TwoChunks
  Lengths = {1, 2}
  MaxQueue = 0
  AttrMax = 2
  PeerErrors <- NoErrors
  NoMem = FALSE
  LateAnswers = FALSE
  Preempt = FALSE
SPECIFICATION Spec
INVARIANT ReadIntegrity
