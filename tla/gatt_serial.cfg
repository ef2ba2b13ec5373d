CONSTANTS
  t1 = t1
  t2 = t2
  k1 = k1
  k2 = k2
  None = None
  Conns = {k1}
  Tasks = {t1, t2}
  Home <- OneLink
  Readers = {t1, t2}
  Writers = {t2}
  Size <- TwoChunks
  Lengths = {1, 2, 3}
  MaxQueue = 0
  AttrMax = 2
  PeerErrors <- Refusals
  NoMem = FALSE
  LateAnswers = FALSE
  Preempt = FALSE
SPECIFICATION FairSpec
INVARIANTS TypeOK WaiterHasProcedure
PROPERTY CallsReturn
