CONSTANTS
  t1 = t1
  t2 = t2
  k1 = k1
  k2 = k2
  None = None
  Conns = {k1}
  Tasks = {t1, t2}
  Home <- OneLink
  Readers = {t1}
  Writers = {t2}
  Size <- ThreeChunks
  Lengths = {1, 2, 3}
  MaxQueue = 1
  AttrMax = 3
  PeerErrors <- NoErrors
  NoMem = TRUE
  LateAnswers = FALSE
  Preempt = TRUE
SPECIFICATION Spec
INVARIANTS ReadIntegrity TrueMeansWritten OneRequestOutstanding ProceduresEndWithCalls
