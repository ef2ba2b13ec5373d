CONSTANTS
  a = a
  b = b
  None = None
  Conns = {a, b}
  Handles = {1, 2, 3}
  PeerData <- PlainWrites
  PeerParts <- TwoPeers
  AppData <- OneLong
  Zero = "0"
  Readable = {3}
  Writable = {1, 2}
  Removable = {2}
  AppSets = {3}
  AppGets = {1}
  CbSets = {1}
  MaxLen <- Limits
  InitLen = 2
  AttrMax = 3
  MaxPrep = 3
  HideAnytime = FALSE
  ReallocFails = FALSE
  MaxReqs = 4
  MaxSets = 1
CHECK_DEADLOCK FALSE
SPECIFICATION FairSpec
INVARIANTS PoolConserved NoFault
PROPERTIES ImplementsStore QueuesDrain
