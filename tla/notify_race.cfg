CONSTANTS
  p1 = p1
  p2 = p2
  None = None
  Peers = {p1}
  Bonds = {}
  Chars = {1, 2}
  MaxValue = 1
  Calls = {"all", "one"}
  CarefulPeer = TRUE
  NoMem = FALSE
  Preempt = TRUE
SPECIFICATION FairSpec
INVARIANT IndicationHasProcedure
PROPERTY UpdateArrives
