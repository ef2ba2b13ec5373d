CONSTANTS
  p1 = p1
  p2 = p2
  None = None
  Peers = {p1}
  Bonds = {p1}
  Chars = {1}
  MaxValue = 3
  Calls = {"all"}
  CarefulPeer = TRUE
  NoMem = FALSE
  Preempt = FALSE
SPECIFICATION FairSpec
INVARIANTS TypeOK NoUpdateLost StoredAsSubscribed TimeoutOnlyIfSilent
