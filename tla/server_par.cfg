CONSTANTS
  s1 = s1
  s2 = s2
  k1 = k1
  k2 = k2
  None = None
  Services = {s1}
  Conns = {k1}
  AdvOnDisc = TRUE
  Central = TRUE
  Parallel = TRUE
  EarlyEdits = FALSE
  MaxQueue = 3
  MaxResets = 1
SPECIFICATION FairSpec
PROPERTIES GattStable AdvertisingRestored
