CONSTANTS
  a1 = a1
  a2 = a2
  t1 = t1
  t2 = t2
  None = None
  Addrs = {a1, a2}
  Scannable = {a1}
  Tasks = {t1, t2}
  Limits = {0, 1}
  Unlimited = 2
  Apps <- Disciplined
SPECIFICATION FairSpec
INVARIANTS TypeOK DeviceAlive NothingKept WaiterHasScan
PROPERTY CallsReturn
