CONSTANTS
  c1 = c1
  t1 = t1
  h1 = h1
  None = None
  Clients = {c1}
  Tasks = {t1}
  Handles = {h1}
  Owner <- MCSingle
  SharedBit = TRUE
  ConnectModes <- AllModes
  SelfDelete <- AllOrNothing
  MaxAttempts = 2
  Preempt = FALSE
  DeletePending = FALSE
SPECIFICATION FairSpec
INVARIANTS TypeOK ConnHandleLive NoOrphanLink WaiterPublished NoLostWakeup
PROPERTIES DeletedOnlyWhenIdle CallsReturn
