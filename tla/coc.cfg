CONSTANTS
  None = None
  Initial = 2
  MaxFrames = 3
  MaxSdus = 4
  Retries = 3
  TxNoMem = FALSE
  LoseCredits = FALSE
  MayRefuse = TRUE
  LinkLoss = TRUE
CHECK_DEADLOCK FALSE
SPECIFICATION FairSpec
INVARIANT CreditConservation
PROPERTY ImplementsChannel
