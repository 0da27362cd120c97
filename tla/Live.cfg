SPECIFICATION FairSpec
CONSTANTS
  AnchorIsNode = TRUE
  Thread <- ThreeThreads
  Idle = "idle"
  Semaphore = {"s"}
  Mutex = {"m"}
  BasePriority <- Distinct
  MaxNumOfThread = 4
  InitialValue <- Zeros
  MaxValue <- Ones
  IsrSemaphore = {"s"}
  MaxDelay = 2
PROPERTIES
  DelayExpires
  BlockedLeavesCpu
  TurnComes
