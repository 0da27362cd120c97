SPECIFICATION FairSpec
CONSTANTS
  AnchorIsNode = FALSE
  Thread <- ThreeThreads
  Idle = "idle"
  Semaphore = {"s"}
  Mutex = {"m"}
  BasePriority <- AllIdle
  MaxNumOfThread = 4
  InitialValue <- Zeros
  MaxValue <- Ones
  IsrSemaphore = {"s"}
  MaxDelay = 1
INVARIANTS
  IInv
PROPERTIES
  NoOvertaking
  TurnComes
