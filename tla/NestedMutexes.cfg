SPECIFICATION Spec
CONSTANTS
  AnchorIsNode = TRUE
  Thread <- ThreeThreads
  Idle = "idle"
  Semaphore = {}
  Mutex = {"m", "n"}
  BasePriority <- Distinct
  MaxNumOfThread = 4
  InitialValue <- Zeros
  MaxValue <- Ones
  IsrSemaphore = {}
  MaxDelay = 1
INVARIANT Inheritance
