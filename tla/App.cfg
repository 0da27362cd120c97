SPECIFICATION AppFairSpec
CONSTANTS
  AnchorIsNode = TRUE
  Thread <- TwoThreads
  Idle = "idle"
  Semaphore = {"semaphore1"}
  Mutex = {}
  BasePriority <- AllMedium
  MaxNumOfThread = 8
  InitialValue <- Zeros
  MaxValue <- Ones
  IsrSemaphore = {}
  MaxDelay = 2
  Code <- AppCode
  AppThreads <- Order2
  Function <- FirstAndFifth
  Delay = 2
  FrameWords = 4
INVARIANTS
  AppIInv
  StacksApart
  CallDecoded
  OneLed
PROPERTIES
  ContextKept
  KeepsBlinking
