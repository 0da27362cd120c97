SPECIFICATION Spec
CONSTANTS
  AnchorIsNode = TRUE
  Thread <- TwoThreads
  Idle = "idle"
  Semaphore = {"s"}
  Mutex = {}
  BasePriority <- AllMedium
  MaxNumOfThread = 4
  InitialValue <- Full16
  MaxValue <- Full16
  IsrSemaphore = {"s"}
  MaxDelay = 1
PROPERTY TokensOnlyTaken
