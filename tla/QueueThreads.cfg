SPECIFICATION QueueFairSpec
CONSTANTS
  AnchorIsNode = TRUE
  Thread <- ThreeThreads
  Idle = "idle"
  Semaphore = {"write", "read"}
  Mutex = {}
  BasePriority <- PairAndOne
  MaxNumOfThread = 4
  InitialValue <- QueueTokens
  MaxValue <- QueueCeilings
  IsrSemaphore = {}
  MaxDelay = 0
  WriteAccess = "write"
  ReadAccess = "read"
  Block = {"x"}
  BlockSize = 4
  QueueCapacity = 8
INVARIANTS
  NoIdleToken
PROPERTIES
  SemaphoreContracts
  SlotsReachSenders
  BlocksReachReceivers
