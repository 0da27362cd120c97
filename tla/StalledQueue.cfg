SPECIFICATION DeviceFairSpec
CONSTANTS
  AnchorIsNode = TRUE
  Thread <- TwoThreads
  Idle = "idle"
  Semaphore = {"write", "read"}
  Mutex = {}
  BasePriority <- AllMedium
  MaxNumOfThread = 4
  InitialValue <- QueueTokens
  MaxValue <- QueueCeilings
  IsrSemaphore = {"read"}
  MaxDelay = 0
  WriteAccess = "write"
  ReadAccess = "read"
  Block = {"x", "y"}
  BlockSize = 4
  QueueCapacity = 4
PROPERTY BlocksReachReceivers
