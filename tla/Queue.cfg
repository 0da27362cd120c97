SPECIFICATION QueueSpec
CONSTANTS
  AnchorIsNode = TRUE
  Thread <- ThreeThreads
  Idle = "idle"
  Semaphore = {"write", "read"}
  Mutex = {}
  BasePriority <- PairAndOne
  MaxNumOfThread = 4
  InitialValue <- QueueTokens
  MaxValue <- QueueCeilings
  IsrSemaphore = {"read"}
  MaxDelay = 0
  WriteAccess = "write"
  ReadAccess = "read"
  Block = {"x", "y"}
  BlockSize = 4
  QueueCapacity = 8
INVARIANTS
  IInv
  QueueTypeOK
  Conserved
PROPERTIES
  ImplementsFifo
