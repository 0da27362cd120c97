SPECIFICATION SingleLockSpec
CONSTANTS
  AnchorIsNode = TRUE
  Thread <- ThreeThreads
  Idle = "idle"
  Semaphore = {"s"}
  Mutex = {"m", "n"}
  BasePriority <- Distinct
  MaxNumOfThread = 4
  InitialValue <- Zeros
  MaxValue <- Ones
  IsrSemaphore = {"s"}
  MaxDelay = 1
INVARIANTS
  TypeOK
  Seated
  OneRuns
  Sorted
  StateAgrees
  SomebodyRunnable
  RightThread
  HighestRuns
  WaitersHaveOwner
  Inheritance
  PriorityRestored
PROPERTIES
  NeverYieldsDown
  TokensOnlyTaken
  MutexContracts
