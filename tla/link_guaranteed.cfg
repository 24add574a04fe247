CONSTANTS
  Configurations <- Guaranteed
  TxQueueSize = 2
  RxQueueSize = 2
  MaxFrames = 3
  MaxSessions = 1
  ConnectCount = 1
  DisconnectDuration = 1
  SkippedFramesThreshold = 1
  SkippedModulus = 4
SPECIFICATION FairSpec
INVARIANTS TypeOK AckedWasReceived CreditPreventsOverrun
PROPERTIES FifoSpec FramesLeave
