CONSTANTS
  Configurations <- Lossy
  TxQueueSize = 2
  RxQueueSize = 2
  MaxFrames = 3
  MaxSessions = 1
  ConnectCount = 1
  DisconnectDuration = 2
  SkippedFramesThreshold = 1
  SkippedModulus = 4
SPECIFICATION Spec
INVARIANTS LinkInv RepeatOnlyAfterReset SyncBeforeData
PROPERTY FifoSpec
