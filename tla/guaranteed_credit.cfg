CONSTANTS
  Configurations <- WithCredit
  TxQueueSize = 2
  RxQueueSize = 2
  MaxFrames = 3
  MaxSessions = 0
  ConnectCount = 1
  DisconnectDuration = 1
  SkippedFramesThreshold = 1
  SkippedModulus = 4
SPECIFICATION Spec
INVARIANT GuaranteedArrives
