SPECIFICATION FairSpec
CONSTANTS
  QueueSize = 10
  Settings <- MCSettings
  CallbackSize = 2
  RequestSize = 2
  RxSize = 1
  MaxCalls = 3
INVARIANTS
  TypeOK
  NoPhyError
  StateQueueSound
  TransfersAlone
  StartedMeansRunning
  EventsReach
PROPERTIES
  PayloadInPlace
  FramesForReader
  FramesGoOn
  ReadAnswered
CHECK_DEADLOCK FALSE
