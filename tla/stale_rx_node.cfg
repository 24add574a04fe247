SPECIFICATION Spec
CONSTANTS
  TxConns = {t}
  RxConns = {r}
  QueueSize = 2
  FrameSizes = {1}
  MaxFrameSize = 1
  None = NULL
  Settings <- NoAckFrames
INVARIANT FreesNodeInReception
