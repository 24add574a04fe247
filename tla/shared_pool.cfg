SPECIFICATION Spec
CONSTANTS
  TxConns = {}
  RxConns = {r, s}
  QueueSize = 2
  FrameSizes = {1}
  MaxFrameSize = 1
  None = NULL
  Settings <- SequentialOnly
INVARIANT AllocatesFreeSpace
