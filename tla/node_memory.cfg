SPECIFICATION Spec
CONSTANTS
  TxConns = {t}
  RxConns = {r}
  QueueSize = 2
  FrameSizes = {1}
  MaxFrameSize = 1
  None = NULL
  Settings <- AnyUse
INVARIANT TypeOK
INVARIANT NodesAccounted
INVARIANT SpaceIsFree
INVARIANT RoomForNextFrame
