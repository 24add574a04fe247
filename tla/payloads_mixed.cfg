SPECIFICATION Spec
CONSTANTS
  Settings <- LossyPrompt
  Sizes = {1, 8, 10}
  PayloadSize = 8
  TxQueueSize = 3
  RxQueueSize = 4
  MaxTransactionId = 2
  CountModulus = 8
INVARIANT NeverMixed
CHECK_DEADLOCK FALSE
