SPECIFICATION Spec
CONSTANTS
  Settings <- ReliableAndLossy
  Sizes = {1, 8, 10}
  PayloadSize = 8
  TxQueueSize = 3
  RxQueueSize = 4
  MaxTransactionId = 2
  CountModulus = 8
INVARIANTS TypeOK CountComplete AllRead SuccessNotEarly
PROPERTY ReadsWhole
CHECK_DEADLOCK FALSE
