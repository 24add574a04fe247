SPECIFICATION FairSpec
CONSTANTS
  Settings <- MCSettings
  ProducerSize = 1
  WirelessSize = 2
  Sizes = {1, 2, 3}
  ConsumerCapacity = 2
  SizeModulus = 9
INVARIANTS TypeOK NodesAccounted NodesSuffice SamplesCounted HeardInOrder
PROPERTY StreamGoesOn
CHECK_DEADLOCK FALSE
