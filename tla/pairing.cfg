SPECIFICATION FairSpec
CONSTANTS
  coord = coord
  d1 = d1
  d2 = d2
  None = None
  Coord = coord
  Devices <- MCDevices
  Role <- MCRole
  Generated <- MCGenerated
  MaxAddress = 4
  ListSize = 3
  MaxStarts <- MCMaxStarts
  Settings <- MCSettings
INVARIANTS
  TypeOK
  CoordinatorSuccess
  UniqueAddresses
  NodeNeverAlone
  InvalidMeansDifferent
PROPERTIES
  PairingCompletes
CHECK_DEADLOCK FALSE
