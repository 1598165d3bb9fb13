CONSTANTS
  Limit = 1
  MaxTx = 3
  TxKinds <- OneAddressKinds
  SlotSteps <- Steps1
  Faults = {}
SPECIFICATION Spec
INVARIANT ScanReturnsNewest
CHECK_DEADLOCK FALSE
