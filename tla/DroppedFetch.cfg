CONSTANTS
  Limit = 2
  MaxTx = 3
  TxKinds <- OneAddressKinds
  SlotSteps <- Steps1
  Faults = {"drop", "ws_end"}
SPECIFICATION Spec
INVARIANT NoEventMissed
CHECK_DEADLOCK FALSE
