CONSTANTS
  Limit = 2
  MaxTx = 3
  TxKinds <- AllKinds
  SlotSteps <- Steps01
  Faults <- FaultKinds
SPECIFICATION Spec
INVARIANTS TypeOK ScanLeavesNoHole ConnectionLossless
