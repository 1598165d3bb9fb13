CONSTANTS
  Limit = 2
  MaxTx = 4
  TxKinds <- OkKinds
  SlotSteps <- Steps1
  Faults = {"crash", "ws_end"}
SPECIFICATION FairSpec
INVARIANT NoEventMissed
PROPERTIES ImplementsEventFeed EventuallySent
CHECK_DEADLOCK FALSE
