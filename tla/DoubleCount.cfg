CONSTANTS
  Histories <- UploadOnly
  PageSize = 2
  MaxU64 = 100
  Faults = {}
  Writers = {"listener"}
  MaxStored = 0
  MaxRestarts = 0
SPECIFICATION RelayerSpec
INVARIANT EachTransactionOnce
CHECK_DEADLOCK FALSE
