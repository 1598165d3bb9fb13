CONSTANTS
  Histories <- Chains
  PageSize = 1
  MaxU64 = 60
  Faults = {"rpc", "crash"}
  Writers = {"listener", "processor"}
  MaxStored = 1
  MaxRestarts = 1
SPECIFICATION FairRelayerSpec
INVARIANTS RelayerTypeOK AckedSurvives NothingSkipped StoredIsAccountedFor ClaimsWithinTotal CompleteEventsPublished PriceCoversHistory SessionSharesCovered
PROPERTIES ImplementsReplayedFeed EventuallyPublished
CHECK_DEADLOCK FALSE
