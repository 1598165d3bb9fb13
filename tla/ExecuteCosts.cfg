CONSTANTS
  t1 = t1
  t2 = t2
  msg = msg
  Requests <- RequestsOfTwo
  Permits = 2
  MaxAttempts = 2
  Faults = {"net", "refuse", "node"}
  MaxU64 = 2000
  Micro = 10
  MaxUnits = 22
  PriceUnits = 1
  BaseFee = 5
  Slots = 2
  Tasks <- TwoTasks
  Units <- Simulated
  FeeSamples <- Samples
  MessageOf <- OneMessage
  Stages <- ThreeStages
  StageUnits <- UnitsOfThree
  Gas <- GasOfTwo
  MaxRestarts = 1
  MoreGas = 14
SPECIFICATION FairSpec
INVARIANTS TypeOK PermitsConserved LandsOnce LimitCoversPrice CacheIsWhole BreakdownKept RefusedOnlyIfSpoiled EnoughCoversQuoted
PROPERTY EveryTaskEnds
CHECK_DEADLOCK FALSE
