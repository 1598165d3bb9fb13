CONSTANTS
  t1 = t1
  t2 = t2
  msg = msg
  Requests <- RequestsOfOne
  Permits = 1
  MaxAttempts = 1
  Faults = {}
  MaxU64 = 2000000000
  Micro = 1000000
  MaxUnits = 1400000
  PriceUnits = 150
  BaseFee = 5000
  Slots = 10
  Tasks <- OneTask
  Units <- RealUnits
  FeeSamples <- OneSample
  MessageOf <- MessageOfOne
  Stages <- FiveStages
  StageUnits <- UnitsOfFive
  Gas <- GasOfOne
  MaxRestarts = 0
  MoreGas = 2000000
SPECIFICATION Spec
INVARIANT RecomputedAgrees
CHECK_DEADLOCK FALSE
