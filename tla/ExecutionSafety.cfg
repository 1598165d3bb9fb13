CONSTANTS
  TaskCount = 2
  Chunks = {"c1", "c2"}
  Proceed = {"initialized"}
  Faults = {"early", "rpc", "timeout", "revert", "reject", "gas", "lookup", "channel", "crash", "crash_in_flight"}
SPECIFICATION Spec
INVARIANTS TypeOK CommittedIsComplete SuccessMeansExecuted FailureReported
CHECK_DEADLOCK FALSE
