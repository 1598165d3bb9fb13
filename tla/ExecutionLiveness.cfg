CONSTANTS
  TaskCount = 2
  Chunks = {"c1", "c2"}
  Proceed = {"initialized", "committed"}
  Faults = {"crash"}
SPECIFICATION FairSpec
PROPERTY EventuallyExecuted
CHECK_DEADLOCK FALSE
