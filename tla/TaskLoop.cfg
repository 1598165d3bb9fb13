CONSTANT MaxTask = 3
SPECIFICATION FairSpec
INVARIANTS TypeOK CheckpointAttempted NoLostWakeup DrainedAtEnd
PROPERTIES ImplementsOrderedWork EventuallyProcessed
