CONSTANTS
  Mixes <- TaskMixes
  TaskCount = 2
  Proceed = {"session_open", "slot_verified", "item_exists"}
  MaxDeliveries = 2
  Faults = {"rpc", "timeout", "reject", "build", "crash", "crash_in_flight"}
SPECIFICATION FairSpec
INVARIANTS TypeOK SuccessMeansDone RefundOncePerDelivery
PROPERTY EventuallyDone
CHECK_DEADLOCK FALSE
