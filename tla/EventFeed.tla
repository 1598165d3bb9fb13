----------------------------- MODULE EventFeed ------------------------------
(***************************************************************************)
(* What the listener promises its consumer: every event of the chain stays *)
(* outstanding until it is delivered, at least once.  There is no third    *)
(* way: an event is never dropped.                                         *)
(***************************************************************************)
CONSTANT Events   \* the events the chain may produce
VARIABLE status   \* per event: "unseen", "outstanding" or "delivered"

Init == status = [e \in Events |-> "unseen"]

Happen(e) ==
  /\ status[e] = "unseen"
  /\ status' = [status EXCEPT ![e] = "outstanding"]

Deliver(e) ==
  /\ status[e] = "outstanding"
  /\ status' = [status EXCEPT ![e] = "delivered"]

Next == \E e \in Events : Happen(e) \/ Deliver(e)

Spec == Init /\ [][Next]_status
=============================================================================
