----------------------------- MODULE OrderedWork -----------------------------
(* A numbered stream of tasks worked off at least once: a task may be          *)
(* attempted any number of times until it is acknowledged, and tasks are       *)
(* acknowledged one by one, in order, each after an attempt of it.             *)
EXTENDS Integers

CONSTANT Tasks      \* the tasks, a set of consecutive positions from 1
VARIABLES attempted, acknowledged

Init == attempted = {} /\ acknowledged = 0

Attempt(some) ==
  /\ \A i \in some : i > acknowledged
  /\ attempted' = attempted \cup some
  /\ UNCHANGED acknowledged

Acknowledge ==
  /\ acknowledged + 1 \in attempted
  /\ acknowledged' = acknowledged + 1
  /\ UNCHANGED attempted

Next == Acknowledge \/ \E some \in SUBSET Tasks : Attempt(some)

Spec == Init /\ [][Next]_<<attempted, acknowledged>>
=============================================================================
