--------------------------- MODULE TaskProcessor ---------------------------
(***************************************************************************)
(* The task loop of the gateway task processor (SolanaTxPusher::           *)
(* process_internal): a hand-written stream that, each time it is polled,  *)
(* takes at most one task from the Amplifier's channel, starts it as a     *)
(* future, and polls the FuturesOrdered set of running tasks.  Results     *)
(* leave the set in the order the tasks arrived, and the id of each is     *)
(* stored on disk.                                                         *)
(*                                                                         *)
(* A task is its position in the Amplifier's stream; 0 is "no task", the   *)
(* state file's sentinel.  What a task does is MessageExecution's matter:  *)
(* here it is a future that is woken some times and then completes, with   *)
(* a success or an error, which the loop treats alike.                     *)
(***************************************************************************)
EXTENDS Integers, Sequences, FiniteSets, Functions

CONSTANT MaxTask    \* bound: the tasks the Amplifier issues

ASSUME TaskAssumption == MaxTask \in Nat

Tasks  == 1..MaxTask
NoTask == 0

VARIABLES
  \* the Amplifier's side of the channel
  issued,    \* the last task put on the channel since the start
  closed,    \* the sender is gone
  rxq,       \* tasks on the channel
  \* the loop
  pc,        \* where the component stands
  queue,     \* FuturesOrdered: the tasks not yet yielded, in push order
  started,   \* those of them polled at least once
  ready,     \* those that were woken and will complete when polled
  done,      \* those whose output waits for its turn
  rxEnd,     \* the fused receiver has returned None
  yielded,   \* the task whose result the while loop is looking at
  rxWaker,   \* the channel holds the component's waker
  woken,     \* the component is scheduled to be polled again
  \* latest_processed_task_id: the only state that survives a crash
  latest,
  attempted  \* history: tasks that ran to their end, in whatever process

channel == <<issued, closed>>
futures == <<queue, started, ready, done>>
vars == <<issued, closed, rxq, pc, queue, started, ready, done, rxEnd, yielded,
          rxWaker, woken, latest, attempted>>

Up == pc \notin {"down", "ended"}

-----------------------------------------------------------------------------
Init ==
  /\ issued = NoTask /\ closed = FALSE /\ rxq = <<>>
  /\ pc = "down"
  /\ queue = <<>> /\ started = {} /\ ready = {} /\ done = {}
  /\ rxEnd = FALSE /\ yielded = NoTask /\ rxWaker = FALSE /\ woken = FALSE
  /\ latest = NoTask
  /\ attempted = {}

\* A process starts with empty memory.  The Amplifier's client resumes after
\* the stored id.
Start ==
  /\ pc = "down"
  /\ pc' = "poll_rx"
  /\ issued' = latest
  /\ UNCHANGED <<closed, rxq, futures, rxEnd, yielded, rxWaker, woken, latest,
                 attempted>>

WakeReceiver ==
  /\ woken' = (woken \/ rxWaker)
  /\ rxWaker' = FALSE

Deliver ==
  /\ Up /\ ~closed
  /\ issued < MaxTask
  /\ issued' = issued + 1
  /\ rxq' = Append(rxq, issued + 1)
  /\ WakeReceiver
  /\ UNCHANGED <<closed, pc, futures, rxEnd, yielded, latest, attempted>>

Close ==
  /\ Up /\ ~closed
  /\ closed' = TRUE
  /\ WakeReceiver
  /\ UNCHANGED <<issued, rxq, pc, futures, rxEnd, yielded, latest, attempted>>

-----------------------------------------------------------------------------
(* One poll of the stream.                                                 *)

\* Variant: the channel is tried without leaving a waker behind.
PollReceiverTry ==
  /\ pc = "poll_rx"
  /\ \/ /\ rxq # <<>>
        /\ queue' = Append(queue, Head(rxq))
        /\ rxq' = Tail(rxq)
        /\ UNCHANGED rxEnd
     \/ /\ rxq = <<>>
        /\ rxEnd' = closed
        /\ UNCHANGED <<rxq, queue>>
  /\ pc' = "poll_futures"
  /\ UNCHANGED <<channel, started, ready, done, yielded, rxWaker, woken, latest,
                 attempted>>

\* Variant: a new task is pushed and the poll returns at once.
PollReceiverReturns ==
  /\ pc = "poll_rx"
  /\ \/ /\ rxq # <<>>
        /\ queue' = Append(queue, Head(rxq))
        /\ rxq' = Tail(rxq)
        /\ pc' = "idle"
        /\ UNCHANGED <<rxEnd, rxWaker>>
     \/ /\ rxq = <<>>
        /\ rxEnd' = closed
        /\ rxWaker' = ~closed
        /\ pc' = "poll_futures"
        /\ UNCHANGED <<rxq, queue>>
  /\ UNCHANGED <<channel, started, ready, done, yielded, woken, latest, attempted>>

\* rx.poll_next: a task is started without looking for a second one, and only
\* an empty channel keeps the waker.
PollReceiver ==
  /\ pc = "poll_rx"
  /\ \/ /\ rxq # <<>>
        /\ queue' = Append(queue, Head(rxq))
        /\ rxq' = Tail(rxq)
        /\ UNCHANGED <<rxEnd, rxWaker>>
     \/ /\ rxq = <<>> /\ ~closed
        /\ rxWaker' = TRUE
        /\ UNCHANGED <<rxq, queue, rxEnd>>
     \/ /\ rxq = <<>> /\ closed
        /\ rxEnd' = TRUE
        /\ UNCHANGED <<rxq, queue, rxWaker>>
  /\ pc' = "poll_futures"
  /\ UNCHANGED <<channel, started, ready, done, yielded, woken, latest, attempted>>

\* Variant: the yielded task stays among the started ones.
YieldHeadStarted ==
  LET i == Head(queue)
  IN /\ yielded' = i
     /\ queue' = Tail(queue)
     /\ ready' = ready \ {i}
     /\ pc' = "store"
     /\ UNCHANGED started

\* The result of the oldest task leaves the set.
YieldHead ==
  LET i == Head(queue)
  IN /\ yielded' = i
     /\ queue' = Tail(queue)
     /\ started' = started \ {i}
     /\ ready' = ready \ {i}
     /\ pc' = "store"

\* A future that can complete when polled: one that was woken for it, or one
\* never polled that has nothing to wait for.
Completable == (ready \cup (Range(queue) \ started)) \ done

\* An output that already waited is yielded without polling anything.
YieldWaiting ==
  /\ pc = "poll_futures"
  /\ queue # <<>> /\ Head(queue) \in done
  /\ YieldHead
  /\ done' = done \ {Head(queue)}
  /\ UNCHANGED <<channel, rxq, rxEnd, rxWaker, woken, latest, attempted>>

\* Variant: FuturesUnordered, whatever completes first is yielded.
YieldAnyCompleted ==
  /\ pc = "poll_futures"
  /\ queue # <<>> /\ Head(queue) \notin done
  /\ \E i \in Completable :
       /\ attempted' = attempted \cup {i}
       /\ yielded' = i
       /\ queue' = SelectSeq(queue, LAMBDA j : j # i)
       /\ started' = started \ {i}
       /\ ready' = ready \ {i}
  /\ pc' = "store"
  /\ UNCHANGED <<channel, rxq, done, rxEnd, rxWaker, woken, latest>>

\* The running futures are polled until the oldest one completes.
YieldCompleted ==
  /\ pc = "poll_futures"
  /\ queue # <<>> /\ Head(queue) \notin done
  /\ \E some \in SUBSET Completable, polled \in {started, Range(queue)} :
       /\ Head(queue) \in some
       /\ attempted' = attempted \cup some
       /\ done' = (done \cup some) \ {Head(queue)}
       /\ yielded' = Head(queue)
       /\ queue' = Tail(queue)
       /\ started' = (polled \cup some) \ {Head(queue)}
       /\ ready' = ready \ some
  /\ pc' = "store"
  /\ UNCHANGED <<channel, rxq, rxEnd, rxWaker, woken, latest>>

\* All running futures were polled and the oldest is still pending.
PollPending ==
  /\ pc = "poll_futures"
  /\ queue # <<>> /\ Head(queue) \notin done
  /\ \E some \in SUBSET Completable :
       /\ Head(queue) \notin some
       /\ ready \subseteq some
       /\ attempted' = attempted \cup some
       /\ done' = done \cup some
       /\ started' = Range(queue)
  /\ ready' = {}
  /\ pc' = "idle"
  /\ UNCHANGED <<channel, rxq, queue, rxEnd, yielded, rxWaker, woken, latest>>

\* Variant: a closed channel ends the stream whatever still runs.
EndAtClose ==
  /\ pc = "poll_futures"
  /\ queue = <<>> \/ rxEnd
  /\ pc' = IF rxEnd THEN "ended" ELSE "idle"
  /\ UNCHANGED <<channel, rxq, futures, rxEnd, yielded, rxWaker, woken, latest,
                 attempted>>

\* The set is empty: the stream ends if the channel has, and waits otherwise.
PollEmpty ==
  /\ pc = "poll_futures"
  /\ queue = <<>>
  /\ pc' = IF rxEnd THEN "ended" ELSE "idle"
  /\ UNCHANGED <<channel, rxq, futures, rxEnd, yielded, rxWaker, woken, latest,
                 attempted>>

\* The while loop stores the id, whether the task succeeded or not, and asks
\* for the next result.
Store ==
  /\ pc = "store"
  /\ latest' = yielded
  /\ yielded' = NoTask
  /\ pc' = "poll_rx"
  /\ UNCHANGED <<channel, rxq, futures, rxEnd, rxWaker, woken, attempted>>

-----------------------------------------------------------------------------
\* The executor polls a component that was woken.
Poll ==
  /\ pc = "idle" /\ woken
  /\ woken' = FALSE
  /\ pc' = "poll_rx"
  /\ UNCHANGED <<channel, rxq, futures, rxEnd, yielded, rxWaker, latest,
                 attempted>>

Running == started \ (ready \cup done)

\* What a running task waits for arrives: it is its last wait, or another one
\* follows.
FutureReady(i) ==
  /\ Up
  /\ i \in Running
  /\ ready' = ready \cup {i}
  /\ woken' = TRUE
  /\ UNCHANGED <<channel, rxq, pc, queue, started, done, rxEnd, yielded,
                 rxWaker, latest, attempted>>

FutureProgresses(i) ==
  /\ Up
  /\ i \in Running
  /\ woken' = TRUE
  /\ UNCHANGED <<channel, rxq, pc, futures, rxEnd, yielded, rxWaker, latest,
                 attempted>>

\* The process stops, or the store fails: everything but the state file goes.
Crash ==
  /\ pc # "down"
  /\ pc' = "down"
  /\ issued' = NoTask /\ closed' = FALSE /\ rxq' = <<>>
  /\ queue' = <<>> /\ started' = {} /\ ready' = {} /\ done' = {}
  /\ rxEnd' = FALSE /\ yielded' = NoTask /\ rxWaker' = FALSE /\ woken' = FALSE
  /\ UNCHANGED <<latest, attempted>>

-----------------------------------------------------------------------------
Next ==
  \/ Start \/ Deliver \/ Close
  \/ PollReceiver
  \/ YieldWaiting \/ YieldCompleted \/ PollPending \/ PollEmpty
  \/ Store
  \/ Poll
  \/ \E i \in Running : FutureReady(i) \/ FutureProgresses(i)
  \/ Crash

Spec == Init /\ [][Next]_vars

\* The executor polls what was woken, a poll runs to its end, every task
\* finishes, and the Amplifier delivers its tasks while the channel is open.
Fairness ==
  /\ WF_vars(Start) /\ WF_vars(Deliver)
  /\ WF_vars(PollReceiver \/ YieldWaiting \/ YieldCompleted \/ PollPending
               \/ PollEmpty \/ Store)
  /\ WF_vars(Poll)
  /\ \A i \in Tasks : WF_vars(FutureReady(i))

FairSpec == Spec /\ Fairness

-----------------------------------------------------------------------------
(* Properties.                                                             *)

\* The state's types, and what each location of the loop implies for its locals.
TypeOK ==
  /\ issued \in 0..MaxTask /\ latest \in 0..MaxTask
  /\ closed \in BOOLEAN /\ rxEnd \in BOOLEAN
  /\ rxWaker \in BOOLEAN /\ woken \in BOOLEAN
  /\ rxq \in Seq(Tasks) /\ queue \in Seq(Tasks)
  /\ pc \in {"down", "idle", "poll_rx", "poll_futures", "store", "ended"}
  /\ started \subseteq Range(queue) /\ ready \subseteq started
  /\ done \subseteq started /\ ready \cap done = {}
  /\ attempted \subseteq Tasks
  /\ yielded \in 0..MaxTask
  /\ pc = "store" <=> yielded # NoTask

\* The stored id never passes a task that has not run to its end, although
\* tasks complete in any order and the process may stop anywhere.
CheckpointAttempted == \A i \in 1..latest : i \in attempted

\* A component that sleeps will be woken: by the channel, if it took all there
\* was, or by a running task.
NoLostWakeup ==
  pc = "idle" /\ ~woken => \/ rxWaker /\ rxq = <<>>
                           \/ Running # {}

\* When the stream ends, everything that was put on the channel was processed
\* and stored.
DrainedAtEnd == pc = "ended" => rxq = <<>> /\ latest = issued

\* Tasks are acknowledged at least once and in order: OrderedWork.
Work == INSTANCE OrderedWork WITH acknowledged <- latest
ImplementsOrderedWork == Work!Spec

\* If the process and the channel last, every task is eventually processed.
EventuallyProcessed ==
  <>[]Up => \A i \in Tasks : <>(latest >= i)
=============================================================================
