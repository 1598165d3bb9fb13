----------------------------- MODULE HttpSender -----------------------------
(***************************************************************************)
(* The retrying HTTP sender every request to the Solana node goes through: *)
(* a semaphore bounds the requests that are sent at a time, a request that *)
(* failed for a reason that may pass is repeated after a pause, for a      *)
(* bounded time.  An attempt holds a permit, a pause does not.  Whoever    *)
(* asked may drop the request at any moment.                               *)
(*                                                                         *)
(* tokio's semaphore hands its permits out in the order they were asked    *)
(* for.  The 60 seconds of the back-off are a choice after each attempt,   *)
(* bounded by MaxAttempts.                                                 *)
(***************************************************************************)
EXTENDS Integers, Sequences, FiniteSets

CONSTANTS
  Tasks,         \* the tasks that use it
  Requests,      \* the requests they may have under way
  Permits,       \* max_concurrent_rpc_requests
  MaxAttempts,   \* bounds the attempts that fit into the back-off's time
  Faults         \* the events of the environment this instance permits

FaultKinds == {"net", "refuse", "node"}

ASSUME HttpAssumption ==
  /\ IsFiniteSet(Requests)
  /\ Permits \in Nat
  /\ MaxAttempts \in Nat \ {0}
  /\ Faults \subseteq FaultKinds

VARIABLES
  req,        \* the state of each request
  attempts,   \* the attempts it has made, until its answer is read
  waiting,    \* those that wait for a permit, in the order they asked
  permits     \* the permits that are left

http == <<req, attempts, waiting, permits>>

\* What is left of a queue without some requests, in its order.
Without(queue, rs) ==
  LET left[n \in 0..Len(queue)] ==
        IF n = 0 THEN <<>>
        ELSE IF queue[n] \in rs THEN left[n - 1] ELSE Append(left[n - 1], queue[n])
  IN left[Len(queue)]

HttpInit ==
  /\ req = [r \in Requests |-> "idle"]
  /\ attempts = [r \in Requests |-> 0]
  /\ waiting = <<>>
  /\ permits = Permits

\* The process starts again: its requests are gone, the semaphore is new.
HttpRestarts ==
  /\ req' = [r \in Requests |-> "idle"]
  /\ attempts' = [r \in Requests |-> 0]
  /\ waiting' = <<>>
  /\ permits' = Permits

-----------------------------------------------------------------------------
(* A user's calls.                                                         *)

Asked(r) ==
  /\ req[r] = "idle"
  /\ req' = [req EXCEPT ![r] = "waiting"]
  /\ attempts' = [attempts EXCEPT ![r] = 0]
  /\ waiting' = Append(waiting, r)
  /\ UNCHANGED permits

\* Two requests at once, polled in this order.
AskedBoth(r, s) ==
  /\ req[r] = "idle" /\ req[s] = "idle"
  /\ req' = [req EXCEPT ![r] = "waiting", ![s] = "waiting"]
  /\ attempts' = [attempts EXCEPT ![r] = 0, ![s] = 0]
  /\ waiting' = waiting \o <<r, s>>
  /\ UNCHANGED permits

\* The answer to one is read and the next is asked.
AskedAfter(r, s) ==
  /\ req[r] = "ok" /\ req[s] = "idle"
  /\ req' = [req EXCEPT ![r] = "idle", ![s] = "waiting"]
  /\ attempts' = [attempts EXCEPT ![r] = 0, ![s] = 0]
  /\ waiting' = Append(waiting, s)
  /\ UNCHANGED permits

Read(r) ==
  /\ req[r] = "ok"
  /\ req' = [req EXCEPT ![r] = "idle"]
  /\ attempts' = [attempts EXCEPT ![r] = 0]
  /\ UNCHANGED <<waiting, permits>>

Sending(rs) == {r \in rs : req[r] = "sending"}

\* Variant: a dropped request keeps its permit.
DroppedKeepingPermit(rs) ==
  /\ req' = [r \in Requests |-> IF r \in rs THEN "idle" ELSE req[r]]
  /\ waiting' = Without(waiting, rs)
  /\ UNCHANGED <<attempts, permits>>

\* The futures of some requests are dropped, wherever they are: a permit is
\* given back, a place in the queue is left.
Dropped(rs) ==
  /\ req' = [r \in Requests |-> IF r \in rs THEN "idle" ELSE req[r]]
  /\ waiting' = Without(waiting, rs)
  /\ permits' = permits + Cardinality(Sending(rs))
  /\ UNCHANGED attempts

-----------------------------------------------------------------------------
(* send_internal and the retries around it.                                *)

Acquire ==
  /\ waiting # <<>> /\ permits > 0
  /\ permits' = permits - 1
  /\ waiting' = Tail(waiting)
  /\ req' = [req EXCEPT ![Head(waiting)] = "sending"]
  /\ attempts' = [attempts EXCEPT ![Head(waiting)] = @ + 1]

EndsAttempt(r, state) ==
  /\ req[r] = "sending"
  /\ req' = [req EXCEPT ![r] = state]
  /\ permits' = permits + 1
  /\ UNCHANGED <<attempts, waiting>>

Answer(r) == EndsAttempt(r, "ok")

\* SigningError, TransactionError, Custom, Middleware.
FailPermanently(r) == "refuse" \in Faults /\ EndsAttempt(r, "failed")

\* Variant: the permit is kept over the pause.
FailTransientlyKeeping(r) ==
  /\ {"net", "refuse"} \cap Faults # {}
  /\ \/ /\ req[r] = "sending" /\ attempts[r] < MaxAttempts
        /\ req' = [req EXCEPT ![r] = "backoff"]
        /\ UNCHANGED <<attempts, waiting, permits>>
     \/ EndsAttempt(r, "failed")

\* Io, Reqwest, SerdeJson, RpcError: another attempt, unless the time is up.
FailTransiently(r) ==
  /\ {"net", "refuse"} \cap Faults # {}
  /\ \/ attempts[r] < MaxAttempts /\ EndsAttempt(r, "backoff")
     \/ EndsAttempt(r, "failed")

\* Variant: an attempt after a pause takes no permit.
RetryAtOnce(r) ==
  /\ req[r] = "backoff"
  /\ req' = [req EXCEPT ![r] = "sending"]
  /\ attempts' = [attempts EXCEPT ![r] = @ + 1]
  /\ UNCHANGED <<waiting, permits>>

Retry(r) ==
  /\ req[r] = "backoff"
  /\ req' = [req EXCEPT ![r] = "waiting"]
  /\ waiting' = Append(waiting, r)
  /\ UNCHANGED <<attempts, permits>>

AttemptEnds(r) == Answer(r) \/ FailPermanently(r) \/ FailTransiently(r)

-----------------------------------------------------------------------------
(* Properties.                                                             *)

HttpTypeOK ==
  /\ req \in [Requests -> {"idle", "waiting", "sending", "backoff", "ok",
                           "failed"}]
  /\ attempts \in [Requests -> 0..MaxAttempts]
  /\ waiting \in Seq(Requests)
  /\ permits \in 0..Permits

\* Whatever is answered, retried or dropped halfway, every permit is either
\* left or held by a request that is being sent, and never more requests are
\* sent than there are permits.
PermitsConserved == permits + Cardinality(Sending(Requests)) = Permits

\* The queue holds the requests that wait, each once.
QueueIsExact ==
  /\ {waiting[k] : k \in DOMAIN waiting} = {r \in Requests : req[r] = "waiting"}
  /\ \A j, k \in DOMAIN waiting : waiting[j] = waiting[k] => j = k
=============================================================================
