---------------------------- MODULE GatewayTasks ----------------------------
(***************************************************************************)
(* Gateway transaction and refund tasks (gateway_tx_task, refund_task).    *)
(* A gateway transaction opens the verification session of its payload,    *)
(* has every signature verified in it, all at once, and when the last is   *)
(* in approves the payload's messages, all at once, or rotates the         *)
(* verifier set.  A refund is one transaction.  Neither reports an error   *)
(* to the Amplifier: it is logged, and the task counts as processed.       *)
(*                                                                         *)
(* Tasks run concurrently and are run again after a crash; sessions and    *)
(* messages on chain are shared.  A transaction is simulated, sent and     *)
(* confirmed, and others may act between these steps.                      *)
(***************************************************************************)
EXTENDS Integers, FiniteSets

CONSTANTS
  TaskCount,      \* the tasks the Amplifier issues
  Mixes,          \* what the tasks may be: [kind, root, signers, quorum, items]
  Proceed,        \* the gateway errors on which should_relayer_proceed() holds
  MaxDeliveries,  \* bound: how often a task is delivered
  Faults          \* the events of the environment this instance permits

FaultKinds == {"rpc", "timeout", "reject", "build", "crash", "crash_in_flight"}
Attempts   == 1..TaskCount
Kinds      == {"messages", "rotation", "refund"}
Items      == UNION {mix[a].items : mix \in Mixes, a \in Attempts}
Signers    == UNION {mix[a].signers : mix \in Mixes, a \in Attempts}
Roots      == {mix[a].root : mix \in Mixes, a \in Attempts}
Txs        == {"init", "refund"} \cup Signers \cup Items

ASSUME GatewayAssumption ==
  /\ TaskCount \in Nat
  /\ \A mix \in Mixes : DOMAIN mix = Attempts
  /\ \A mix \in Mixes, a \in Attempts : mix[a].kind \in Kinds
  /\ {"init", "refund"} \cap (Signers \cup Items) = {}
  /\ Signers \cap Items = {}
  /\ Proceed \subseteq {"session_open", "slot_verified", "item_exists"}
  /\ MaxDeliveries \in Nat \ {0}
  /\ Faults \subseteq FaultKinds

VARIABLES
  work,       \* the tasks, chosen at the start
  \* on chain
  sessions,   \* the payloads whose verification session is open
  verified,   \* per payload, the signers verified in its session
  done,       \* approved messages and installed verifier sets
  paid,       \* per refund task, the refunds paid
  late,       \* <<task, delivery, transaction>> on its way without a sender
  \* per task
  pc,         \* where the task stands
  tx,         \* the transactions of its current stage
  skipped,    \* those never sent because the instruction could not be built
  delivery,   \* history: how often it was delivered
  faulted     \* history: the environment interfered other than by a clean crash

chain == <<sessions, verified, done, paid>>
vars == <<work, sessions, verified, done, paid, late, pc, tx, skipped, delivery, faulted>>

Unsent == [t \in Txs |-> "unsent"]

\* The transactions a location waits for.
Stage(a, at) == CASE at = "init"   -> {"init"}
                  [] at = "verify" -> work[a].signers
                  [] at = "items"  -> work[a].items
                  [] at = "refund" -> {"refund"}
                  [] OTHER         -> {}

Following == [init |-> "verify", verify |-> "items", items |-> "ok",
              refund |-> "ok"]

Init ==
  /\ work \in Mixes
  /\ sessions = {} /\ verified = [r \in Roots |-> {}]
  /\ done = {} /\ paid = [a \in Attempts |-> 0]
  /\ late = {}
  /\ pc = [a \in Attempts |-> "new"]
  /\ tx = [a \in Attempts |-> Unsent]
  /\ skipped = [a \in Attempts |-> {}]
  /\ delivery = [a \in Attempts |-> 1]
  /\ faulted = FALSE

-----------------------------------------------------------------------------
(* The gateway's and the gas service's account rules.                      *)

Valid(a, t) ==
  LET r == work[a].root
  IN CASE t = "init"    -> r \notin sessions
       [] t \in Signers -> r \in sessions /\ t \notin verified[r]
       [] t \in Items   -> Cardinality(verified[r]) >= work[a].quorum /\ t \notin done
       [] OTHER         -> TRUE

RefusalOf(a, t) ==
  LET r == work[a].root
  IN CASE t = "init"                            -> "session_open"
       [] t \in Signers /\ t \in verified[r]    -> "slot_verified"
       [] t \in Items /\ t \in done             -> "item_exists"
       [] OTHER                                 -> "refused"

Apply(a, t) ==
  LET r == work[a].root
  IN /\ sessions' = IF t = "init" THEN sessions \cup {r} ELSE sessions
     /\ verified' = IF t \in Signers
                      THEN [verified EXCEPT ![r] = @ \cup {t}] ELSE verified
     /\ done' = done \cup ({t} \cap Items)
     /\ paid' = IF t = "refund" THEN [paid EXCEPT ![a] = @ + 1] ELSE paid

-----------------------------------------------------------------------------
Move(a, at) ==
  /\ pc' = [pc EXCEPT ![a] = at]
  /\ tx' = [tx EXCEPT ![a] = Unsent]

Mark(a, t, status) ==
  /\ tx' = [tx EXCEPT ![a][t] = status]
  /\ UNCHANGED <<pc, late, skipped, delivery>>

InFlight(a) == {t \in Txs : tx[a][t] = "sent"}

\* Variant: the set of futures is polled on after the error was returned.
FailPollingOn(a, adrift) ==
  /\ pc' = [pc EXCEPT ![a] = "failed"]
  /\ late' = late \cup {<<a, delivery[a], t>> : t \in adrift}
  /\ UNCHANGED <<tx, skipped, delivery>>

\* An error propagates with `?' and the task's other transactions are dropped
\* with the set of futures; what was sent may still land.
FailWith(a, adrift) ==
  /\ Move(a, "failed")
  /\ late' = late \cup {<<a, delivery[a], t>> : t \in adrift}
  /\ UNCHANGED <<skipped, delivery>>

Fail(a) == FailWith(a, InFlight(a))

\* The execute data is decoded, or the refund's recipient, token and amount.
Begin(a) ==
  /\ pc[a] = "new"
  /\ \/ /\ Move(a, IF work[a].kind = "refund" THEN "refund" ELSE "init")
        /\ UNCHANGED <<late, skipped, delivery, faulted>>
     \/ "reject" \in Faults /\ Fail(a) /\ faulted' = TRUE
  /\ UNCHANGED chain

\* Signatures and approvals whose instruction cannot be built are filtered out.
Skip(a, t) ==
  /\ "build" \in Faults
  /\ t \in Stage(a, pc[a]) /\ tx[a][t] = "unsent"
  /\ pc[a] = "items" => work[a].kind = "messages"
  /\ t \in Signers \cup Items
  /\ tx' = [tx EXCEPT ![a][t] = "ok"]
  /\ skipped' = [skipped EXCEPT ![a] = @ \cup {t}]
  /\ faulted' = TRUE
  /\ UNCHANGED <<chain, late, pc, delivery>>

\* Variant: no simulation error is acceptable.
SimulateStrict(a, t) ==
  /\ t \in Stage(a, pc[a]) /\ tx[a][t] = "unsent"
  /\ \/ Valid(a, t) /\ Mark(a, t, "sent")
     \/ ~Valid(a, t) /\ Fail(a)
  /\ UNCHANGED <<chain, faulted>>

\* send_gateway_tx: a simulation the gateway refuses with an error the relayer
\* proceeds on counts as done; any other error stops the task.
Simulate(a, t) ==
  /\ t \in Stage(a, pc[a]) /\ tx[a][t] = "unsent"
  /\ \/ Valid(a, t) /\ Mark(a, t, "sent") /\ UNCHANGED faulted
     \/ ~Valid(a, t) /\ RefusalOf(a, t) \in Proceed /\ Mark(a, t, "ok")
          /\ UNCHANGED faulted
     \/ ~Valid(a, t) /\ RefusalOf(a, t) \notin Proceed /\ Fail(a)
          /\ UNCHANGED faulted
     \/ {"rpc", "reject"} \cap Faults # {} /\ Fail(a) /\ faulted' = TRUE
  /\ UNCHANGED chain

\* The transaction lands on a chain that may have changed since.  Then even an
\* error the relayer would proceed on stops the task: it is not a simulation's.
Land(a, t) ==
  /\ tx[a][t] = "sent"
  /\ \/ Valid(a, t) /\ Apply(a, t) /\ Mark(a, t, "ok")
     \/ ~Valid(a, t) /\ Fail(a) /\ UNCHANGED chain
  /\ UNCHANGED faulted

\* Variant: the first confirmed transaction ends the loop over the set.
AdvanceEarly(a) ==
  /\ pc[a] \in DOMAIN Following
  /\ \E t \in Stage(a, pc[a]) : tx[a][t] = "ok"
  /\ Move(a, Following[pc[a]])
  /\ UNCHANGED <<chain, late, skipped, delivery, faulted>>

Advance(a) ==
  /\ pc[a] \in DOMAIN Following
  /\ \A t \in Stage(a, pc[a]) : tx[a][t] = "ok"
  /\ Move(a, Following[pc[a]])
  /\ UNCHANGED <<chain, late, skipped, delivery, faulted>>

\* Variant: a transaction without an answer is sent again.
GiveUpRetrying(a, t) ==
  /\ "timeout" \in Faults
  /\ tx[a][t] = "sent"
  /\ \/ UNCHANGED chain
     \/ Valid(a, t) /\ Apply(a, t)
  /\ Mark(a, t, "unsent")
  /\ faulted' = TRUE

\* The RPC node answers with a transport error, or not in time: the transaction
\* is still on its way, or it landed and only the answer is lost.
GiveUp(a, t) ==
  /\ "timeout" \in Faults
  /\ tx[a][t] = "sent"
  /\ \/ Fail(a) /\ UNCHANGED chain
     \/ FailWith(a, InFlight(a) \ {t}) /\ Valid(a, t) /\ Apply(a, t)
  /\ faulted' = TRUE

LandLate(a, t) ==
  /\ Valid(a, t) /\ Apply(a, t)
  /\ UNCHANGED <<pc, tx, skipped, delivery, faulted>>

\* What is on its way without a sender lands, or never does.
Settle(l) ==
  /\ l \in late
  /\ late' = late \ {l}
  /\ \/ LandLate(l[1], l[3])
     \/ UNCHANGED <<chain, pc, tx, skipped, delivery, faulted>>

Stopped(a) == pc[a] \in {"ok", "failed"}

\* The process dies; tasks after the stored one are delivered again.
Crash ==
  /\ "crash" \in Faults
  /\ (\E a \in Attempts : InFlight(a) # {}) => "crash_in_flight" \in Faults
  /\ \E stored \in 0..TaskCount :
       /\ \A a \in 1..stored : Stopped(a)
       /\ LET again == {a \in Attempts : a > stored}
          IN /\ again # {}
             /\ \A a \in again : delivery[a] < MaxDeliveries
             /\ late' = late \cup UNION {{<<a, delivery[a], t>> : t \in InFlight(a)} :
                                           a \in again}
             /\ pc' = [a \in Attempts |-> IF a \in again THEN "new" ELSE pc[a]]
             /\ tx' = [a \in Attempts |-> IF a \in again THEN Unsent ELSE tx[a]]
             /\ skipped' = [a \in Attempts |->
                              IF a \in again THEN {} ELSE skipped[a]]
             /\ delivery' = [a \in Attempts |->
                               delivery[a] + (IF a \in again THEN 1 ELSE 0)]
  /\ faulted' = (faulted \/ \E a \in Attempts : InFlight(a) # {})
  /\ UNCHANGED chain

-----------------------------------------------------------------------------
TaskStep(a) ==
  \/ Begin(a) \/ Advance(a)
  \/ \E t \in Txs : Skip(a, t) \/ Simulate(a, t) \/ Land(a, t) \/ GiveUp(a, t)

Next ==
  /\ \/ \E a \in Attempts : TaskStep(a)
     \/ \E l \in late : Settle(l)
     \/ Crash
  /\ UNCHANGED work

Spec == Init /\ [][Next]_vars

\* The loop polls every task, and every transaction sent lands or fails.
Fairness == \A a \in Attempts : WF_vars(TaskStep(a) /\ UNCHANGED work)

FairSpec == Spec /\ Fairness

-----------------------------------------------------------------------------
(* Properties.                                                             *)

\* The state's types; transactions exist only in the stage they belong to.
TypeOK ==
  /\ work \in Mixes
  /\ sessions \subseteq Roots
  /\ verified \in [Roots -> SUBSET Signers]
  /\ done \subseteq Items
  /\ paid \in [Attempts -> Nat]
  /\ late \subseteq Attempts \X (1..MaxDeliveries) \X Txs
  /\ pc \in [Attempts -> {"new", "init", "verify", "items", "refund", "ok",
                          "failed"}]
  /\ tx \in [Attempts -> [Txs -> {"unsent", "sent", "ok"}]]
  /\ skipped \in [Attempts -> SUBSET Txs]
  /\ delivery \in [Attempts -> 1..MaxDeliveries]
  /\ faulted \in BOOLEAN
  /\ \A a \in Attempts, t \in Txs :
       t \notin Stage(a, pc[a]) => tx[a][t] = "unsent"

\* However tasks interleave, repeat and overlap, one that ends without an error
\* has all of its messages approved, or its verifier set installed, or its
\* refund paid, except for approvals it could not even build.
SuccessMeansDone ==
  \A a \in Attempts : pc[a] = "ok" =>
    IF work[a].kind = "refund" THEN paid[a] > 0
    ELSE work[a].items \subseteq done \cup skipped[a]

\* A refund is paid at most once each time its task is delivered, whether or
\* not the node answers.
RefundOncePerDelivery == \A a \in Attempts : paid[a] <= delivery[a]

\* Holders of an item that share no session with another task and contest
\* no other item can only lose a race to one that completes it.
Guaranteed(i) ==
  /\ \E a \in Attempts : i \in work[a].items
  /\ \A a, b \in Attempts : a # b /\ i \in work[a].items =>
       /\ work[a].root # work[b].root
       /\ work[a].items \cap work[b].items \subseteq {i}

Served ==
  /\ \A i \in Items : Guaranteed(i) => i \in done
  /\ \A a \in Attempts : work[a].kind = "refund" => paid[a] > 0

\* Crashes between transactions and concurrent batches never keep a message
\* that several batches contain from being approved, or a refund from being paid.
EventuallyDone == <>[][~Crash]_vars /\ []~faulted => <>Served
=============================================================================
