-------------------------- MODULE MessageExecution --------------------------
(***************************************************************************)
(* The execute tasks of the gateway task processor (process_task,          *)
(* execute_task, message_payload::upload, send_to_destination_program) for *)
(* one message.  The Amplifier may issue several execute tasks for it, and *)
(* with the fault `early' before its approval has landed; the loop runs    *)
(* them concurrently, and a crash makes it run unacknowledged ones again.  *)
(* All of them share the message's two accounts: the incoming message, and *)
(* the payload account that a task initializes, fills chunk by chunk,      *)
(* commits, uses and closes.                                               *)
(*                                                                         *)
(* Every transaction is first simulated (evaluate_compute_ixs), then sent, *)
(* then confirmed, and other tasks may act between these steps.            *)
(***************************************************************************)
EXTENDS Integers, FiniteSets

CONSTANTS
  TaskCount,  \* the execute tasks the Amplifier issues for the message
  Chunks,     \* the chunks of its payload
  Proceed,    \* the gateway errors on which should_relayer_proceed() holds
  Faults      \* the events of the environment this instance permits

FaultKinds == {"early", "rpc", "timeout", "revert", "reject", "gas", "lookup",
               "channel", "crash", "crash_in_flight"}
Attempts   == 1..TaskCount
Steps      == {"init", "commit", "execute"}
Txs        == Steps \cup Chunks

ASSUME ExecutionAssumption ==
  /\ TaskCount \in Nat
  /\ Chunks \cap Steps = {}
  /\ Proceed \subseteq {"initialized", "committed"}
  /\ Faults \subseteq FaultKinds

VARIABLES
  \* on chain
  incoming,   \* the status of the incoming message account
  payload,    \* the message payload account
  written,    \* the chunks written to it
  uploaded,   \* the payload account has a successful transaction in its history
  late,       \* transactions whose sender gave up, still on their way
  \* per task
  pc,         \* where execute_task stands
  tx,         \* the transactions of the current stage
  err,        \* the kind of error execute_task returned, or process_task ended with
  report,     \* the event put on the Amplifier's command channel
  open        \* the channel's receiver, the Amplifier component, still runs

chain == <<incoming, payload, written, uploaded>>
vars == <<incoming, payload, written, uploaded, late, pc, tx, err, report,
          open>>

Unsent   == [t \in Txs |-> "unsent"]
NoReport == [kind |-> "none", executed |-> FALSE]

\* The transactions a location waits for; the chunks go out concurrently.
Stage(at) == CASE at = "init"    -> {"init"}
               [] at = "write"   -> Chunks
               [] at = "commit"  -> {"commit"}
               [] at = "execute" -> {"execute"}
               [] OTHER          -> {}

Following == [init |-> "write", write |-> "commit", commit |-> "execute",
              execute |-> "ok"]

Init ==
  /\ incoming \in {"approved"} \cup IF "early" \in Faults THEN {"absent"} ELSE {}
  /\ payload = "absent" /\ written = {}
  /\ uploaded = FALSE
  /\ late = {}
  /\ pc = [a \in Attempts |-> "new"]
  /\ tx = [a \in Attempts |-> Unsent]
  /\ err = [a \in Attempts |-> "none"]
  /\ report = [a \in Attempts |-> NoReport]
  /\ open = TRUE

-----------------------------------------------------------------------------
(* The gateway's account rules.                                            *)

Valid(t) ==
  CASE t = "init"    -> payload = "absent"
    [] t = "execute" -> /\ incoming = "approved"
                        /\ payload = "committed" /\ written = Chunks
    [] OTHER         -> payload = "open"

\* The gateway's error for an invalid upload transaction.
RefusalOf(t) == CASE t = "init"              -> "initialized"
                  [] payload = "committed"   -> "committed"
                  [] OTHER                   -> "missing"

\* Execution and closing are one transaction.
Apply(t) ==
  /\ uploaded' = TRUE
  /\ payload' = CASE t = "init" -> "open"
                  [] t = "commit" -> "committed"
                  [] t = "execute" -> "absent"
                  [] OTHER -> payload
  /\ written' = IF t \in {"init", "execute"} THEN {}
                ELSE written \cup ({t} \cap Chunks)
  /\ incoming' = IF t = "execute" THEN "executed" ELSE incoming

\* The gateway transaction that approves the message, on whose account the
\* execute tasks depend, lands.
Approve ==
  /\ incoming = "absent"
  /\ incoming' = "approved"
  /\ UNCHANGED <<payload, written, uploaded, late, pc, tx, err, report, open>>

-----------------------------------------------------------------------------
(* execute_task.                                                           *)

\* Variant: a task keeps the transactions of the stage it leaves.
MoveOnly(a, at) ==
  /\ pc' = [pc EXCEPT ![a] = at]
  /\ UNCHANGED tx

Move(a, at) ==
  /\ pc' = [pc EXCEPT ![a] = at]
  /\ tx' = [tx EXCEPT ![a] = Unsent]

\* An error propagates with `?'.  The task's other transactions are dropped
\* with the set of futures, but what was sent may still land.
Fail(a, kind) ==
  /\ Move(a, "failed")
  /\ err' = [err EXCEPT ![a] = kind]
  /\ late' = late \cup {t \in Txs : tx[a][t] = "sent"}
  /\ UNCHANGED <<report, open>>

\* incoming_message_already_executed, read before everything else: without an
\* account there is no status, which is an error like any other.
CheckStatus(a) ==
  /\ pc[a] = "new"
  /\ \/ incoming = "absent" /\ Fail(a, "other")
     \/ /\ incoming # "absent"
        /\ Move(a, IF incoming = "executed" THEN "ok" ELSE "gas")
        /\ UNCHANGED <<late, err, report, open>>
     \/ "rpc" \in Faults /\ Fail(a, "other")
  /\ UNCHANGED chain

\* verify_destination and ensure_enough_gas.
EnsureGas(a) ==
  /\ pc[a] = "gas"
  /\ \/ /\ Move(a, "init")
        /\ UNCHANGED <<late, err, report, open>>
     \/ "gas" \in Faults /\ Fail(a, "gas")
     \/ {"rpc", "reject"} \cap Faults # {} /\ Fail(a, "other")
  /\ UNCHANGED chain

Mark(a, t, status) ==
  /\ tx' = [tx EXCEPT ![a][t] = status]
  /\ UNCHANGED <<pc, late, err, report, open>>

\* Variant: no simulation error is acceptable.
SimulateStrict(a, t) ==
  /\ t \in Stage(pc[a]) /\ tx[a][t] = "unsent"
  /\ \/ Valid(t) /\ Mark(a, t, "sent")
     \/ ~Valid(t) /\ Fail(a, "other")
  /\ UNCHANGED chain

\* evaluate_compute_ixs.  A refused upload transaction counts as done if the
\* gateway's error is one the relayer proceeds on; any other failed simulation
\* is an error, and so is an instruction that cannot be built.
Simulate(a, t) ==
  /\ t \in Stage(pc[a]) /\ tx[a][t] = "unsent"
  /\ \/ Valid(t) /\ Mark(a, t, "sent")
     \/ ~Valid(t) /\ t # "execute" /\ RefusalOf(t) \in Proceed /\ Mark(a, t, "ok")
     \/ ~Valid(t) /\ (t = "execute" \/ RefusalOf(t) \notin Proceed)
                  /\ Fail(a, "other")
     \/ "rpc" \in Faults /\ Fail(a, "other")
     \/ {"revert", "reject"} \cap Faults # {} /\ t = "execute" /\ Fail(a, "other")
  /\ UNCHANGED chain

\* Variant: the status of the execute call is not propagated.
LandUnchecked(a, t) ==
  /\ tx[a][t] = "sent"
  /\ \/ Valid(t) /\ Apply(t) /\ Mark(a, t, "landed")
     \/ ~Valid(t) /\ Mark(a, t, "landed") /\ UNCHANGED chain
     \/ /\ "revert" \in Faults /\ t = "execute"
        /\ Mark(a, t, "landed") /\ UNCHANGED chain

\* The transaction lands, on a chain that may have changed since.
Land(a, t) ==
  /\ tx[a][t] = "sent"
  /\ \/ Valid(t) /\ Apply(t) /\ Mark(a, t, "landed")
     \/ ~Valid(t) /\ Fail(a, "tx") /\ UNCHANGED chain
     \/ "revert" \in Faults /\ t = "execute" /\ Fail(a, "tx") /\ UNCHANGED chain

Confirm(a, t) ==
  /\ tx[a][t] = "landed"
  /\ Mark(a, t, "ok")
  /\ UNCHANGED chain

\* Variant: the first successful write ends the loop over the writes.
AdvanceEarly(a) ==
  /\ pc[a] \in DOMAIN Following
  /\ \E t \in Stage(pc[a]) : tx[a][t] = "ok"
  /\ Move(a, Following[pc[a]])
  /\ UNCHANGED <<chain, late, err, report, open>>

\* All transactions of the stage have succeeded.
Advance(a) ==
  /\ pc[a] \in DOMAIN Following
  /\ \A t \in Stage(pc[a]) : tx[a][t] = "ok"
  /\ Move(a, Following[pc[a]])
  /\ UNCHANGED <<chain, late, err, report, open>>

\* The RPC node answers with an error, or not in time, whatever became of the
\* transaction; one that was sent again may be refused as already processed.
GiveUp(a, t) ==
  /\ "timeout" \in Faults
  /\ tx[a][t] \in {"sent", "landed"}
  /\ \E kind \in {"other", "tx"} : Fail(a, kind)
  /\ UNCHANGED chain

LandLate(t) ==
  /\ t \in late
  /\ Valid(t) /\ Apply(t)
  /\ late' = late \ {t}
  /\ UNCHANGED <<pc, tx, err, report, open>>

Expire(t) ==
  /\ t \in late
  /\ late' = late \ {t}
  /\ UNCHANGED <<chain, pc, tx, err, report, open>>

-----------------------------------------------------------------------------
(* process_task: the event an error is reported with.                      *)

\* The Amplifier component ends; its channel then takes no more commands.
CloseChannel ==
  /\ "channel" \in Faults
  /\ open /\ open' = FALSE
  /\ UNCHANGED <<chain, late, pc, tx, err, report>>

\* process_task ends with another error before it has published anything.
Unreported(a, kind) ==
  /\ err' = [err EXCEPT ![a] = kind]
  /\ UNCHANGED report

\* The event is sent; a closed channel's error ends the task by `?'.
Publish(a, kind) ==
  \/ /\ open
     /\ report' = [report EXCEPT ![a] = [kind |-> kind,
                                         executed |-> incoming = "executed"]]
     /\ UNCHANGED err
  \/ ~open /\ Unreported(a, "channel")

End(a) ==
  /\ Move(a, "ended")
  /\ UNCHANGED <<chain, late, open>>

\* A failed transaction is looked up first; if that fails no event is sent.
ReportReverted(a) ==
  /\ pc[a] = "failed" /\ err[a] = "tx"
  /\ \/ Publish(a, "reverted")
     \/ "lookup" \in Faults /\ Unreported(a, "lookup")
  /\ End(a)

ReportInsufficientGas(a) ==
  /\ pc[a] = "failed" /\ err[a] = "gas"
  /\ Publish(a, "insufficient_gas")
  /\ End(a)

\* Variant: an error without a fee to claim is only logged.
ReportFeeOnly(a) ==
  /\ pc[a] = "failed" /\ err[a] = "other"
  /\ \/ uploaded /\ Publish(a, "reverted_fee")
     \/ ~uploaded /\ UNCHANGED <<err, report>>
  /\ End(a)

\* Any other error: the costs of the upload are claimed with a "reverted" event,
\* and without such costs, or without an answer, the message "cannot execute".
ReportOther(a) ==
  /\ pc[a] = "failed" /\ err[a] = "other"
  /\ \/ uploaded /\ Publish(a, "reverted_fee")
     \/ ~uploaded /\ Publish(a, "cannot_execute")
     \/ "lookup" \in Faults /\ Publish(a, "cannot_execute")
  /\ End(a)

Report(a) == ReportReverted(a) \/ ReportInsufficientGas(a) \/ ReportOther(a)

Stopped(a) == pc[a] \in {"ok", "ended"}

\* The process dies.  The tasks up to the stored one, all of which had stopped,
\* are not delivered again; the others start from the beginning.
Crash ==
  /\ "crash" \in Faults
  /\ "crash_in_flight" \in Faults
       \/ \A a \in Attempts, t \in Txs : tx[a][t] # "sent"
  /\ \E stored \in 0..TaskCount :
       /\ \A a \in 1..stored : Stopped(a)
       /\ LET again == {a \in Attempts : a > stored}
          IN /\ again # {}
             /\ late' = late \cup {t \in Txs : \E a \in again : tx[a][t] = "sent"}
             /\ pc' = [a \in Attempts |-> IF a \in again THEN "new" ELSE pc[a]]
             /\ tx' = [a \in Attempts |-> IF a \in again THEN Unsent ELSE tx[a]]
             /\ err' = [a \in Attempts |-> IF a \in again THEN "none" ELSE err[a]]
             /\ report' = [a \in Attempts |->
                             IF a \in again THEN NoReport ELSE report[a]]
  /\ open' = TRUE
  /\ UNCHANGED chain

-----------------------------------------------------------------------------
TaskStep(a) ==
  \/ CheckStatus(a) \/ EnsureGas(a) \/ Advance(a) \/ Report(a)
  \/ \E t \in Txs : Simulate(a, t) \/ Land(a, t) \/ Confirm(a, t) \/ GiveUp(a, t)

Next ==
  \/ \E a \in Attempts : TaskStep(a)
  \/ \E t \in late : LandLate(t) \/ Expire(t)
  \/ Approve
  \/ CloseChannel
  \/ Crash

Spec == Init /\ [][Next]_vars

\* The loop polls every task, and every transaction sent lands or fails.
Fairness == \A a \in Attempts : WF_vars(TaskStep(a))

FairSpec == Spec /\ Fairness

-----------------------------------------------------------------------------
(* Properties.                                                             *)

\* The state's types; transactions exist only in the stage they belong to.
TypeOK ==
  /\ incoming \in {"absent", "approved", "executed"}
  /\ payload \in {"absent", "open", "committed"}
  /\ written \subseteq Chunks
  /\ uploaded \in BOOLEAN
  /\ late \subseteq Txs
  /\ pc \in [Attempts -> {"new", "gas", "init", "write", "commit", "execute",
                          "failed", "ok", "ended"}]
  /\ tx \in [Attempts -> [Txs -> {"unsent", "sent", "landed", "ok"}]]
  /\ err \in [Attempts -> {"none", "tx", "gas", "other", "lookup", "channel"}]
  /\ open \in BOOLEAN
  /\ report \in [Attempts ->
                   [kind : {"none", "reverted", "reverted_fee",
                            "insufficient_gas", "cannot_execute"},
                    executed : BOOLEAN]]
  /\ \A a \in Attempts, t \in Txs :
       t \notin Stage(pc[a]) => tx[a][t] = "unsent"

\* However tasks, crashes and late transactions interleave, a payload that is
\* committed for a message still to be executed is whole.
CommittedIsComplete ==
  payload = "committed" /\ incoming # "executed" => written = Chunks

\* A task ends without an error only if the message is executed.
SuccessMeansExecuted ==
  \A a \in Attempts : pc[a] = "ok" => incoming = "executed"

\* Under every fault a failed task is reported, unless it failed on chain and
\* its transaction could not be looked up, or the Amplifier's channel was closed
\* when its event was to be sent.
FailureReported ==
  \A a \in Attempts :
    pc[a] = "ended" /\ report[a].kind = "none" => err[a] \in {"lookup", "channel"}

\* Concurrent and repeated tasks never keep each other from executing the
\* message: once crashes stop, it is executed, unless a transaction sent before
\* a crash lands after it.
EventuallyExecuted ==
  <>[][~Crash]_vars => <>(incoming = "executed")
=============================================================================
