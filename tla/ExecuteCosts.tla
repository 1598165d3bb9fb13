---------------------------- MODULE ExecuteCosts ----------------------------
(***************************************************************************)
(* The requests of concurrent execute tasks: each ensures that its gas     *)
(* suffices and then evaluates and sends a transaction.  The estimator and *)
(* the transaction sender share one HTTP sender and its permits.           *)
(***************************************************************************)
EXTENDS TxSender, GasEstimator

CONSTANT
  MaxRestarts   \* bounds the restarts of the process

ASSUME RestartAssumption == MaxRestarts \in Nat

VARIABLE
  restarts      \* how often the process has been started again

vars == <<http, senderVars, estimatorVars, restarts>>

Init == HttpInit /\ SenderInit /\ EstimatorInit /\ restarts = 0

Ended(t) == est[t] \in {"insufficient", "refused", "failed"}
              \/ sender[t] \in {"sent", "failed"}

-----------------------------------------------------------------------------
HttpStep ==
  \/ /\ \/ Acquire
        \/ \E r \in Requests : FailPermanently(r) \/ FailTransiently(r) \/ Retry(r)
     /\ UNCHANGED senderVars
  \/ \E r \in Requests : NodeAnswers(r)

Ensure(t) == Estimates(t) /\ UNCHANGED senderVars

ToppedUp(t) == TopUp(t) /\ UNCHANGED senderVars

\* The upload begins once the gas suffices.
Begin(t) == est[t] = "enough" /\ Evaluate(t) /\ UNCHANGED estimatorVars

Send(t) == (Sends(t) \/ Land(t)) /\ UNCHANGED estimatorVars

TaskStep(t) == Ensure(t) \/ Begin(t) \/ Send(t)

\* The process dies and starts again.  A task that has ended may have been stored
\* as processed; every other one is delivered again.
Restart ==
  /\ restarts < MaxRestarts
  /\ restarts' = restarts + 1
  /\ \E again \in SUBSET Tasks :
       /\ \A t \in Tasks \ again : Ended(t)
       /\ HttpRestarts /\ SenderRestarts(again) /\ EstimatorRestarts(again)

Next ==
  \/ HttpStep /\ UNCHANGED <<estimatorVars, restarts>>
  \/ \E t \in Tasks : (TaskStep(t) \/ ToppedUp(t)) /\ UNCHANGED restarts
  \/ Restart

Spec == Init /\ [][Next]_vars

\* Tasks are polled, permits are handed out, an attempt ends and a pause too,
\* and a transaction that was sent lands.
Fairness ==
  /\ \A t \in Tasks : WF_vars(TaskStep(t) /\ UNCHANGED restarts)
  /\ WF_vars(Acquire /\ UNCHANGED <<senderVars, estimatorVars, restarts>>)
  /\ \A r \in Requests : WF_vars((\/ NodeAnswers(r)
                                  \/ (FailTransiently(r) \/ Retry(r))
                                       /\ UNCHANGED senderVars)
                                   /\ UNCHANGED <<estimatorVars, restarts>>)

FairSpec == Spec /\ Fairness

-----------------------------------------------------------------------------
\* The state's types.
TypeOK == HttpTypeOK /\ SenderTypeOK /\ EstimatorTypeOK

\* With fewer permits than requests, answers that are lost and restarts that end,
\* every task ends: no request waits for a permit for ever.
EveryTaskEnds == \A t \in Tasks : []<>Ended(t)
=============================================================================
