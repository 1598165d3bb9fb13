------------------------------ MODULE TxSender ------------------------------
(***************************************************************************)
(* EffectiveTxSender: a task's transaction is simulated under the highest  *)
(* limit, while the price of a compute unit is read; then it is signed     *)
(* once, with that price and a limit made from what the simulation used,   *)
(* and sent.  All requests go through HttpSender, whose retries may send   *)
(* the signed transaction again.                                           *)
(***************************************************************************)
EXTENDS HttpSender, ComputeFees

CONSTANT
  Units        \* what a simulation may report to have used: 0 without a report

ASSUME SenderAssumption ==
  /\ Tasks \X {"price", "hash", "simulate", "send"} \subseteq Requests
  /\ Units \subseteq 0..SimulationUnits

VARIABLES
  sender,   \* where the sender of each task stands
  ixs,      \* its deque of instructions
  price,    \* the price read, if any
  used,     \* the units the simulation used, if it has ended
  landed    \* the transactions on chain, also those that fail there; of the
            \* present life of the process, whose blockhashes they carry

senderVars == <<sender, ixs, price, used, landed>>

Call == [name |-> "call", n |-> 0]
LimitIx(n) == [name |-> "limit", n |-> n]
PriceIx(n) == [name |-> "price", n |-> n]

SenderRequests(t) == {t} \X {"price", "hash", "simulate", "send"}

SenderInit ==
  /\ sender = [t \in Tasks |-> "idle"]
  /\ ixs = [t \in Tasks |-> <<Call>>]
  /\ price = [t \in Tasks |-> {}]
  /\ used = [t \in Tasks |-> {}]
  /\ landed = {}

\* The process starts again: some tasks are run again, with nothing left.
SenderRestarts(again) ==
  /\ sender' = [t \in Tasks |-> IF t \in again THEN "idle" ELSE sender[t]]
  /\ ixs' = [t \in Tasks |-> <<Call>>]
  /\ price' = [t \in Tasks |-> {}]
  /\ used' = [t \in Tasks |-> {}]
  /\ landed' = {}

-----------------------------------------------------------------------------
(* evaluate_compute_ixs.                                                   *)

Evaluate(t) ==
  /\ sender[t] = "idle"
  /\ sender' = [sender EXCEPT ![t] = "evaluate"]
  /\ ixs' = [ixs EXCEPT ![t] = <<LimitIx(SimulationUnits)>> \o @]
  /\ AskedBoth(<<t, "price">>, <<t, "hash">>)
  /\ UNCHANGED <<price, used, landed>>

ReadPrice(t) ==
  /\ sender[t] = "evaluate"
  /\ Read(<<t, "price">>)
  /\ \E fees \in FeeSamples :
       price' = [price EXCEPT ![t] = {AveragePrice(fees)}]
  /\ UNCHANGED <<sender, ixs, used, landed>>

\* compute_budget: the blockhash, then the simulation.
ReadHash(t) ==
  /\ sender[t] = "evaluate"
  /\ AskedAfter(<<t, "hash">>, <<t, "simulate">>)
  /\ UNCHANGED senderVars

ReadSimulation(t) ==
  /\ sender[t] = "evaluate"
  /\ Read(<<t, "simulate">>)
  /\ \E units \in Units : used' = [used EXCEPT ![t] = {units}]
  /\ UNCHANGED <<sender, ixs, price, landed>>

FailSender(t) ==
  /\ sender' = [sender EXCEPT ![t] = "failed"]
  /\ Dropped(SenderRequests(t))
  /\ UNCHANGED <<ixs, price, used, landed>>

\* The simulation's result is an error.
SimulationFails(t) ==
  /\ "refuse" \in Faults
  /\ sender[t] = "evaluate" /\ req[<<t, "simulate">>] = "ok"
  /\ FailSender(t)

\* try_join: the first error drops the other branch wherever it is.
EvaluationFails(t) ==
  /\ sender[t] = "evaluate"
  /\ \E r \in SenderRequests(t) : req[r] = "failed"
  /\ FailSender(t)

\* Both are there: the price goes to the front, the limit replaces the one of
\* the simulation behind it; send_tx signs and sends.
Join(t) ==
  /\ sender[t] = "evaluate" /\ price[t] # {} /\ used[t] # {}
  /\ sender' = [sender EXCEPT ![t] = "send"]
  /\ \E p \in price[t], units \in used[t] :
       ixs' = [ixs EXCEPT ![t] =
                 [(<<PriceIx(p)>> \o @) EXCEPT ![2] = LimitIx(Budget(units))]]
  /\ Asked(<<t, "send">>)
  /\ UNCHANGED <<price, used, landed>>

-----------------------------------------------------------------------------
(* send_tx.                                                                *)

\* Variant: every attempt signs anew.
SignedEachAttempt(t) ==
  [task |-> t, ixs |-> ixs[t], signature |-> attempts[<<t, "send">>]]

\* The transaction is signed before the attempts: they all send the same one.
Signed(t) == [task |-> t, ixs |-> ixs[t], signature |-> 1]

\* From the first attempt on the transaction may land, whatever the sender has
\* been told; the chain takes a signature once.
Land(t) ==
  /\ attempts[<<t, "send">>] > 0
  /\ Signed(t) \notin landed
  /\ landed' = landed \cup {Signed(t)}
  /\ UNCHANGED <<sender, ixs, price, used, http>>

\* A send is confirmed once the transaction has landed.  The client's polls of
\* its status are part of the request and of its permit.
NodeAnswers(r) ==
  /\ r[2] = "send" => Signed(r[1]) \in landed
  /\ Answer(r)
  /\ UNCHANGED senderVars

ReadConfirmation(t) ==
  /\ sender[t] = "send"
  /\ Read(<<t, "send">>)
  /\ sender' = [sender EXCEPT ![t] = "sent"]
  /\ UNCHANGED <<ixs, price, used, landed>>

SendFails(t) ==
  /\ sender[t] = "send" /\ req[<<t, "send">>] = "failed"
  /\ FailSender(t)

Sends(t) == ReadPrice(t) \/ ReadHash(t) \/ ReadSimulation(t)
              \/ SimulationFails(t) \/ EvaluationFails(t) \/ Join(t)
              \/ ReadConfirmation(t) \/ SendFails(t)

-----------------------------------------------------------------------------
(* Properties.                                                             *)

SenderTypeOK ==
  /\ sender \in [Tasks -> {"idle", "evaluate", "send", "sent", "failed"}]
  /\ \A t \in Tasks :
       /\ used[t] \subseteq Units
       /\ price[t] \subseteq {AveragePrice(fees) : fees \in FeeSamples}
       /\ sender[t] \in {"idle", "sent", "failed"} =>
            \A r \in SenderRequests(t) : req[r] = "idle"

\* However often the answers are lost and the send repeated, a task's
\* transaction lands once.
LandsOnce ==
  \A x, y \in landed : x.task = y.task => x = y

Limits(sent) == {sent.ixs[k].n : k \in {j \in DOMAIN sent.ixs :
                                          sent.ixs[j].name = "limit"}}

\* What lands carries the call and, however the join placed it, one limit that
\* the chain allows: no less than the simulation reported, the cap included,
\* with room for the price instruction, which the simulation did not have,
\* exactly if it reported at least ten times as much.
LimitCoversPrice ==
  \A x \in landed :
    /\ \E limit \in 0..MaxUnits :
         /\ Limits(x) = {limit}
         /\ \A units \in used[x.task] :
              /\ limit >= units
              /\ limit >= units + PriceUnits <=> units >= 10 * PriceUnits
    /\ x.ixs[Len(x.ixs)] = Call
=============================================================================
