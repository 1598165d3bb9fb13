---------------------------- MODULE GasEstimator ----------------------------
(***************************************************************************)
(* The gas estimator (RealGasEstimator::ensure_enough_gas): the first      *)
(* estimate for a message executes its upload, execution and closing on a  *)
(* simulation node that forks the chain, and adds up what the node         *)
(* charged.  If the gas does not suffice, what each stage used is cached,  *)
(* and the next estimate only prices it anew.  The cache is shared by the  *)
(* concurrent tasks; an entry is taken out to be used.                     *)
(*                                                                         *)
(* The mutex is held for one look-up or one insertion, never across an     *)
(* await, so that each is one step here.                                   *)
(***************************************************************************)
EXTENDS HttpSender, ComputeFees

CONSTANTS
  MessageOf,   \* the message of each
  Stages,      \* what an upload and execution consists of, in order
  StageUnits,  \* the compute units each stage uses
  Gas,         \* the gas that comes with each task
  MoreGas      \* what it is topped up to

Messages == {MessageOf[t] : t \in Tasks}

ASSUME EstimatorAssumption ==
  /\ Tasks \X {"fee"} \subseteq Requests
  /\ MessageOf \in [Tasks -> Messages]
  /\ Stages \in Seq({"init", "write", "commit", "execute", "close"})
  /\ Stages # <<>>
  /\ \A k \in DOMAIN Stages : Stages[k] = "close" <=> k = Len(Stages)
  /\ \A j, k \in DOMAIN Stages :
       Stages[j] = "execute" /\ Stages[k] = "execute" => j = k
  /\ StageUnits \in Seq(Nat) /\ Len(StageUnits) = Len(Stages)
  /\ Gas \in [Tasks -> 0..MaxU64 - 1] /\ MoreGas \in 0..MaxU64 - 1

VARIABLES
  est,         \* where ensure_enough_gas stands for each task
  stage,       \* the stage it is at
  fee,         \* the price read for the stage
  cost,        \* the total so far
  breakdown,   \* what each stage has used
  available,   \* the task's gas
  cache,       \* per message, the cached breakdown, if any
  simulated,   \* per message, how many stages its payload account has gone
               \* through on the simulation node
  executed,    \* the messages executed there
  first,       \* history: what the simulation of a message charged in all
  spoiled,     \* history: messages with an estimate that ended otherwise than
               \* for want of gas, with two under way at once, or whose cached
               \* breakdown a restart lost
  quoted       \* history: the prices an estimate has read, stage by stage

taskVars == <<est, stage, fee, cost, breakdown, available, quoted>>
estimatorVars == <<taskVars, cache, simulated, executed, first, spoiled>>

Fee(t) == <<t, "fee">>
Last == Len(Stages)

EstimatorInit ==
  /\ est = [t \in Tasks |-> "idle"]
  /\ stage = [t \in Tasks |-> 1]
  /\ fee = [t \in Tasks |-> 0] /\ cost = [t \in Tasks |-> 0]
  /\ breakdown = [t \in Tasks |-> <<>>]
  /\ available = Gas
  /\ cache = [m \in Messages |-> {}]
  /\ simulated = [m \in Messages |-> 0] /\ executed = {}
  /\ first = [m \in Messages |-> {}] /\ spoiled = {}
  /\ quoted = [t \in Tasks |-> <<>>]

-----------------------------------------------------------------------------
(* The cache.                                                              *)

Estimating(t) == est[t] \in {"simulate", "run", "recompute"}

Overlaps(t) ==
  \E u \in Tasks \ {t} : MessageOf[u] = MessageOf[t] /\ Estimating(u)

Starts(t, how, parts) ==
  /\ est[t] = "idle"
  /\ est' = [est EXCEPT ![t] = how]
  /\ breakdown' = [breakdown EXCEPT ![t] = parts]
  /\ spoiled' = IF Overlaps(t) THEN spoiled \cup {MessageOf[t]} ELSE spoiled
  /\ quoted' = [quoted EXCEPT ![t] = <<>>]
  /\ UNCHANGED <<stage, fee, cost, available, simulated, executed, first, http>>

\* ensure_enough_gas returns; its locals end.
Returns(t, how) ==
  /\ est' = [est EXCEPT ![t] = how]
  /\ stage' = [stage EXCEPT ![t] = 1]
  /\ fee' = [fee EXCEPT ![t] = 0]
  /\ cost' = [cost EXCEPT ![t] = 0]
  /\ breakdown' = [breakdown EXCEPT ![t] = <<>>]
  /\ quoted' = IF how = "enough" THEN quoted ELSE [quoted EXCEPT ![t] = <<>>]

\* The process starts again: the cache is memory, the simulation node is another
\* process and keeps what it has executed.
EstimatorRestarts(again) ==
  /\ est' = [t \in Tasks |-> IF t \in again THEN "idle" ELSE est[t]]
  /\ stage' = [t \in Tasks |-> 1]
  /\ fee' = [t \in Tasks |-> 0] /\ cost' = [t \in Tasks |-> 0]
  /\ breakdown' = [t \in Tasks |-> <<>>]
  /\ quoted' = [t \in Tasks |-> IF t \in again THEN <<>> ELSE quoted[t]]
  /\ cache' = [m \in Messages |-> {}]
  /\ spoiled' = spoiled \cup {m \in Messages : cache[m] # {}}
                        \cup {MessageOf[t] : t \in {u \in Tasks : Estimating(u)}}
  /\ UNCHANGED <<available, simulated, executed, first>>

\* The entry is removed under the lock.
StartCached(t) ==
  \E parts \in cache[MessageOf[t]] :
    /\ cache' = [cache EXCEPT ![MessageOf[t]] = {}]
    /\ Starts(t, "recompute", parts)

\* Variant: the cache is not looked up.
StartWithoutCache(t) == Starts(t, "simulate", <<>>) /\ UNCHANGED cache

StartFresh(t) ==
  /\ cache[MessageOf[t]] = {}
  /\ Starts(t, "simulate", <<>>)
  /\ UNCHANGED cache

-----------------------------------------------------------------------------
(* Stage by stage, with the price of the accounts it touches.              *)

AskFee(t) ==
  /\ est[t] \in {"simulate", "recompute"} /\ stage[t] <= Last
  /\ Asked(Fee(t))
  /\ UNCHANGED estimatorVars

\* calculate_cost.
Recompute(t) ==
  /\ est[t] = "recompute"
  /\ Read(Fee(t))
  /\ \E fees \in FeeSamples :
       /\ cost' = [cost EXCEPT ![t] =
                     Plus(@, StageFee(breakdown[t][stage[t]], AveragePrice(fees)))]
       /\ quoted' = [quoted EXCEPT ![t] = Append(@, AveragePrice(fees))]
  /\ stage' = [stage EXCEPT ![t] = @ + 1]
  /\ UNCHANGED <<est, fee, breakdown, available, cache, simulated, executed,
                 first, spoiled>>

\* execute_and_get_cost: the price is the real chain's, the transaction goes to
\* the simulation node.
PriceStage(t) ==
  /\ est[t] = "simulate"
  /\ Read(Fee(t))
  /\ \E fees \in FeeSamples :
       /\ fee' = [fee EXCEPT ![t] = AveragePrice(fees)]
       /\ quoted' = [quoted EXCEPT ![t] = Append(@, AveragePrice(fees))]
  /\ est' = [est EXCEPT ![t] = "run"]
  /\ UNCHANGED <<stage, cost, breakdown, available, cache, simulated, executed,
                 first, spoiled>>

\* The account rules of the simulation node: the stages in their order, and a
\* message is executed once.
Accepts(m, k) ==
  /\ simulated[m] = k - 1
  /\ Stages[k] = "execute" => m \notin executed

RunStage(t) ==
  LET m == MessageOf[t]
      k == stage[t]
  IN /\ est[t] = "run" /\ Accepts(m, k)
     /\ simulated' = [simulated EXCEPT ![m] = IF Stages[k] = "close" THEN 0 ELSE k]
     /\ executed' = IF Stages[k] = "execute" THEN executed \cup {m} ELSE executed
     /\ breakdown' = [breakdown EXCEPT ![t] = Append(@, StageUnits[k])]
     /\ cost' = [cost EXCEPT ![t] = Plus(@, ChargedFee(MaxUnits, fee[t]))]
     /\ stage' = [stage EXCEPT ![t] = @ + 1]
     /\ est' = [est EXCEPT ![t] = "simulate"]
     /\ fee' = [fee EXCEPT ![t] = 0]
     /\ UNCHANGED <<available, cache, first, spoiled, quoted, http>>

\* Variant: what the estimate has found out so far is cached.
FailsCachingPart(t, how) ==
  /\ Returns(t, how)
  /\ cache' = [cache EXCEPT ![MessageOf[t]] = {breakdown[t]}]
  /\ UNCHANGED <<available, simulated, executed, first>>

Fails(t, how) ==
  /\ Returns(t, how)
  /\ UNCHANGED <<available, cache, simulated, executed, first>>

\* The node refuses the stage: `?'.
StageRefused(t) ==
  /\ est[t] = "run" /\ ~Accepts(MessageOf[t], stage[t])
  /\ Fails(t, "refused")
  /\ spoiled' = spoiled
  /\ UNCHANGED http

\* A request fails, to either node; one to the simulation node before a stage,
\* instead of it, or once it has run.  The entry that was taken out is gone.
EstimateFails(t) ==
  /\ \/ est[t] \in {"simulate", "recompute"} /\ req[Fee(t)] = "failed"
     \/ est[t] = "simulate" /\ req[Fee(t)] = "idle" /\ "node" \in Faults
     \/ est[t] = "run" /\ "node" \in Faults
  /\ Fails(t, "failed")
  /\ spoiled' = spoiled \cup {MessageOf[t]}
  /\ Dropped({Fee(t)})

-----------------------------------------------------------------------------
(* The comparison.                                                         *)

Sufficient(t) == cost[t] <= available[t]

Decides(t, entry) ==
  LET m == MessageOf[t]
  IN /\ Returns(t, IF Sufficient(t) THEN "enough" ELSE "insufficient")
     /\ cache' = IF entry = {} THEN cache ELSE [cache EXCEPT ![m] = entry]
     /\ first' = IF est[t] = "simulate" THEN [first EXCEPT ![m] = {cost[t]}] ELSE first
     /\ spoiled' = IF Sufficient(t) THEN spoiled \cup {m} ELSE spoiled
     /\ UNCHANGED <<available, simulated, executed, http>>

\* Variant: only a fresh breakdown is cached.
DecideCachingFresh(t) ==
  /\ est[t] \in {"simulate", "recompute"} /\ stage[t] = Last + 1
  /\ Decides(t, IF Sufficient(t) \/ est[t] = "recompute" THEN {} ELSE {breakdown[t]})

\* The breakdown is cached when the gas does not suffice.
Decide(t) ==
  /\ est[t] \in {"simulate", "recompute"} /\ stage[t] = Last + 1
  /\ Decides(t, IF Sufficient(t) THEN {} ELSE {breakdown[t]})

\* The Amplifier issues the task again, with more gas.
TopUp(t) ==
  /\ est[t] = "insufficient" /\ available[t] < MoreGas
  /\ available' = [available EXCEPT ![t] = MoreGas]
  /\ est' = [est EXCEPT ![t] = "idle"]
  /\ UNCHANGED <<stage, fee, cost, breakdown, quoted, cache, simulated, executed,
                 first, spoiled, http>>

Estimates(t) ==
  \/ StartCached(t) \/ StartFresh(t) \/ AskFee(t) \/ Recompute(t)
  \/ PriceStage(t) \/ RunStage(t) \/ StageRefused(t) \/ EstimateFails(t)
  \/ Decide(t)

-----------------------------------------------------------------------------
(* Properties.                                                             *)

EstimatorTypeOK ==
  /\ est \in [Tasks -> {"idle", "simulate", "run", "recompute", "enough",
                        "insufficient", "refused", "failed"}]
  /\ stage \in [Tasks -> 1..Last + 1]
  /\ \A t \in Tasks : fee[t] \in {0} \cup {AveragePrice(fees) : fees \in FeeSamples}
  /\ executed \subseteq Messages /\ spoiled \subseteq Messages
  /\ \A m \in Messages : simulated[m] \in 0..Last
  /\ \A t \in Tasks : est[t] \notin {"simulate", "recompute"} => req[Fee(t)] = "idle"

\* A cached breakdown is that of a whole execution, never of a part.
CacheIsWhole == \A m \in Messages : \A parts \in cache[m] : parts = StageUnits

\* As long as estimates of a message only end for want of gas, one at a time and
\* in one life of the process, what the simulation has found out is not lost: it
\* is in the cache, or with the task that prices it anew.
BreakdownKept ==
  \A m \in Messages \ spoiled :
    first[m] # {} =>
      \/ cache[m] # {}
      \/ \E t \in Tasks : MessageOf[t] = m /\ est[t] = "recompute"

\* The simulation node refuses a message only after another estimate of it was
\* accepted, failed halfway or was under way at the same time, or after a restart
\* that cut one short or lost its breakdown.
RefusedOnlyIfSpoiled ==
  \A t \in Tasks : est[t] = "refused" => MessageOf[t] \in spoiled

\* Whether simulated or priced from the cache, in micro-lamports or lamports, an
\* estimate is accepted only if the gas covers what its stages would be charged,
\* each under the limit it is sent with and at the price the estimate read for
\* it.  (The sender reads the price again: at a higher one nothing is promised.)
EnoughCoversQuoted ==
  \A t \in Tasks : est[t] = "enough" =>
    /\ Len(quoted[t]) = Last
    /\ SumFunctionOnSet([k \in 1..Last |->
                           ChargedFee(Budget(StageUnits[k]), quoted[t][k])], 1..Last)
         <= available[t]

\* Pricing the same execution again, at the same price, yields no more than
\* what the simulation node charged for it.
RecomputedAgrees ==
  \A t \in Tasks :
    est[t] = "recompute" /\ stage[t] = Last + 1 =>
      \A charged \in first[MessageOf[t]] : cost[t] <= charged
=============================================================================
