---------------------------- MODULE ComputeFees -----------------------------
(***************************************************************************)
(* Compute units and their price: what the relayer asks for when it sends  *)
(* a transaction (effective-tx-sender), what it expects one to cost        *)
(* (execution_cost_estimation), and what the chain charges.  A price is in *)
(* micro-lamports for a compute unit.                                      *)
(***************************************************************************)
EXTENDS Amounts, Sequences

CONSTANTS
  Micro,       \* micro-lamports in a lamport: 10^6
  MaxUnits,    \* the compute units a transaction may use: 1 400 000
  PriceUnits,  \* what the price instruction itself uses: 150
  BaseFee,     \* lamports for a transaction: 5 000
  Slots,       \* the slots a price is averaged over: 10
  FeeSamples   \* recent prioritization fees a node may answer

ASSUME FeeAssumption ==
  /\ Micro \in Nat \ {0, 1} /\ MaxUnits \in Nat /\ PriceUnits \in Nat
  /\ BaseFee \in Nat /\ Slots \in Nat
  /\ FeeSamples \subseteq Seq(0..MaxU64) /\ FeeSamples # {}
  /\ MaxUnits <= MaxU64 /\ PriceUnits <= MaxUnits

\* compute_unit_price and calculate_compute_unit_price: the average of the
\* last slots' prioritization fees.
AveragePrice(fees) ==
  LET oldest == IF Len(fees) > Slots THEN Len(fees) - Slots + 1 ELSE 1
      recent == SubSeq(fees, oldest, Len(fees))
  IN IF recent = <<>> THEN 0 ELSE Sum(recent, DOMAIN recent) \div Len(recent)

\* MAX_COMPUTE_BUDGET: the limit a transaction is simulated under, without the
\* price instruction it will be sent with.
SimulationUnits == MaxUnits - PriceUnits

\* Variant: the limit is what the simulation used.
BudgetExact(units) == AtMost(units, MaxUnits)

\* compute_budget: a tenth more than the simulation used.
Budget(units) == AtMost(Plus(units, units \div 10), MaxUnits)

\* Variant: the micro-lamports are converted, rounding down.
StageFeeInLamports(units, price) == Plus(BaseFee, Times(units, price) \div Micro)

\* calculate_stage_fee.
StageFee(units, price) == Plus(BaseFee, Times(units, price))

\* What the chain charges for a transaction with that limit and price.
ChargedFee(limit, price) == BaseFee + (limit * price + Micro - 1) \div Micro
=============================================================================
