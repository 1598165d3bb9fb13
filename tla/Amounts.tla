------------------------------ MODULE Amounts -------------------------------
(* Lamports and compute units as the code adds and multiplies them: 64 bits *)
(* wide and saturating.                                                     *)
EXTENDS Integers, Functions

CONSTANT MaxU64   \* u64::MAX in the code

ASSUME AmountAssumption == MaxU64 \in Nat

AtMost(x, bound) == IF x > bound THEN bound ELSE x

Plus(a, b)  == AtMost(a + b, MaxU64)
Times(a, b) == AtMost(a * b, MaxU64)

\* Natural numbers added up with Plus, in whatever order.
Sum(f, S) == AtMost(SumFunctionOnSet(f, S), MaxU64)
=============================================================================
