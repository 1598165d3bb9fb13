--------------------------- MODULE MCExecuteCosts ---------------------------
(***************************************************************************)
(* Two execute tasks for one message, as the Amplifier may deliver it      *)
(* twice; they may have three requests under way, for two permits.         *)
(***************************************************************************)
EXTENDS ExecuteCosts

CONSTANTS t1, t2, msg

TwoTasks == {t1, t2}
RequestsOfTwo == TwoTasks \X {"price", "hash", "simulate", "send", "fee"}
OneMessage == [t \in TwoTasks |-> msg]

\* A chunk and the commit are stages like the first one.
ThreeStages == <<"init", "execute", "close">>
UnitsOfThree == <<2, 15, 19>>

\* Without recent fees the price is 0.
Samples == {<<>>, <<1, 4, 6>>}

\* No report, the last result without room for the price, the first with it, and
\* the one at which the limit is capped.
Simulated == {0, 9, 10, 21}

\* The first task's gas never suffices, topped up or not: what its estimates find
\* out is cached, taken out and put back, and may be used by the second.
GasOfTwo == [t \in TwoTasks |-> IF t = t1 THEN 4 ELSE 22]

OneTask == {t1}
RequestsOfOne == OneTask \X {"price", "hash", "simulate", "send", "fee"}
MessageOfOne == [t \in OneTask |-> msg]
FiveStages == <<"init", "write", "commit", "execute", "close">>
UnitsOfFive == <<9000, 6000, 5000, 90000, 4000>>
OneSample == {<<1000>>}
RealUnits == {90000}
GasOfOne == [t \in OneTask |-> 20000]
=============================================================================
