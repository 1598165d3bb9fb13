----------------------- MODULE MessageExecutionProofs -----------------------
(***************************************************************************)
(* Proofs about MessageExecution, for every number of tasks, every set of  *)
(* chunks, every choice of acceptable gateway errors and every set of      *)
(* faults.                                                                 *)
(***************************************************************************)
EXTENDS MessageExecution, TLAPS

\* As long as the message is not executed its payload account only grows:
\* nothing closes it, so what a task saw written stays written.
PayloadInv ==
  incoming = "approved" =>
    /\ payload = "committed" => written = Chunks
    /\ "commit" \in late => payload # "absent" /\ written = Chunks
    /\ \A a \in Attempts :
         /\ pc[a] = "init" /\ tx[a]["init"] \in {"landed", "ok"}
              => payload # "absent"
         /\ pc[a] = "write" =>
              /\ payload # "absent"
              /\ \A t \in Chunks : tx[a][t] \in {"landed", "ok"} => t \in written
         /\ pc[a] \in {"commit", "execute"} =>
              payload # "absent" /\ written = Chunks

\* What a task's location says of the message and of its event.
OutcomeInv ==
  \A a \in Attempts :
    /\ pc[a] = "execute" /\ tx[a]["execute"] \in {"landed", "ok"}
         => incoming = "executed"
    /\ pc[a] = "ok" => incoming = "executed"
    /\ pc[a] = "failed" => err[a] # "none"
    /\ pc[a] = "ended" /\ report[a].kind = "none" =>
         err[a] \in {"lookup", "channel"}

\* Before the message is approved no task gets past its first check, so nothing
\* is uploaded and no transaction is sent.
NothingSpentEarly ==
  incoming = "absent" =>
    /\ payload = "absent" /\ ~uploaded /\ late = {}
    /\ \A a \in Attempts, t \in Txs : tx[a][t] = "unsent"

\* A task in one of these places has no transaction, and has sent none in its
\* present attempt before the message was approved.
EarlyInv ==
  incoming = "absent" =>
    /\ payload = "absent" /\ ~uploaded /\ late = {}
    /\ \A a \in Attempts : pc[a] \in {"new", "failed", "ended"}

ExecutionInv == TypeOK /\ EarlyInv /\ PayloadInv /\ OutcomeInv

-----------------------------------------------------------------------------
\* The three steps are not chunks, and every stage consists of transactions.
LEMMA StageType ==
  ASSUME NEW at
  PROVE  Stage(at) \subseteq Txs
BY DEF Stage, Txs, Steps

\* A task that moves leaves its transactions behind.
LEMMA MoveType ==
  ASSUME TypeOK, NEW a \in Attempts, NEW at, Move(a, at),
         at \in {"new", "gas", "init", "write", "commit", "execute", "failed",
                "ok", "ended"}
  PROVE  /\ pc' \in [Attempts -> {"new", "gas", "init", "write", "commit",
                                  "execute", "failed", "ok", "ended"}]
         /\ tx' \in [Attempts -> [Txs -> {"unsent", "sent", "landed", "ok"}]]
         /\ \A b \in Attempts, t \in Txs :
              t \notin Stage(pc'[b]) => tx'[b][t] = "unsent"
         /\ pc' = [pc EXCEPT ![a] = at]
         /\ tx' = [tx EXCEPT ![a] = Unsent]
<1>1. Unsent \in [Txs -> {"unsent", "sent", "landed", "ok"}]
  BY DEF Unsent
<1>2. ASSUME NEW b \in Attempts, NEW t \in Txs, t \notin Stage(pc'[b])
      PROVE  tx'[b][t] = "unsent"
  <2>1. CASE b = a
    BY <2>1 DEF TypeOK, Move, Unsent
  <2>2. CASE b # a
    <3>1. pc'[b] = pc[b] /\ tx'[b] = tx[b]
      BY <2>2 DEF TypeOK, Move
    <3>2. QED BY <1>2, <3>1 DEF TypeOK
  <2>3. QED BY <2>1, <2>2
<1>3. QED BY <1>1, <1>2 DEF TypeOK, Move

\* Failing keeps the types.
LEMMA FailType ==
  ASSUME TypeOK, NEW a \in Attempts, NEW kind \in {"tx", "gas", "other"},
         Fail(a, kind), UNCHANGED chain
  PROVE  TypeOK'
<1>1. Move(a, "failed")
  BY DEF Fail
<1>2. /\ err' \in [Attempts -> {"none", "tx", "gas", "other", "lookup", "channel"}]
      /\ late' \subseteq Txs
      /\ report' = report /\ open' = open
  BY DEF Fail, TypeOK
<1>3. QED BY <1>1, <1>2, MoveType DEF TypeOK, chain

\* Marking a transaction of the current stage keeps the types.
LEMMA MarkType ==
  ASSUME TypeOK, NEW a \in Attempts, NEW t \in Stage(pc[a]),
         NEW status \in {"sent", "landed", "ok"}, Mark(a, t, status)
  PROVE  /\ tx' \in [Attempts -> [Txs -> {"unsent", "sent", "landed", "ok"}]]
         /\ \A b \in Attempts, u \in Txs :
              u \notin Stage(pc'[b]) => tx'[b][u] = "unsent"
         /\ UNCHANGED <<pc, late, err, report, open>>
         /\ tx' = [tx EXCEPT ![a] = [tx[a] EXCEPT ![t] = status]]
<1>1. t \in Txs
  BY StageType
<1>2. tx' = [tx EXCEPT ![a] = [tx[a] EXCEPT ![t] = status]]
  BY DEF Mark
<1>3. tx' \in [Attempts -> [Txs -> {"unsent", "sent", "landed", "ok"}]]
  BY <1>1, <1>2 DEF TypeOK
<1>4. UNCHANGED <<pc, late, err, report, open>>
  BY DEF Mark
<1>5. ASSUME NEW b \in Attempts, NEW u \in Txs, u \notin Stage(pc'[b])
      PROVE  tx'[b][u] = "unsent"
  <2>1. pc'[b] = pc[b]
    BY <1>4
  <2>2. tx[b][u] = "unsent"
    BY <1>5, <2>1 DEF TypeOK
  <2>3. tx'[b][u] = tx[b][u]
    BY <1>1, <1>2, <1>5, <2>1 DEF TypeOK
  <2>4. QED BY <2>2, <2>3
<1>6. QED BY <1>2, <1>3, <1>4, <1>5

\* What lands keeps the types of the chain.
LEMMA ApplyType ==
  ASSUME TypeOK, NEW t \in Txs, Apply(t)
  PROVE  /\ incoming' \in {"absent", "approved", "executed"}
         /\ payload' \in {"absent", "open", "committed"}
         /\ written' \subseteq Chunks
         /\ uploaded' \in BOOLEAN
BY DEF TypeOK, Apply

\* A transaction that is not `unsent' belongs to its task's stage.
LEMMA InStage ==
  ASSUME TypeOK, NEW a \in Attempts, NEW t \in Txs, tx[a][t] # "unsent"
  PROVE  t \in Stage(pc[a])
BY DEF TypeOK

\* Every step keeps the types.
LEMMA TypeStep ==
  ASSUME TypeOK, [Next]_vars
  PROVE  TypeOK'
<1>1. ASSUME NEW a \in Attempts, CheckStatus(a) PROVE TypeOK'
  <2>1. CASE Fail(a, "other")
    BY <1>1, <2>1, FailType DEF CheckStatus
  <2>2. CASE /\ Move(a, IF incoming = "executed" THEN "ok" ELSE "gas")
             /\ UNCHANGED <<late, err, report, open>>
    <3>1. (IF incoming = "executed" THEN "ok" ELSE "gas") \in {"ok", "gas"}
      OBVIOUS
    <3>2. QED BY <1>1, <2>2, <3>1, MoveType DEF CheckStatus, TypeOK, chain
  <2>3. QED BY <1>1, <2>1, <2>2 DEF CheckStatus
<1>2. ASSUME NEW a \in Attempts, EnsureGas(a) PROVE TypeOK'
  <2>1. CASE Fail(a, "gas") \/ Fail(a, "other")
    BY <1>2, <2>1, FailType DEF EnsureGas
  <2>2. CASE Move(a, "init") /\ UNCHANGED <<late, err, report, open>>
    BY <1>2, <2>2, MoveType DEF EnsureGas, TypeOK, chain
  <2>3. QED BY <1>2, <2>1, <2>2 DEF EnsureGas
<1>3. ASSUME NEW a \in Attempts, NEW t \in Txs, Simulate(a, t) PROVE TypeOK'
  <2>1. CASE Fail(a, "other")
    BY <1>3, <2>1, FailType DEF Simulate
  <2>2. CASE Mark(a, t, "sent") \/ Mark(a, t, "ok")
    BY <1>3, <2>2, MarkType DEF Simulate, TypeOK, chain
  <2>3. QED BY <1>3, <2>1, <2>2 DEF Simulate
<1>4. ASSUME NEW a \in Attempts, NEW t \in Txs, Land(a, t) PROVE TypeOK'
  <2>1. CASE Fail(a, "tx") /\ UNCHANGED chain
    BY <1>4, <2>1, FailType
  <2>2. CASE Apply(t) /\ Mark(a, t, "landed")
    <3>1. t \in Stage(pc[a])
      BY <1>4, InStage DEF Land
    <3>2. QED BY <2>2, <3>1, MarkType, ApplyType DEF TypeOK
  <2>3. QED BY <1>4, <2>1, <2>2 DEF Land
<1>5. ASSUME NEW a \in Attempts, NEW t \in Txs, Confirm(a, t) PROVE TypeOK'
  <2>1. t \in Stage(pc[a])
    BY <1>5, InStage DEF Confirm
  <2>2. QED BY <1>5, <2>1, MarkType DEF Confirm, TypeOK, chain
<1>6. ASSUME NEW a \in Attempts, NEW t \in Txs, GiveUp(a, t) PROVE TypeOK'
  BY <1>6, FailType DEF GiveUp
<1>7. ASSUME NEW a \in Attempts, Advance(a) PROVE TypeOK'
  <2>1. Following[pc[a]] \in {"write", "commit", "execute", "ok"}
    BY <1>7 DEF Advance, Following
  <2>2. QED BY <1>7, <2>1, MoveType DEF Advance, TypeOK, chain
<1>8. ASSUME NEW a \in Attempts, Report(a) PROVE TypeOK'
  <2>1. Move(a, "ended") /\ UNCHANGED <<chain, late, open>>
    BY <1>8 DEF Report, ReportReverted, ReportInsufficientGas, ReportOther, End
  <2>2. /\ report' \in [Attempts ->
                          [kind : {"none", "reverted", "reverted_fee",
                                   "insufficient_gas", "cannot_execute"},
                           executed : BOOLEAN]]
        /\ err' \in [Attempts -> {"none", "tx", "gas", "other", "lookup", "channel"}]
    <3>1. \/ \E kind \in {"lookup", "channel"} : Unreported(a, kind)
          \/ \E kind \in {"reverted", "reverted_fee", "insufficient_gas",
                          "cannot_execute"} : Publish(a, kind)
      BY <1>8 DEF Report, ReportReverted, ReportInsufficientGas, ReportOther
    <3>2. ASSUME NEW kind \in {"lookup", "channel"}, Unreported(a, kind)
          PROVE  /\ err' \in [Attempts -> {"none", "tx", "gas", "other", "lookup",
                                     "channel"}]
                 /\ report' = report
      BY <3>2 DEF Unreported, TypeOK
    <3>3. ASSUME NEW kind \in {"reverted", "reverted_fee", "insufficient_gas",
                              "cannot_execute"}, open, Publish(a, kind)
          PROVE  report' \in [Attempts ->
                       [kind : {"none", "reverted", "reverted_fee",
                                "insufficient_gas", "cannot_execute"},
                        executed : BOOLEAN]]
      <4> DEFINE event == [kind |-> kind, executed |-> incoming = "executed"]
      <4>1. event \in [kind : {"none", "reverted", "reverted_fee",
                              "insufficient_gas", "cannot_execute"},
                      executed : BOOLEAN]
        OBVIOUS
      <4>2. report' = [report EXCEPT ![a] = event]
        BY <3>3 DEF Publish
      <4> HIDE DEF event
      <4>3. QED BY <4>1, <4>2 DEF TypeOK
    <3>4. ASSUME NEW kind, open, Publish(a, kind) PROVE err' = err
      BY <3>4 DEF Publish
    <3>5. ASSUME NEW kind, ~open, Publish(a, kind) PROVE Unreported(a, "channel")
      BY <3>5 DEF Publish
    <3>6. QED BY <3>1, <3>2, <3>3, <3>4, <3>5 DEF TypeOK
  <2>3. QED BY <2>1, <2>2, MoveType DEF TypeOK, chain
<1>9. ASSUME NEW t \in late, LandLate(t) PROVE TypeOK'
  <2>1. t \in Txs
    BY DEF TypeOK
  <2>2. QED BY <1>9, <2>1, ApplyType DEF LandLate, TypeOK
<1>10. ASSUME NEW t \in late, Expire(t) PROVE TypeOK'
  BY <1>10 DEF Expire, TypeOK, chain
<1>11. CASE Crash
  <2>1. PICK stored \in 0..TaskCount :
          LET again == {a \in Attempts : a > stored}
          IN /\ late' = late \cup {t \in Txs : \E a \in again : tx[a][t] = "sent"}
             /\ pc' = [a \in Attempts |-> IF a \in again THEN "new" ELSE pc[a]]
             /\ tx' = [a \in Attempts |-> IF a \in again THEN Unsent ELSE tx[a]]
             /\ err' = [a \in Attempts |-> IF a \in again THEN "none" ELSE err[a]]
             /\ report' = [a \in Attempts |->
                             IF a \in again THEN NoReport ELSE report[a]]
    BY <1>11 DEF Crash
  <2> DEFINE again == {a \in Attempts : a > stored}
  <2>2. Unsent \in [Txs -> {"unsent", "sent", "landed", "ok"}]
    BY DEF Unsent
  <2>3. NoReport \in [kind : {"none", "reverted", "reverted_fee",
                              "insufficient_gas", "cannot_execute"},
                      executed : BOOLEAN]
    BY DEF NoReport
  <2>4. ASSUME NEW b \in Attempts, NEW t \in Txs, t \notin Stage(pc'[b])
        PROVE  tx'[b][t] = "unsent"
    <3>1. CASE b \in again
      BY <2>1, <3>1 DEF Unsent
    <3>2. CASE b \notin again
      <4>1. pc'[b] = pc[b] /\ tx'[b] = tx[b]
        BY <2>1, <3>2
      <4>2. QED BY <2>4, <4>1 DEF TypeOK
    <3>3. QED BY <3>1, <3>2
  <2>5. /\ late' \subseteq Txs
        /\ pc' \in [Attempts -> {"new", "gas", "init", "write", "commit",
                                 "execute", "failed", "ok", "ended"}]
        /\ tx' \in [Attempts -> [Txs -> {"unsent", "sent", "landed", "ok"}]]
        /\ err' \in [Attempts -> {"none", "tx", "gas", "other", "lookup", "channel"}]
    BY <2>1, <2>2 DEF TypeOK
  <2>6. report' \in [Attempts ->
                       [kind : {"none", "reverted", "reverted_fee",
                                "insufficient_gas", "cannot_execute"},
                        executed : BOOLEAN]]
    BY <2>1, <2>3 DEF TypeOK
  <2>7. UNCHANGED chain /\ open' = TRUE
    BY <1>11 DEF Crash
  <2>8. QED BY <2>4, <2>5, <2>6, <2>7 DEF TypeOK, chain
<1>12. CASE UNCHANGED vars
  BY <1>12 DEF TypeOK, vars
<1>13. CASE Approve
  BY <1>13 DEF Approve, TypeOK
<1>14. CASE CloseChannel
  BY <1>14 DEF CloseChannel, TypeOK, chain
<1>15. QED BY <1>1, <1>2, <1>3, <1>4, <1>5, <1>6, <1>7, <1>8, <1>9, <1>10,
              <1>11, <1>12, <1>13, <1>14 DEF Next, TaskStep

\* The initial state has its types.
LEMMA TypeInit == Init => TypeOK
<1> SUFFICES ASSUME Init PROVE TypeOK
  OBVIOUS
<1>1. /\ Unsent \in [Txs -> {"unsent", "sent", "landed", "ok"}]
      /\ \A t \in Txs : Unsent[t] = "unsent"
  BY DEF Unsent
<1>2. QED BY <1>1 DEF Init, TypeOK, NoReport

\* Every reachable state of the execute tasks has its types (process_task).
THEOREM TypeCorrect == Spec => []TypeOK
<1>1. QED BY TypeInit, TypeStep, PTL DEF Spec

-----------------------------------------------------------------------------
\* Which transactions belong to which location.
LEMMA StageOf ==
  ASSUME TypeOK, NEW a \in Attempts, NEW t \in Stage(pc[a])
  PROVE  /\ t = "init" => pc[a] = "init"
         /\ t = "commit" => pc[a] = "commit"
         /\ t = "execute" => pc[a] = "execute"
         /\ t \in Chunks => pc[a] = "write"
BY ExecutionAssumption DEF Stage, Steps

\* What a valid transaction does to a message that stays unexecuted.
LEMMA ApplyGrows ==
  ASSUME TypeOK, NEW t \in Txs, Valid(t), Apply(t), incoming' = "approved"
  PROVE  /\ incoming = "approved"
         /\ payload # "absent" => payload' # "absent" /\ written \subseteq written'
         /\ payload' = "committed" => t = "commit"
         /\ payload' # "absent"
         /\ t # "init" => payload # "absent"
         /\ t \in Chunks => t \in written'
         /\ t # "execute"
         /\ written' \subseteq Chunks
<1>1. t # "execute"
  BY DEF Apply
<1>2. CASE t = "init"
  <2>1. t \notin Chunks
    BY <1>2, ExecutionAssumption DEF Steps
  <2>2. QED BY <1>2, <2>1 DEF Apply, Valid
<1>3. CASE t = "commit"
  <2>1. t \notin Chunks
    BY <1>3, ExecutionAssumption DEF Steps
  <2>2. QED BY <1>3, <2>1 DEF Apply, Valid, TypeOK
<1>4. CASE t \in Chunks
  <2>1. t # "init" /\ t # "commit"
    BY <1>4, ExecutionAssumption DEF Steps
  <2>2. QED BY <1>1, <1>4, <2>1 DEF Apply, Valid, TypeOK
<1>5. QED BY <1>1, <1>2, <1>3, <1>4 DEF Txs, Steps

\* A commit still on its way was sent by a task that had written everything.
LEMMA SentCommit ==
  ASSUME TypeOK, PayloadInv, incoming = "approved", NEW a \in Attempts,
         tx[a]["commit"] = "sent"
  PROVE  payload # "absent" /\ written = Chunks
<1>1. "commit" \in Txs
  BY DEF Txs, Steps
<1>2. pc[a] = "commit"
  BY <1>1, InStage, StageOf
<1>3. QED BY <1>2 DEF PayloadInv

\* A task that moves to a location that uploads nothing.
LEMMA PayloadLeave ==
  ASSUME TypeOK, PayloadInv, UNCHANGED chain, NEW a \in Attempts, NEW at,
         at \in {"gas", "init", "failed", "ok", "ended"}, Move(a, at),
         \A t \in late' \ late : tx[a][t] = "sent"
  PROVE  PayloadInv'
<1> SUFFICES ASSUME incoming' = "approved" PROVE
       /\ (payload = "committed" => written = Chunks)'
       /\ ("commit" \in late => payload # "absent" /\ written = Chunks)'
       /\ \A b \in Attempts :
         /\ (pc[b] = "init" /\ tx[b]["init"] \in {"landed", "ok"}
              => payload # "absent")'
         /\ (pc[b] = "write" =>
              /\ payload # "absent"
              /\ \A t \in Chunks : tx[b][t] \in {"landed", "ok"} => t \in written)'
         /\ (pc[b] \in {"commit", "execute"} =>
              payload # "absent" /\ written = Chunks)'
  BY DEF PayloadInv
<1>1. incoming = "approved" /\ payload' = payload /\ written' = written
  BY DEF chain
<1>2. (payload = "committed" => written = Chunks)'
  BY <1>1 DEF PayloadInv
<1>3. ("commit" \in late => payload # "absent" /\ written = Chunks)'
  BY <1>1, SentCommit DEF PayloadInv
<1>4. ASSUME NEW b \in Attempts
      PROVE  /\ (pc[b] = "init" /\ tx[b]["init"] \in {"landed", "ok"}
                  => payload # "absent")'
             /\ (pc[b] = "write" =>
                  /\ payload # "absent"
                  /\ \A t \in Chunks :
                       tx[b][t] \in {"landed", "ok"} => t \in written)'
             /\ (pc[b] \in {"commit", "execute"} =>
                  payload # "absent" /\ written = Chunks)'
  <2>1. CASE b = a
    <3>1. pc'[b] = at /\ tx'[b] = Unsent
      BY <2>1 DEF Move, TypeOK
    <3>2. tx'[b]["init"] = "unsent"
      BY <3>1 DEF Unsent, Txs, Steps
    <3>3. QED BY <3>1, <3>2
  <2>2. CASE b # a
    <3>1. pc'[b] = pc[b] /\ tx'[b] = tx[b]
      BY <2>2 DEF Move, TypeOK
    <3>2. QED BY <1>1, <3>1 DEF PayloadInv
  <2>3. QED BY <2>1, <2>2
<1>5. QED BY <1>2, <1>3, <1>4

\* Failing, in particular.
LEMMA PayloadFail ==
  ASSUME TypeOK, PayloadInv, UNCHANGED chain, NEW a \in Attempts, NEW kind,
         Fail(a, kind)
  PROVE  PayloadInv'
BY PayloadLeave DEF Fail

\* A task that marks a transaction, having grounds to call it done.
LEMMA PayloadMark ==
  ASSUME TypeOK, PayloadInv, NEW a \in Attempts, NEW t \in Stage(pc[a]),
         NEW status \in {"sent", "landed", "ok"}, Mark(a, t, status),
         incoming' = "approved" =>
           /\ incoming = "approved"
           /\ payload # "absent" =>
                payload' # "absent" /\ written \subseteq written'
           /\ payload' = "committed" => written' = Chunks
           /\ status # "sent" =>
                /\ t = "init" => payload' # "absent"
                /\ t \in Chunks => t \in written',
         written' \subseteq Chunks
  PROVE  PayloadInv'
<1> SUFFICES ASSUME incoming' = "approved" PROVE PayloadInv'
  BY DEF PayloadInv
<1>1. t \in Txs
  BY StageType
<1>2. UNCHANGED <<pc, late>> /\ tx' = [tx EXCEPT ![a] = [tx[a] EXCEPT ![t] = status]]
  BY MarkType
<1>3. ("commit" \in late => payload # "absent" /\ written = Chunks)'
  BY <1>2 DEF PayloadInv
<1>4. ASSUME NEW b \in Attempts
      PROVE  /\ (pc[b] = "init" /\ tx[b]["init"] \in {"landed", "ok"}
                  => payload # "absent")'
             /\ (pc[b] = "write" =>
                  /\ payload # "absent"
                  /\ \A u \in Chunks :
                       tx[b][u] \in {"landed", "ok"} => u \in written)'
             /\ (pc[b] \in {"commit", "execute"} =>
                  payload # "absent" /\ written = Chunks)'
  <2>1. ASSUME NEW u \in Txs, b # a \/ u # t PROVE tx'[b][u] = tx[b][u]
    BY <1>1, <1>2, <2>1 DEF TypeOK
  <2>2. tx'[a][t] = status
    BY <1>1, <1>2 DEF TypeOK
  <2>3. (pc[b] = "init" /\ tx[b]["init"] \in {"landed", "ok"}
           => payload # "absent")'
    BY <1>2, <2>1, <2>2 DEF PayloadInv, Txs, Steps
  <2>4. (pc[b] = "write" =>
           /\ payload # "absent"
           /\ \A u \in Chunks : tx[b][u] \in {"landed", "ok"} => u \in written)'
    BY <1>2, <2>1, <2>2 DEF PayloadInv, Txs
  <2>5. (pc[b] \in {"commit", "execute"} =>
           payload # "absent" /\ written = Chunks)'
    BY <1>2 DEF PayloadInv
  <2>6. QED BY <2>3, <2>4, <2>5
<1>5. QED BY <1>3, <1>4 DEF PayloadInv

\* Every step keeps the payload's invariant.
LEMMA PayloadStep ==
  ASSUME TypeOK, EarlyInv, PayloadInv, [Next]_vars
  PROVE  PayloadInv'
<1>1. ASSUME NEW a \in Attempts, CheckStatus(a) PROVE PayloadInv'
  BY <1>1, PayloadFail, PayloadLeave DEF CheckStatus
<1>2. ASSUME NEW a \in Attempts, EnsureGas(a) PROVE PayloadInv'
  BY <1>2, PayloadFail, PayloadLeave DEF EnsureGas
<1>3. ASSUME NEW a \in Attempts, NEW t \in Txs, Simulate(a, t) PROVE PayloadInv'
  <2>1. CASE Fail(a, "other")
    BY <1>3, <2>1, PayloadFail DEF Simulate
  <2>2. written' \subseteq Chunks /\ UNCHANGED chain
    BY <1>3 DEF Simulate, chain, TypeOK
  <2>3. CASE Mark(a, t, "sent")
    BY <1>3, <2>2, <2>3, PayloadMark DEF Simulate, chain, PayloadInv
  <2>4. CASE ~Valid(t) /\ t # "execute" /\ RefusalOf(t) \in Proceed /\ Mark(a, t, "ok")
    <3>1. t = "init" => payload # "absent"
      BY <2>4 DEF Valid
    <3>2. t \in Chunks => payload = "committed"
      BY <2>4, ExecutionAssumption DEF RefusalOf, Steps
    <3>3. QED BY <1>3, <2>2, <2>4, <3>1, <3>2, PayloadMark
              DEF Simulate, chain, PayloadInv
  <2>5. QED BY <1>3, <2>1, <2>3, <2>4 DEF Simulate
<1>4. ASSUME NEW a \in Attempts, NEW t \in Txs, Land(a, t) PROVE PayloadInv'
  <2>1. CASE Fail(a, "tx") /\ UNCHANGED chain
    BY <1>4, <2>1, PayloadFail
  <2>2. CASE Valid(t) /\ Apply(t) /\ Mark(a, t, "landed")
    <3>1. t \in Stage(pc[a])
      BY <1>4, InStage DEF Land
    <3>2. written' \subseteq Chunks
      BY <2>2, ApplyType
    <3>3. ASSUME incoming' = "approved"
          PROVE  payload' = "committed" => written' = Chunks
      <4>1. incoming = "approved" /\ (payload' = "committed" => t = "commit")
        BY <2>2, <3>3, ApplyGrows
      <4>2. t = "commit" => written = Chunks /\ payload # "absent"
        BY <3>1, <4>1, StageOf DEF PayloadInv
      <4>3. QED BY <2>2, <3>2, <3>3, <4>1, <4>2, ApplyGrows
    <3>4. QED BY <2>2, <3>1, <3>2, <3>3, ApplyGrows, PayloadMark
  <2>3. QED BY <1>4, <2>1, <2>2 DEF Land
<1>5. ASSUME NEW a \in Attempts, NEW t \in Txs, Confirm(a, t) PROVE PayloadInv'
  <2>1. t \in Stage(pc[a]) /\ tx[a][t] = "landed"
    BY <1>5, InStage DEF Confirm
  <2>2. written' \subseteq Chunks
    BY <1>5 DEF Confirm, chain, TypeOK
  <2>3. QED BY <1>5, <2>1, <2>2, StageOf, PayloadMark DEF Confirm, chain, PayloadInv
<1>6. ASSUME NEW a \in Attempts, NEW t \in Txs, GiveUp(a, t) PROVE PayloadInv'
  BY <1>6, PayloadFail DEF GiveUp
<1>7. ASSUME NEW a \in Attempts, Advance(a) PROVE PayloadInv'
  <2>1. UNCHANGED <<chain, late>>
    BY <1>7 DEF Advance
  <2>2. CASE pc[a] = "execute"
    <3>1. Move(a, "ok")
      BY <1>7, <2>2 DEF Advance, Following
    <3>2. QED BY <2>1, <3>1, PayloadLeave
  <2>3. CASE pc[a] # "execute"
    <3> DEFINE at == Following[pc[a]]
    <3>1. Move(a, at) /\ \A t \in Stage(pc[a]) : tx[a][t] = "ok"
      BY <1>7 DEF Advance
    <3>2. \/ pc[a] = "init" /\ at = "write"
          \/ pc[a] = "write" /\ at = "commit"
          \/ pc[a] = "commit" /\ at = "execute"
      BY <1>7, <2>3 DEF Advance, Following
    <3>3. pc'[a] = at /\ tx'[a] = Unsent
      BY <3>1 DEF Move, TypeOK
    <3>4. \A t \in Txs : tx'[a][t] = "unsent"
      BY <3>3 DEF Unsent
    <3>5. \A b \in Attempts : b # a => pc'[b] = pc[b] /\ tx'[b] = tx[b]
      BY <3>1 DEF Move, TypeOK
    <3>6. ASSUME incoming = "approved"
          PROVE  /\ payload # "absent"
                 /\ at \in {"commit", "execute"} => written = Chunks
      <4>1. CASE pc[a] = "init"
        BY <3>1, <3>2, <3>6, <4>1 DEF Stage, PayloadInv
      <4>2. CASE pc[a] = "write"
        <5>1. \A t \in Chunks : t \in written
          BY <3>1, <3>6, <4>2 DEF Stage, PayloadInv
        <5>2. QED BY <3>6, <4>2, <5>1 DEF PayloadInv, TypeOK
      <4>3. CASE pc[a] = "commit"
        BY <3>6, <4>3 DEF PayloadInv
      <4>4. QED BY <3>2, <4>1, <4>2, <4>3
    <3> HIDE DEF at
    <3>7. \A t \in Chunks : t \in Txs
      BY DEF Txs
    <3>8. at \in {"write", "commit", "execute"}
      BY <3>2
    <3>9. incoming' = incoming /\ payload' = payload /\ written' = written /\ late' = late
      BY <2>1 DEF chain
    <3>10. ASSUME NEW b \in Attempts, incoming = "approved"
           PROVE  /\ pc'[b] = "init" /\ tx'[b]["init"] \in {"landed", "ok"}
                       => payload # "absent"
                  /\ pc'[b] = "write" =>
                       /\ payload # "absent"
                       /\ \A t \in Chunks :
                            tx'[b][t] \in {"landed", "ok"} => t \in written
                  /\ pc'[b] \in {"commit", "execute"} =>
                       payload # "absent" /\ written = Chunks
      <4>1. CASE b = a
        BY <3>3, <3>4, <3>6, <3>7, <3>8, <3>10, <4>1
      <4>2. CASE b # a
        BY <3>5, <3>10, <4>2 DEF PayloadInv
      <4>3. QED BY <4>1, <4>2
    <3>11. QED BY <3>9, <3>10 DEF PayloadInv
  <2>4. QED BY <2>2, <2>3
<1>8. ASSUME NEW a \in Attempts, Report(a) PROVE PayloadInv'
  <2>1. Move(a, "ended") /\ UNCHANGED <<chain, late, open>>
    BY <1>8 DEF Report, ReportReverted, ReportInsufficientGas, ReportOther, End
  <2>2. QED BY <2>1, PayloadLeave
<1>9. ASSUME NEW t \in late, LandLate(t) PROVE PayloadInv'
  <2>1. t \in Txs /\ UNCHANGED <<pc, tx>> /\ late' = late \ {t}
    BY <1>9 DEF LandLate, TypeOK
  <2>2. ASSUME incoming' = "approved"
        PROVE  /\ incoming = "approved"
               /\ payload # "absent" =>
                    payload' # "absent" /\ written \subseteq written'
               /\ payload' = "committed" => written' = Chunks
               /\ written' \subseteq Chunks
    <3>1. t = "commit" /\ incoming = "approved" => written = Chunks /\ payload # "absent"
      BY DEF PayloadInv
    <3>2. QED BY <1>9, <2>1, <2>2, <3>1, ApplyGrows DEF LandLate
  <2>3. QED BY <2>1, <2>2 DEF PayloadInv
<1>10. ASSUME NEW t \in late, Expire(t) PROVE PayloadInv'
  BY <1>10 DEF Expire, PayloadInv, chain
<1>11. CASE Crash
  <2>1. UNCHANGED chain
    BY <1>11 DEF Crash
  <2>2. \A t \in late' : t \in late \/ \E a \in Attempts : tx[a][t] = "sent"
    BY <1>11 DEF Crash
  <2>3. \A b \in Attempts : pc'[b] = "new" \/ (pc'[b] = pc[b] /\ tx'[b] = tx[b])
    BY <1>11 DEF Crash
  <2>4. incoming' = "approved" /\ "commit" \in late' =>
          payload # "absent" /\ written = Chunks
    BY <2>1, <2>2, SentCommit DEF PayloadInv, chain
  <2>5. QED BY <2>1, <2>3, <2>4 DEF PayloadInv, chain
<1>12. CASE UNCHANGED vars
  BY <1>12 DEF PayloadInv, vars
<1>13. CASE Approve
  BY <1>13 DEF Approve, EarlyInv, PayloadInv
<1>14. CASE CloseChannel
  BY <1>14 DEF CloseChannel, PayloadInv, chain
<1>15. QED BY <1>1, <1>2, <1>3, <1>4, <1>5, <1>6, <1>7, <1>8, <1>9, <1>10,
              <1>11, <1>12, <1>13, <1>14 DEF Next, TaskStep

-----------------------------------------------------------------------------
\* Before the approval no task has reached a stage, or has a transaction.
LEMMA EarlyTasks ==
  ASSUME TypeOK, EarlyInv, incoming = "absent", NEW a \in Attempts
  PROVE  /\ pc[a] \in {"new", "failed", "ended"}
         /\ Stage(pc[a]) = {}
         /\ \A t \in Txs : tx[a][t] = "unsent"
<1>1. pc[a] \in {"new", "failed", "ended"}
  BY DEF EarlyInv
<1>2. Stage(pc[a]) = {}
  BY <1>1 DEF Stage
<1>3. QED BY <1>1, <1>2 DEF TypeOK

\* Nothing but the approval ends the time before it, and until then a task
\* that starts fails.
LEMMA EarlyStep ==
  ASSUME TypeOK, EarlyInv, [Next]_vars
  PROVE  EarlyInv'
<1> SUFFICES ASSUME incoming' = "absent"
             PROVE  /\ payload' = "absent" /\ ~uploaded' /\ late' = {}
                    /\ \A b \in Attempts : pc'[b] \in {"new", "failed", "ended"}
  BY DEF EarlyInv
<1>1. incoming = "absent"
  BY DEF Next, TaskStep, CheckStatus, EnsureGas, Simulate, Land, Confirm, GiveUp,
         Advance, Report, ReportReverted, ReportInsufficientGas, ReportOther, End,
         LandLate, Expire, Approve, CloseChannel, Crash, Apply, chain, vars
<1>2. /\ payload = "absent" /\ ~uploaded /\ late = {}
      /\ \A b \in Attempts : /\ pc[b] \in {"new", "failed", "ended"}
                             /\ Stage(pc[b]) = {}
                             /\ \A t \in Txs : tx[b][t] = "unsent"
  BY <1>1, EarlyTasks DEF EarlyInv
<1>3. ASSUME NEW a \in Attempts, Move(a, "failed") \/ Move(a, "ended")
      PROVE  \A b \in Attempts : pc'[b] \in {"new", "failed", "ended"}
  BY <1>2, <1>3 DEF Move, TypeOK
<1>4. ASSUME NEW a \in Attempts, TaskStep(a)
      PROVE  \/ CheckStatus(a) /\ Fail(a, "other")
             \/ Report(a)
  <2>1. ~EnsureGas(a)
    BY <1>2 DEF EnsureGas
  <2>2. ~Advance(a)
    BY <1>2 DEF Advance, Following
  <2>3. ASSUME NEW t \in Txs
        PROVE  ~Simulate(a, t) /\ ~Land(a, t) /\ ~Confirm(a, t) /\ ~GiveUp(a, t)
    BY <1>2 DEF Simulate, Land, Confirm, GiveUp
  <2>4. CheckStatus(a) => Fail(a, "other")
    BY <1>1 DEF CheckStatus
  <2> QED BY <1>4, <2>1, <2>2, <2>3, <2>4 DEF TaskStep
<1>5. ASSUME NEW a \in Attempts, CheckStatus(a), Fail(a, "other")
      PROVE  /\ payload' = "absent" /\ ~uploaded' /\ late' = {}
             /\ Move(a, "failed")
  BY <1>2, <1>5 DEF CheckStatus, Fail, chain
<1>6. ASSUME NEW a \in Attempts, Report(a)
      PROVE  /\ payload' = "absent" /\ ~uploaded' /\ late' = {}
             /\ Move(a, "ended")
  BY <1>2, <1>6 DEF Report, ReportReverted, ReportInsufficientGas, ReportOther, End, chain
<1>7. ~\E t \in late : LandLate(t) \/ Expire(t)
  BY <1>2
<1>8. ~Approve
  BY DEF Approve
<1>9. CASE Crash
  <2>1. UNCHANGED chain
    BY <1>9 DEF Crash
  <2>2. \A t \in late' : t \in late \/ \E b \in Attempts : t \in Txs /\ tx[b][t] = "sent"
    BY <1>9 DEF Crash
  <2>3. \A b \in Attempts : pc'[b] = "new" \/ pc'[b] = pc[b]
    BY <1>9 DEF Crash
  <2> QED BY <1>2, <2>1, <2>2, <2>3 DEF chain
<1>10. CASE UNCHANGED vars
  BY <1>2, <1>10 DEF vars
<1>11. CASE CloseChannel
  BY <1>2, <1>11 DEF CloseChannel, chain
<1> QED BY <1>3, <1>4, <1>5, <1>6, <1>7, <1>8, <1>9, <1>10, <1>11 DEF Next

-----------------------------------------------------------------------------
\* An executed message stays executed.
LEMMA ExecutedStable ==
  ASSUME TypeOK, [Next]_vars
  PROVE  incoming = "executed" => incoming' = "executed"
BY DEF Next, TaskStep, CheckStatus, EnsureGas, Simulate, Land, Confirm, GiveUp,
       Advance, Report, ReportReverted, ReportInsufficientGas, ReportOther, End,
       LandLate, Expire, Approve, CloseChannel, Crash, Apply, chain, vars

\* What OutcomeInv says of one task.
Outcome(a) ==
  /\ pc[a] = "execute" /\ tx[a]["execute"] \in {"landed", "ok"}
       => incoming = "executed"
  /\ pc[a] = "ok" => incoming = "executed"
  /\ pc[a] = "failed" => err[a] # "none"
  /\ pc[a] = "ended" /\ report[a].kind = "none" =>
         err[a] \in {"lookup", "channel"}

\* A task that did not move, on a chain where executed messages stay executed.
LEMMA OutcomeOther ==
  ASSUME NEW b \in Attempts, Outcome(b),
         incoming = "executed" => incoming' = "executed",
         pc'[b] = pc[b], tx'[b] = tx[b], err'[b] = err[b], report'[b] = report[b]
  PROVE  Outcome(b)'
BY DEF Outcome

\* A failing task has an error to report.
LEMMA OutcomeFail ==
  ASSUME TypeOK, OutcomeInv, NEW a \in Attempts, NEW kind \in {"tx", "gas", "other"},
         Fail(a, kind), incoming = "executed" => incoming' = "executed"
  PROVE  OutcomeInv'
<1>1. ASSUME NEW b \in Attempts PROVE Outcome(b)'
  <2>1. CASE b = a
    BY <2>1 DEF Fail, Move, Outcome, TypeOK
  <2>2. CASE b # a
    <3>1. pc'[b] = pc[b] /\ tx'[b] = tx[b] /\ err'[b] = err[b] /\ report'[b] = report[b]
      BY <2>2 DEF Fail, Move, TypeOK
    <3>2. QED BY <3>1, OutcomeOther DEF OutcomeInv, Outcome
  <2>3. QED BY <2>1, <2>2
<1>2. QED BY <1>1 DEF OutcomeInv, Outcome

\* A task that moves on without an error.
LEMMA OutcomeMove ==
  ASSUME TypeOK, OutcomeInv, NEW a \in Attempts, NEW at, Move(a, at),
         at \notin {"failed", "ended"}, at = "ok" => incoming' = "executed",
         incoming = "executed" => incoming' = "executed",
         UNCHANGED <<err, report>>
  PROVE  OutcomeInv'
<1>1. ASSUME NEW b \in Attempts PROVE Outcome(b)'
  <2>1. CASE b = a
    <3>1. pc'[b] = at /\ tx'[b] = Unsent
      BY <2>1 DEF Move, TypeOK
    <3>2. tx'[b]["execute"] = "unsent"
      BY <3>1 DEF Unsent, Txs, Steps
    <3>3. QED BY <3>1, <3>2 DEF Outcome
  <2>2. CASE b # a
    <3>1. pc'[b] = pc[b] /\ tx'[b] = tx[b] /\ err'[b] = err[b] /\ report'[b] = report[b]
      BY <2>2 DEF Move, TypeOK
    <3>2. QED BY <3>1, OutcomeOther DEF OutcomeInv, Outcome
  <2>3. QED BY <2>1, <2>2
<1>2. QED BY <1>1 DEF OutcomeInv, Outcome

\* A task that marks a transaction: the execute transaction only once executed.
LEMMA OutcomeMark ==
  ASSUME TypeOK, OutcomeInv, NEW a \in Attempts, NEW t \in Stage(pc[a]),
         NEW status \in {"sent", "landed", "ok"}, Mark(a, t, status),
         t = "execute" /\ status # "sent" => incoming' = "executed",
         incoming = "executed" => incoming' = "executed"
  PROVE  OutcomeInv'
<1>1. UNCHANGED <<pc, err, report>> /\ tx' = [tx EXCEPT ![a] = [tx[a] EXCEPT ![t] = status]]
  BY MarkType
<1>2. t \in Txs /\ "execute" \in Txs
  BY StageType DEF Txs, Steps
<1>3. ASSUME NEW b \in Attempts PROVE Outcome(b)'
  <2>1. tx'[b]["execute"] \in {"landed", "ok"} =>
          tx[b]["execute"] \in {"landed", "ok"} \/ incoming' = "executed"
    <3>1. CASE b = a /\ t = "execute"
      BY <1>1, <1>2, <3>1 DEF TypeOK
    <3>2. CASE b # a \/ t # "execute"
      BY <1>1, <1>2, <3>2 DEF TypeOK
    <3>3. QED BY <3>1, <3>2
  <2>2. QED BY <1>1, <2>1 DEF OutcomeInv, Outcome
<1>4. QED BY <1>3 DEF OutcomeInv, Outcome

\* Every step keeps the outcomes' invariant.
LEMMA OutcomeStep ==
  ASSUME TypeOK, OutcomeInv, [Next]_vars
  PROVE  OutcomeInv'
<1>0. incoming = "executed" => incoming' = "executed"
  BY ExecutedStable
<1>1. ASSUME NEW a \in Attempts, CheckStatus(a) PROVE OutcomeInv'
  BY <1>0, <1>1, OutcomeFail, OutcomeMove DEF CheckStatus, chain
<1>2. ASSUME NEW a \in Attempts, EnsureGas(a) PROVE OutcomeInv'
  BY <1>0, <1>2, OutcomeFail, OutcomeMove DEF EnsureGas
<1>3. ASSUME NEW a \in Attempts, NEW t \in Txs, Simulate(a, t) PROVE OutcomeInv'
  BY <1>0, <1>3, OutcomeFail, OutcomeMark DEF Simulate
<1>4. ASSUME NEW a \in Attempts, NEW t \in Txs, Land(a, t) PROVE OutcomeInv'
  <2>1. CASE Fail(a, "tx")
    BY <1>0, <2>1, OutcomeFail
  <2>2. CASE Apply(t) /\ Mark(a, t, "landed")
    <3>1. t \in Stage(pc[a])
      BY <1>4, InStage DEF Land
    <3>2. t = "execute" => incoming' = "executed"
      BY <2>2 DEF Apply
    <3>3. QED BY <1>0, <2>2, <3>1, <3>2, OutcomeMark
  <2>3. QED BY <1>4, <2>1, <2>2 DEF Land
<1>5. ASSUME NEW a \in Attempts, NEW t \in Txs, Confirm(a, t) PROVE OutcomeInv'
  <2>1. t \in Stage(pc[a]) /\ tx[a][t] = "landed"
    BY <1>5, InStage DEF Confirm
  <2>2. t = "execute" => incoming' = "executed"
    BY <1>0, <2>1, StageOf DEF OutcomeInv
  <2>3. QED BY <1>0, <1>5, <2>1, <2>2, OutcomeMark DEF Confirm
<1>6. ASSUME NEW a \in Attempts, NEW t \in Txs, GiveUp(a, t) PROVE OutcomeInv'
  BY <1>0, <1>6, OutcomeFail DEF GiveUp
<1>7. ASSUME NEW a \in Attempts, Advance(a) PROVE OutcomeInv'
  <2> DEFINE at == Following[pc[a]]
  <2>1. Move(a, at) /\ UNCHANGED <<err, report>>
    BY <1>7 DEF Advance
  <2>2. at \in {"write", "commit", "execute", "ok"} /\ (at = "ok" => pc[a] = "execute")
    BY <1>7 DEF Advance, Following
  <2>3. at = "ok" => incoming' = "executed"
    BY <1>0, <1>7, <2>2 DEF Advance, Stage, OutcomeInv
  <2> HIDE DEF at
  <2>4. QED BY <1>0, <2>1, <2>2, <2>3, OutcomeMove
<1>8. ASSUME NEW a \in Attempts, Report(a) PROVE OutcomeInv'
  <2>1. Move(a, "ended") /\ UNCHANGED <<chain, late, open>>
    BY <1>8 DEF Report, ReportReverted, ReportInsufficientGas, ReportOther, End
  <2>2. \/ \E kind \in {"lookup", "channel"} : Unreported(a, kind)
        \/ \E kind \in {"reverted", "reverted_fee", "insufficient_gas",
                        "cannot_execute"} : open /\ Publish(a, kind)
    BY <1>8 DEF Report, ReportReverted, ReportInsufficientGas, ReportOther, Publish
  <2>3. \A b \in Attempts :
          b # a => report'[b] = report[b] /\ err'[b] = err[b]
    BY <2>2 DEF Unreported, Publish, TypeOK
  <2>4. err'[a] \in {"lookup", "channel"} \/ report'[a].kind # "none"
    <3>1. CASE \E kind \in {"lookup", "channel"} : Unreported(a, kind)
      BY <3>1 DEF Unreported, TypeOK
    <3>2. CASE \E kind \in {"reverted", "reverted_fee", "insufficient_gas",
                            "cannot_execute"} : open /\ Publish(a, kind)
      BY <3>2 DEF Publish, TypeOK
    <3>3. QED BY <2>2, <3>1, <3>2
  <2>5. ASSUME NEW b \in Attempts PROVE Outcome(b)'
    <3>1. CASE b = a
      BY <2>1, <2>4, <3>1 DEF Outcome, Move, TypeOK
    <3>2. CASE b # a
      <4>1. pc'[b] = pc[b] /\ tx'[b] = tx[b]
        BY <2>1, <3>2 DEF Move, TypeOK
      <4>2. QED BY <1>0, <2>1, <2>3, <3>2, <4>1, OutcomeOther DEF OutcomeInv, Outcome
    <3>3. QED BY <3>1, <3>2
  <2>6. QED BY <2>5 DEF OutcomeInv, Outcome
<1>9. ASSUME NEW t \in late, LandLate(t) PROVE OutcomeInv'
  BY <1>0, <1>9 DEF LandLate, OutcomeInv
<1>10. ASSUME NEW t \in late, Expire(t) PROVE OutcomeInv'
  BY <1>10 DEF Expire, OutcomeInv, chain
<1>11. CASE Crash
  <2>1. UNCHANGED chain
    BY <1>11 DEF Crash
  <2>2. \A b \in Attempts :
          \/ pc'[b] = "new"
          \/ /\ pc'[b] = pc[b] /\ tx'[b] = tx[b] /\ err'[b] = err[b]
             /\ report'[b] = report[b]
    BY <1>11 DEF Crash
  <2>3. QED BY <1>0, <2>2 DEF OutcomeInv
<1>12. CASE UNCHANGED vars
  BY <1>12 DEF OutcomeInv, vars
<1>13. CASE Approve
  BY <1>13 DEF Approve, OutcomeInv
<1>14. CASE CloseChannel
  BY <1>14 DEF CloseChannel, OutcomeInv, chain
<1>15. QED BY <1>1, <1>2, <1>3, <1>4, <1>5, <1>6, <1>7, <1>8, <1>9, <1>10,
              <1>11, <1>12, <1>13, <1>14 DEF Next, TaskStep

-----------------------------------------------------------------------------
\* The invariant from which the safety properties follow, initially.
LEMMA ExecutionInit == Init => ExecutionInv
<1> SUFFICES ASSUME Init PROVE ExecutionInv
  OBVIOUS
<1>1. TypeOK
  BY TypeInit
<1>2. \A a \in Attempts : pc[a] = "new"
  BY DEF Init
<1>3. PayloadInv
  BY <1>2 DEF Init, PayloadInv
<1>4. OutcomeInv
  BY <1>2 DEF OutcomeInv
<1>5. EarlyInv
  BY <1>2 DEF Init, EarlyInv
<1>6. QED BY <1>1, <1>3, <1>4, <1>5 DEF ExecutionInv

\* The invariant holds throughout: what tasks know of the payload account and
\* of the message is true, under every fault.
THEOREM ExecutionInvariant == Spec => []ExecutionInv
<1>1. ExecutionInv /\ [Next]_vars => ExecutionInv'
  BY TypeStep, EarlyStep, PayloadStep, OutcomeStep DEF ExecutionInv
<1>2. QED BY <1>1, ExecutionInit, PTL DEF Spec

\* message_payload::upload: no interleaving of tasks, crashes and late
\* transactions commits a payload with a missing chunk.
THEOREM PayloadWhole == Spec => []CommittedIsComplete
<1>1. ExecutionInv => CommittedIsComplete
  BY DEF ExecutionInv, TypeOK, EarlyInv, PayloadInv, CommittedIsComplete
<1>2. QED BY <1>1, ExecutionInvariant, PTL

\* incoming_message_already_executed: a task that comes before its message's
\* approval ends without having spent anything.
THEOREM EarlyTaskHarmless == Spec => []NothingSpentEarly
<1>1. ASSUME ExecutionInv PROVE NothingSpentEarly
  BY <1>1, EarlyTasks DEF ExecutionInv, EarlyInv, NothingSpentEarly
<1>2. QED BY <1>1, ExecutionInvariant, PTL

\* execute_task: Ok(()) is returned only for an executed message.
THEOREM SuccessIsTrue == Spec => []SuccessMeansExecuted
<1>1. ExecutionInv => SuccessMeansExecuted
  BY DEF ExecutionInv, OutcomeInv, SuccessMeansExecuted
<1>2. QED BY <1>1, ExecutionInvariant, PTL

\* process_task: a failed task publishes an event, unless its failed transaction
\* cannot be looked up or the channel to the Amplifier is closed.
THEOREM FailuresReported == Spec => []FailureReported
<1>1. ExecutionInv => FailureReported
  BY DEF ExecutionInv, OutcomeInv, FailureReported
<1>2. QED BY <1>1, ExecutionInvariant, PTL
=============================================================================
