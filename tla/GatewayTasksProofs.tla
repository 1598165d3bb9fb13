------------------------- MODULE GatewayTasksProofs -------------------------
(***************************************************************************)
(* Proofs about GatewayTasks, for every mix of tasks, every verifier set   *)
(* and quorum, every choice of acceptable gateway errors and every set of  *)
(* faults.                                                                 *)
(***************************************************************************)
EXTENDS GatewayTasks, FiniteSetTheorems, TLAPS

Places   == {"new", "init", "verify", "items", "refund", "ok", "failed"}
Statuses == {"unsent", "sent", "ok"}

\* Transactions exist only in the stage they belong to.
StageInv == \A a \in Attempts, t \in Txs :
              t \notin Stage(a, pc[a]) => tx[a][t] = "unsent"

\* What a task's location says of the chain: a step that counts as done is done.
Done(a) ==
  /\ pc[a] \in {"init", "verify", "items"} => work[a].kind # "refund"
  /\ pc[a] = "refund" => work[a].kind = "refund"
  /\ pc[a] = "items" =>
       \A t \in work[a].items : tx[a][t] = "ok" => t \in done \cup skipped[a]
  /\ pc[a] = "refund" /\ tx[a]["refund"] = "ok" => paid[a] > 0
  /\ pc[a] = "ok" => IF work[a].kind = "refund" THEN paid[a] > 0
                     ELSE work[a].items \subseteq done \cup skipped[a]

DoneInv == \A a \in Attempts : Done(a)

\* A delivery of a task may still pay while it has not stopped and its refund
\* has not landed.
MayPay(a) == pc[a] = "new" \/ (pc[a] = "refund" /\ tx[a]["refund"] # "ok")

\* The deliveries of a task whose refund is still on its way.
Adrift(a) == {d \in 1..MaxDeliveries : <<a, d, "refund">> \in late}

\* Each delivery accounts for at most one refund: paid, on its way, or to come.
Refunds(a) ==
  /\ \A d \in Adrift(a) : d <= delivery[a]
  /\ MayPay(a) => delivery[a] \notin Adrift(a)
  /\ paid[a] + Cardinality(Adrift(a)) + (IF MayPay(a) THEN 1 ELSE 0) <= delivery[a]

RefundInv == \A a \in Attempts : Refunds(a)

-----------------------------------------------------------------------------
\* Every stage consists of transactions.
LEMMA StageType ==
  ASSUME TypeOK, NEW a \in Attempts, NEW at
  PROVE  Stage(a, at) \subseteq Txs
BY DEF TypeOK, Stage, Txs, Signers, Items

\* A transaction that is not `unsent' belongs to its task's stage.
LEMMA InStage ==
  ASSUME TypeOK, NEW a \in Attempts, NEW t \in Txs, tx[a][t] # "unsent"
  PROVE  t \in Stage(a, pc[a])
BY DEF TypeOK

\* A task that moves leaves its transactions behind.
LEMMA MoveType ==
  ASSUME TypeOK, NEW a \in Attempts, NEW at \in Places, Move(a, at), work' = work
  PROVE  /\ pc' \in [Attempts -> Places]
         /\ tx' \in [Attempts -> [Txs -> Statuses]]
         /\ StageInv'
<1>1. Unsent \in [Txs -> Statuses]
  BY DEF Unsent, Statuses
<1>2. pc' \in [Attempts -> Places] /\ tx' \in [Attempts -> [Txs -> Statuses]]
  BY <1>1 DEF TypeOK, Move, Places, Statuses, StageInv
<1>3. ASSUME NEW b \in Attempts, NEW t \in Txs, (t \notin Stage(b, pc[b]))'
      PROVE  tx'[b][t] = "unsent"
  <2>1. CASE b = a
    BY <2>1 DEF TypeOK, Move, Unsent
  <2>2. CASE b # a
    <3>1. pc'[b] = pc[b] /\ tx'[b] = tx[b]
      BY <2>2 DEF TypeOK, Move
    <3>2. Stage(b, pc[b])' = Stage(b, pc[b])
      BY <3>1 DEF Stage
    <3>3. QED BY <1>3, <3>1, <3>2 DEF TypeOK
  <2>3. QED BY <2>1, <2>2
<1>4. QED BY <1>2, <1>3 DEF StageInv

\* Failing keeps the types.
LEMMA FailType ==
  ASSUME TypeOK, NEW a \in Attempts, NEW adrift \in SUBSET Txs,
         FailWith(a, adrift), work' = work
  PROVE  /\ pc' \in [Attempts -> Places]
         /\ tx' \in [Attempts -> [Txs -> Statuses]]
         /\ StageInv'
         /\ late' \subseteq Attempts \X (1..MaxDeliveries) \X Txs
         /\ UNCHANGED <<skipped, delivery>>
<1>1. Move(a, "failed") /\ "failed" \in Places
  BY DEF FailWith, Places
<1>2. late' \subseteq Attempts \X (1..MaxDeliveries) \X Txs
  BY DEF FailWith, TypeOK
<1>3. QED BY <1>1, <1>2, MoveType DEF FailWith

\* Marking a transaction of the current stage keeps the types.
LEMMA MarkType ==
  ASSUME TypeOK, NEW a \in Attempts, NEW t \in Stage(a, pc[a]),
         NEW status \in Statuses, tx' = [tx EXCEPT ![a][t] = status],
         UNCHANGED <<pc, work>>
  PROVE  /\ tx' \in [Attempts -> [Txs -> Statuses]]
         /\ StageInv'
<1>1. t \in Txs
  BY StageType
<1>2. tx' = [tx EXCEPT ![a] = [tx[a] EXCEPT ![t] = status]]
  OBVIOUS
<1>3. tx' \in [Attempts -> [Txs -> Statuses]]
  BY <1>1, <1>2 DEF TypeOK, Statuses
<1>4. ASSUME NEW b \in Attempts, NEW u \in Txs, (u \notin Stage(b, pc[b]))'
      PROVE  tx'[b][u] = "unsent"
  <2>1. u \notin Stage(b, pc[b])
    BY <1>4 DEF Stage
  <2>2. tx[b][u] = "unsent"
    BY <2>1 DEF TypeOK
  <2>3. tx'[b][u] = tx[b][u]
    BY <1>1, <1>2, <2>1 DEF TypeOK
  <2>4. QED BY <2>2, <2>3
<1>5. QED BY <1>3, <1>4 DEF StageInv

\* What lands keeps the types of the chain.
LEMMA ApplyType ==
  ASSUME TypeOK, NEW a \in Attempts, NEW t \in Txs, Apply(a, t)
  PROVE  /\ sessions' \subseteq Roots
         /\ verified' \in [Roots -> SUBSET Signers]
         /\ done' \subseteq Items
         /\ paid' \in [Attempts -> Nat]
<1>1. work[a].root \in Roots
  BY DEF TypeOK, Roots
<1>2. sessions' \subseteq Roots /\ done' \subseteq Items
  BY <1>1 DEF TypeOK, Apply
<1>3. verified' \in [Roots -> SUBSET Signers]
  BY <1>1 DEF TypeOK, Apply
<1>4. paid' \in [Attempts -> Nat]
  BY DEF TypeOK, Apply
<1>5. QED BY <1>2, <1>3, <1>4

\* Every step keeps the types.
LEMMA TypeStep ==
  ASSUME TypeOK, [Next]_vars
  PROVE  TypeOK'
<1>0. CASE UNCHANGED vars
  BY <1>0 DEF TypeOK, vars, Stage
<1> SUFFICES ASSUME Next PROVE TypeOK'
  BY <1>0
<1>w. work' = work
  BY DEF Next
<1>f. \A a \in Attempts : InFlight(a) \in SUBSET Txs
  BY DEF InFlight
<1>1. ASSUME NEW a \in Attempts, Begin(a) PROVE TypeOK'
  <2>1. CASE Fail(a) /\ faulted' = TRUE
    BY <1>1, <1>w, <1>f, <2>1, FailType
       DEF Begin, Fail, TypeOK, chain, Places, Statuses, StageInv
  <2>2. CASE /\ Move(a, IF work[a].kind = "refund" THEN "refund" ELSE "init")
             /\ UNCHANGED <<late, skipped, delivery, faulted>>
    <3> DEFINE at == IF work[a].kind = "refund" THEN "refund" ELSE "init"
    <3>1. at \in Places /\ Move(a, at)
      BY <2>2 DEF Places
    <3> HIDE DEF at
    <3>2. QED BY <1>1, <1>w, <2>2, <3>1, MoveType
              DEF Begin, TypeOK, chain, Places, Statuses, StageInv
  <2>3. QED BY <1>1, <2>1, <2>2 DEF Begin
<1>2. ASSUME NEW a \in Attempts, Advance(a) PROVE TypeOK'
  <2>1. Following[pc[a]] \in Places
    BY <1>2 DEF Advance, Following, Places
  <2>2. QED BY <1>2, <1>w, <2>1, MoveType
            DEF Advance, TypeOK, chain, Places, Statuses, StageInv
<1>3. ASSUME NEW a \in Attempts, NEW t \in Txs, Skip(a, t) PROVE TypeOK'
  <2>1. skipped' \in [Attempts -> SUBSET Txs]
    BY <1>3 DEF Skip, TypeOK
  <2>2. "ok" \in Statuses
    BY DEF Statuses
  <2>3. QED BY <1>3, <1>w, <2>1, <2>2, MarkType
            DEF Skip, TypeOK, chain, Places, Statuses, StageInv
<1>4. ASSUME NEW a \in Attempts, NEW t \in Txs, Simulate(a, t) PROVE TypeOK'
  <2>1. CASE Fail(a) /\ faulted' \in BOOLEAN
    BY <1>4, <1>w, <1>f, <2>1, FailType
       DEF Simulate, Fail, TypeOK, chain, Places, Statuses, StageInv
  <2>2. CASE (Mark(a, t, "sent") \/ Mark(a, t, "ok")) /\ UNCHANGED faulted
    <3>1. "sent" \in Statuses /\ "ok" \in Statuses
      BY DEF Statuses
    <3>2. QED BY <1>4, <1>w, <2>2, <3>1, MarkType
              DEF Simulate, Mark, TypeOK, chain, Places, Statuses, StageInv
  <2>3. QED BY <1>4, <2>1, <2>2 DEF Simulate, TypeOK
<1>5. ASSUME NEW a \in Attempts, NEW t \in Txs, Land(a, t) PROVE TypeOK'
  <2>1. CASE Fail(a) /\ UNCHANGED chain
    BY <1>5, <1>w, <1>f, <2>1, FailType
       DEF Land, Fail, TypeOK, chain, Places, Statuses, StageInv
  <2>2. CASE Apply(a, t) /\ Mark(a, t, "ok")
    <3>1. t \in Stage(a, pc[a])
      BY <1>5, InStage DEF Land
    <3>2. "ok" \in Statuses
      BY DEF Statuses
    <3>3. QED BY <1>5, <1>w, <2>2, <3>1, <3>2, MarkType, ApplyType
              DEF Land, Mark, TypeOK, Places, Statuses, StageInv
  <2>3. QED BY <1>5, <2>1, <2>2 DEF Land
<1>6. ASSUME NEW a \in Attempts, NEW t \in Txs, GiveUp(a, t) PROVE TypeOK'
  <2>1. CASE Fail(a) /\ UNCHANGED chain
    BY <1>6, <1>w, <1>f, <2>1, FailType
       DEF GiveUp, Fail, TypeOK, chain, Places, Statuses, StageInv
  <2>2. CASE FailWith(a, InFlight(a) \ {t}) /\ Apply(a, t)
    <3>1. InFlight(a) \ {t} \in SUBSET Txs
      BY <1>f
    <3>2. QED BY <1>6, <1>w, <2>2, <3>1, FailType, ApplyType
              DEF GiveUp, TypeOK, Places, Statuses, StageInv
  <2>3. QED BY <1>6, <2>1, <2>2 DEF GiveUp
<1>7. ASSUME NEW l \in late, Settle(l) PROVE TypeOK'
  <2>1. l[1] \in Attempts /\ l[3] \in Txs
    BY DEF TypeOK
  <2>2. CASE LandLate(l[1], l[3])
    BY <1>7, <1>w, <2>1, <2>2, ApplyType DEF Settle, LandLate, TypeOK, Stage
  <2>3. CASE UNCHANGED <<chain, pc, tx, skipped, delivery, faulted>>
    BY <1>7, <1>w, <2>3 DEF Settle, TypeOK, chain, Stage
  <2>4. QED BY <1>7, <2>2, <2>3 DEF Settle
<1>8. CASE Crash
  <2>1. PICK stored \in 0..TaskCount :
          LET again == {a \in Attempts : a > stored}
          IN /\ \A a \in again : delivery[a] < MaxDeliveries
             /\ late' = late \cup UNION {{<<a, delivery[a], t>> : t \in InFlight(a)} :
                                           a \in again}
             /\ pc' = [a \in Attempts |-> IF a \in again THEN "new" ELSE pc[a]]
             /\ tx' = [a \in Attempts |-> IF a \in again THEN Unsent ELSE tx[a]]
             /\ skipped' = [a \in Attempts |->
                              IF a \in again THEN {} ELSE skipped[a]]
             /\ delivery' = [a \in Attempts |->
                               delivery[a] + (IF a \in again THEN 1 ELSE 0)]
    BY <1>8 DEF Crash
  <2> DEFINE again == {a \in Attempts : a > stored}
  <2>2. late' \subseteq Attempts \X (1..MaxDeliveries) \X Txs
    BY <2>1, <1>f DEF TypeOK
  <2>3. /\ pc' \in [Attempts -> Places]
        /\ tx' \in [Attempts -> [Txs -> Statuses]]
        /\ skipped' \in [Attempts -> SUBSET Txs]
    BY <2>1 DEF TypeOK, Unsent, Places, Statuses, StageInv
  <2>4. delivery' \in [Attempts -> 1..MaxDeliveries]
    <3>1. MaxDeliveries \in Nat
      BY GatewayAssumption
    <3>2. QED BY <2>1, <3>1 DEF TypeOK
  <2>5. ASSUME NEW a \in Attempts, NEW t \in Txs, (t \notin Stage(a, pc[a]))'
        PROVE  tx'[a][t] = "unsent"
    <3>1. CASE a \in again
      BY <2>1, <3>1 DEF Unsent
    <3>2. CASE a \notin again
      <4>1. pc'[a] = pc[a] /\ tx'[a] = tx[a]
        BY <2>1, <3>2
      <4>2. t \notin Stage(a, pc[a])
        BY <1>w, <2>5, <4>1 DEF Stage
      <4>3. QED BY <4>1, <4>2 DEF TypeOK
    <3>3. QED BY <3>1, <3>2
  <2>6. UNCHANGED chain /\ faulted' \in BOOLEAN
    BY <1>8 DEF Crash, TypeOK
  <2>7. QED BY <1>w, <2>2, <2>3, <2>4, <2>5, <2>6
            DEF TypeOK, chain, Places, Statuses, StageInv
<1>9. QED BY <1>1, <1>2, <1>3, <1>4, <1>5, <1>6, <1>7, <1>8 DEF Next, TaskStep

\* The initial states have the types.
LEMMA TypeInit == Init => TypeOK
<1> SUFFICES ASSUME Init PROVE TypeOK
  OBVIOUS
<1>1. MaxDeliveries \in Nat \ {0}
  BY GatewayAssumption
<1>2. [a \in Attempts |-> 1] \in [Attempts -> 1..MaxDeliveries]
  BY <1>1
<1>3. QED BY <1>2 DEF Init, TypeOK, Unsent

\* The state is well typed, and transactions belong to their task's stage.
THEOREM TypeCorrect == Spec => []TypeOK
<1>1. QED BY TypeInit, TypeStep, PTL DEF Spec

-----------------------------------------------------------------------------
\* The chain only grows.
LEMMA ApplyGrows ==
  ASSUME TypeOK, NEW a \in Attempts, NEW t \in Txs, Apply(a, t)
  PROVE  /\ done \subseteq done'
         /\ \A b \in Attempts : paid'[b] \in Nat /\ paid'[b] >= paid[b]
         /\ t \in Items => t \in done'
         /\ t = "refund" => paid'[a] > 0
<1>1. paid \in [Attempts -> Nat]
  BY DEF TypeOK
<1>2. QED BY <1>1 DEF Apply

\* A task that does not move loses nothing.
LEMMA DoneKept ==
  ASSUME TypeOK, DoneInv, work' = work, NEW b \in Attempts,
         pc'[b] = pc[b], tx'[b] = tx[b], skipped'[b] = skipped[b],
         done \subseteq done', paid'[b] \in Nat, paid'[b] >= paid[b]
  PROVE  Done(b)'
<1>1. paid[b] \in Nat /\ Done(b)
  BY DEF TypeOK, DoneInv
<1>2. paid[b] > 0 => paid'[b] > 0
  BY <1>1
<1>3. QED BY <1>1, <1>2 DEF Done

\* Neither does one that fails.
LEMMA DoneFail ==
  ASSUME TypeOK, DoneInv, work' = work, NEW a \in Attempts, NEW adrift,
         FailWith(a, adrift), done \subseteq done',
         \A b \in Attempts : paid'[b] \in Nat /\ paid'[b] >= paid[b]
  PROVE  DoneInv'
<1>1. ASSUME NEW b \in Attempts PROVE Done(b)'
  <2>1. CASE b = a
    BY <2>1 DEF FailWith, Move, TypeOK, Done
  <2>2. CASE b # a
    <3>1. pc'[b] = pc[b] /\ tx'[b] = tx[b] /\ skipped'[b] = skipped[b]
      BY <2>2 DEF FailWith, Move, TypeOK
    <3>2. QED BY <3>1, DoneKept
  <2>3. QED BY <2>1, <2>2
<1>2. QED BY <1>1 DEF DoneInv

\* A transaction marked `ok' had its effect, or was skipped.
LEMMA DoneMark ==
  ASSUME TypeOK, DoneInv, work' = work, NEW a \in Attempts,
         NEW t \in Stage(a, pc[a]), NEW status \in {"sent", "ok"},
         tx' = [tx EXCEPT ![a][t] = status], UNCHANGED pc,
         skipped' = skipped \/ skipped' = [skipped EXCEPT ![a] = @ \cup {t}],
         done \subseteq done',
         \A b \in Attempts : paid'[b] \in Nat /\ paid'[b] >= paid[b],
         status = "ok" /\ pc[a] = "items" => t \in done' \cup skipped'[a],
         status = "ok" /\ pc[a] = "refund" => paid'[a] > 0
  PROVE  DoneInv'
<1>1. t \in Txs
  BY StageType
<1>2. ASSUME NEW b \in Attempts, b # a PROVE Done(b)'
  <2>1. tx'[b] = tx[b] /\ skipped'[b] = skipped[b]
    BY <1>2 DEF TypeOK
  <2>2. QED BY <2>1, DoneKept
<1>3. Done(a)'
  <2>1. Done(a) /\ paid[a] \in Nat /\ paid'[a] >= paid[a]
    BY DEF DoneInv, TypeOK
  <2>2. skipped[a] \subseteq skipped'[a]
    BY DEF TypeOK
  <2>3. \A u \in Txs : tx'[a][u] = IF u = t THEN status ELSE tx[a][u]
    BY <1>1 DEF TypeOK
  <2>4. pc[a] = "items" => t \in work[a].items /\ work[a].items \subseteq Txs
    BY StageType DEF Stage
  <2>5. "refund" \in Txs /\ (pc[a] = "refund" => t = "refund")
    BY DEF Stage, Txs
  <2>6. pc[a] # "ok"
    BY DEF Stage
  <2>7. QED BY <2>1, <2>2, <2>3, <2>4, <2>5, <2>6 DEF Done
<1>4. QED BY <1>2, <1>3 DEF DoneInv

\* A refusal the relayer proceeds on means that the transaction was superfluous.
LEMMA ProceedIsDone ==
  ASSUME TypeOK, NEW a \in Attempts, NEW t \in Stage(a, pc[a]),
         ~Valid(a, t), RefusalOf(a, t) \in Proceed
  PROVE  (pc[a] = "items" => t \in done) /\ pc[a] # "refund"
<1>1. CASE pc[a] = "items"
  <2>1. t \in Items
    BY <1>1 DEF TypeOK, Stage, Items
  <2>2. t # "init" /\ t \notin Signers
    BY <2>1, GatewayAssumption
  <2>3. "refused" \notin Proceed
    BY GatewayAssumption
  <2>4. t \in done
    BY <2>1, <2>2, <2>3 DEF RefusalOf
  <2>5. QED BY <1>1, <2>4
<1>2. CASE pc[a] = "refund"
  <2>1. t = "refund"
    BY <1>2 DEF Stage
  <2>2. t # "init" /\ t \notin Signers /\ t \notin Items
    BY <2>1, GatewayAssumption
  <2>3. QED BY <2>2 DEF Valid
<1>3. QED BY <1>1, <1>2

\* Every step keeps DoneInv.
LEMMA DoneStep ==
  ASSUME TypeOK, DoneInv, [Next]_vars
  PROVE  DoneInv'
<1>p. paid \in [Attempts -> Nat]
  BY DEF TypeOK
<1>0. CASE UNCHANGED vars
  BY <1>0, <1>p, DoneKept DEF DoneInv, vars
<1> SUFFICES ASSUME Next PROVE DoneInv'
  BY <1>0
<1>w. work' = work
  BY DEF Next
<1>c. UNCHANGED chain =>
        /\ done \subseteq done'
        /\ \A b \in Attempts : paid'[b] \in Nat /\ paid'[b] >= paid[b]
  BY <1>p DEF chain
<1>1. ASSUME NEW a \in Attempts, Begin(a) PROVE DoneInv'
  <2>1. CASE Fail(a)
    BY <1>1, <1>w, <1>c, <2>1, DoneFail DEF Begin, Fail
  <2>2. CASE /\ Move(a, IF work[a].kind = "refund" THEN "refund" ELSE "init")
             /\ UNCHANGED <<late, skipped, delivery, faulted>>
    <3>1. ASSUME NEW b \in Attempts, b # a PROVE Done(b)'
      <4>1. pc'[b] = pc[b] /\ tx'[b] = tx[b] /\ skipped'[b] = skipped[b]
        BY <2>2, <3>1 DEF Move, TypeOK
      <4>2. QED BY <1>1, <1>w, <1>c, <4>1, DoneKept DEF Begin
    <3>2. Done(a)'
      <4>1. /\ pc'[a] = IF work[a].kind = "refund" THEN "refund" ELSE "init"
            /\ tx'[a] = Unsent
        BY <2>2 DEF Move, TypeOK
      <4>2. tx'[a]["refund"] = "unsent"
        BY <4>1 DEF Unsent, Txs
      <4>3. QED BY <1>w, <4>1, <4>2 DEF Done
    <3>3. QED BY <3>1, <3>2 DEF DoneInv
  <2>3. QED BY <1>1, <2>1, <2>2 DEF Begin
<1>2. ASSUME NEW a \in Attempts, Advance(a) PROVE DoneInv'
  <2>1. ASSUME NEW b \in Attempts, b # a PROVE Done(b)'
    <3>1. pc'[b] = pc[b] /\ tx'[b] = tx[b] /\ skipped'[b] = skipped[b]
      BY <1>2, <2>1 DEF Advance, Move, TypeOK
    <3>2. QED BY <1>2, <1>w, <1>c, <3>1, DoneKept DEF Advance
  <2>2. Done(a)'
    <3>1. Done(a) /\ UNCHANGED <<chain, skipped>>
      BY <1>2 DEF Advance, DoneInv
    <3>2. pc[a] \in {"init", "verify", "items", "refund"}
      BY <1>2 DEF Advance, Following
    <3>3. pc'[a] = Following[pc[a]] /\ tx'[a] = Unsent
      BY <1>2 DEF Advance, Move, TypeOK
    <3>4. \A t \in Stage(a, pc[a]) : tx[a][t] = "ok"
      BY <1>2 DEF Advance
    <3>5. CASE pc[a] \in {"init", "verify"}
      <4>1. \A t \in work[a].items : t \in Txs
        BY DEF TypeOK, Txs, Items
      <4>2. \A t \in work[a].items : tx'[a][t] = "unsent"
        BY <3>3, <4>1 DEF Unsent
      <4>3. pc'[a] \in {"verify", "items"}
        BY <3>3, <3>5 DEF Following
      <4>4. QED BY <1>w, <3>1, <3>5, <4>2, <4>3 DEF Done
    <3>6. CASE pc[a] = "items"
      <4>1. work[a].items \subseteq done \cup skipped[a]
        BY <3>1, <3>4, <3>6 DEF Stage, Done
      <4>2. pc'[a] = "ok"
        BY <3>3, <3>6 DEF Following
      <4>3. QED BY <1>w, <3>1, <3>6, <4>1, <4>2 DEF Done, chain
    <3>7. CASE pc[a] = "refund"
      <4>1. paid[a] > 0
        BY <3>1, <3>4, <3>7 DEF Stage, Done
      <4>2. pc'[a] = "ok"
        BY <3>3, <3>7 DEF Following
      <4>3. QED BY <1>w, <3>1, <3>7, <4>1, <4>2 DEF Done, chain
    <3>8. QED BY <3>2, <3>5, <3>6, <3>7
  <2>3. QED BY <2>1, <2>2 DEF DoneInv
<1>3. ASSUME NEW a \in Attempts, NEW t \in Txs, Skip(a, t) PROVE DoneInv'
  <2>1. t \in skipped'[a]
    BY <1>3 DEF Skip, TypeOK
  <2>2. pc[a] # "refund"
    <3>1. t # "refund"
      BY <1>3, GatewayAssumption DEF Skip
    <3>2. QED BY <1>3, <3>1 DEF Skip, Stage
  <2>3. QED BY <1>3, <1>w, <1>c, <2>1, <2>2, DoneMark DEF Skip
<1>4. ASSUME NEW a \in Attempts, NEW t \in Txs, Simulate(a, t) PROVE DoneInv'
  <2>1. CASE Fail(a)
    BY <1>4, <1>w, <1>c, <2>1, DoneFail DEF Simulate, Fail
  <2>2. CASE Mark(a, t, "sent")
    BY <1>4, <1>w, <1>c, <2>2, DoneMark DEF Simulate, Mark
  <2>3. CASE ~Valid(a, t) /\ RefusalOf(a, t) \in Proceed /\ Mark(a, t, "ok")
    <3>1. (pc[a] = "items" => t \in done) /\ pc[a] # "refund"
      BY <1>4, <2>3, ProceedIsDone DEF Simulate
    <3>2. QED BY <1>4, <1>w, <1>c, <2>3, <3>1, DoneMark DEF Simulate, Mark
  <2>4. QED BY <1>4, <2>1, <2>2, <2>3 DEF Simulate
<1>5. ASSUME NEW a \in Attempts, NEW t \in Txs, Land(a, t) PROVE DoneInv'
  <2>1. CASE Fail(a) /\ UNCHANGED chain
    BY <1>5, <1>w, <1>c, <2>1, DoneFail DEF Fail
  <2>2. CASE Apply(a, t) /\ Mark(a, t, "ok")
    <3>1. t \in Stage(a, pc[a])
      BY <1>5, InStage DEF Land
    <3>2. pc[a] = "items" => t \in Items
      BY <3>1 DEF TypeOK, Stage, Items
    <3>3. pc[a] = "refund" => t = "refund"
      BY <3>1 DEF Stage
    <3>4. QED BY <1>w, <2>2, <3>1, <3>2, <3>3, ApplyGrows, DoneMark DEF Mark
  <2>3. QED BY <1>5, <2>1, <2>2 DEF Land
<1>6. ASSUME NEW a \in Attempts, NEW t \in Txs, GiveUp(a, t) PROVE DoneInv'
  <2>1. CASE Fail(a) /\ UNCHANGED chain
    BY <1>w, <1>c, <2>1, DoneFail DEF Fail
  <2>2. CASE FailWith(a, InFlight(a) \ {t}) /\ Apply(a, t)
    BY <1>w, <2>2, ApplyGrows, DoneFail
  <2>3. QED BY <1>6, <2>1, <2>2 DEF GiveUp
<1>7. ASSUME NEW l \in late, Settle(l) PROVE DoneInv'
  <2>1. l[1] \in Attempts /\ l[3] \in Txs
    BY DEF TypeOK
  <2>2. /\ done \subseteq done'
        /\ \A b \in Attempts : paid'[b] \in Nat /\ paid'[b] >= paid[b]
    BY <1>7, <1>c, <2>1, ApplyGrows DEF Settle, LandLate
  <2>3. UNCHANGED <<pc, tx, skipped>>
    BY <1>7 DEF Settle, LandLate
  <2>4. QED BY <1>w, <2>2, <2>3, DoneKept DEF DoneInv
<1>8. CASE Crash
  <2>1. UNCHANGED chain
    BY <1>8 DEF Crash
  <2>2. ASSUME NEW b \in Attempts
        PROVE  \/ pc'[b] = "new"
               \/ pc'[b] = pc[b] /\ tx'[b] = tx[b] /\ skipped'[b] = skipped[b]
    BY <1>8 DEF Crash
  <2>3. ASSUME NEW b \in Attempts PROVE Done(b)'
    <3>1. CASE pc'[b] = "new"
      BY <3>1 DEF Done
    <3>2. CASE pc'[b] = pc[b] /\ tx'[b] = tx[b] /\ skipped'[b] = skipped[b]
      BY <1>w, <1>c, <2>1, <3>2, DoneKept
    <3>3. QED BY <2>2, <3>1, <3>2
  <2>4. QED BY <2>3 DEF DoneInv
<1>9. QED BY <1>1, <1>2, <1>3, <1>4, <1>5, <1>6, <1>7, <1>8 DEF Next, TaskStep

\* However tasks interleave, repeat and overlap, one that ends without an error
\* has had its whole effect, but for approvals it could not build.
THEOREM SuccessIsTrue == Spec => []SuccessMeansDone
<1>1. Init => TypeOK /\ DoneInv
  BY TypeInit DEF Init, DoneInv, Done
<1>2. TypeOK /\ DoneInv /\ [Next]_vars => (TypeOK /\ DoneInv)'
  BY TypeStep, DoneStep
<1>3. TypeOK /\ DoneInv => SuccessMeansDone
  BY DEF DoneInv, Done, SuccessMeansDone
<1>4. QED BY <1>1, <1>2, <1>3, PTL DEF Spec

-----------------------------------------------------------------------------
\* The refunds of a task on their way are finitely many.
LEMMA AdriftFinite ==
  ASSUME TypeOK, NEW b \in Attempts
  PROVE  /\ IsFiniteSet(Adrift(b)) /\ Cardinality(Adrift(b)) \in Nat
         /\ paid[b] \in Nat /\ delivery[b] \in Nat
         /\ delivery[b] \in 1..MaxDeliveries
<1>1. MaxDeliveries \in Nat
  BY GatewayAssumption
<1>2. IsFiniteSet(1..MaxDeliveries)
  BY <1>1, FS_Interval
<1>3. IsFiniteSet(Adrift(b))
  BY <1>2, FS_Subset DEF Adrift
<1>4. QED BY <1>1, <1>3, FS_CardinalityType DEF TypeOK

\* No refund was paid or sent, and the delivery can pay no more than before.
LEMMA RefundsKept ==
  ASSUME TypeOK, NEW b \in Attempts, Refunds(b),
         paid'[b] = paid[b], delivery'[b] = delivery[b], Adrift(b)' = Adrift(b),
         MayPay(b)' => MayPay(b)
  PROVE  Refunds(b)'
BY AdriftFinite DEF Refunds

\* The delivery stops, with its refund paid or on its way.
LEMMA RefundsSpent ==
  ASSUME TypeOK, NEW b \in Attempts, Refunds(b), MayPay(b), ~MayPay(b)',
         delivery'[b] = delivery[b],
         \/ paid'[b] = paid[b] + 1 /\ Adrift(b)' = Adrift(b)
         \/ paid'[b] = paid[b] /\ Adrift(b)' = Adrift(b) \cup {delivery[b]}
  PROVE  Refunds(b)'
<1>1. \A d \in Adrift(b)' : d <= delivery'[b]
  BY AdriftFinite DEF Refunds
<1>2. Cardinality(Adrift(b) \cup {delivery[b]}) = Cardinality(Adrift(b)) + 1
  BY AdriftFinite, FS_AddElement DEF Refunds
<1>3. paid'[b] + Cardinality(Adrift(b)') <= delivery'[b]
  BY <1>2, AdriftFinite DEF Refunds
<1>4. paid'[b] \in Nat /\ Cardinality(Adrift(b)') \in Nat
  BY <1>2, AdriftFinite
<1>5. QED BY <1>1, <1>3, <1>4 DEF Refunds

\* A refund on its way lands, or never does.
LEMMA RefundsSettled ==
  ASSUME TypeOK, NEW b \in Attempts, Refunds(b), MayPay(b)' <=> MayPay(b),
         delivery'[b] = delivery[b], NEW d \in Adrift(b),
         Adrift(b)' = Adrift(b) \ {d}, paid'[b] \in {paid[b], paid[b] + 1}
  PROVE  Refunds(b)'
<1>1. Cardinality(Adrift(b)') = Cardinality(Adrift(b)) - 1
  BY AdriftFinite, FS_RemoveElement
<1>2. QED BY <1>1, AdriftFinite DEF Refunds

\* The task is delivered again, its refund possibly on its way.
LEMMA RefundsAgain ==
  ASSUME TypeOK, NEW b \in Attempts, Refunds(b), delivery'[b] = delivery[b] + 1,
         paid'[b] = paid[b],
         \/ Adrift(b)' = Adrift(b)
         \/ MayPay(b) /\ Adrift(b)' = Adrift(b) \cup {delivery[b]}
  PROVE  Refunds(b)'
<1>1. \A d \in Adrift(b)' : d < delivery'[b]
  BY AdriftFinite DEF Refunds, Adrift
<1>2. paid'[b] + Cardinality(Adrift(b)') + 1 <= delivery'[b]
  <2>1. CASE Adrift(b)' = Adrift(b)
    BY <2>1, AdriftFinite DEF Refunds
  <2>2. CASE MayPay(b) /\ Adrift(b)' = Adrift(b) \cup {delivery[b]}
    <3>1. Cardinality(Adrift(b)') = Cardinality(Adrift(b)) + 1
      BY <2>2, AdriftFinite, FS_AddElement DEF Refunds
    <3>2. QED BY <2>2, <3>1, AdriftFinite DEF Refunds
  <2>3. QED BY <2>1, <2>2
<1>3. Cardinality(Adrift(b)') \in Nat
  <2>1. Cardinality(Adrift(b) \cup {delivery[b]}) \in Nat
    <3>1. IsFiniteSet(Adrift(b) \cup {delivery[b]})
      BY AdriftFinite, FS_AddElement
    <3>2. QED BY <3>1, FS_CardinalityType
  <2>2. QED BY <2>1, AdriftFinite
<1>4. paid'[b] \in Nat /\ delivery'[b] \in Nat
  BY AdriftFinite
<1>5. delivery'[b] \notin Adrift(b)'
  BY <1>1, <1>4
<1>6. \A d \in Adrift(b)' : d <= delivery'[b]
  BY <1>1, <1>4 DEF Adrift
<1>7. paid'[b] + Cardinality(Adrift(b)') + (IF MayPay(b)' THEN 1 ELSE 0) <= delivery'[b]
  BY <1>2, <1>3, <1>4
<1>8. QED BY <1>5, <1>6, <1>7 DEF Refunds

\* A transaction sent by a task that fails is on its way without a sender.
LEMMA RefundsFail ==
  ASSUME TypeOK, RefundInv, NEW a \in Attempts, NEW adrift \in SUBSET InFlight(a),
         FailWith(a, adrift),
         \A b \in Attempts \ {a} : paid'[b] = paid[b],
         \/ paid'[a] = paid[a]
         \/ paid'[a] = paid[a] + 1 /\ "refund" \in InFlight(a) \ adrift
  PROVE  RefundInv'
<1>1. ASSUME NEW b \in Attempts, b # a PROVE Refunds(b)'
  <2>1. pc'[b] = pc[b] /\ tx'[b] = tx[b] /\ delivery'[b] = delivery[b]
    BY <1>1 DEF FailWith, Move, TypeOK
  <2>2. Adrift(b)' = Adrift(b)
    BY <1>1 DEF FailWith, Adrift
  <2>3. QED BY <1>1, <2>1, <2>2, RefundsKept DEF RefundInv, MayPay
<1>2. Refunds(a)'
  <2>1. ~MayPay(a)' /\ delivery'[a] = delivery[a]
    BY DEF FailWith, Move, TypeOK, MayPay
  <2>2. Adrift(a)' = Adrift(a) \cup (IF "refund" \in adrift THEN {delivery[a]} ELSE {})
    BY AdriftFinite DEF FailWith, Adrift
  <2>3. "refund" \in InFlight(a) => MayPay(a)
    <3>1. "refund" \in InFlight(a) => "refund" \in Stage(a, pc[a])
      BY InStage DEF InFlight
    <3>2. "refund" \notin work[a].signers \cup work[a].items
      BY GatewayAssumption DEF TypeOK, Signers, Items
    <3>3. QED BY <3>1, <3>2 DEF InFlight, MayPay, Stage
  <2>4. CASE "refund" \in adrift
    BY <2>1, <2>2, <2>3, <2>4, RefundsSpent DEF RefundInv
  <2>5. CASE "refund" \notin adrift /\ paid'[a] = paid[a]
    BY <2>1, <2>2, <2>5, RefundsKept DEF RefundInv
  <2>6. CASE "refund" \in InFlight(a) \ adrift /\ paid'[a] = paid[a] + 1
    BY <2>1, <2>2, <2>3, <2>6, RefundsSpent DEF RefundInv
  <2>7. QED BY <2>4, <2>5, <2>6
<1>3. QED BY <1>1, <1>2 DEF RefundInv

\* Marking a transaction pays nothing, or pays the refund that is marked.
LEMMA RefundsMark ==
  ASSUME TypeOK, RefundInv, NEW a \in Attempts, NEW t \in Txs,
         NEW status \in {"sent", "ok"}, tx[a][t] # "ok",
         tx' = [tx EXCEPT ![a][t] = status], UNCHANGED <<pc, late, delivery>>,
         \A b \in Attempts \ {a} : paid'[b] = paid[b],
         \/ paid'[a] = paid[a]
         \/ /\ paid'[a] = paid[a] + 1
            /\ t = "refund" /\ status = "ok" /\ pc[a] = "refund"
  PROVE  RefundInv'
<1>0. \A b \in Attempts : Adrift(b)' = Adrift(b)
  BY DEF Adrift
<1>1. ASSUME NEW b \in Attempts, b # a PROVE Refunds(b)'
  <2>1. tx'[b] = tx[b]
    BY <1>1 DEF TypeOK
  <2>2. QED BY <1>0, <1>1, <2>1, RefundsKept DEF RefundInv, MayPay
<1>2. Refunds(a)'
  <2>1. "refund" \in Txs
    BY DEF Txs
  <2>2. tx'[a]["refund"] = IF t = "refund" THEN status ELSE tx[a]["refund"]
    BY <2>1 DEF TypeOK
  <2>3. MayPay(a)' => MayPay(a)
    BY <2>2 DEF MayPay
  <2>4. CASE paid'[a] = paid[a]
    BY <1>0, <2>3, <2>4, RefundsKept DEF RefundInv
  <2>5. CASE /\ paid'[a] = paid[a] + 1
             /\ t = "refund" /\ status = "ok" /\ pc[a] = "refund"
    <3>1. MayPay(a) /\ ~MayPay(a)'
      BY <2>2, <2>5 DEF MayPay
    <3>2. QED BY <1>0, <2>5, <3>1, RefundsSpent DEF RefundInv
  <2>6. QED BY <2>4, <2>5
<1>3. QED BY <1>1, <1>2 DEF RefundInv

\* What lands pays at most the refund it is.
LEMMA ApplyPays ==
  ASSUME TypeOK, NEW a \in Attempts, NEW t \in Txs, Apply(a, t)
  PROVE  /\ \A b \in Attempts \ {a} : paid'[b] = paid[b]
         /\ paid'[a] = paid[a] + (IF t = "refund" THEN 1 ELSE 0)
BY DEF TypeOK, Apply

\* Every step keeps RefundInv.
LEMMA RefundStep ==
  ASSUME TypeOK, RefundInv, [Next]_vars
  PROVE  RefundInv'
<1>p. paid \in [Attempts -> Nat] /\ delivery \in [Attempts -> 1..MaxDeliveries]
  BY DEF TypeOK
<1>0. CASE UNCHANGED vars
  BY <1>0 DEF RefundInv, Refunds, Adrift, MayPay, vars
<1> SUFFICES ASSUME Next PROVE RefundInv'
  BY <1>0
<1>f. \A a \in Attempts : Fail(a) /\ UNCHANGED chain => RefundInv'
  BY RefundsFail DEF Fail, chain
<1>1. ASSUME NEW a \in Attempts, Begin(a) PROVE RefundInv'
  <2>1. CASE Fail(a)
    BY <1>1, <1>f, <2>1 DEF Begin
  <2>2. CASE /\ Move(a, IF work[a].kind = "refund" THEN "refund" ELSE "init")
             /\ UNCHANGED <<late, skipped, delivery, faulted>>
    <3>1. ASSUME NEW b \in Attempts PROVE Refunds(b)'
      <4>1. MayPay(b)' => MayPay(b)
        BY <1>1, <2>2 DEF Begin, Move, MayPay, TypeOK
      <4>2. paid' = paid /\ Adrift(b)' = Adrift(b)
        BY <1>1, <2>2 DEF Begin, chain, Adrift
      <4>3. QED BY <2>2, <4>1, <4>2, RefundsKept DEF RefundInv
    <3>2. QED BY <3>1 DEF RefundInv
  <2>3. QED BY <1>1, <2>1, <2>2 DEF Begin
<1>2. ASSUME NEW a \in Attempts, Advance(a) PROVE RefundInv'
  <2>1. ASSUME NEW b \in Attempts PROVE Refunds(b)'
    <3>1. MayPay(b)' => MayPay(b)
      BY <1>2 DEF Advance, Following, Move, MayPay, TypeOK
    <3>2. paid' = paid /\ Adrift(b)' = Adrift(b)
      BY <1>2 DEF Advance, chain, Adrift
    <3>3. QED BY <1>2, <3>1, <3>2, RefundsKept DEF RefundInv, Advance
  <2>2. QED BY <2>1 DEF RefundInv
<1>3. ASSUME NEW a \in Attempts, NEW t \in Txs, Skip(a, t) PROVE RefundInv'
  BY <1>3, RefundsMark DEF Skip, chain
<1>4. ASSUME NEW a \in Attempts, NEW t \in Txs, Simulate(a, t) PROVE RefundInv'
  <2>1. CASE Fail(a)
    BY <1>4, <1>f, <2>1 DEF Simulate
  <2>2. CASE Mark(a, t, "sent") \/ Mark(a, t, "ok")
    BY <1>4, <2>2, RefundsMark DEF Simulate, Mark, chain
  <2>3. QED BY <1>4, <2>1, <2>2 DEF Simulate
<1>5. ASSUME NEW a \in Attempts, NEW t \in Txs, Land(a, t) PROVE RefundInv'
  <2>1. CASE Fail(a) /\ UNCHANGED chain
    BY <1>f, <2>1
  <2>2. CASE Apply(a, t) /\ Mark(a, t, "ok")
    <3>1. t \in Stage(a, pc[a])
      BY <1>5, InStage DEF Land
    <3>2. t = "refund" => pc[a] = "refund"
      <4>1. "refund" \notin work[a].signers \cup work[a].items
        BY GatewayAssumption DEF TypeOK, Signers, Items
      <4>2. "refund" \in Stage(a, pc[a]) => pc[a] = "refund"
        BY <4>1 DEF Stage
      <4>3. QED BY <3>1, <4>2
    <3>3. \/ paid'[a] = paid[a]
          \/ paid'[a] = paid[a] + 1 /\ t = "refund" /\ pc[a] = "refund"
      BY <1>p, <2>2, <3>2, ApplyPays
    <3>4. \A b \in Attempts \ {a} : paid'[b] = paid[b]
      BY <2>2, ApplyPays
    <3>5. tx[a][t] # "ok"
      BY <1>5 DEF Land
    <3>6. QED BY <2>2, <3>3, <3>4, <3>5, RefundsMark DEF Mark
  <2>3. QED BY <1>5, <2>1, <2>2 DEF Land
<1>6. ASSUME NEW a \in Attempts, NEW t \in Txs, GiveUp(a, t) PROVE RefundInv'
  <2>1. CASE Fail(a) /\ UNCHANGED chain
    BY <1>f, <2>1
  <2>2. CASE FailWith(a, InFlight(a) \ {t}) /\ Apply(a, t)
    <3>1. t \in InFlight(a)
      BY <1>6 DEF GiveUp, InFlight
    <3>2. QED BY <1>p, <2>2, <3>1, ApplyPays, RefundsFail
  <2>3. QED BY <1>6, <2>1, <2>2 DEF GiveUp
<1>7. ASSUME NEW l \in late, Settle(l) PROVE RefundInv'
  <2>0. l \in Attempts \X (1..MaxDeliveries) \X Txs
    BY DEF TypeOK
  <2>1. l[1] \in Attempts /\ l[2] \in 1..MaxDeliveries /\ l[3] \in Txs
        /\ l = <<l[1], l[2], l[3]>>
    BY <2>0
  <2>2. UNCHANGED <<pc, tx, delivery>> /\ late' = late \ {l}
    BY <1>7 DEF Settle, LandLate
  <2>3. \A b \in Attempts : MayPay(b)' <=> MayPay(b)
    BY <2>2 DEF MayPay
  <2>4. /\ \A b \in Attempts \ {l[1]} : paid'[b] = paid[b]
        /\ \/ paid'[l[1]] = paid[l[1]]
           \/ l[3] = "refund" /\ paid'[l[1]] = paid[l[1]] + 1
    BY <1>7, <1>p, <2>1, ApplyPays DEF Settle, LandLate, chain
  <2>5. ASSUME NEW b \in Attempts PROVE Refunds(b)'
    <3>1. CASE b = l[1] /\ l[3] = "refund"
      <4>1. Adrift(b)' = Adrift(b) \ {l[2]} /\ l[2] \in Adrift(b)
        BY <2>1, <2>2, <3>1 DEF Adrift
      <4>2. QED BY <2>2, <2>3, <2>4, <3>1, <4>1, RefundsSettled DEF RefundInv
    <3>2. CASE ~(b = l[1] /\ l[3] = "refund")
      <4>1. Adrift(b)' = Adrift(b)
        BY <2>1, <2>2, <3>2 DEF Adrift
      <4>2. QED BY <2>2, <2>3, <2>4, <3>2, <4>1, RefundsKept DEF RefundInv
    <3>3. QED BY <3>1, <3>2
  <2>6. QED BY <2>5 DEF RefundInv
<1>8. CASE Crash
  <2>1. PICK stored \in 0..TaskCount :
          LET again == {a \in Attempts : a > stored}
          IN /\ late' = late \cup UNION {{<<a, delivery[a], t>> : t \in InFlight(a)} :
                                           a \in again}
             /\ pc' = [a \in Attempts |-> IF a \in again THEN "new" ELSE pc[a]]
             /\ tx' = [a \in Attempts |-> IF a \in again THEN Unsent ELSE tx[a]]
             /\ delivery' = [a \in Attempts |->
                               delivery[a] + (IF a \in again THEN 1 ELSE 0)]
    BY <1>8 DEF Crash
  <2> DEFINE again == {a \in Attempts : a > stored}
  <2>2. paid' = paid
    BY <1>8 DEF Crash, chain
  <2>3. ASSUME NEW b \in Attempts PROVE Refunds(b)'
    <3>1. CASE b \in again
      <4>1. delivery'[b] = delivery[b] + 1
        BY <2>1, <3>1
      <4>2. Adrift(b)' = Adrift(b) \cup
              (IF "refund" \in InFlight(b) THEN {delivery[b]} ELSE {})
        <5>1. ASSUME NEW d \in 1..MaxDeliveries
              PROVE  <<b, d, "refund">> \in late' <=>
                       \/ <<b, d, "refund">> \in late
                       \/ d = delivery[b] /\ "refund" \in InFlight(b)
          BY <2>1, <3>1
        <5>2. QED BY <5>1, AdriftFinite DEF Adrift
      <4>3. "refund" \in InFlight(b) => MayPay(b)
        <5>1. "refund" \in InFlight(b) => "refund" \in Stage(b, pc[b])
          BY InStage DEF InFlight
        <5>2. "refund" \notin work[b].signers \cup work[b].items
          BY GatewayAssumption DEF TypeOK, Signers, Items
        <5>3. QED BY <5>1, <5>2 DEF InFlight, MayPay, Stage
      <4>4. QED BY <2>2, <4>1, <4>2, <4>3, RefundsAgain DEF RefundInv
    <3>2. CASE b \notin again
      <4>1. pc'[b] = pc[b] /\ tx'[b] = tx[b] /\ delivery'[b] = delivery[b]
        BY <1>p, <2>1, <3>2
      <4>2. Adrift(b)' = Adrift(b)
        BY <2>1, <3>2 DEF Adrift
      <4>3. QED BY <2>2, <4>1, <4>2, RefundsKept DEF RefundInv, MayPay
    <3>3. QED BY <3>1, <3>2
  <2>4. QED BY <2>3 DEF RefundInv
<1>9. QED BY <1>1, <1>2, <1>3, <1>4, <1>5, <1>6, <1>7, <1>8 DEF Next, TaskStep

\* At first nothing was paid or sent.
LEMMA RefundStart == Init => RefundInv
<1> SUFFICES ASSUME Init, NEW a \in Attempts PROVE Refunds(a)
  BY DEF RefundInv
<1>1. Adrift(a) = {}
  BY DEF Init, Adrift
<1>2. QED BY <1>1, FS_EmptySet DEF Init, Refunds

\* A refund is paid at most once for each delivery of its task, also when the
\* node's answer is lost or the process dies with the payment on its way.
THEOREM RefundBounded == Spec => []RefundOncePerDelivery
<1>1. Init => TypeOK /\ RefundInv
  BY TypeInit, RefundStart
<1>2. TypeOK /\ RefundInv /\ [Next]_vars => (TypeOK /\ RefundInv)'
  BY TypeStep, RefundStep
<1>3. TypeOK /\ RefundInv => RefundOncePerDelivery
  <2>1. ASSUME TypeOK, RefundInv, NEW a \in Attempts PROVE paid[a] <= delivery[a]
    BY <2>1, AdriftFinite DEF RefundInv, Refunds
  <2>2. QED BY <2>1 DEF RefundOncePerDelivery
<1>4. QED BY <1>1, <1>2, <1>3, PTL DEF Spec
=============================================================================
