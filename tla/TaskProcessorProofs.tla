------------------------ MODULE TaskProcessorProofs ------------------------
(***************************************************************************)
(* Proofs about TaskProcessor, for every number of tasks.                  *)
(***************************************************************************)
EXTENDS TaskProcessor, TLAPS

\* The task whose result is accepted last, stored or about to be.
Accepted == IF pc = "store" THEN yielded ELSE latest

\* What the process holds is the run of consecutive tasks that follow it: first
\* those in the set, then those on the channel.
OrderInv ==
  /\ pc = "store" => yielded = latest + 1
  /\ pc = "down" => queue = <<>> /\ rxq = <<>>
  /\ pc # "down" =>
       /\ \A k \in 1..Len(queue) : queue[k] = Accepted + k
       /\ \A k \in 1..Len(rxq) : rxq[k] = Accepted + Len(queue) + k
       /\ issued = Accepted + Len(queue) + Len(rxq)

\* Outputs that wait, and results accepted, come from tasks that ran.
RanInv ==
  /\ done \subseteq attempted
  /\ \A i \in 1..Accepted : i \in attempted

\* Who will wake the component, at the end of a poll and before it.
WakeInv ==
  /\ pc = "poll_futures" /\ queue = <<>> =>
       rxEnd \/ woken \/ (rxWaker /\ rxq = <<>>)
  /\ NoLostWakeup

\* The receiver has ended only if the channel is closed and empty.
EndInv ==
  /\ rxEnd => closed /\ rxq = <<>>
  /\ pc = "ended" => rxEnd /\ queue = <<>>
  /\ pc = "down" => ~rxEnd

LoopInv == TypeOK /\ OrderInv /\ RanInv /\ WakeInv /\ EndInv

-----------------------------------------------------------------------------
\* The range of a sequence, its head and the rest.
LEMMA RangeHead ==
  ASSUME NEW S, NEW s \in Seq(S), s # <<>>
  PROVE  /\ Head(s) \in S /\ Head(s) = s[1]
         /\ Tail(s) \in Seq(S)
         /\ Len(s) \in Nat \ {0}
         /\ Len(Tail(s)) = Len(s) - 1
         /\ \A k \in 1..Len(Tail(s)) : Tail(s)[k] = s[k + 1]
         /\ Range(s) = {s[k] : k \in 1..Len(s)}
         /\ Head(s) \in Range(s)
         /\ Range(s) \ {Head(s)} \subseteq Range(Tail(s))
<1>1. /\ Head(s) \in S /\ Head(s) = s[1]
      /\ Tail(s) \in Seq(S)
      /\ Len(s) \in Nat \ {0}
      /\ Len(Tail(s)) = Len(s) - 1
      /\ \A k \in 1..Len(Tail(s)) : Tail(s)[k] = s[k + 1]
      /\ DOMAIN s = 1..Len(s)
      /\ DOMAIN Tail(s) = 1..(Len(s) - 1)
  OBVIOUS
<1>2. Range(s) = {s[k] : k \in 1..Len(s)}
  BY <1>1 DEF Range
<1>3. Head(s) \in Range(s)
  BY <1>1, <1>2
<1>4. ASSUME NEW x \in Range(s), x # Head(s) PROVE x \in Range(Tail(s))
  <2>1. PICK k \in 1..Len(s) : x = s[k]
    BY <1>2
  <2>2. k # 1
    BY <1>1, <1>4, <2>1
  <2>3. k - 1 \in 1..(Len(s) - 1) /\ Tail(s)[k - 1] = x
    BY <1>1, <2>1, <2>2
  <2>4. QED BY <1>1, <2>3 DEF Range
<1>5. QED BY <1>1, <1>2, <1>3, <1>4

\* A pushed element is in the range, which otherwise stays.
LEMMA RangeAppend ==
  ASSUME NEW S, NEW s \in Seq(S), NEW x \in S
  PROVE  /\ Append(s, x) \in Seq(S)
         /\ Len(s) \in Nat
         /\ Len(Append(s, x)) = Len(s) + 1
         /\ \A k \in 1..Len(s) : Append(s, x)[k] = s[k]
         /\ Append(s, x)[Len(s) + 1] = x
         /\ Range(s) \subseteq Range(Append(s, x))
<1>1. /\ Append(s, x) \in Seq(S)
      /\ Len(s) \in Nat
      /\ Len(Append(s, x)) = Len(s) + 1
      /\ \A k \in 1..Len(s) : Append(s, x)[k] = s[k]
      /\ Append(s, x)[Len(s) + 1] = x
      /\ DOMAIN s = 1..Len(s)
      /\ DOMAIN Append(s, x) = 1..(Len(s) + 1)
  OBVIOUS
<1>2. QED BY <1>1 DEF Range

\* Elements of a typed sequence.
LEMMA RangeType ==
  ASSUME NEW S, NEW s \in Seq(S)
  PROVE  Range(s) \subseteq S
BY DEF Range

-----------------------------------------------------------------------------
\* The initial state satisfies the invariant.
LEMMA LoopInit == Init => LoopInv
<1> SUFFICES ASSUME Init PROVE LoopInv
  OBVIOUS
<1>1. TypeOK
  <2>1. 0 \in 0..MaxTask
    BY TaskAssumption
  <2>2. <<>> \in Seq(Tasks)
    OBVIOUS
  <2>3. QED BY <2>1, <2>2 DEF Init, TypeOK, NoTask
<1>2. OrderInv /\ RanInv /\ WakeInv /\ EndInv
  BY DEF Init, OrderInv, RanInv, WakeInv, EndInv, NoLostWakeup, Accepted, NoTask
<1>3. QED BY <1>1, <1>2 DEF LoopInv

\* One poll of the receiver.
LEMMA ReceiverStep ==
  ASSUME LoopInv, PollReceiver
  PROVE  LoopInv'
<1> USE DEF LoopInv
<1>1. CASE rxq # <<>>
  <2>1. /\ queue' = Append(queue, Head(rxq)) /\ rxq' = Tail(rxq)
        /\ pc = "poll_rx" /\ pc' = "poll_futures"
        /\ UNCHANGED <<rxEnd, rxWaker, issued, closed, started, ready, done,
                       yielded, woken, latest, attempted>>
    BY <1>1 DEF PollReceiver, channel
  <2>2. rxq \in Seq(Tasks) /\ queue \in Seq(Tasks)
    BY DEF TypeOK
  <2>3. /\ queue' \in Seq(Tasks) /\ rxq' \in Seq(Tasks)
        /\ Range(queue) \subseteq Range(queue')
        /\ Len(queue') = Len(queue) + 1 /\ Len(rxq') = Len(rxq) - 1
        /\ Len(queue) \in Nat /\ Len(rxq) \in Nat \ {0}
        /\ \A k \in 1..Len(queue) : queue'[k] = queue[k]
        /\ queue'[Len(queue) + 1] = rxq[1]
        /\ \A k \in 1..Len(rxq') : rxq'[k] = rxq[k + 1]
    BY <1>1, <2>1, <2>2, RangeHead, RangeAppend
  <2>4. TypeOK'
    BY <2>1, <2>3 DEF TypeOK, NoTask
  <2>5. Accepted' = Accepted /\ Accepted \in Nat
    BY <2>1 DEF Accepted, TypeOK, NoTask
  <2>6. OrderInv'
    <3>1. rxq[1] = Accepted + Len(queue) + 1
      BY <2>1, <2>3 DEF OrderInv
    <3>2. ASSUME NEW k \in 1..Len(queue') PROVE queue'[k] = Accepted + k
      <4>1. k \in 1..Len(queue) \/ k = Len(queue) + 1
        BY <2>3
      <4>2. CASE k \in 1..Len(queue)
        BY <2>1, <2>3, <4>2 DEF OrderInv
      <4>3. CASE k = Len(queue) + 1
        BY <2>3, <2>5, <3>1, <4>3
      <4>4. QED BY <4>1, <4>2, <4>3
    <3>3. \A k \in 1..Len(rxq') : rxq'[k] = Accepted + Len(queue') + k
      BY <2>1, <2>3, <2>5 DEF OrderInv
    <3>4. issued' = Accepted + Len(queue') + Len(rxq')
      BY <2>1, <2>3, <2>5 DEF OrderInv
    <3>5. QED BY <2>1, <2>5, <3>2, <3>3, <3>4 DEF OrderInv
  <2>7. RanInv'
    BY <2>1, <2>5 DEF RanInv
  <2>8. WakeInv'
    BY <2>1, <2>3 DEF WakeInv, NoLostWakeup
  <2>9. EndInv'
    BY <1>1, <2>1 DEF EndInv
  <2>10. QED BY <2>4, <2>6, <2>7, <2>8, <2>9
<1>2. CASE rxq = <<>>
  <2>1. /\ rxq' = rxq /\ queue' = queue
        /\ pc = "poll_rx" /\ pc' = "poll_futures"
        /\ UNCHANGED <<issued, closed, started, ready, done,
                       yielded, woken, latest, attempted>>
        /\ rxWaker' \in BOOLEAN /\ rxEnd' \in BOOLEAN
        /\ rxWaker' \/ rxEnd'
        /\ rxEnd' => closed
    <3>1. rxWaker \in BOOLEAN /\ rxEnd \in BOOLEAN /\ (rxEnd => closed)
      BY DEF TypeOK, EndInv
    <3>2. CASE ~closed
      <4>1. rxWaker' = TRUE /\ rxEnd' = rxEnd
        BY <1>2, <3>2 DEF PollReceiver
      <4>2. /\ rxq' = rxq /\ queue' = queue
            /\ pc = "poll_rx" /\ pc' = "poll_futures"
            /\ UNCHANGED <<issued, closed, started, ready, done,
                           yielded, woken, latest, attempted>>
        BY <1>2, <3>2 DEF PollReceiver, channel
      <4>3. QED BY <3>1, <4>1, <4>2
    <3>3. CASE closed
      BY <1>2, <3>1, <3>3 DEF PollReceiver, channel
    <3>4. QED BY <3>2, <3>3
  <2>2. TypeOK'
    BY <2>1 DEF TypeOK
  <2>3. Accepted' = Accepted
    BY <2>1 DEF Accepted
  <2>4. OrderInv'
    BY <2>1, <2>3 DEF OrderInv
  <2>5. RanInv' /\ EndInv'
    BY <1>2, <2>1, <2>3 DEF RanInv, EndInv
  <2>6. WakeInv'
    BY <1>2, <2>1 DEF WakeInv, NoLostWakeup
  <2>7. QED BY <2>2, <2>4, <2>5, <2>6
<1>3. QED BY <1>1, <1>2

\* The oldest result leaves the set, for whatever reason it could.
LEMMA YieldStep ==
  ASSUME LoopInv, pc = "poll_futures", queue # <<>>,
         yielded' = Head(queue), queue' = Tail(queue), pc' = "store",
         Head(queue) \in attempted',
         attempted \subseteq attempted', attempted' \subseteq Tasks,
         started' \subseteq Range(queue) \ {Head(queue)},
         ready' \subseteq started', done' \subseteq started',
         ready' \cap done' = {}, done' \subseteq attempted',
         UNCHANGED <<channel, rxq, rxEnd, rxWaker, woken, latest>>
  PROVE  LoopInv'
<1> USE DEF LoopInv, channel
<1>1. queue \in Seq(Tasks) /\ rxq \in Seq(Tasks) /\ latest \in Nat /\ MaxTask \in Nat
  BY TaskAssumption DEF TypeOK
<1>2. /\ Head(queue) \in Tasks /\ Head(queue) = queue[1]
      /\ queue' \in Seq(Tasks)
      /\ Len(queue) \in Nat \ {0} /\ Len(queue') = Len(queue) - 1
      /\ \A k \in 1..Len(queue') : queue'[k] = queue[k + 1]
      /\ Range(queue) \ {Head(queue)} \subseteq Range(queue')
  BY <1>1, RangeHead
<1>3. Accepted = latest /\ Accepted' = yielded' /\ yielded' = latest + 1
  <2>1. queue[1] = latest + 1
    BY <1>2 DEF OrderInv, Accepted
  <2>2. QED BY <1>2, <2>1 DEF Accepted
<1>4. TypeOK'
  <2>1. yielded' \in 0..MaxTask /\ yielded' # NoTask
    BY <1>2, TaskAssumption DEF Tasks, NoTask
  <2>2. QED BY <1>2, <2>1 DEF TypeOK
<1>5. OrderInv'
  <2>1. Len(rxq) \in Nat
    BY <1>1
  <2>2. \A k \in 1..Len(queue') : queue'[k] = latest + 1 + k
    BY <1>1, <1>2, <1>3 DEF OrderInv
  <2>3. /\ \A k \in 1..Len(rxq) : rxq[k] = latest + 1 + Len(queue') + k
        /\ issued = latest + 1 + Len(queue') + Len(rxq)
    BY <1>1, <1>2, <1>3, <2>1 DEF OrderInv
  <2>4. QED BY <1>3, <2>2, <2>3 DEF OrderInv
<1>6. RanInv'
  <2>1. \A i \in 1..(latest + 1) : i \in 1..latest \/ i = latest + 1
    BY <1>1
  <2>2. QED BY <1>2, <1>3, <2>1 DEF RanInv
<1>7. WakeInv' /\ EndInv'
  BY DEF WakeInv, NoLostWakeup, EndInv
<1>8. QED BY <1>4, <1>5, <1>6, <1>7

\* An output that waited is yielded.
LEMMA YieldWaitingStep ==
  ASSUME LoopInv, YieldWaiting
  PROVE  LoopInv'
<1>1. /\ pc = "poll_futures" /\ queue # <<>> /\ Head(queue) \in done
      /\ yielded' = Head(queue) /\ queue' = Tail(queue) /\ pc' = "store"
      /\ started' = started \ {Head(queue)} /\ ready' = ready \ {Head(queue)}
      /\ done' = done \ {Head(queue)}
      /\ attempted' = attempted
      /\ UNCHANGED <<channel, rxq, rxEnd, rxWaker, woken, latest>>
  BY DEF YieldWaiting, YieldHead
<1>2. /\ started' \subseteq Range(queue) \ {Head(queue)}
      /\ ready' \subseteq started' /\ done' \subseteq started'
      /\ ready' \cap done' = {} /\ attempted' \subseteq Tasks
      /\ Head(queue) \in attempted' /\ done' \subseteq attempted'
  BY <1>1 DEF LoopInv, TypeOK, RanInv
<1>3. QED BY <1>1, <1>2, YieldStep

\* What can complete is in the set, and is a task after the accepted ones.
LEMMA CompletableInQueue ==
  ASSUME LoopInv, pc = "poll_futures"
  PROVE  /\ Completable \subseteq Range(queue)
         /\ Completable \subseteq Tasks
         /\ \A i \in Completable : i > latest
<1>1. Completable \subseteq Range(queue)
  BY DEF Completable, LoopInv, TypeOK
<1>2. queue \in Seq(Tasks) /\ latest \in Nat
  BY TaskAssumption DEF LoopInv, TypeOK
<1>3. \A i \in Range(queue) : \E k \in 1..Len(queue) : i = latest + k
  BY <1>2 DEF LoopInv, OrderInv, Accepted, Range
<1>4. \A i \in Range(queue) : i > latest
  BY <1>2, <1>3
<1>5. QED BY <1>1, <1>2, <1>4, RangeType

\* The running futures are polled and the oldest completes.
LEMMA YieldCompletedStep ==
  ASSUME LoopInv, YieldCompleted
  PROVE  LoopInv'
<1>1. pc = "poll_futures" /\ queue # <<>> /\ pc' = "store"
      /\ UNCHANGED <<channel, rxq, rxEnd, rxWaker, woken, latest>>
  BY DEF YieldCompleted
<1>2. PICK some \in SUBSET Completable, polled \in {started, Range(queue)} :
       /\ Head(queue) \in some
       /\ attempted' = attempted \cup some
       /\ done' = (done \cup some) \ {Head(queue)}
       /\ yielded' = Head(queue)
       /\ queue' = Tail(queue)
       /\ started' = (polled \cup some) \ {Head(queue)}
       /\ ready' = ready \ some
  BY DEF YieldCompleted
<1>3. some \subseteq Range(queue) /\ some \subseteq Tasks
  BY <1>1, CompletableInQueue
<1>4. polled \subseteq Range(queue) /\ started \subseteq polled
  BY DEF LoopInv, TypeOK
<1>5. /\ started' \subseteq Range(queue) \ {Head(queue)}
      /\ ready' \subseteq started' /\ done' \subseteq started'
      /\ ready' \cap done' = {} /\ attempted' \subseteq Tasks
      /\ Head(queue) \in attempted' /\ done' \subseteq attempted'
      /\ attempted \subseteq attempted'
  BY <1>2, <1>3, <1>4 DEF LoopInv, TypeOK, RanInv
<1>6. QED BY <1>1, <1>2, <1>5, YieldStep

\* All running futures are polled, and the oldest stays to wake the component.
LEMMA PollPendingStep ==
  ASSUME LoopInv, PollPending
  PROVE  LoopInv'
<1> USE DEF LoopInv
<1>1. /\ pc = "poll_futures" /\ queue # <<>> /\ Head(queue) \notin done
      /\ pc' = "idle" /\ ready' = {}
      /\ UNCHANGED <<channel, rxq, queue, rxEnd, yielded, rxWaker, woken, latest>>
  BY DEF PollPending
<1>2. PICK some \in SUBSET Completable :
       /\ Head(queue) \notin some
       /\ ready \subseteq some
       /\ attempted' = attempted \cup some
       /\ done' = done \cup some
       /\ started' = Range(queue)
  BY DEF PollPending
<1>3. some \subseteq Range(queue) /\ some \subseteq Tasks
  BY <1>1, CompletableInQueue
<1>4. TypeOK'
  BY <1>1, <1>2, <1>3 DEF TypeOK, channel
<1>5. Accepted' = Accepted
  BY <1>1 DEF Accepted
<1>6. OrderInv' /\ RanInv' /\ EndInv'
  BY <1>1, <1>2, <1>5 DEF OrderInv, RanInv, EndInv, channel
<1>7. Running' # {}
  <2>1. Head(queue) \in Range(queue)
    BY <1>1, RangeHead DEF TypeOK
  <2>2. QED BY <1>1, <1>2, <2>1 DEF Running
<1>8. WakeInv'
  BY <1>1, <1>7 DEF WakeInv, NoLostWakeup
<1>9. QED BY <1>4, <1>6, <1>8

\* The other steps.
LEMMA OtherSteps ==
  ASSUME LoopInv, [Next]_vars, ~PollReceiver, ~YieldWaiting, ~YieldCompleted,
         ~PollPending
  PROVE  LoopInv'
<1> USE DEF LoopInv, channel, futures
<1>0. /\ latest \in Nat /\ MaxTask \in Nat /\ queue \in Seq(Tasks)
      /\ rxq \in Seq(Tasks) /\ Len(queue) \in Nat /\ Len(rxq) \in Nat
      /\ issued \in Nat
  BY TaskAssumption DEF TypeOK
<1>1. CASE Start
  <2>1. /\ queue = <<>> /\ rxq = <<>>
        /\ pc = "down" /\ pc' = "poll_rx" /\ issued' = latest
        /\ UNCHANGED <<closed, rxq, queue, started, ready, done, rxEnd, yielded,
                       rxWaker, woken, latest, attempted>>
    BY <1>1 DEF Start, OrderInv
  <2>2. TypeOK'
    BY <2>1 DEF TypeOK
  <2>3. OrderInv'
    BY <1>0, <2>1 DEF OrderInv, Accepted
  <2>4. RanInv' /\ WakeInv' /\ EndInv'
    BY <2>1 DEF RanInv, WakeInv, EndInv, NoLostWakeup, Accepted
  <2>5. QED BY <2>2, <2>3, <2>4
<1>2. CASE Deliver
  <2>1. /\ pc # "down" /\ pc # "ended" /\ ~closed /\ issued < MaxTask
        /\ issued' = issued + 1 /\ rxq' = Append(rxq, issued + 1)
        /\ woken' = (woken \/ rxWaker) /\ rxWaker' = FALSE
        /\ UNCHANGED <<closed, pc, queue, started, ready, done, rxEnd, yielded,
                       latest, attempted>>
    BY <1>2 DEF Deliver, WakeReceiver, Up
  <2>2. issued + 1 \in Tasks
    BY <1>0, <2>1 DEF Tasks
  <2>3. /\ rxq' \in Seq(Tasks) /\ Len(rxq') = Len(rxq) + 1
        /\ \A k \in 1..Len(rxq) : rxq'[k] = rxq[k]
        /\ rxq'[Len(rxq) + 1] = issued + 1
    BY <1>0, <2>1, <2>2, RangeAppend
  <2>4. TypeOK'
    <3>1. issued' \in 0..MaxTask
      BY <1>0, <2>1
    <3>2. woken' \in BOOLEAN /\ rxWaker' \in BOOLEAN
      BY <2>1 DEF TypeOK
    <3>3. QED BY <2>1, <2>3, <3>1, <3>2 DEF TypeOK
  <2>5. Accepted' = Accepted /\ Accepted \in Nat
    BY <1>0, <2>1 DEF Accepted, TypeOK
  <2>6. OrderInv'
    <3>1. issued = Accepted + Len(queue) + Len(rxq)
      BY <2>1 DEF OrderInv
    <3>2. ASSUME NEW k \in 1..Len(rxq')
          PROVE  rxq'[k] = Accepted + Len(queue) + k
      <4>1. k \in 1..Len(rxq) \/ k = Len(rxq) + 1
        BY <1>0, <2>3
      <4>2. CASE k \in 1..Len(rxq)
        BY <2>1, <2>3, <4>2 DEF OrderInv
      <4>3. CASE k = Len(rxq) + 1
        BY <1>0, <2>3, <2>5, <3>1, <4>3
      <4>4. QED BY <4>1, <4>2, <4>3
    <3>3. QED BY <1>0, <2>1, <2>3, <2>5, <3>1, <3>2 DEF OrderInv
  <2>7. RanInv' /\ EndInv'
    BY <2>1, <2>5 DEF RanInv, EndInv
  <2>8. Running' = Running
    BY <2>1 DEF Running
  <2>9. WakeInv'
    BY <2>1, <2>8 DEF WakeInv, NoLostWakeup, EndInv, TypeOK
  <2>10. QED BY <2>4, <2>6, <2>7, <2>9
<1>3. CASE Close
  <2>1. /\ pc # "down" /\ pc # "ended" /\ closed' = TRUE
        /\ woken' = (woken \/ rxWaker) /\ rxWaker' = FALSE
        /\ UNCHANGED <<issued, rxq, pc, queue, started, ready, done, rxEnd,
                       yielded, latest, attempted>>
    BY <1>3 DEF Close, WakeReceiver, Up
  <2>2. TypeOK' /\ Accepted' = Accepted /\ Running' = Running
    BY <2>1 DEF TypeOK, Accepted, Running
  <2>3. OrderInv' /\ RanInv' /\ EndInv'
    BY <2>1, <2>2 DEF OrderInv, RanInv, EndInv
  <2>4. WakeInv'
    BY <2>1, <2>2 DEF WakeInv, NoLostWakeup, TypeOK
  <2>5. QED BY <2>2, <2>3, <2>4
<1>4. CASE PollEmpty
  <2>1. /\ pc = "poll_futures" /\ queue = <<>>
        /\ pc' = IF rxEnd THEN "ended" ELSE "idle"
        /\ UNCHANGED <<issued, closed, rxq, queue, started, ready, done, rxEnd,
                       yielded, rxWaker, woken, latest, attempted>>
    BY <1>4 DEF PollEmpty
  <2>2. TypeOK' /\ Accepted' = Accepted
    BY <2>1 DEF TypeOK, Accepted
  <2>3. OrderInv' /\ RanInv' /\ EndInv'
    BY <2>1, <2>2 DEF OrderInv, RanInv, EndInv
  <2>4. WakeInv'
    BY <2>1 DEF WakeInv, NoLostWakeup
  <2>5. QED BY <2>2, <2>3, <2>4
<1>5. CASE Store
  <2>1. /\ pc = "store" /\ pc' = "poll_rx" /\ latest' = yielded /\ yielded' = NoTask
        /\ UNCHANGED <<issued, closed, rxq, queue, started, ready, done, rxEnd,
                       rxWaker, woken, attempted>>
    BY <1>5 DEF Store
  <2>2. TypeOK' /\ Accepted' = Accepted
    <3>1. yielded' \in 0..MaxTask /\ latest' \in 0..MaxTask
      BY <1>0, <2>1 DEF TypeOK, NoTask
    <3>2. QED BY <2>1, <3>1 DEF TypeOK, Accepted
  <2>3. OrderInv' /\ RanInv' /\ EndInv'
    BY <2>1, <2>2 DEF OrderInv, RanInv, EndInv
  <2>4. WakeInv'
    BY <2>1 DEF WakeInv, NoLostWakeup
  <2>5. QED BY <2>2, <2>3, <2>4
<1>6. CASE Poll
  <2>1. /\ pc = "idle" /\ pc' = "poll_rx" /\ woken' = FALSE
        /\ UNCHANGED <<issued, closed, rxq, queue, started, ready, done, rxEnd,
                       yielded, rxWaker, latest, attempted>>
    BY <1>6 DEF Poll
  <2>2. TypeOK' /\ Accepted' = Accepted
    BY <2>1 DEF TypeOK, Accepted
  <2>3. OrderInv' /\ RanInv' /\ EndInv'
    BY <2>1, <2>2 DEF OrderInv, RanInv, EndInv
  <2>4. WakeInv'
    BY <2>1 DEF WakeInv, NoLostWakeup
  <2>5. QED BY <2>2, <2>3, <2>4
<1>7. ASSUME NEW i \in Running, FutureReady(i) \/ FutureProgresses(i)
      PROVE  LoopInv'
  <2>1. /\ ready' = ready \/ ready' = ready \cup {i}
        /\ woken' = TRUE
        /\ UNCHANGED <<issued, closed, rxq, pc, queue, started, done, rxEnd,
                       yielded, rxWaker, latest, attempted>>
    BY <1>7 DEF FutureReady, FutureProgresses
  <2>2. i \in started /\ i \notin done
    BY DEF Running
  <2>3. TypeOK' /\ Accepted' = Accepted
    BY <2>1, <2>2 DEF TypeOK, Accepted
  <2>4. OrderInv' /\ RanInv' /\ EndInv'
    BY <2>1, <2>3 DEF OrderInv, RanInv, EndInv
  <2>5. WakeInv'
    BY <2>1 DEF WakeInv, NoLostWakeup
  <2>6. QED BY <2>3, <2>4, <2>5
<1>8. CASE Crash
  <2>1. /\ pc' = "down" /\ queue' = <<>> /\ rxq' = <<>> /\ rxEnd' = FALSE
        /\ issued' = 0 /\ closed' = FALSE /\ started' = {} /\ ready' = {}
        /\ done' = {} /\ yielded' = 0 /\ rxWaker' = FALSE /\ woken' = FALSE
        /\ latest' = latest /\ attempted' = attempted
    BY <1>8 DEF Crash, NoTask
  <2>2. TypeOK'
    <3>1. 0 \in 0..MaxTask /\ <<>> \in Seq(Tasks)
      BY <1>0
    <3>2. QED BY <2>1, <3>1 DEF TypeOK, NoTask
  <2>3. \A j \in 1..latest : j \in attempted
    BY <1>0 DEF RanInv, Accepted, OrderInv
  <2>4. OrderInv' /\ RanInv' /\ WakeInv' /\ EndInv'
    BY <2>1, <2>3 DEF OrderInv, RanInv, WakeInv, EndInv, NoLostWakeup, Accepted
  <2>5. QED BY <2>2, <2>4
<1>9. CASE UNCHANGED vars
  <2>1. TypeOK' /\ Accepted' = Accepted /\ Running' = Running
    BY <1>9 DEF vars, TypeOK, Accepted, Running
  <2>2. QED BY <1>9, <2>1 DEF vars, OrderInv, RanInv, WakeInv, EndInv, NoLostWakeup
<1>10. QED BY <1>1, <1>2, <1>3, <1>4, <1>5, <1>6, <1>7, <1>8, <1>9 DEF Next

\* Every step keeps the invariant.
LEMMA LoopStep == LoopInv /\ [Next]_vars => LoopInv'
BY ReceiverStep, YieldWaitingStep, YieldCompletedStep, PollPendingStep, OtherSteps

\* The invariant holds throughout: memory holds the consecutive tasks after the
\* accepted ones, and somebody will wake a component that sleeps.
THEOREM LoopInvariant == Spec => []LoopInv
BY LoopInit, LoopStep, PTL DEF Spec

\* The type invariant of the task loop.
THEOREM TypeCorrect == Spec => []TypeOK
<1>1. LoopInv => TypeOK
  BY DEF LoopInv
<1>2. QED BY <1>1, LoopInvariant, PTL

\* set_latest_processed_task_id never stores a task with an unfinished one
\* before it.
THEOREM CheckpointSound == Spec => []CheckpointAttempted
<1>1. LoopInv => CheckpointAttempted
  <2> SUFFICES ASSUME LoopInv PROVE CheckpointAttempted
    OBVIOUS
  <2>1. latest \in Nat
    BY TaskAssumption DEF LoopInv, TypeOK
  <2>2. QED BY <2>1 DEF LoopInv, RanInv, OrderInv, Accepted, CheckpointAttempted
<1>2. QED BY <1>1, LoopInvariant, PTL

\* The poll function never puts the component to sleep for good.
THEOREM NeverStuckAsleep == Spec => []NoLostWakeup
<1>1. LoopInv => NoLostWakeup
  BY DEF LoopInv, WakeInv
<1>2. QED BY <1>1, LoopInvariant, PTL

\* The stream returns None only when all that was received is stored.
THEOREM Drained == Spec => []DrainedAtEnd
<1>1. LoopInv => DrainedAtEnd
  <2> SUFFICES ASSUME LoopInv, pc = "ended" PROVE rxq = <<>> /\ latest = issued
    BY DEF DrainedAtEnd
  <2>1. rxq = <<>> /\ queue = <<>> /\ latest \in Nat
    BY TaskAssumption DEF LoopInv, EndInv, TypeOK
  <2>2. issued = latest + Len(queue) + Len(rxq)
    BY DEF LoopInv, OrderInv, Accepted
  <2>3. QED BY <2>1, <2>2
<1>2. QED BY <1>1, LoopInvariant, PTL

\* The initial state of the loop is one of OrderedWork.
LEMMA WorkInit == Init => Work!Init
BY DEF Init, Work!Init, NoTask

\* Every step of the loop is one of OrderedWork, or changes nothing there.
LEMMA WorkStep ==
  LoopInv /\ [Next]_vars => [Work!Next]_<<attempted, latest>>
<1> SUFFICES ASSUME LoopInv, [Next]_vars PROVE [Work!Next]_<<attempted, latest>>
  OBVIOUS
<1>1. ASSUME NEW some \in SUBSET Completable, pc = "poll_futures",
             attempted' = attempted \cup some, UNCHANGED latest
      PROVE  Work!Next
  <2>1. some \in SUBSET Tasks /\ \A i \in some : i > latest
    BY <1>1, CompletableInQueue
  <2>2. Work!Attempt(some)
    BY <1>1, <2>1 DEF Work!Attempt
  <2>3. QED BY <2>1, <2>2 DEF Work!Next
<1>2. CASE YieldCompleted
  BY <1>1, <1>2 DEF YieldCompleted
<1>3. CASE PollPending
  BY <1>1, <1>3 DEF PollPending
<1>4. CASE Store
  <2>1. latest \in Nat /\ yielded = latest + 1 /\ latest + 1 \in 1..yielded
    BY <1>4, TaskAssumption DEF Store, LoopInv, TypeOK, OrderInv
  <2>2. latest + 1 \in attempted
    BY <1>4, <2>1 DEF Store, LoopInv, RanInv, Accepted
  <2>3. Work!Acknowledge
    BY <1>4, <2>1, <2>2 DEF Store, Work!Acknowledge
  <2>4. QED BY <2>3 DEF Work!Next
<1>5. CASE ~YieldCompleted /\ ~PollPending /\ ~Store
  BY <1>5 DEF Next, Start, Deliver, Close, PollReceiver, YieldWaiting, PollEmpty,
              Poll, FutureReady, FutureProgresses, Crash, vars
<1>6. QED BY <1>2, <1>3, <1>4, <1>5

\* The task loop acknowledges tasks at least once and in order.
THEOREM LoopImplementsOrderedWork == Spec => ImplementsOrderedWork
<1>1. QED BY WorkInit, WorkStep, LoopInvariant, PTL
          DEF Spec, ImplementsOrderedWork, Work!Spec
=============================================================================
