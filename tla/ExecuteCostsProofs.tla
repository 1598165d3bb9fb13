------------------------- MODULE ExecuteCostsProofs -------------------------
(***************************************************************************)
(* Proofs about ExecuteCosts, for every set of tasks and messages, every   *)
(* number of permits and attempts, every upload, every price and limit.    *)
(***************************************************************************)
EXTENDS ExecuteCosts, SumsProofs, SequenceTheorems

-----------------------------------------------------------------------------
(* The queue without some requests.                                        *)

Queued(queue) == {queue[k] : k \in DOMAIN queue}

NoRepeats(queue) == \A j, k \in DOMAIN queue : queue[j] = queue[k] => j = k

\* What is left holds the others, in the queue's order, each once if the queue
\* did.
LEMMA WithoutProperties ==
  ASSUME NEW S, NEW queue \in Seq(S), NEW rs, NoRepeats(queue)
  PROVE  /\ Without(queue, rs) \in Seq(S)
         /\ Queued(Without(queue, rs)) = Queued(queue) \ rs
         /\ NoRepeats(Without(queue, rs))
<1> USE DEF Queued, NoRepeats
<1>1. Len(queue) \in Nat /\ DOMAIN queue = 1..Len(queue)
      /\ \A k \in 1..Len(queue) : queue[k] \in S
  BY LenProperties, ElementOfSeq
<1> DEFINE keep == {n \in 1..Len(queue) : queue[n] \notin rs}
           from == CHOOSE f : f = [n \in 0..Len(queue) |->
                                     IF n = 0 THEN <<>>
                                     ELSE IF queue[n] \in rs THEN f[n - 1]
                                     ELSE Append(f[n - 1], queue[n])]
           left == from[Len(queue)]
<1>2. Collects(from, queue, keep, Len(queue))
  <2>1. \A f, n : n \in 0..Len(queue) =>
          CollectStep(queue, keep, f, n) = IF n = 0 THEN <<>>
                                           ELSE IF queue[n] \in rs THEN f[n - 1]
                                           ELSE Append(f[n - 1], queue[n])
    BY <1>1 DEF CollectStep
  <2>2. \A f : Collects(f, queue, keep, Len(queue)) <=>
                f = [n \in 0..Len(queue) |->
                       IF n = 0 THEN <<>> ELSE IF queue[n] \in rs THEN f[n - 1]
                       ELSE Append(f[n - 1], queue[n])]
    BY <2>1 DEF Collects
  <2>3. \E f : Collects(f, queue, keep, Len(queue))
    BY <1>1, CollectExists
  <2> HIDE DEF keep
  <2> QED BY <2>2, <2>3, Zenon
<1>3. Without(queue, rs) = left
  BY DEF Without
<1> HIDE DEF from
<1>4. /\ left \in Seq(S) /\ Len(left) = Cardinality(keep)
      /\ \A n \in keep : Place(keep, n) \in 1..Len(left) /\ left[Place(keep, n)] = queue[n]
      /\ \A j \in 1..Len(left) : \E n \in keep : left[j] = queue[n]
  <2> DEFINE kept == {queue[n] : n \in keep}
  <2>1. keep \in SUBSET (1..Len(queue)) /\ kept \subseteq S
    BY <1>1
  <2> HIDE DEF keep
  <2>2. IsCollection(left, queue, keep)
    BY <1>1, <1>2, <2>1, CollectResult
  <2>3. left \in Seq(kept)
    BY <2>2 DEF IsCollection
  <2> HIDE DEF kept
  <2>4. left \in Seq(S)
    BY <2>1, <2>3, SeqMonotonic
  <2> QED BY <2>2, <2>4 DEF IsCollection
<1> HIDE DEF left
<1>5. DOMAIN left = 1..Len(left) /\ Len(left) \in Nat
  BY <1>4, LenProperties
<1> DEFINE others == {queue[n] : n \in keep}
<1>6. {left[j] : j \in DOMAIN left} = others
  <2> HIDE DEF keep
  <2>1. \A j \in DOMAIN left : left[j] \in others
    BY <1>4, <1>5
  <2>2. \A n \in keep : \E j \in DOMAIN left : left[j] = queue[n]
    BY <1>4, <1>5
  <2> QED BY <2>1, <2>2
<1>7. others = {queue[k] : k \in DOMAIN queue} \ rs
  BY <1>1
<1>8. IsFiniteSet(keep) /\ IsFiniteSet(1..Len(left)) /\ Cardinality(1..Len(left)) = Len(left)
  <2>1. keep \in SUBSET (1..Len(queue))
    OBVIOUS
  <2>2. IsFiniteSet(1..Len(queue)) /\ IsFiniteSet(1..Len(left))
    BY <1>1, <1>5, FS_Interval
  <2>3. Cardinality(1..Len(left)) = Len(left)
    <3> DEFINE n == Len(left)
    <3>1. n \in Nat
      BY <1>5
    <3> HIDE DEF n
    <3>2. Cardinality(1..n) = IF 1 > n THEN 0 ELSE n - 1 + 1
      BY <3>1, FS_Interval
    <3>3. Cardinality(1..n) = n
      BY <3>1, <3>2
    <3> QED BY <3>3 DEF n
  <2> HIDE DEF keep
  <2> QED BY <2>1, <2>2, <2>3, FS_Subset
<1>9. Cardinality(others) = Cardinality(keep) /\ IsFiniteSet(others)
  <2>1. [n \in keep |-> queue[n]] \in Bijection(keep, others)
    BY <1>1 DEF Bijection, Injection, Surjection, IsInjective
  <2> QED BY <1>8, <2>1, FS_Bijection DEF ExistsBijection
<1>10. left \in Surjection(1..Len(left), others)
  <2>1. left \in [1..Len(left) -> others]
    BY <1>4, <1>5
  <2> QED BY <1>5, <1>6, <2>1 DEF Surjection
<1>11. left \in Injection(1..Len(left), others)
  BY <1>4, <1>8, <1>9, <1>10, FS_Surjection
<1> QED BY <1>3, <1>5, <1>6, <1>7, <1>11 DEF Injection, IsInjective

-----------------------------------------------------------------------------
(* The HTTP sender.                                                        *)

\* A request that waits for another attempt has attempts left.
AttemptsInv ==
  \A r \in Requests : req[r] \in {"waiting", "backoff"} => attempts[r] < MaxAttempts

HttpInv == HttpTypeOK /\ PermitsConserved /\ QueueIsExact /\ AttemptsInv

\* The operations every step is made of, as far as the HTTP sender is concerned.
HttpOps ==
  \/ UNCHANGED http
  \/ \E r \in Requests : Asked(r) \/ Read(r) \/ Retry(r) \/ EndsAttempt(r, "ok")
                            \/ EndsAttempt(r, "failed")
  \/ \E r \in Requests : attempts[r] < MaxAttempts /\ EndsAttempt(r, "backoff")
  \/ \E r, s \in Requests : r # s /\ (AskedBoth(r, s) \/ AskedAfter(r, s))
  \/ \E rs \in SUBSET Requests : Dropped(rs)
  \/ Acquire

\* The requests that are being sent are finitely many.
LEMMA SendingFinite ==
  ASSUME NEW rs \in SUBSET Requests
  PROVE  /\ IsFiniteSet(Sending(rs)) /\ Cardinality(Sending(rs)) \in Nat
         /\ Sending(rs) = Sending(Requests) \cap rs
<1>1. Sending(rs) \in SUBSET Requests
  BY DEF Sending
<1>2. IsFiniteSet(Requests)
  BY HttpAssumption
<1>3. IsFiniteSet(Sending(rs))
  BY <1>1, <1>2, FS_Subset
<1>4. Cardinality(Sending(rs)) \in Nat
  BY <1>3, FS_CardinalityType
<1> QED BY <1>3, <1>4 DEF Sending

\* A queue with requests added that were not in it.
LEMMA QueueAppend ==
  ASSUME NEW S, NEW queue \in Seq(S), NEW r \in S, NoRepeats(queue), r \notin Queued(queue)
  PROVE  /\ Append(queue, r) \in Seq(S)
         /\ Queued(Append(queue, r)) = Queued(queue) \cup {r}
         /\ NoRepeats(Append(queue, r))
<1> USE DEF Queued, NoRepeats
<1> DEFINE s == Append(queue, r)
<1>1. /\ s \in Seq(S) /\ Len(s) = Len(queue) + 1 /\ Len(queue) \in Nat
      /\ \A k \in 1..Len(queue) : s[k] = queue[k]
      /\ s[Len(queue) + 1] = r
      /\ DOMAIN queue = 1..Len(queue)
  BY AppendProperties, LenProperties
<1>2. DOMAIN s = (1..Len(queue)) \cup {Len(queue) + 1}
  <2>1. DOMAIN s = 1..Len(queue) + 1
    BY <1>1, LenProperties
  <2>2. \A n \in Nat : 1..n + 1 = (1..n) \cup {n + 1}
    OBVIOUS
  <2> QED BY <1>1, <2>1, <2>2
<1> HIDE DEF s
<1>3. {s[k] : k \in DOMAIN s} = {queue[k] : k \in DOMAIN queue} \cup {r}
  BY <1>1, <1>2
<1>4. \A j, k \in DOMAIN s : s[j] = s[k] => j = k
  BY <1>1, <1>2
<1> QED BY <1>1, <1>3, <1>4 DEF s

\* A queue without its head.
LEMMA QueueTail ==
  ASSUME NEW S, NEW queue \in Seq(S), queue # <<>>, NoRepeats(queue)
  PROVE  /\ Head(queue) \in Queued(queue) /\ Head(queue) \in S
         /\ Tail(queue) \in Seq(S)
         /\ Queued(Tail(queue)) = Queued(queue) \ {Head(queue)}
         /\ NoRepeats(Tail(queue))
<1> USE DEF Queued, NoRepeats
<1>1. /\ Head(queue) \in S /\ Head(queue) = queue[1]
      /\ Tail(queue) \in Seq(S) /\ Len(queue) \in Nat \ {0}
      /\ Len(Tail(queue)) = Len(queue) - 1
      /\ \A k \in 1..Len(Tail(queue)) : Tail(queue)[k] = queue[k + 1]
      /\ DOMAIN queue = 1..Len(queue)
  BY HeadTailProperties, LenProperties, EmptySeq
<1>2. DOMAIN Tail(queue) = 1..Len(queue) - 1
  BY <1>1, LenProperties
<1>3. 1 \in DOMAIN queue /\ \A k \in DOMAIN Tail(queue) : k + 1 \in DOMAIN queue /\ k + 1 # 1
  BY <1>1, <1>2
<1>4. \A k \in DOMAIN queue : k # 1 => k - 1 \in DOMAIN Tail(queue) /\ (k - 1) + 1 = k
  BY <1>1, <1>2
<1>5. {Tail(queue)[k] : k \in DOMAIN Tail(queue)}
        = {queue[k] : k \in DOMAIN queue} \ {Head(queue)}
  <2>1. ASSUME NEW k \in DOMAIN Tail(queue)
        PROVE  Tail(queue)[k] \in {queue[j] : j \in DOMAIN queue} \ {Head(queue)}
    BY <1>1, <1>2, <1>3
  <2>2. ASSUME NEW k \in DOMAIN queue, queue[k] # Head(queue)
        PROVE  queue[k] \in {Tail(queue)[j] : j \in DOMAIN Tail(queue)}
    <3>1. k # 1
      BY <1>1, <2>2
    <3>2. Tail(queue)[k - 1] = queue[(k - 1) + 1] /\ k - 1 \in DOMAIN Tail(queue) /\ (k - 1) + 1 = k
      BY <1>1, <1>2, <1>4, <3>1
    <3> QED BY <3>2
  <2> QED BY <2>1, <2>2
<1>6. \A j, k \in DOMAIN Tail(queue) : Tail(queue)[j] = Tail(queue)[k] => j = k
  <2>1. ASSUME NEW j \in DOMAIN Tail(queue), NEW k \in DOMAIN Tail(queue),
               Tail(queue)[j] = Tail(queue)[k]
        PROVE  j = k
    <3>1. j + 1 = k + 1
      BY <1>1, <1>2, <1>3, <2>1
    <3> QED BY <1>1, <1>2, <3>1
  <2> QED BY <2>1
<1> QED BY <1>1, <1>3, <1>5, <1>6

\* A request that begins or ends to be sent changes their number by one.
LEMMA SendingCounts ==
  ASSUME NEW r \in Requests
  PROVE  /\ r \notin Sending(Requests) =>
              Cardinality(Sending(Requests) \cup {r}) = Cardinality(Sending(Requests)) + 1
         /\ r \in Sending(Requests) =>
              Cardinality(Sending(Requests) \ {r}) = Cardinality(Sending(Requests)) - 1
BY SendingFinite, FS_AddElement, FS_RemoveElement

\* Each operation on the HTTP sender keeps its permits and its queue.
LEMMA HttpStepInv ==
  ASSUME HttpInv, HttpOps
  PROVE  HttpInv'
<1> USE DEF HttpInv, HttpTypeOK, PermitsConserved, AttemptsInv
<1> DEFINE sending == Sending(Requests)
           States == {"idle", "waiting", "sending", "backoff", "ok", "failed"}
           Waits == {r \in Requests : req[r] = "waiting"}
<1>0. /\ Permits \in Nat /\ MaxAttempts \in Nat \ {0}
      /\ Cardinality(sending) \in Nat /\ IsFiniteSet(sending)
      /\ permits \in Nat /\ permits + Cardinality(sending) = Permits
  BY HttpAssumption, SendingFinite
<1>1. ASSUME Sending(Requests)' = sending, permits' = permits
      PROVE  PermitsConserved' /\ permits' \in 0..Permits
  BY <1>1
<1>2. CASE UNCHANGED http
  BY <1>2 DEF http, Sending, QueueIsExact
<1>q. waiting \in Seq(Requests) /\ NoRepeats(waiting) /\ Queued(waiting) = Waits
  BY DEF QueueIsExact, Queued, NoRepeats
<1>p. ASSUME NoRepeats(waiting'), Queued(waiting') = Waits'
      PROVE  QueueIsExact'
  BY <1>p DEF QueueIsExact, Queued, NoRepeats
<1>3. ASSUME NEW r \in Requests, Asked(r)
      PROVE  HttpInv'
  <2>1. /\ waiting' \in Seq(Requests)
        /\ Queued(waiting') = Queued(waiting) \cup {r}
        /\ NoRepeats(waiting')
    <3>1. r \notin Queued(waiting)
      BY <1>3, <1>q DEF Asked
    <3> QED BY <1>3, <3>1, <1>q, QueueAppend DEF Asked
  <2>2. Sending(Requests)' = sending
    BY <1>3 DEF Asked, Sending
  <2>3. PermitsConserved' /\ permits' \in 0..Permits
    BY <1>1, <1>3, <2>2 DEF Asked
  <2>4. AttemptsInv' /\ attempts' \in [Requests -> 0..MaxAttempts]
    BY <1>0, <1>3 DEF Asked
  <2>5. QueueIsExact' /\ req' \in [Requests -> States]
    BY <1>3, <1>p, <1>q, <2>1 DEF Asked
  <2> QED BY <2>1, <2>3, <2>4, <2>5
<1>4. ASSUME NEW r \in Requests, Read(r)
      PROVE  HttpInv'
  <2>1. Sending(Requests)' = sending
    BY <1>4 DEF Read, Sending
  <2>2. QueueIsExact' /\ req' \in [Requests -> States]
    BY <1>4, <1>p, <1>q DEF Read
  <2>3. AttemptsInv' /\ attempts' \in [Requests -> 0..MaxAttempts]
    BY <1>0, <1>4 DEF Read
  <2> QED BY <1>4, <1>1, <2>1, <2>2, <2>3 DEF Read
<1>5. ASSUME NEW r \in Requests, Retry(r)
      PROVE  HttpInv'
  <2>1. /\ waiting' \in Seq(Requests)
        /\ Queued(waiting') = Queued(waiting) \cup {r}
        /\ NoRepeats(waiting')
    <3>1. r \notin Queued(waiting)
      BY <1>5, <1>q DEF Retry
    <3> QED BY <1>5, <3>1, <1>q, QueueAppend DEF Retry
  <2>2. Sending(Requests)' = sending
    BY <1>5 DEF Retry, Sending
  <2>3. PermitsConserved' /\ permits' \in 0..Permits
    BY <1>1, <1>5, <2>2 DEF Retry
  <2>4. QueueIsExact' /\ req' \in [Requests -> States]
    BY <1>5, <1>p, <1>q, <2>1 DEF Retry
  <2>5. AttemptsInv' /\ attempts' \in [Requests -> 0..MaxAttempts]
    BY <1>0, <1>5 DEF Retry
  <2> QED BY <2>1, <2>3, <2>4, <2>5
<1>6. ASSUME NEW r \in Requests, NEW state \in {"ok", "failed", "backoff"},
             EndsAttempt(r, state), state = "backoff" => attempts[r] < MaxAttempts
      PROVE  HttpInv'
  <2>1. r \in sending /\ Sending(Requests)' = sending \ {r}
    BY <1>6 DEF EndsAttempt, Sending
  <2>2. Cardinality(Sending(Requests)') = Cardinality(sending) - 1
    BY <2>1, SendingCounts
  <2>3. PermitsConserved' /\ permits' \in 0..Permits
    <3>1. Cardinality(sending) - 1 \in Nat
      <4>1. sending \ {r} \in SUBSET sending
        OBVIOUS
      <4> QED BY <1>0, <2>1, <4>1, SendingCounts, FS_RemoveElement, FS_CardinalityType
    <3>2. permits' = permits + 1
      BY <1>6 DEF EndsAttempt
    <3> QED BY <1>0, <2>2, <3>1, <3>2
  <2>4. QueueIsExact' /\ req' \in [Requests -> States]
    BY <1>6, <1>p, <1>q DEF EndsAttempt
  <2>5. AttemptsInv'
    BY <1>0, <1>6 DEF EndsAttempt
  <2> QED BY <1>6, <2>3, <2>4, <2>5 DEF EndsAttempt
<1>7. ASSUME NEW r \in Requests, NEW s \in Requests, r # s, AskedBoth(r, s)
      PROVE  HttpInv'
  <2> DEFINE one == Append(waiting, r)
  <2>1. /\ one \in Seq(Requests)
        /\ Queued(one) = Queued(waiting) \cup {r}
        /\ NoRepeats(one)
    <3>1. r \notin Queued(waiting)
      BY <1>7, <1>q DEF AskedBoth
    <3> QED BY <3>1, <1>q, QueueAppend
  <2>2. waiting' = Append(one, s)
    <3>1. waiting' = waiting \o <<r, s>>
      BY <1>7 DEF AskedBoth
    <3> QED BY <3>1
  <2>3. /\ waiting' \in Seq(Requests)
        /\ Queued(waiting') = Queued(waiting) \cup {r, s}
        /\ NoRepeats(waiting')
    <3>1. s \notin Queued(one)
      BY <1>7, <1>q, <2>1 DEF AskedBoth
    <3> HIDE DEF one
    <3> QED BY <2>1, <2>2, <3>1, <1>q, QueueAppend
  <2>4. Sending(Requests)' = sending
    BY <1>7 DEF AskedBoth, Sending
  <2>5. PermitsConserved' /\ permits' \in 0..Permits
    BY <1>1, <1>7, <2>4 DEF AskedBoth
  <2>6. AttemptsInv' /\ attempts' \in [Requests -> 0..MaxAttempts]
    <3>1. 0 \in 0..MaxAttempts /\ 0 < MaxAttempts
      BY <1>0
    <3> QED BY <1>7, <3>1 DEF AskedBoth
  <2>7. QueueIsExact' /\ req' \in [Requests -> States]
    BY <1>7, <1>p, <1>q, <2>3 DEF AskedBoth
  <2> QED BY <2>3, <2>5, <2>6, <2>7
<1>8. ASSUME NEW r \in Requests, NEW s \in Requests, r # s, AskedAfter(r, s)
      PROVE  HttpInv'
  <2>1. /\ waiting' \in Seq(Requests)
        /\ Queued(waiting') = Queued(waiting) \cup {s}
        /\ NoRepeats(waiting')
    <3>1. s \notin Queued(waiting)
      BY <1>8, <1>q DEF AskedAfter
    <3> QED BY <1>8, <3>1, <1>q, QueueAppend DEF AskedAfter
  <2>2. Sending(Requests)' = sending
    BY <1>8 DEF AskedAfter, Sending
  <2>3. PermitsConserved' /\ permits' \in 0..Permits
    BY <1>1, <1>8, <2>2 DEF AskedAfter
  <2>4. AttemptsInv' /\ attempts' \in [Requests -> 0..MaxAttempts]
    BY <1>0, <1>8 DEF AskedAfter
  <2>5. QueueIsExact' /\ req' \in [Requests -> States]
    BY <1>8, <1>p, <1>q, <2>1 DEF AskedAfter
  <2> QED BY <2>1, <2>3, <2>4, <2>5
<1>9. ASSUME NEW rs \in SUBSET Requests, Dropped(rs)
      PROVE  HttpInv'
  <2>1. /\ waiting' \in Seq(Requests)
        /\ Queued(waiting') = Queued(waiting) \ rs
        /\ NoRepeats(waiting')
    BY <1>9, <1>q, WithoutProperties DEF Dropped
  <2>2. Sending(Requests)' = sending \ rs
    BY <1>9 DEF Dropped, Sending
  <2>3. Sending(rs) = sending \cap rs /\ Cardinality(Sending(rs)) \in Nat
    BY SendingFinite
  <2>4. Cardinality(sending \ rs) = Cardinality(sending) - Cardinality(sending \cap rs)
    BY <1>0, FS_Difference
  <2>5. Cardinality(sending \ rs) \in Nat
    BY <1>0, FS_Difference, FS_CardinalityType
  <2>6. PermitsConserved' /\ permits' \in 0..Permits
    <3>1. permits' = permits + Cardinality(Sending(rs))
      BY <1>9 DEF Dropped
    <3> HIDE DEF sending
    <3> QED BY <1>0, <2>2, <2>3, <2>4, <2>5, <3>1
  <2>7. QueueIsExact' /\ req' \in [Requests -> States]
    BY <1>9, <1>p, <1>q, <2>1 DEF Dropped
  <2>8. AttemptsInv' /\ attempts' = attempts
    BY <1>9 DEF Dropped
  <2> QED BY <2>1, <2>6, <2>7, <2>8
<1>10. CASE Acquire
  <2> DEFINE r == Head(waiting)
  <2>1. /\ r \in Queued(waiting) /\ r \in Requests
        /\ waiting' \in Seq(Requests)
        /\ Queued(waiting') = Queued(waiting) \ {r}
        /\ NoRepeats(waiting')
    BY <1>10, <1>q, QueueTail DEF Acquire
  <2> HIDE DEF r
  <2>2. /\ req' = [req EXCEPT ![r] = "sending"] /\ attempts' = [attempts EXCEPT ![r] = @ + 1]
        /\ permits' = permits - 1 /\ permits > 0
    BY <1>10 DEF Acquire, r
  <2>3. req[r] = "waiting" /\ attempts[r] < MaxAttempts
    BY <1>q, <2>1
  <2>4. r \notin sending /\ Sending(Requests)' = sending \cup {r}
    BY <2>1, <2>2, <2>3 DEF Sending
  <2>5. PermitsConserved' /\ permits' \in 0..Permits
    <3>1. Cardinality(sending \cup {r}) = Cardinality(sending) + 1
      BY <2>1, <2>4, SendingCounts
    <3> HIDE DEF sending
    <3> QED BY <1>0, <2>2, <2>4, <3>1
  <2>6. attempts' \in [Requests -> 0..MaxAttempts] /\ AttemptsInv'
    BY <1>0, <2>1, <2>2, <2>3
  <2>7. QueueIsExact' /\ req' \in [Requests -> States]
    BY <1>p, <1>q, <2>1, <2>2, <2>3
  <2> QED BY <2>1, <2>5, <2>6, <2>7
<1> QED BY <1>2, <1>3, <1>4, <1>5, <1>6, <1>7, <1>8, <1>9, <1>10 DEF HttpOps

\* A new semaphore with no requests.
LEMMA HttpEmpty ==
  ASSUME req = [r \in Requests |-> "idle"], attempts = [r \in Requests |-> 0],
         waiting = <<>>, permits = Permits
  PROVE  HttpInv
<1>1. Sending(Requests) = {} /\ waiting \in Seq(Requests) /\ DOMAIN waiting = {}
  BY EmptySeq DEF Sending
<1> QED
  BY <1>1, FS_EmptySet, HttpAssumption
  DEF HttpInv, HttpTypeOK, PermitsConserved, QueueIsExact, AttemptsInv

\* A restart leaves it so.
LEMMA HttpEmptied ==
  ASSUME HttpRestarts
  PROVE  HttpInv'
<1>1. Sending(Requests)' = {} /\ waiting' \in Seq(Requests) /\ DOMAIN waiting' = {}
  BY EmptySeq DEF HttpRestarts, Sending
<1> QED
  BY <1>1, FS_EmptySet, HttpAssumption
  DEF HttpRestarts, HttpInv, HttpTypeOK, PermitsConserved, QueueIsExact, AttemptsInv

-----------------------------------------------------------------------------
(* Who touches which request.                                              *)

\* The requests a task's two parts make.
LEMMA RequestsOf ==
  ASSUME NEW t \in Tasks
  PROVE  /\ SenderRequests(t) \subseteq Requests
         /\ <<t, "price">> \in SenderRequests(t) /\ <<t, "hash">> \in SenderRequests(t)
         /\ <<t, "simulate">> \in SenderRequests(t) /\ <<t, "send">> \in SenderRequests(t)
         /\ Fee(t) \in Requests
BY SenderAssumption, EstimatorAssumption DEF SenderRequests, Fee

\* The HTTP sender's own steps begin and end no request.
LEMMA HttpStepKeeps ==
  ASSUME HttpInv, HttpStep
  PROVE  /\ HttpOps
         /\ \A r \in Requests :
              /\ req'[r] = "idle" <=> req[r] = "idle"
              /\ req[r] = "idle" => attempts'[r] = attempts[r]
         /\ UNCHANGED senderVars
<1> USE DEF HttpInv, HttpTypeOK
<1> DEFINE Keeps == /\ HttpOps
                    /\ \A r \in Requests :
                         /\ req'[r] = "idle" <=> req[r] = "idle"
                         /\ req[r] = "idle" => attempts'[r] = attempts[r]
<1>1. ASSUME Acquire
      PROVE  Keeps
  <2>1. Head(waiting) \in {r \in Requests : req[r] = "waiting"}
    BY <1>1, QueueTail DEF Acquire, QueueIsExact, Queued, NoRepeats
  <2> QED BY <1>1, <2>1 DEF Acquire, HttpOps
<1>2. ASSUME NEW r \in Requests, NEW state \in {"ok", "failed", "backoff"},
             EndsAttempt(r, state), state = "backoff" => attempts[r] < MaxAttempts
      PROVE  Keeps
  <2>1. HttpOps
    BY <1>2 DEF HttpOps
  <2> QED BY <1>2, <2>1 DEF EndsAttempt
<1>3. ASSUME NEW r \in Requests, Retry(r)
      PROVE  Keeps
  BY <1>3 DEF Retry, HttpOps
<1>4. UNCHANGED senderVars
  BY DEF HttpStep, NodeAnswers
<1>5. ASSUME NEW r \in Requests, FailPermanently(r) \/ FailTransiently(r) \/ Answer(r)
      PROVE  \E state \in {"ok", "failed", "backoff"} :
               EndsAttempt(r, state) /\ (state = "backoff" => attempts[r] < MaxAttempts)
  BY <1>5 DEF FailPermanently, FailTransiently, Answer
<1>6. \/ Acquire
      \/ \E r \in Requests : Retry(r)
      \/ \E r \in Requests : FailPermanently(r) \/ FailTransiently(r) \/ Answer(r)
  BY DEF HttpStep, NodeAnswers
<1>7. Keeps
  <2> HIDE DEF Keeps
  <2> QED BY <1>1, <1>2, <1>3, <1>5, <1>6
<1> QED BY <1>4, <1>7

\* An estimate uses its own request only, and a task's sender the other ones.
LEMMA EnsureKeeps ==
  ASSUME HttpInv, NEW t \in Tasks, Ensure(t)
  PROVE  /\ HttpOps
         /\ \A r \in Requests \ {Fee(t)} : req'[r] = req[r] /\ attempts'[r] = attempts[r]
         /\ UNCHANGED senderVars
<1> USE DEF HttpInv, HttpTypeOK
<1>1. Fee(t) \in Requests
  BY RequestsOf
<1>2. Asked(Fee(t)) \/ Read(Fee(t)) \/ Dropped({Fee(t)}) \/ UNCHANGED http
  BY DEF Ensure, Estimates, StartCached, StartFresh, Starts, AskFee, Recompute, PriceStage,
         RunStage, StageRefused, EstimateFails, Decide, Decides
<1>3. HttpOps
  BY <1>1, <1>2 DEF HttpOps
<1>4. \A r \in Requests \ {Fee(t)} : req'[r] = req[r] /\ attempts'[r] = attempts[r]
  BY <1>1, <1>2 DEF Asked, Read, Dropped, http
<1> QED BY <1>3, <1>4 DEF Ensure

\* A task's sender uses its own requests only, and leaves the estimator alone.
LEMMA SenderKeeps ==
  ASSUME HttpInv, NEW t \in Tasks, Begin(t) \/ Send(t)
  PROVE  /\ HttpOps
         /\ \A r \in Requests \ SenderRequests(t) :
              req'[r] = req[r] /\ attempts'[r] = attempts[r]
         /\ UNCHANGED estimatorVars
<1> USE DEF HttpInv, HttpTypeOK
<1> DEFINE price_ == <<t, "price">>
           hash_ == <<t, "hash">>
           simulate_ == <<t, "simulate">>
           send_ == <<t, "send">>
<1>1. /\ SenderRequests(t) \in SUBSET Requests
      /\ price_ \in SenderRequests(t) /\ hash_ \in SenderRequests(t)
      /\ simulate_ \in SenderRequests(t) /\ send_ \in SenderRequests(t)
      /\ price_ # hash_ /\ hash_ # simulate_
  BY RequestsOf
<1>2. \/ AskedBoth(price_, hash_) \/ Read(price_) \/ AskedAfter(hash_, simulate_)
      \/ Read(simulate_) \/ Dropped(SenderRequests(t)) \/ Asked(send_)
      \/ Read(send_) \/ UNCHANGED http
  BY DEF Begin, Send, Sends, Evaluate, ReadPrice, ReadHash, ReadSimulation, SimulationFails,
         EvaluationFails, FailSender, Join, Land, ReadConfirmation, SendFails
<1> HIDE DEF price_, hash_, simulate_, send_
<1>3. HttpOps
  BY <1>1, <1>2 DEF HttpOps
<1>4. \A r \in Requests \ SenderRequests(t) : req'[r] = req[r] /\ attempts'[r] = attempts[r]
  BY <1>1, <1>2 DEF AskedBoth, AskedAfter, Asked, Read, Dropped, http
<1> QED BY <1>3, <1>4 DEF Begin, Send

\* Whose step it is.
LEMMA NextSteps ==
  ASSUME Next
  PROVE  \/ HttpStep /\ UNCHANGED estimatorVars
         \/ \E t \in Tasks : Ensure(t) \/ (Begin(t) \/ Send(t))
         \/ \E t \in Tasks : ToppedUp(t)
         \/ Restart
BY DEF Next, TaskStep

\* The HTTP sender's invariant, of every behaviour.
LEMMA HttpAlways == Spec => []HttpInv
<1>1. Init => HttpInv
  <2> SUFFICES ASSUME Init PROVE HttpInv
    OBVIOUS
  <2> QED BY HttpEmpty DEF Init, HttpInit
<1>2. HttpInv /\ [Next]_vars => HttpInv'
  <2> SUFFICES ASSUME HttpInv, [Next]_vars PROVE HttpInv'
    OBVIOUS
  <2>1. CASE HttpStep
    BY <2>1, HttpStepKeeps, HttpStepInv
  <2>2. CASE \E t \in Tasks : Ensure(t) \/ (Begin(t) \/ Send(t))
    BY <2>2, EnsureKeeps, SenderKeeps, HttpStepInv
  <2>3. CASE \E t \in Tasks : ToppedUp(t)
    <3>1. HttpOps
      BY <2>3 DEF ToppedUp, TopUp, HttpOps
    <3> QED BY <3>1, HttpStepInv
  <2>4. CASE UNCHANGED vars
    <3>1. HttpOps
      BY <2>4 DEF vars, HttpOps
    <3> QED BY <3>1, HttpStepInv
  <2>5. CASE Restart
    BY <2>5, HttpEmptied DEF Restart
  <2> QED BY <2>1, <2>2, <2>3, <2>4, <2>5, NextSteps
<1> QED BY <1>1, <1>2, PTL DEF Spec

\* Whatever is answered, retried or dropped halfway, every permit is either
\* left or held by a request that is being sent.
THEOREM NoPermitLost == Spec => []PermitsConserved
<1>1. HttpInv => PermitsConserved
  BY DEF HttpInv
<1> QED BY <1>1, HttpAlways, PTL

-----------------------------------------------------------------------------
(* The transaction sender.                                                 *)

\* The instructions are those that are sent.
Prepared(t) ==
  \E p \in price[t], u \in used[t] :
    used[t] = {u} /\ ixs[t] = <<PriceIx(p), LimitIx(Budget(u)), Call>>

Committed(t) == sender[t] \in {"send", "sent", "failed"}

\* Where the sender of a task stands determines its instructions, and which of
\* its requests are under way.
SenderTaskInv(t) ==
  /\ sender[t] \in {"idle", "evaluate", "send", "sent", "failed"}
  /\ used[t] \subseteq Units
  /\ used[t] # {} => \E u \in Units : used[t] = {u}
  /\ price[t] \subseteq {AveragePrice(fees) : fees \in FeeSamples}
  /\ sender[t] \in {"idle", "sent", "failed"} =>
       \A r \in SenderRequests(t) : req[r] = "idle"
  /\ sender[t] = "idle" => ixs[t] = <<Call>> /\ price[t] = {} /\ used[t] = {}
  /\ sender[t] = "evaluate" =>
       /\ ixs[t] = <<LimitIx(SimulationUnits), Call>>
       /\ req[<<t, "send">>] = "idle"
       /\ price[t] # {} => req[<<t, "price">>] = "idle"
       /\ used[t] # {} => req[<<t, "simulate">>] = "idle"
       /\ used[t] # {} \/ req[<<t, "simulate">>] # "idle" => req[<<t, "hash">>] = "idle"
  /\ sender[t] = "send" =>
       \A kind \in {"price", "hash", "simulate"} : req[<<t, kind>>] = "idle"
  /\ sender[t] = "send" => Prepared(t)
  /\ attempts[<<t, "send">>] # 0 => Committed(t) /\ Prepared(t)

SenderDomains ==
  /\ sender \in [Tasks -> {"idle", "evaluate", "send", "sent", "failed"}]
  /\ DOMAIN sender = Tasks /\ DOMAIN ixs = Tasks /\ DOMAIN price = Tasks
  /\ DOMAIN used = Tasks

\* What has landed is a task's transaction as it is.
LandedInv ==
  \A x \in landed : \E t \in Tasks : x = Signed(t) /\ Committed(t) /\ Prepared(t)

SenderInv == SenderDomains /\ LandedInv /\ \A t \in Tasks : SenderTaskInv(t)

\* A task whose sender and requests are left alone.
LEMMA SenderFrame ==
  ASSUME NEW t \in Tasks, SenderTaskInv(t),
         sender'[t] = sender[t], ixs'[t] = ixs[t], price'[t] = price[t], used'[t] = used[t],
         \A r \in SenderRequests(t) : req'[r] = req[r] /\ attempts'[r] = attempts[r]
  PROVE  SenderTaskInv(t)'
<1>1. /\ <<t, "price">> \in SenderRequests(t) /\ <<t, "hash">> \in SenderRequests(t)
      /\ <<t, "simulate">> \in SenderRequests(t) /\ <<t, "send">> \in SenderRequests(t)
      /\ \A kind \in {"price", "hash", "simulate"} : <<t, kind>> \in SenderRequests(t)
  BY DEF SenderRequests
<1>2. /\ Prepared(t)' <=> Prepared(t)
      /\ Committed(t)' <=> Committed(t)
      /\ \A r \in SenderRequests(t) : req'[r] = req[r]
  BY DEF Prepared, Committed
<1> QED BY <1>1, <1>2 DEF SenderTaskInv

\* What has landed stays what it is if no task goes back on it.
LEMMA LandedFrame ==
  ASSUME LandedInv, landed' = landed,
         \A t \in Tasks : Committed(t) /\ Prepared(t) =>
                          Committed(t)' /\ Prepared(t)' /\ Signed(t)' = Signed(t)
  PROVE  LandedInv'
BY DEF LandedInv

\* A step of the HTTP sender.
LEMMA SenderHttpStep ==
  ASSUME HttpInv, SenderInv, HttpStep
  PROVE  SenderInv'
<1>1. /\ \A r \in Requests :
           /\ req'[r] = "idle" <=> req[r] = "idle"
           /\ req[r] = "idle" => attempts'[r] = attempts[r]
      /\ UNCHANGED <<sender, ixs, price, used, landed>>
  BY HttpStepKeeps DEF senderVars
<1>2. ASSUME NEW t \in Tasks
      PROVE  SenderTaskInv(t)'
  <2>1. /\ SenderRequests(t) \subseteq Requests
        /\ <<t, "price">> \in SenderRequests(t) /\ <<t, "hash">> \in SenderRequests(t)
        /\ <<t, "simulate">> \in SenderRequests(t) /\ <<t, "send">> \in SenderRequests(t)
        /\ \A kind \in {"price", "hash", "simulate"} : <<t, kind>> \in SenderRequests(t)
    BY RequestsOf DEF SenderRequests
  <2>2. SenderTaskInv(t) /\ (Prepared(t)' <=> Prepared(t)) /\ (Committed(t)' <=> Committed(t))
    BY <1>1 DEF SenderInv, Prepared, Committed
  <2>3. attempts'[<<t, "send">>] # 0 => Committed(t) /\ Prepared(t)
    <3>1. CASE req[<<t, "send">>] = "idle"
      BY <1>1, <2>1, <2>2, <3>1 DEF SenderTaskInv
    <3>2. CASE req[<<t, "send">>] # "idle"
      <4>1. sender[t] = "send"
        BY <2>1, <2>2, <3>2 DEF SenderTaskInv
      <4> QED BY <2>2, <4>1 DEF SenderTaskInv, Committed
    <3> QED BY <3>1, <3>2
  <2>4. \A r \in SenderRequests(t) : req'[r] = "idle" <=> req[r] = "idle"
    BY <1>1, <2>1
  <2> QED BY <1>1, <2>1, <2>2, <2>3, <2>4 DEF SenderTaskInv
<1>3. LandedInv'
  BY <1>1 DEF SenderInv, LandedInv, Committed, Prepared, Signed
<1> QED BY <1>1, <1>2, <1>3 DEF SenderInv, SenderDomains

\* A step that leaves the sender and its requests alone.
LEMMA SenderOtherStep ==
  ASSUME SenderInv, UNCHANGED senderVars,
         \A t \in Tasks : \A r \in SenderRequests(t) : req'[r] = req[r] /\ attempts'[r] = attempts[r]
  PROVE  SenderInv'
<1>1. UNCHANGED <<sender, ixs, price, used, landed>>
  BY DEF senderVars
<1>2. \A t \in Tasks : SenderTaskInv(t)'
  BY <1>1, SenderFrame DEF SenderInv
<1>3. LandedInv'
  BY <1>1 DEF SenderInv, LandedInv, Committed, Prepared, Signed
<1> QED BY <1>1, <1>2, <1>3 DEF SenderInv, SenderDomains

\* The price goes to the front and the limit replaces the one of the simulation.
LEMMA Replaced ==
  ASSUME NEW a, NEW b, NEW c, NEW d
  PROVE  [(<<a>> \o <<b, c>>) EXCEPT ![2] = d] = <<a, d, c>>
<1>1. <<a>> \o <<b, c>> = <<a, b, c>>
  <2> DEFINE S == {a, b, c}
  <2>1. /\ <<a>> \in Seq(S) /\ Len(<<a>>) = 1 /\ <<a>>[1] = a
        /\ <<b, c>> \in Seq(S) /\ Len(<<b, c>>) = 2 /\ <<b, c>>[1] = b /\ <<b, c>>[2] = c
        /\ <<a, b, c>> \in Seq(S) /\ Len(<<a, b, c>>) = 3
        /\ <<a, b, c>>[1] = a /\ <<a, b, c>>[2] = b /\ <<a, b, c>>[3] = c
    OBVIOUS
  <2> HIDE DEF S
  <2>2. /\ <<a>> \o <<b, c>> \in Seq(S)
        /\ Len(<<a>> \o <<b, c>>) = Len(<<a>>) + Len(<<b, c>>)
        /\ \A i \in 1..Len(<<a>>) + Len(<<b, c>>) :
             (<<a>> \o <<b, c>>)[i] =
               IF i <= Len(<<a>>) THEN <<a>>[i] ELSE <<b, c>>[i - Len(<<a>>)]
    BY <2>1, ConcatProperties
  <2>3. /\ Len(<<a>> \o <<b, c>>) = 3
        /\ (<<a>> \o <<b, c>>)[1] = a
        /\ (<<a>> \o <<b, c>>)[2] = b
        /\ (<<a>> \o <<b, c>>)[3] = c
    BY <2>1, <2>2
  <2>4. \A i \in 1..3 : i = 1 \/ i = 2 \/ i = 3
    OBVIOUS
  <2>5. \A i \in 1..Len(<<a>> \o <<b, c>>) : (<<a>> \o <<b, c>>)[i] = <<a, b, c>>[i]
    BY <2>1, <2>3, <2>4
  <2> QED BY <2>1, <2>2, <2>3, <2>5, SeqEqual
<1> QED BY <1>1

\* The limit of the simulation before the call.
LEMMA Prefixed ==
  ASSUME NEW a, NEW b
  PROVE  <<a>> \o <<b>> = <<a, b>>
<1> DEFINE S == {a, b}
<1>1. /\ <<a>> \in Seq(S) /\ Len(<<a>>) = 1 /\ <<a>>[1] = a
      /\ <<b>> \in Seq(S) /\ Len(<<b>>) = 1 /\ <<b>>[1] = b
      /\ <<a, b>> \in Seq(S) /\ Len(<<a, b>>) = 2 /\ <<a, b>>[1] = a /\ <<a, b>>[2] = b
  OBVIOUS
<1> HIDE DEF S
<1>2. /\ <<a>> \o <<b>> \in Seq(S)
      /\ Len(<<a>> \o <<b>>) = Len(<<a>>) + Len(<<b>>)
      /\ \A i \in 1..Len(<<a>>) + Len(<<b>>) :
           (<<a>> \o <<b>>)[i] = IF i <= Len(<<a>>) THEN <<a>>[i] ELSE <<b>>[i - Len(<<a>>)]
  BY <1>1, ConcatProperties
<1>3. /\ Len(<<a>> \o <<b>>) = 2
      /\ (<<a>> \o <<b>>)[1] = a
      /\ (<<a>> \o <<b>>)[2] = b
  BY <1>1, <1>2
<1>4. \A i \in 1..2 : i = 1 \/ i = 2
  OBVIOUS
<1>5. \A i \in 1..Len(<<a>> \o <<b>>) : (<<a>> \o <<b>>)[i] = <<a, b>>[i]
  BY <1>1, <1>3, <1>4
<1> QED BY <1>1, <1>2, <1>3, <1>5, SeqEqual

\* A step of a task's sender, or its transaction lands.
LEMMA SenderTaskStep ==
  ASSUME HttpInv, SenderInv, NEW t \in Tasks, Begin(t) \/ Send(t)
  PROVE  SenderInv'
<1> DEFINE price_ == <<t, "price">>
           hash_ == <<t, "hash">>
           simulate_ == <<t, "simulate">>
           send_ == <<t, "send">>
<1>1. /\ SenderRequests(t) = {price_, hash_, simulate_, send_}
      /\ SenderRequests(t) \subseteq Requests
      /\ price_ # hash_ /\ price_ # simulate_ /\ price_ # send_ /\ hash_ # simulate_
      /\ hash_ # send_ /\ simulate_ # send_
      /\ \A u \in Tasks \ {t} : SenderRequests(u) \subseteq Requests \ SenderRequests(t)
  <2>1. \A u \in Tasks \ {t} : SenderRequests(u) \cap SenderRequests(t) = {}
    BY DEF SenderRequests
  <2>2. SenderRequests(t) = {price_, hash_, simulate_, send_}
    BY DEF SenderRequests
  <2> QED BY <2>1, <2>2, RequestsOf
<1>2. \A r \in Requests \ SenderRequests(t) : req'[r] = req[r] /\ attempts'[r] = attempts[r]
  BY SenderKeeps
<1>3. /\ SenderDomains'
      /\ \A u \in Tasks \ {t} :
           sender'[u] = sender[u] /\ ixs'[u] = ixs[u] /\ price'[u] = price[u] /\ used'[u] = used[u]
  BY DEF SenderInv, SenderDomains, Begin, Send, Sends, Evaluate, ReadPrice, ReadHash,
         ReadSimulation, SimulationFails, EvaluationFails, FailSender, Join, Land,
         ReadConfirmation, SendFails, senderVars
<1>4. \A u \in Tasks \ {t} : SenderTaskInv(u)'
  BY <1>1, <1>2, <1>3, SenderFrame DEF SenderInv
<1>5. \A u \in Tasks \ {t} : Committed(u) /\ Prepared(u) =>
                              Committed(u)' /\ Prepared(u)' /\ Signed(u)' = Signed(u)
  BY <1>3 DEF Committed, Prepared, Signed
<1>6. SUFFICES /\ SenderTaskInv(t)'
               /\ Committed(t) /\ Prepared(t) =>
                    Committed(t)' /\ Prepared(t)' /\ Signed(t)' = Signed(t)
               /\ landed' = landed \/ Land(t)
  <2>1. CASE landed' = landed
    <3>1. LandedInv'
      BY <1>5, <1>6, <2>1, LandedFrame DEF SenderInv
    <3> QED BY <1>3, <1>4, <1>6, <3>1 DEF SenderInv
  <2>2. CASE Land(t)
    <3>1. landed' = landed \cup {Signed(t)} /\ Signed(t)' = Signed(t)
      BY <2>2 DEF Land, Signed
    <3>2. Committed(t) /\ Prepared(t)
      <4>1. attempts[send_] # 0
        BY <1>1, <2>2 DEF Land, HttpInv, HttpTypeOK
      <4> QED BY <4>1 DEF SenderInv, SenderTaskInv
    <3>3. LandedInv'
      BY <1>5, <1>6, <3>1, <3>2 DEF SenderInv, LandedInv
    <3> QED BY <1>3, <1>4, <1>6, <3>3 DEF SenderInv
  <2> QED BY <1>6, <2>1, <2>2
<1> USE DEF SenderInv, SenderTaskInv, SenderDomains, HttpInv, HttpTypeOK
<1>7. CASE Evaluate(t)
  <2>1. /\ sender'[t] = "evaluate" /\ ixs'[t] = <<LimitIx(SimulationUnits)>> \o <<Call>>
        /\ price'[t] = {} /\ used'[t] = {} /\ landed' = landed /\ sender[t] = "idle"
    BY <1>7 DEF Evaluate
  <2>2. /\ req'[send_] = "idle" /\ req'[simulate_] = "idle"
        /\ attempts'[send_] = attempts[send_]
    <3>1. /\ req' = [req EXCEPT ![price_] = "waiting", ![hash_] = "waiting"]
          /\ attempts' = [attempts EXCEPT ![price_] = 0, ![hash_] = 0]
      BY <1>7 DEF Evaluate, AskedBoth
    <3>2. req[send_] = "idle" /\ req[simulate_] = "idle"
      BY <1>1, <2>1
    <3> HIDE DEF price_, hash_, simulate_, send_
    <3> QED BY <1>1, <3>1, <3>2
  <2>3. <<LimitIx(SimulationUnits)>> \o <<Call>> = <<LimitIx(SimulationUnits), Call>>
    BY Prefixed
  <2> QED BY <2>1, <2>2, <2>3 DEF Committed
<1>8. CASE ReadPrice(t)
  <2>1. /\ sender'[t] = "evaluate" /\ sender[t] = "evaluate" /\ ixs'[t] = ixs[t]
        /\ used'[t] = used[t] /\ landed' = landed
        /\ price'[t] \subseteq {AveragePrice(fees) : fees \in FeeSamples}
    BY <1>8 DEF ReadPrice
  <2>2. /\ req' = [req EXCEPT ![price_] = "idle"]
        /\ attempts' = [attempts EXCEPT ![price_] = 0]
    BY <1>8 DEF ReadPrice, Read
  <2> QED BY <1>1, <2>1, <2>2 DEF Committed
<1>9. CASE ReadHash(t)
  <2>1. /\ sender'[t] = "evaluate" /\ sender[t] = "evaluate" /\ ixs'[t] = ixs[t]
        /\ used'[t] = used[t] /\ landed' = landed /\ price'[t] = price[t]
    BY <1>9 DEF ReadHash, senderVars
  <2>2. /\ req' = [req EXCEPT ![hash_] = "idle", ![simulate_] = "waiting"]
        /\ attempts' = [attempts EXCEPT ![hash_] = 0, ![simulate_] = 0]
        /\ req[hash_] = "ok"
    BY <1>9 DEF ReadHash, AskedAfter
  <2> QED BY <1>1, <2>1, <2>2 DEF Committed
<1>10. CASE ReadSimulation(t)
  <2>1. /\ sender'[t] = "evaluate" /\ sender[t] = "evaluate" /\ ixs'[t] = ixs[t]
        /\ price'[t] = price[t] /\ landed' = landed
        /\ \E u \in Units : used'[t] = {u}
    BY <1>10 DEF ReadSimulation
  <2>2. /\ req' = [req EXCEPT ![simulate_] = "idle"]
        /\ attempts' = [attempts EXCEPT ![simulate_] = 0]
        /\ req[simulate_] = "ok"
    BY <1>10 DEF ReadSimulation, Read
  <2> QED BY <1>1, <2>1, <2>2 DEF Committed
<1>11. CASE SimulationFails(t) \/ EvaluationFails(t) \/ SendFails(t)
  <2>1. /\ sender'[t] = "failed" /\ sender[t] \in {"evaluate", "send"} /\ ixs' = ixs
        /\ price' = price /\ used' = used /\ landed' = landed /\ attempts' = attempts
        /\ req' = [r \in Requests |-> IF r \in SenderRequests(t) THEN "idle" ELSE req[r]]
    BY <1>11 DEF SimulationFails, EvaluationFails, SendFails, FailSender, Dropped
  <2> QED BY <1>1, <2>1 DEF Committed, Prepared, Signed
<1>12. CASE Join(t)
  <2>1. PICK p \in price[t], u \in used[t] :
          ixs'[t] = [(<<PriceIx(p)>> \o ixs[t]) EXCEPT ![2] = LimitIx(Budget(u))]
    BY <1>12 DEF Join
  <2>2. /\ sender'[t] = "send" /\ sender[t] = "evaluate"
        /\ price' = price /\ used' = used /\ landed' = landed
        /\ price[t] # {} /\ used[t] # {}
    BY <1>12 DEF Join
  <2>3. /\ req' = [req EXCEPT ![send_] = "waiting"] /\ attempts' = [attempts EXCEPT ![send_] = 0]
    BY <1>12 DEF Join, Asked
  <2>4. ixs'[t] = <<PriceIx(p), LimitIx(Budget(u)), Call>>
    <3>1. ixs[t] = <<LimitIx(SimulationUnits), Call>>
      BY <2>2
    <3> QED BY <2>1, <3>1, Replaced
  <2>5. Prepared(t)'
    <3>1. \E v \in Units : used[t] = {v}
      BY <2>2
    <3>2. used[t] = {u}
      BY <2>1, <3>1
    <3>3. used'[t] = {u} /\ u \in used'[t] /\ p \in price'[t]
      BY <2>1, <2>2, <3>2
    <3> QED BY <2>4, <3>3 DEF Prepared
  <2> QED BY <1>1, <2>2, <2>3, <2>5 DEF Committed
<1>13. CASE ReadConfirmation(t)
  <2>1. /\ sender'[t] = "sent" /\ sender[t] = "send" /\ ixs' = ixs
        /\ price' = price /\ used' = used /\ landed' = landed
        /\ attempts' = [attempts EXCEPT ![send_] = 0]
        /\ req' = [req EXCEPT ![send_] = "idle"]
    BY <1>13 DEF ReadConfirmation, Read
  <2>2. /\ req[price_] = "idle" /\ req[hash_] = "idle" /\ req[simulate_] = "idle"
        /\ Prepared(t)
    BY <2>1
  <2>3. \A r \in SenderRequests(t) : req'[r] = "idle"
    <3> HIDE DEF price_, hash_, simulate_, send_
    <3> QED BY <1>1, <2>1, <2>2
  <2>4. Prepared(t)' /\ Committed(t)' /\ Signed(t)' = Signed(t)
    BY <2>1, <2>2 DEF Committed, Prepared, Signed
  <2> QED BY <2>1, <2>3, <2>4
<1>14. CASE Land(t)
  <2>1. UNCHANGED <<sender, ixs, price, used, req, attempts>>
    BY <1>14 DEF Land, http
  <2> QED BY <1>14, <2>1 DEF Committed, Prepared, Signed
<1> QED
  BY <1>7, <1>8, <1>9, <1>10, <1>11, <1>12, <1>13, <1>14 DEF Begin, Send, Sends

\* A task begins to send once its gas suffices.
BegunInv ==
  /\ DOMAIN sender = Tasks /\ DOMAIN est = Tasks
  /\ \A t \in Tasks : sender[t] # "idle" => est[t] = "enough"

\* It does so in every behaviour: no estimate of it begins again.
LEMMA BegunAlways == Spec => []BegunInv
<1>1. Init => BegunInv
  BY DEF Init, SenderInit, EstimatorInit, BegunInv
<1>2. BegunInv /\ [Next]_vars => BegunInv'
  <2> SUFFICES ASSUME BegunInv, [Next]_vars PROVE BegunInv'
    OBVIOUS
  <2> USE DEF BegunInv
  <2>1. CASE HttpStep /\ UNCHANGED estimatorVars
    BY <2>1 DEF HttpStep, NodeAnswers, senderVars, estimatorVars, taskVars
  <2>2. ASSUME NEW t \in Tasks, Ensure(t) \/ ToppedUp(t)
        PROVE  BegunInv'
    <3>1. est[t] # "enough" /\ DOMAIN est' = Tasks
          /\ \A u \in Tasks \ {t} : est'[u] = est[u]
      BY <2>2 DEF Ensure, ToppedUp, Estimates, StartCached, StartFresh, Starts, AskFee,
                  Recompute, PriceStage, RunStage, StageRefused, EstimateFails, Fails,
                  Decide, Decides, Returns, TopUp, estimatorVars, taskVars
    <3>2. sender' = sender
      BY <2>2 DEF Ensure, ToppedUp, senderVars
    <3> QED BY <3>1, <3>2
  <2>3. ASSUME NEW t \in Tasks, Begin(t) \/ Send(t)
        PROVE  BegunInv'
    <3>1. est' = est
      BY <2>3 DEF Begin, Send, estimatorVars, taskVars
    <3>2. /\ DOMAIN sender' = Tasks
          /\ \A u \in Tasks \ {t} : sender'[u] = sender[u]
          /\ sender[t] = "idle" /\ sender'[t] # "idle" => est[t] = "enough"
      BY <2>3 DEF Begin, Send, Sends, Evaluate, ReadPrice, ReadHash, ReadSimulation,
                  SimulationFails, EvaluationFails, FailSender, Join, Land,
                  ReadConfirmation, SendFails, senderVars
    <3> QED BY <3>1, <3>2
  <2>4. CASE Restart
    BY <2>4 DEF Restart, SenderRestarts, EstimatorRestarts
  <2>5. CASE UNCHANGED vars
    BY <2>5 DEF vars, senderVars, estimatorVars, taskVars
  <2> QED BY <2>1, <2>2, <2>3, <2>4, <2>5, NextSteps
<1> QED BY <1>1, <1>2, PTL DEF Spec

\* A restart leaves the tasks that have ended, and no transaction.
LEMMA SenderRestartStep ==
  ASSUME BegunInv, SenderInv, Restart
  PROVE  SenderInv'
<1>1. PICK again \in SUBSET Tasks :
        /\ \A t \in Tasks \ again : Ended(t)
        /\ HttpRestarts /\ SenderRestarts(again)
  BY DEF Restart
<1>2. ASSUME NEW t \in Tasks
      PROVE  SenderTaskInv(t)'
  <2>1. /\ ixs'[t] = <<Call>> /\ price'[t] = {} /\ used'[t] = {}
        /\ \A r \in Requests : req'[r] = "idle" /\ attempts'[r] = 0
    BY <1>1 DEF HttpRestarts, SenderRestarts
  <2>2. /\ \A r \in SenderRequests(t) : req'[r] = "idle"
        /\ attempts'[<<t, "send">>] = 0
    BY <2>1, RequestsOf
  <2>3. sender'[t] \in {"idle", "sent", "failed"}
    <3>1. CASE t \in again
      BY <1>1, <3>1 DEF SenderRestarts
    <3>2. CASE t \notin again
      <4>1. sender'[t] = sender[t] /\ Ended(t)
        BY <1>1, <3>2 DEF SenderRestarts
      <4> QED BY <4>1 DEF Ended, BegunInv
    <3> QED BY <3>1, <3>2
  <2> QED BY <2>1, <2>2, <2>3 DEF SenderTaskInv
<1>3. SenderDomains' /\ LandedInv'
  <2>1. sender' \in [Tasks -> {"idle", "evaluate", "send", "sent", "failed"}]
    BY <1>1 DEF SenderRestarts, SenderInv, SenderDomains
  <2>2. /\ DOMAIN ixs' = Tasks /\ DOMAIN price' = Tasks /\ DOMAIN used' = Tasks
        /\ DOMAIN sender' = Tasks
    BY <1>1 DEF SenderRestarts
  <2>3. LandedInv'
    BY <1>1 DEF SenderRestarts, LandedInv
  <2> QED BY <2>1, <2>2, <2>3 DEF SenderDomains
<1> QED BY <1>2, <1>3 DEF SenderInv

\* The sender's invariant, of every behaviour.
LEMMA SenderAlways == Spec => [](HttpInv /\ BegunInv /\ SenderInv)
<1>1. Init => SenderInv
  <2> SUFFICES ASSUME Init PROVE SenderInv
    OBVIOUS
  <2>1. ASSUME NEW t \in Tasks
        PROVE  SenderTaskInv(t)
    <3>1. \A r \in SenderRequests(t) : req[r] = "idle" /\ attempts[r] = 0
      BY RequestsOf DEF Init, HttpInit
    <3> QED BY <3>1, RequestsOf DEF Init, SenderInit, SenderTaskInv
  <2> QED BY <2>1 DEF Init, SenderInit, SenderInv, SenderDomains, LandedInv
<1>2. HttpInv /\ BegunInv /\ SenderInv /\ [Next]_vars => SenderInv'
  <2> SUFFICES ASSUME HttpInv, BegunInv, SenderInv, [Next]_vars PROVE SenderInv'
    OBVIOUS
  <2>1. CASE HttpStep
    BY <2>1, SenderHttpStep
  <2>2. ASSUME NEW t \in Tasks, Ensure(t)
        PROVE  SenderInv'
    <3>1. \A u \in Tasks : SenderRequests(u) \subseteq Requests \ {Fee(t)}
      <4>1. \A u \in Tasks : Fee(t) \notin SenderRequests(u)
        BY DEF Fee, SenderRequests
      <4> QED BY <4>1, RequestsOf
    <3>2. UNCHANGED senderVars
      BY <2>2, EnsureKeeps
    <3>3. \A u \in Tasks : \A r \in SenderRequests(u) : req'[r] = req[r] /\ attempts'[r] = attempts[r]
      BY <2>2, <3>1, EnsureKeeps
    <3> QED BY <3>2, <3>3, SenderOtherStep
  <2>3. ASSUME NEW t \in Tasks, Begin(t) \/ Send(t)
        PROVE  SenderInv'
    BY <2>3, SenderTaskStep
  <2>4. CASE \E t \in Tasks : ToppedUp(t)
    BY <2>4, SenderOtherStep DEF ToppedUp, TopUp, http
  <2>5. CASE UNCHANGED vars
    BY <2>5, SenderOtherStep DEF vars, http
  <2>6. CASE Restart
    BY <2>6, SenderRestartStep
  <2> QED BY <2>1, <2>2, <2>3, <2>4, <2>5, <2>6, NextSteps
<1> QED BY <1>1, <1>2, HttpAlways, BegunAlways, PTL DEF Spec

\* However often the answers are lost and the send repeated, a task's
\* transaction lands once: the attempts send what was signed before them.
THEOREM SentOnce == Spec => []LandsOnce
<1>1. SenderInv => LandsOnce
  BY DEF SenderInv, LandedInv, LandsOnce, Signed
<1> QED BY <1>1, SenderAlways, PTL

\* The limit made from what a simulation reported is no less, the cap included,
\* and leaves room for the instruction it did not have if a tenth of it does.
LEMMA BudgetCovers ==
  ASSUME NEW u \in Units
  PROVE  /\ Budget(u) \in 0..MaxUnits /\ Budget(u) >= u
         /\ Budget(u) >= u + PriceUnits <=> u >= 10 * PriceUnits
<1>1. /\ MaxUnits \in Nat /\ PriceUnits \in Nat /\ MaxUnits <= MaxU64 /\ MaxU64 \in Nat
      /\ u \in Nat /\ u + PriceUnits <= MaxUnits
  BY FeeAssumption, SenderAssumption, AmountAssumption DEF SimulationUnits
<1>2. u \div 10 \in Nat /\ (u \div 10 >= PriceUnits <=> u >= 10 * PriceUnits)
  BY <1>1
<1>3. Budget(u) = IF u + u \div 10 > MaxUnits THEN MaxUnits ELSE u + u \div 10
  BY <1>1, <1>2 DEF Budget, AtMost, Plus
<1>4. Budget(u) >= u + PriceUnits <=> u \div 10 >= PriceUnits
  BY <1>1, <1>2, <1>3
<1> QED BY <1>1, <1>2, <1>3, <1>4

\* What lands carries the call and one limit the chain allows, for every result of
\* a simulation: none, one too small for its tenth, and one at the cap included.
THEOREM LimitCovers == Spec => []LimitCoversPrice
<1>1. SenderInv => LimitCoversPrice
  <2> SUFFICES ASSUME SenderInv, NEW x \in landed
               PROVE  /\ \E limit \in 0..MaxUnits :
                           /\ Limits(x) = {limit}
                           /\ \A units \in used[x.task] :
                                /\ limit >= units
                                /\ limit >= units + PriceUnits
                                     <=> units >= 10 * PriceUnits
                      /\ x.ixs[Len(x.ixs)] = Call
    BY DEF LimitCoversPrice
  <2>1. PICK t \in Tasks : x = Signed(t) /\ Prepared(t)
    BY DEF SenderInv, LandedInv
  <2>2. PICK p \in price[t], u \in used[t] :
          used[t] = {u} /\ ixs[t] = <<PriceIx(p), LimitIx(Budget(u)), Call>>
    BY <2>1 DEF Prepared
  <2>3. x.task = t /\ x.ixs = <<PriceIx(p), LimitIx(Budget(u)), Call>>
    BY <2>1, <2>2 DEF Signed
  <2>4. /\ Budget(u) \in 0..MaxUnits /\ Budget(u) >= u
        /\ Budget(u) >= u + PriceUnits <=> u >= 10 * PriceUnits
    BY <2>2, BudgetCovers DEF SenderInv, SenderTaskInv
  <2>5. Limits(x) = {Budget(u)}
    <3> DEFINE b == Budget(u)
               sent == <<PriceIx(p), LimitIx(b), Call>>
    <3>1. /\ DOMAIN sent = {1, 2, 3}
          /\ sent[1].name = "price" /\ sent[2].name = "limit" /\ sent[3].name = "call"
          /\ sent[2].n = b
      BY DEF PriceIx, LimitIx, Call
    <3> HIDE DEF b, sent
    <3>2. {k \in DOMAIN sent : sent[k].name = "limit"} = {2}
      BY <3>1
    <3>3. {sent[k].n : k \in {j \in DOMAIN sent : sent[j].name = "limit"}} = {b}
      BY <3>1, <3>2
    <3>4. x.ixs = sent
      BY <2>3 DEF b, sent
    <3> QED BY <3>3, <3>4 DEF Limits, b
  <2>6. x.ixs[Len(x.ixs)] = Call
    BY <2>3
  <2> QED BY <2>2, <2>3, <2>4, <2>5, <2>6
<1> QED BY <1>1, SenderAlways, PTL

-----------------------------------------------------------------------------
(* The estimator.                                                          *)

Simulating(t) == est[t] \in {"simulate", "run"}

EstimatorDomains ==
  /\ est \in [Tasks -> {"idle", "simulate", "run", "recompute", "enough",
                        "insufficient", "refused", "failed"}]
  /\ stage \in [Tasks -> Int]
  /\ DOMAIN est = Tasks /\ DOMAIN stage = Tasks /\ DOMAIN fee = Tasks
  /\ DOMAIN breakdown = Tasks
  /\ DOMAIN cache = Messages /\ DOMAIN simulated = Messages /\ DOMAIN first = Messages

\* Where the estimate of a task stands determines what it has found out, and
\* whether its request may be under way.
EstimateInv(t) ==
  /\ est[t] \in {"idle", "simulate", "run", "recompute", "enough", "insufficient",
                 "refused", "failed"}
  /\ stage[t] \in 1..Last + 1
  /\ fee[t] \in {0} \cup {AveragePrice(fees) : fees \in FeeSamples}
  /\ req[Fee(t)] # "idle" => est[t] \in {"simulate", "recompute"} /\ stage[t] <= Last
  /\ est[t] = "run" => stage[t] <= Last
  /\ ~Estimating(t) => stage[t] = 1
  /\ Simulating(t) => breakdown[t] = SubSeq(StageUnits, 1, stage[t] - 1)
  /\ est[t] = "recompute" => breakdown[t] = StageUnits
  /\ est[t] = "refused" => MessageOf[t] \in spoiled

\* The simulation node has what the one estimate of an unspoiled message has
\* done there.
UnspoiledInv(m) ==
  /\ \A t, u \in Tasks :
       MessageOf[t] = m /\ MessageOf[u] = m /\ Estimating(t) /\ Estimating(u) => t = u
  /\ \A t \in Tasks : MessageOf[t] = m /\ Simulating(t) =>
       /\ first[m] = {}
       /\ simulated[m] = IF stage[t] = Last + 1 THEN 0 ELSE stage[t] - 1
       /\ m \in executed => \E k \in 1..(stage[t] - 1) : Stages[k] = "execute"
  /\ first[m] = {} /\ (\A t \in Tasks : MessageOf[t] = m => ~Simulating(t)) =>
       simulated[m] = 0 /\ m \notin executed
  /\ first[m] # {} =>
       \/ cache[m] # {}
       \/ \E t \in Tasks : MessageOf[t] = m /\ est[t] = "recompute"

MessageInv(m) ==
  /\ \A parts \in cache[m] : parts = StageUnits
  /\ simulated[m] \in 0..Last
  /\ m \notin spoiled => UnspoiledInv(m)

EstimatorInv ==
  /\ EstimatorDomains
  /\ executed \subseteq Messages /\ spoiled \subseteq Messages
  /\ \A t \in Tasks : EstimateInv(t)
  /\ \A m \in Messages : MessageInv(m)

\* The stages: there is one at least, the last one closes, one executes.
LEMMA StagesAre ==
  /\ Last \in Nat \ {0} /\ DOMAIN Stages = 1..Last /\ DOMAIN StageUnits = 1..Last
  /\ StageUnits \in Seq(Nat) /\ Len(StageUnits) = Last
  /\ \A k \in 1..Last : Stages[k] = "close" <=> k = Last
  /\ \A j, k \in 1..Last : Stages[j] = "execute" /\ Stages[k] = "execute" => j = k
  /\ \A t \in Tasks : MessageOf[t] \in Messages
BY EstimatorAssumption, EmptySeq, LenProperties DEF Last, Messages

\* What the first stages used, with the next one.
LEMMA NextPart ==
  ASSUME NEW k \in 1..Last
  PROVE  /\ Append(SubSeq(StageUnits, 1, k - 1), StageUnits[k]) = SubSeq(StageUnits, 1, k)
         /\ SubSeq(StageUnits, 1, 0) = <<>>
         /\ SubSeq(StageUnits, 1, Last) = StageUnits
<1>1. /\ Last \in Nat \ {0} /\ StageUnits \in Seq(Nat) /\ Len(StageUnits) = Last
  BY StagesAre
<1>2. SubSeq(StageUnits, 1, k) = SubSeq(StageUnits, 1, k - 1) \o <<StageUnits[k]>>
  <2>1. 1 \in 1..Len(StageUnits) /\ k \in 1..Len(StageUnits)
    BY <1>1
  <2> QED BY <1>1, <2>1, SubSeqRecursiveSecond
<1>3. SubSeq(StageUnits, 1, k - 1) \in Seq(Nat) /\ StageUnits[k] \in Nat
  BY <1>1
<1>4. Append(SubSeq(StageUnits, 1, k - 1), StageUnits[k])
        = SubSeq(StageUnits, 1, k - 1) \o <<StageUnits[k]>>
  BY <1>3, AppendIsConcat
<1>5. SubSeq(StageUnits, 1, 0) = <<>> /\ SubSeq(StageUnits, 1, Last) = StageUnits
  BY <1>1, SubSeqEmpty, SubSeqFull
<1> QED BY <1>2, <1>4, <1>5

\* A task that is left alone.
LEMMA EstimateFrame ==
  ASSUME NEW t \in Tasks, EstimateInv(t), spoiled \subseteq spoiled',
         est'[t] = est[t], stage'[t] = stage[t], fee'[t] = fee[t],
         breakdown'[t] = breakdown[t],
         req'[Fee(t)] = "idle" <=> req[Fee(t)] = "idle"
  PROVE  EstimateInv(t)'
BY DEF EstimateInv, Estimating, Simulating, Fee

\* A message that is left alone.
LEMMA MessageFrame ==
  ASSUME NEW m \in Messages, MessageInv(m),
         cache'[m] = cache[m], simulated'[m] = simulated[m], first'[m] = first[m],
         m \in executed' <=> m \in executed, m \in spoiled' <=> m \in spoiled,
         \A t \in Tasks : MessageOf[t] = m => est'[t] = est[t] /\ stage'[t] = stage[t]
  PROVE  MessageInv(m)'
<1>1. \A t \in Tasks : MessageOf[t] = m =>
        (Estimating(t)' <=> Estimating(t)) /\ (Simulating(t)' <=> Simulating(t))
  BY DEF Estimating, Simulating
<1>2. m \notin spoiled => UnspoiledInv(m)
  BY DEF MessageInv
<1>3. ASSUME UnspoiledInv(m)
      PROVE  UnspoiledInv(m)'
  BY <1>1, <1>3 DEF UnspoiledInv
<1> QED BY <1>2, <1>3 DEF MessageInv

\* A step that leaves the estimator alone.
LEMMA EstimatorOtherStep ==
  ASSUME EstimatorInv, UNCHANGED estimatorVars,
         \A t \in Tasks : req'[Fee(t)] = "idle" <=> req[Fee(t)] = "idle"
  PROVE  EstimatorInv'
<1>1. UNCHANGED <<est, stage, fee, breakdown, cache, simulated, executed, first, spoiled>>
  BY DEF estimatorVars, taskVars
<1>2. \A t \in Tasks : EstimateInv(t)'
  BY <1>1, EstimateFrame DEF EstimatorInv
<1>3. \A m \in Messages : MessageInv(m)'
  BY <1>1, MessageFrame DEF EstimatorInv
<1> QED BY <1>1, <1>2, <1>3 DEF EstimatorInv, EstimatorDomains

\* What an estimate's step leaves alone.
LEMMA EstimateKeeps ==
  ASSUME EstimatorInv, NEW t \in Tasks, Ensure(t) \/ ToppedUp(t)
  PROVE  /\ EstimatorDomains'
         /\ executed' \subseteq Messages /\ spoiled' \subseteq Messages
         /\ spoiled \subseteq spoiled'
         /\ \A u \in Tasks \ {t} :
              /\ est'[u] = est[u] /\ stage'[u] = stage[u] /\ fee'[u] = fee[u]
              /\ breakdown'[u] = breakdown[u]
         /\ \A m \in Messages \ {MessageOf[t]} :
              /\ cache'[m] = cache[m] /\ simulated'[m] = simulated[m]
              /\ first'[m] = first[m]
              /\ m \in executed' <=> m \in executed
              /\ m \in spoiled' <=> m \in spoiled
<1> USE StagesAre DEF EstimatorInv, EstimatorDomains
<1> DEFINE Kept == /\ EstimatorDomains'
                   /\ executed' \subseteq Messages /\ spoiled' \subseteq Messages
                   /\ spoiled \subseteq spoiled'
                   /\ \A u \in Tasks \ {t} :
                        /\ est'[u] = est[u] /\ stage'[u] = stage[u] /\ fee'[u] = fee[u]
                        /\ breakdown'[u] = breakdown[u]
                   /\ \A m \in Messages \ {MessageOf[t]} :
                        /\ cache'[m] = cache[m] /\ simulated'[m] = simulated[m]
                        /\ first'[m] = first[m]
                        /\ m \in executed' <=> m \in executed
                        /\ m \in spoiled' <=> m \in spoiled
<1>1. CASE StartCached(t)
  BY <1>1 DEF StartCached, Starts
<1>2. CASE StartFresh(t)
  BY <1>2 DEF StartFresh, Starts
<1>3. CASE AskFee(t)
  BY <1>3 DEF AskFee, estimatorVars, taskVars
<1>4. CASE Recompute(t)
  BY <1>4 DEF Recompute
<1>5. CASE PriceStage(t)
  BY <1>5 DEF PriceStage
<1>6. CASE RunStage(t)
  BY <1>6 DEF RunStage
<1>7. CASE StageRefused(t)
  BY <1>7 DEF StageRefused, Fails, Returns
<1>8. CASE EstimateFails(t)
  BY <1>8 DEF EstimateFails, Fails, Returns
<1>9. CASE Decide(t)
  BY <1>9 DEF Decide, Decides, Returns
<1>10. CASE TopUp(t)
  BY <1>10 DEF TopUp
<1> QED
  BY <1>1, <1>2, <1>3, <1>4, <1>5, <1>6, <1>7, <1>8, <1>9, <1>10
  DEF Ensure, ToppedUp, Estimates

\* A step of an estimate, as far as the task is concerned.
LEMMA EstimateStep ==
  ASSUME HttpInv, EstimatorInv, NEW t \in Tasks, Ensure(t) \/ ToppedUp(t)
  PROVE  EstimateInv(t)'
<1> USE StagesAre DEF EstimatorDomains, Estimating, Simulating, HttpInv, HttpTypeOK
<1> DEFINE k == stage[t]
           m == MessageOf[t]
<1>1. /\ EstimatorDomains /\ EstimateInv(t) /\ m \in Messages /\ Fee(t) \in Requests
      /\ \A parts \in cache[m] : parts = StageUnits
      /\ k \in 1..Last + 1
  BY RequestsOf DEF EstimatorInv, EstimateInv, MessageInv
<1>2. ASSUME NEW how \in {"enough", "insufficient", "refused", "failed"},
             Returns(t, how), how = "refused" => m \in spoiled', req'[Fee(t)] = "idle"
      PROVE  EstimateInv(t)'
  BY <1>1, <1>2 DEF Returns, EstimateInv
<1>3. SubSeq(StageUnits, 1, 0) = <<>>
  BY NextPart
<1>4. CASE StartCached(t)
  <2>1. PICK parts \in cache[m] : Starts(t, "recompute", parts)
    BY <1>4 DEF StartCached
  <2>2. /\ est'[t] = "recompute" /\ stage'[t] = 1 /\ fee'[t] = fee[t]
        /\ breakdown'[t] = StageUnits /\ req'[Fee(t)] = "idle"
    BY <1>1, <2>1 DEF Starts, http, EstimateInv
  <2> QED BY <1>1, <2>2 DEF EstimateInv
<1>5. CASE StartFresh(t)
  <2>1. /\ est'[t] = "simulate" /\ stage'[t] = 1 /\ fee'[t] = fee[t]
        /\ breakdown'[t] = <<>> /\ req'[Fee(t)] = "idle"
    BY <1>1, <1>5 DEF StartFresh, Starts, http, EstimateInv
  <2> QED BY <1>1, <1>3, <2>1 DEF EstimateInv
<1>6. CASE AskFee(t)
  <2>1. /\ est[t] \in {"simulate", "recompute"} /\ k <= Last
        /\ UNCHANGED <<est, stage, fee, breakdown, spoiled>>
    BY <1>6 DEF AskFee, estimatorVars, taskVars
  <2> QED BY <1>1, <2>1 DEF EstimateInv
<1>7. CASE Recompute(t)
  <2>1. /\ est[t] = "recompute" /\ est' = est /\ stage'[t] = k + 1 /\ fee' = fee
        /\ breakdown' = breakdown /\ req'[Fee(t)] = "idle" /\ req[Fee(t)] = "ok"
    BY <1>1, <1>7 DEF Recompute, Read
  <2> QED BY <1>1, <2>1 DEF EstimateInv
<1>8. CASE PriceStage(t)
  <2>1. /\ est[t] = "simulate" /\ est'[t] = "run" /\ stage' = stage
        /\ \E fees \in FeeSamples : fee'[t] = AveragePrice(fees)
        /\ breakdown' = breakdown /\ req'[Fee(t)] = "idle" /\ req[Fee(t)] = "ok"
    BY <1>1, <1>8 DEF PriceStage, Read
  <2> QED BY <1>1, <2>1 DEF EstimateInv
<1>9. CASE RunStage(t)
  <2>1. /\ est[t] = "run" /\ est'[t] = "simulate" /\ stage'[t] = k + 1 /\ fee'[t] = 0
        /\ breakdown'[t] = Append(breakdown[t], StageUnits[k]) /\ req' = req
    BY <1>1, <1>9 DEF RunStage, http
  <2>2. /\ k \in 1..Last /\ breakdown[t] = SubSeq(StageUnits, 1, k - 1)
        /\ req[Fee(t)] = "idle"
    BY <1>1, <2>1 DEF EstimateInv
  <2>3. breakdown'[t] = SubSeq(StageUnits, 1, k)
    BY <2>1, <2>2, NextPart
  <2>4. k + 1 \in 1..Last + 1 /\ (k + 1) - 1 = k
    BY <2>2
  <2> QED BY <1>1, <2>1, <2>2, <2>3, <2>4 DEF EstimateInv
<1>10. CASE StageRefused(t)
  <2>1. est[t] = "run" /\ ~Accepts(m, k) /\ Returns(t, "refused") /\ spoiled' = spoiled
        /\ req' = req
    BY <1>10 DEF StageRefused, Fails, http
  <2>2. k \in 1..Last /\ req[Fee(t)] = "idle"
    BY <1>1, <2>1 DEF EstimateInv
  <2>3. CASE m \notin spoiled
    <3>1. /\ simulated[m] = IF k = Last + 1 THEN 0 ELSE k - 1
          /\ m \in executed => \E j \in 1..(k - 1) : Stages[j] = "execute"
      BY <1>1, <2>1, <2>3 DEF EstimatorInv, MessageInv, UnspoiledInv
    <3>2. simulated[m] = k - 1
      BY <2>2, <3>1
    <3>3. Stages[k] = "execute" /\ m \in executed
      BY <2>1, <3>2 DEF Accepts
    <3>4. PICK j \in 1..(k - 1) : Stages[j] = "execute"
      BY <3>1, <3>3
    <3>5. j \in 1..Last /\ j # k
      BY <2>2, <3>4
    <3> QED BY <2>2, <3>3, <3>4, <3>5
  <2> QED BY <1>2, <2>1, <2>2, <2>3
<1>11. CASE EstimateFails(t)
  <2>1. Returns(t, "failed") /\ req'[Fee(t)] = "idle"
    BY <1>1, <1>11 DEF EstimateFails, Fails, Dropped
  <2> QED BY <1>2, <2>1
<1>12. CASE Decide(t)
  <2>1. /\ k = Last + 1 /\ req' = req
        /\ \E how \in {"enough", "insufficient"} : Returns(t, how)
    BY <1>12 DEF Decide, Decides, http
  <2>2. req[Fee(t)] = "idle"
    BY <1>1, <2>1 DEF EstimateInv
  <2> QED BY <1>2, <2>1, <2>2
<1>13. CASE TopUp(t)
  <2>1. /\ est[t] = "insufficient" /\ est'[t] = "idle" /\ req' = req
        /\ UNCHANGED <<stage, fee, breakdown, spoiled>>
    BY <1>1, <1>13 DEF TopUp, http
  <2> QED BY <1>1, <2>1 DEF EstimateInv
<1> QED
  BY <1>4, <1>5, <1>6, <1>7, <1>8, <1>9, <1>10, <1>11, <1>12, <1>13
  DEF Ensure, ToppedUp, Estimates

\* A step of an estimate, as far as its message is concerned.
LEMMA MessageStep ==
  ASSUME HttpInv, EstimatorInv, NEW t \in Tasks, Ensure(t) \/ ToppedUp(t)
  PROVE  MessageInv(MessageOf[t])'
<1> USE StagesAre DEF EstimatorDomains
<1> DEFINE k == stage[t]
           m == MessageOf[t]
           Of == {u \in Tasks : MessageOf[u] = m}
<1>1. /\ EstimatorDomains /\ EstimateInv(t) /\ MessageInv(m) /\ m \in Messages
      /\ k \in 1..Last + 1 /\ t \in Of
  BY DEF EstimatorInv, EstimateInv
<1>2. /\ \A u \in Of \ {t} : est'[u] = est[u] /\ stage'[u] = stage[u]
      /\ spoiled \subseteq spoiled'
  BY EstimateKeeps
<1>3. \A u \in Of \ {t} : /\ Estimating(u)' <=> Estimating(u)
                          /\ Simulating(u)' <=> Simulating(u)
                          /\ Simulating(u) => Estimating(u)
  BY <1>2 DEF Estimating, Simulating
<1>4. m \notin spoiled => UnspoiledInv(m)
  BY <1>1 DEF MessageInv
<1>5. ASSUME est'[t] = est[t] \/ (Simulating(t) /\ Simulating(t)'), stage'[t] = stage[t],
             UNCHANGED <<cache, simulated, executed, first, spoiled>>
      PROVE  MessageInv(m)'
  <2>1. (Estimating(t)' <=> Estimating(t)) /\ (Simulating(t)' <=> Simulating(t))
        /\ (est'[t] = "recompute" <=> est[t] = "recompute")
    BY <1>5 DEF Estimating, Simulating
  <2>2. \A u \in Tasks : MessageOf[u] = m =>
          /\ Estimating(u)' <=> Estimating(u)
          /\ Simulating(u)' <=> Simulating(u)
          /\ est'[u] = "recompute" <=> est[u] = "recompute"
          /\ stage'[u] = stage[u]
    BY <1>2, <1>3, <1>5, <2>1
  <2>3. UnspoiledInv(m) => UnspoiledInv(m)'
    BY <1>5, <2>2 DEF UnspoiledInv
  <2> QED BY <1>1, <1>5, <2>3 DEF MessageInv
<1>6. CASE StartCached(t)
  <2>1. /\ \E parts \in cache[m] : Starts(t, "recompute", parts)
        /\ cache'[m] = {} /\ simulated' = simulated /\ executed' = executed /\ first' = first
        /\ est[t] = "idle" /\ est'[t] = "recompute"
        /\ spoiled' = IF Overlaps(t) THEN spoiled \cup {m} ELSE spoiled
    BY <1>1, <1>6 DEF StartCached, Starts
  <2>2. CASE m \notin spoiled'
    <3>1. UnspoiledInv(m) /\ \A u \in Of \ {t} : ~Estimating(u)
      BY <1>2, <1>4, <2>1, <2>2 DEF Overlaps
    <3>2. Estimating(t)' /\ ~Simulating(t)' /\ ~Simulating(t)
      BY <2>1 DEF Estimating, Simulating
    <3>3. \A u \in Of : ~Simulating(u)' /\ ~Simulating(u)
      BY <1>3, <3>1, <3>2
    <3>4. UnspoiledInv(m)'
      BY <1>1, <1>3, <2>1, <3>1, <3>2, <3>3 DEF UnspoiledInv
    <3> QED BY <1>1, <2>1, <3>4 DEF MessageInv
  <2> QED BY <1>1, <2>1, <2>2 DEF MessageInv
<1>7. CASE StartFresh(t)
  <2>1. /\ cache[m] = {} /\ UNCHANGED <<cache, simulated, executed, first, stage>>
        /\ est[t] = "idle" /\ est'[t] = "simulate"
        /\ spoiled' = IF Overlaps(t) THEN spoiled \cup {m} ELSE spoiled
    BY <1>1, <1>7 DEF StartFresh, Starts
  <2>2. CASE m \notin spoiled'
    <3>1. UnspoiledInv(m) /\ \A u \in Of \ {t} : ~Estimating(u)
      BY <1>2, <1>4, <2>1, <2>2 DEF Overlaps
    <3>2. Estimating(t)' /\ Simulating(t)' /\ ~Simulating(t) /\ ~Estimating(t)
      BY <2>1 DEF Estimating, Simulating
    <3>3. \A u \in Of : ~Simulating(u) /\ est[u] # "recompute"
      BY <1>3, <3>1, <3>2 DEF Estimating
    <3>4. first[m] = {}
      BY <2>1, <3>1, <3>3 DEF UnspoiledInv
    <3>5. simulated[m] = 0 /\ m \notin executed
      BY <3>1, <3>3, <3>4 DEF UnspoiledInv
    <3>6. k = 1
      BY <1>1, <3>2 DEF EstimateInv
    <3>7. \A u \in Of \ {t} : ~Estimating(u)' /\ ~Simulating(u)'
      BY <1>3, <3>1
    <3>8. UnspoiledInv(m)'
      BY <1>1, <2>1, <3>2, <3>4, <3>5, <3>6, <3>7 DEF UnspoiledInv
    <3> QED BY <1>1, <2>1, <3>8 DEF MessageInv
  <2> QED BY <1>1, <2>1, <2>2 DEF MessageInv
<1>8. CASE AskFee(t)
  <2>1. /\ est'[t] = est[t] /\ stage'[t] = stage[t]
        /\ UNCHANGED <<cache, simulated, executed, first, spoiled>>
    BY <1>8 DEF AskFee, estimatorVars, taskVars
  <2> QED BY <1>5, <2>1
<1>9. CASE Recompute(t)
  <2>1. /\ est[t] = "recompute" /\ est' = est
        /\ UNCHANGED <<cache, simulated, executed, first, spoiled>>
    BY <1>9 DEF Recompute
  <2>2. /\ \A u \in Tasks : (Estimating(u)' <=> Estimating(u)) /\ (Simulating(u)' <=> Simulating(u))
        /\ ~Simulating(t)
    BY <2>1 DEF Estimating, Simulating
  <2>3. UnspoiledInv(m) => UnspoiledInv(m)'
    BY <1>2, <2>1, <2>2 DEF UnspoiledInv
  <2> QED BY <1>1, <2>1, <2>3 DEF MessageInv
<1>10. CASE PriceStage(t)
  <2>1. /\ est[t] = "simulate" /\ est'[t] = "run"
        /\ UNCHANGED <<stage, cache, simulated, executed, first, spoiled>>
    BY <1>1, <1>10 DEF PriceStage
  <2> QED BY <1>5, <2>1 DEF Simulating
<1>11. CASE RunStage(t)
  <2>1. /\ est[t] = "run" /\ est'[t] = "simulate" /\ stage'[t] = k + 1
        /\ simulated'[m] = (IF Stages[k] = "close" THEN 0 ELSE k)
        /\ executed' = (IF Stages[k] = "execute" THEN executed \cup {m} ELSE executed)
        /\ UNCHANGED <<cache, first, spoiled>>
    BY <1>1, <1>11 DEF RunStage
  <2>2. k \in 1..Last
    BY <1>1, <2>1 DEF EstimateInv
  <2>3. simulated'[m] \in 0..Last
    BY <2>1, <2>2
  <2>4. CASE m \notin spoiled
    <3>1. UnspoiledInv(m) /\ Estimating(t) /\ Simulating(t) /\ Estimating(t)' /\ Simulating(t)'
      BY <1>4, <2>1, <2>4 DEF Estimating, Simulating
    <3>2. \A u \in Of \ {t} : ~Estimating(u) /\ ~Estimating(u)' /\ ~Simulating(u)'
      BY <1>1, <1>3, <3>1 DEF UnspoiledInv
    <3>3. first[m] = {} /\ (m \in executed => \E j \in 1..(k - 1) : Stages[j] = "execute")
      BY <1>1, <3>1 DEF UnspoiledInv
    <3>4. simulated'[m] = IF stage'[t] = Last + 1 THEN 0 ELSE stage'[t] - 1
      BY <2>1, <2>2
    <3>5. m \in executed' => \E j \in 1..(stage'[t] - 1) : Stages[j] = "execute"
      <4>1. stage'[t] - 1 = k /\ k \in 1..k /\ 1..(k - 1) \subseteq 1..k
        BY <2>1, <2>2
      <4> QED BY <2>1, <3>3, <4>1
    <3>6. UnspoiledInv(m)'
      BY <1>1, <2>1, <3>1, <3>2, <3>3, <3>4, <3>5 DEF UnspoiledInv
    <3> QED BY <1>1, <2>1, <2>3, <3>6 DEF MessageInv
  <2> QED BY <1>1, <2>1, <2>3, <2>4 DEF MessageInv
<1>12. CASE StageRefused(t)
  <2>1. /\ est[t] = "run" /\ est'[t] = "refused"
        /\ UNCHANGED <<cache, simulated, executed, first, spoiled>>
    BY <1>1, <1>12 DEF StageRefused, Fails, Returns
  <2>2. m \in spoiled
    <3>1. EstimateInv(t)'
      BY <1>12, EstimateStep DEF Ensure, Estimates
    <3> QED BY <2>1, <3>1 DEF EstimateInv
  <2> QED BY <1>1, <2>1, <2>2 DEF MessageInv
<1>13. CASE EstimateFails(t)
  <2>1. UNCHANGED <<cache, simulated>> /\ m \in spoiled'
    BY <1>13 DEF EstimateFails, Fails
  <2> QED BY <1>1, <2>1 DEF MessageInv
<1>14. CASE Decide(t)
  <2>1. /\ k = Last + 1 /\ est[t] \in {"simulate", "recompute"}
        /\ UNCHANGED <<simulated, executed>>
        /\ spoiled' = (IF Sufficient(t) THEN spoiled \cup {m} ELSE spoiled)
        /\ cache'[m] = (IF Sufficient(t) THEN cache[m] ELSE {breakdown[t]})
        /\ est[t] = "recompute" => first' = first
        /\ est[t] = "simulate" => first'[m] = {cost[t]}
        /\ est'[t] \in {"enough", "insufficient"}
    BY <1>1, <1>14 DEF Decide, Decides, Returns
  <2>2. breakdown[t] = StageUnits
    <3>1. SubSeq(StageUnits, 1, Last) = StageUnits /\ (Last + 1) - 1 = Last
      BY NextPart
    <3> QED BY <1>1, <2>1, <3>1 DEF EstimateInv, Simulating
  <2>3. \A parts \in cache'[m] : parts = StageUnits
    BY <1>1, <2>1, <2>2 DEF MessageInv
  <2>4. CASE m \notin spoiled'
    <3>1. UnspoiledInv(m) /\ cache'[m] # {}
      BY <1>2, <1>4, <2>1, <2>4
    <3>2. /\ Estimating(t) /\ ~Estimating(t)' /\ ~Simulating(t)'
          /\ Simulating(t) <=> est[t] = "simulate"
      BY <2>1 DEF Estimating, Simulating
    <3>3. \A u \in Of \ {t} : ~Estimating(u) /\ ~Estimating(u)' /\ ~Simulating(u)'
                                /\ ~Simulating(u)
      BY <1>1, <1>3, <3>1, <3>2 DEF UnspoiledInv
    <3>4. first'[m] = {} => simulated'[m] = 0 /\ m \notin executed'
      <4>1. CASE est[t] = "simulate"
        BY <2>1, <4>1
      <4>2. CASE est[t] = "recompute"
        BY <2>1, <3>1, <3>2, <3>3, <4>2 DEF UnspoiledInv
      <4> QED BY <2>1, <4>1, <4>2
    <3>5. UnspoiledInv(m)'
      BY <1>1, <3>1, <3>2, <3>3, <3>4 DEF UnspoiledInv
    <3> QED BY <1>1, <2>1, <2>3, <3>5 DEF MessageInv
  <2> QED BY <1>1, <2>1, <2>3, <2>4 DEF MessageInv
<1>15. CASE TopUp(t)
  <2>1. /\ est[t] = "insufficient" /\ est'[t] = "idle"
        /\ UNCHANGED <<stage, cache, simulated, executed, first, spoiled>>
    BY <1>1, <1>15 DEF TopUp
  <2>2. ~Estimating(t) /\ ~Estimating(t)' /\ ~Simulating(t) /\ ~Simulating(t)'
    BY <2>1 DEF Estimating, Simulating
  <2>3. UnspoiledInv(m) => UnspoiledInv(m)'
    BY <1>2, <1>3, <2>1, <2>2 DEF UnspoiledInv
  <2> QED BY <1>1, <2>1, <2>3 DEF MessageInv
<1> QED
  BY <1>6, <1>7, <1>8, <1>9, <1>10, <1>11, <1>12, <1>13, <1>14, <1>15
  DEF Ensure, ToppedUp, Estimates

\* A restart loses the breakdowns and what was under way, not what the simulation
\* node has done.
LEMMA EstimatorRestartStep ==
  ASSUME BegunInv, EstimatorInv, Restart
  PROVE  EstimatorInv'
<1> USE StagesAre DEF EstimatorInv, EstimatorDomains
<1>1. PICK again \in SUBSET Tasks :
        /\ \A t \in Tasks \ again : Ended(t)
        /\ HttpRestarts /\ EstimatorRestarts(again)
  BY DEF Restart
<1>2. /\ spoiled \subseteq spoiled' /\ spoiled' \subseteq Messages
      /\ executed' = executed /\ simulated' = simulated /\ first' = first
      /\ cache' = [m \in Messages |-> {}]
  BY <1>1 DEF EstimatorRestarts
<1>3. ASSUME NEW t \in Tasks
      PROVE  /\ est'[t] \in {"idle", "enough", "insufficient", "refused", "failed"}
             /\ est'[t] = "refused" => est[t] = "refused"
             /\ ~Estimating(t)' /\ ~Simulating(t)'
  <2>1. CASE t \in again
    BY <1>1, <2>1 DEF EstimatorRestarts, Estimating, Simulating
  <2>2. CASE t \notin again
    <3>1. est'[t] = est[t] /\ Ended(t)
      BY <1>1, <2>2 DEF EstimatorRestarts
    <3>2. est[t] \in {"enough", "insufficient", "refused", "failed"}
      BY <3>1 DEF Ended, BegunInv
    <3> QED BY <3>1, <3>2 DEF Estimating, Simulating
  <2> QED BY <2>1, <2>2
<1>4. ASSUME NEW t \in Tasks
      PROVE  EstimateInv(t)'
  <2>1. stage'[t] = 1 /\ fee'[t] = 0 /\ req'[Fee(t)] = "idle"
    BY <1>1, RequestsOf DEF EstimatorRestarts, HttpRestarts
  <2>2. est[t] = "refused" => MessageOf[t] \in spoiled
    BY DEF EstimateInv
  <2> QED BY <1>2, <1>3, <2>1, <2>2 DEF EstimateInv
<1>5. ASSUME NEW m \in Messages
      PROVE  MessageInv(m)'
  <2>1. MessageInv(m) /\ simulated'[m] \in 0..Last /\ cache'[m] = {}
    BY <1>2 DEF MessageInv
  <2>2. CASE m \notin spoiled'
    <3>1. m \notin spoiled /\ cache[m] = {}
      BY <1>1, <2>2 DEF EstimatorRestarts
    <3>2. \A t \in Tasks : MessageOf[t] = m => ~Estimating(t)
      BY <1>1, <2>2 DEF EstimatorRestarts
    <3>3. \A t \in Tasks : MessageOf[t] = m => ~Simulating(t) /\ est[t] # "recompute"
      BY <3>2 DEF Estimating, Simulating
    <3>4. first[m] = {} /\ simulated[m] = 0 /\ m \notin executed
      BY <2>1, <3>1, <3>3 DEF MessageInv, UnspoiledInv
    <3>5. UnspoiledInv(m)'
      BY <1>2, <1>3, <3>4 DEF UnspoiledInv
    <3> QED BY <2>1, <3>5 DEF MessageInv
  <2> QED BY <2>1, <2>2 DEF MessageInv
<1>6. EstimatorDomains'
  <2>1. \A t \in Tasks : est'[t] \in {"idle", "enough", "insufficient", "refused", "failed"}
    BY <1>3
  <2>2. /\ DOMAIN est' = Tasks /\ stage' = [t \in Tasks |-> 1] /\ DOMAIN fee' = Tasks
        /\ est' = [t \in Tasks |-> est'[t]] /\ DOMAIN breakdown' = Tasks
    BY <1>1 DEF EstimatorRestarts
  <2> QED BY <1>2, <2>1, <2>2
<1> QED BY <1>2, <1>4, <1>5, <1>6

\* The estimator's invariant, of every behaviour.
LEMMA EstimatorAlways == Spec => [](HttpInv /\ BegunInv /\ SenderInv /\ EstimatorInv)
<1>1. Init => EstimatorInv
  <2> SUFFICES ASSUME Init PROVE EstimatorInv
    OBVIOUS
  <2>1. ASSUME NEW t \in Tasks
        PROVE  EstimateInv(t)
    <3>1. /\ est[t] = "idle" /\ stage[t] = 1 /\ fee[t] = 0
      BY DEF Init, EstimatorInit
    <3>2. req[Fee(t)] = "idle"
      BY RequestsOf DEF Init, HttpInit
    <3>3. 1 \in 1..Last + 1
      BY StagesAre
    <3> QED BY <3>1, <3>2, <3>3 DEF EstimateInv, Estimating, Simulating
  <2>2. \A m \in Messages : MessageInv(m)
    BY StagesAre DEF Init, EstimatorInit, MessageInv, UnspoiledInv, Estimating, Simulating
  <2> QED BY <2>1, <2>2 DEF Init, EstimatorInit, EstimatorInv, EstimatorDomains
<1>2. HttpInv /\ BegunInv /\ EstimatorInv /\ [Next]_vars => EstimatorInv'
  <2> SUFFICES ASSUME HttpInv, BegunInv, EstimatorInv, [Next]_vars PROVE EstimatorInv'
    OBVIOUS
  <2>1. CASE HttpStep /\ UNCHANGED estimatorVars
    <3>1. \A t \in Tasks : req'[Fee(t)] = "idle" <=> req[Fee(t)] = "idle"
      BY <2>1, HttpStepKeeps, RequestsOf
    <3> QED BY <2>1, <3>1, EstimatorOtherStep
  <2>2. ASSUME NEW t \in Tasks, Ensure(t) \/ ToppedUp(t)
        PROVE  EstimatorInv'
    <3>1. ASSUME NEW u \in Tasks \ {t}
          PROVE  EstimateInv(u)'
      <4>1. req'[Fee(u)] = req[Fee(u)]
        <5>1. Fee(u) \in Requests \ {Fee(t)}
          BY RequestsOf DEF Fee
        <5>2. CASE Ensure(t)
          BY <5>1, <5>2, EnsureKeeps
        <5>3. CASE ToppedUp(t)
          BY <5>3 DEF ToppedUp, TopUp, http
        <5> QED BY <2>2, <5>2, <5>3
      <4>2. /\ EstimateInv(u) /\ spoiled \subseteq spoiled'
            /\ est'[u] = est[u] /\ stage'[u] = stage[u] /\ fee'[u] = fee[u]
            /\ breakdown'[u] = breakdown[u]
        BY <2>2, EstimateKeeps DEF EstimatorInv
      <4> QED BY <4>1, <4>2, EstimateFrame
    <3>2. ASSUME NEW m \in Messages \ {MessageOf[t]}
          PROVE  MessageInv(m)'
      <4>1. \A u \in Tasks : MessageOf[u] = m => est'[u] = est[u] /\ stage'[u] = stage[u]
        BY <2>2, EstimateKeeps
      <4>2. /\ MessageInv(m)
            /\ cache'[m] = cache[m] /\ simulated'[m] = simulated[m] /\ first'[m] = first[m]
            /\ m \in executed' <=> m \in executed
            /\ m \in spoiled' <=> m \in spoiled
        BY <2>2, EstimateKeeps DEF EstimatorInv
      <4> QED BY <4>1, <4>2, MessageFrame
    <3>3. EstimateInv(t)' /\ MessageInv(MessageOf[t])'
      BY <2>2, EstimateStep, MessageStep
    <3>4. EstimatorDomains' /\ executed' \subseteq Messages /\ spoiled' \subseteq Messages
      BY <2>2, EstimateKeeps
    <3> QED BY <3>1, <3>2, <3>3, <3>4 DEF EstimatorInv
  <2>3. ASSUME NEW t \in Tasks, Begin(t) \/ Send(t)
        PROVE  EstimatorInv'
    <3>1. \A u \in Tasks : Fee(u) \in Requests \ SenderRequests(t)
      BY RequestsOf DEF Fee, SenderRequests
    <3>2. UNCHANGED estimatorVars /\ \A u \in Tasks : req'[Fee(u)] = req[Fee(u)]
      BY <2>3, <3>1, SenderKeeps
    <3> QED BY <3>2, EstimatorOtherStep
  <2>4. CASE Restart
    BY <2>4, EstimatorRestartStep
  <2>5. CASE UNCHANGED vars
    BY <2>5, EstimatorOtherStep DEF vars, http
  <2> QED BY <2>1, <2>2, <2>3, <2>4, <2>5, NextSteps
<1> QED BY <1>1, <1>2, SenderAlways, PTL DEF Spec

\* The types of the HTTP sender's, the transaction sender's and the estimator's
\* state, and which of a task's requests may be under way when.
THEOREM TypeCorrect == Spec => []TypeOK
<1>1. HttpInv /\ SenderInv => HttpTypeOK /\ SenderTypeOK
  BY DEF HttpInv, SenderInv, SenderDomains, SenderTaskInv, SenderTypeOK
<1>2. EstimatorInv => EstimatorTypeOK
  BY DEF EstimatorInv, EstimatorDomains, EstimateInv, MessageInv, EstimatorTypeOK
<1>3. HttpInv /\ SenderInv /\ EstimatorInv => TypeOK
  BY <1>1, <1>2 DEF TypeOK
<1> QED BY <1>3, EstimatorAlways, PTL

\* A cached breakdown is that of a whole execution.
THEOREM CachedWhole == Spec => []CacheIsWhole
<1>1. EstimatorInv => CacheIsWhole
  BY DEF EstimatorInv, MessageInv, CacheIsWhole
<1> QED BY <1>1, EstimatorAlways, PTL

\* What the simulation has found out is not lost while estimates of a message
\* only end for want of gas, one at a time and in one life of the process.
THEOREM BreakdownIsKept == Spec => []BreakdownKept
<1>1. EstimatorInv => BreakdownKept
  BY DEF EstimatorInv, MessageInv, UnspoiledInv, BreakdownKept
<1> QED BY <1>1, EstimatorAlways, PTL

\* The simulation node refuses a message only after another estimate of it was
\* accepted, failed halfway or was under way at the same time, or after a restart
\* that cut one short or lost its breakdown.
THEOREM RefusalsExplained == Spec => []RefusedOnlyIfSpoiled
<1>1. EstimatorInv => RefusedOnlyIfSpoiled
  BY DEF EstimatorInv, EstimateInv, RefusedOnlyIfSpoiled
<1> QED BY <1>1, EstimatorAlways, PTL

-----------------------------------------------------------------------------
(* What an estimate covers.                                                *)

\* What the chain charges for each stage under the limit it is sent with, at the
\* prices q.
StageCharges(q) == [k \in 1..Last |-> ChargedFee(Budget(StageUnits[k]), q[k])]

ChargedBefore(q, n) == SumFunctionOnSet(StageCharges(q), 1..n - 1)

\* An estimate under way has read a price for every stage behind it, and one more
\* if it is about to run a stage.  Its total covers the stages behind it, and the
\* gas of a task that passed covers them all.
CostInv(t) ==
  /\ quoted[t] \in Seq(Nat)
  /\ est[t] \in {"simulate", "recompute"} => Len(quoted[t]) = stage[t] - 1
  /\ est[t] = "run" => Len(quoted[t]) = stage[t] /\ fee[t] = quoted[t][stage[t]]
  /\ Estimating(t) => AtMost(ChargedBefore(quoted[t], stage[t]), MaxU64) <= cost[t]
  /\ est[t] = "enough" =>
       Len(quoted[t]) = Last /\ ChargedBefore(quoted[t], Last + 1) <= available[t]

CostsInv ==
  /\ cost \in [Tasks -> Nat] /\ available \in [Tasks -> 0..MaxU64 - 1]
  /\ DOMAIN quoted = Tasks
  /\ \A t \in Tasks : CostInv(t)

\* An average price is a natural number.
LEMMA AverageType ==
  ASSUME NEW fees \in FeeSamples
  PROVE  AveragePrice(fees) \in Nat
<1> DEFINE oldest == IF Len(fees) > Slots THEN Len(fees) - Slots + 1 ELSE 1
           recent == SubSeq(fees, oldest, Len(fees))
<1>1. fees \in Seq(0..MaxU64) /\ Len(fees) \in Nat /\ Slots \in Nat /\ MaxU64 \in Nat
  BY FeeAssumption, AmountAssumption, LenProperties
<1>2. oldest \in Nat /\ oldest >= 1
  BY <1>1
<1> HIDE DEF oldest
<1>3. recent \in Seq(0..MaxU64)
  <2>1. \A i \in oldest..Len(fees) : fees[i] \in 0..MaxU64
    BY <1>1, <1>2
  <2> QED BY <1>1, <1>2, <2>1, SubSeqProperties
<1> HIDE DEF recent
<1>4. /\ DOMAIN recent = 1..Len(recent) /\ Len(recent) \in Nat
      /\ recent # <<>> => Len(recent) # 0
      /\ \A i \in 1..Len(recent) : recent[i] \in Nat
  BY <1>1, <1>3, LenProperties, EmptySeq
<1>5. Sum(recent, DOMAIN recent) \in Nat
  <2>1. IsFiniteSet(1..Len(recent))
    BY <1>4, FS_Interval
  <2>2. SumFunctionOnSet(recent, 1..Len(recent)) \in Nat
    BY <1>4, <2>1, SumType
  <2> QED BY <1>1, <1>4, <2>2 DEF Sum, AtMost
<1>6. recent # <<>> => Sum(recent, DOMAIN recent) \div Len(recent) \in Nat
  <2> DEFINE a == Sum(recent, DOMAIN recent)
             n == Len(recent)
  <2>1. a \in Nat /\ n \in Nat /\ (recent # <<>> => n # 0)
    BY <1>4, <1>5
  <2> HIDE DEF a, n
  <2>2. recent # <<>> => a \div n \in Nat
    BY <2>1
  <2> QED BY <2>2 DEF a, n
<1> QED BY <1>6 DEF AveragePrice, oldest, recent

\* A higher limit is charged no less.
LEMMA ChargeMonotone ==
  ASSUME NEW a \in Nat, NEW b \in Nat, a <= b, NEW p \in Nat
  PROVE  ChargedFee(a, p) \in Nat /\ ChargedFee(a, p) <= ChargedFee(b, p)
<1> DEFINE x == a * p
           y == b * p
<1>1. x \in Nat /\ y \in Nat /\ x <= y
  OBVIOUS
<1> HIDE DEF x, y
<1>2. /\ Micro \in Nat \ {0} /\ BaseFee \in Nat
      /\ x + Micro - 1 \in Nat /\ y + Micro - 1 \in Nat
      /\ x + Micro - 1 <= y + Micro - 1
  BY <1>1, FeeAssumption
<1>3. /\ (x + Micro - 1) \div Micro \in Nat
      /\ (x + Micro - 1) \div Micro <= (y + Micro - 1) \div Micro
      /\ (y + Micro - 1) \div Micro \in Nat
  BY <1>2, QuotientMonotone
<1> DEFINE c == (x + Micro - 1) \div Micro
           d == (y + Micro - 1) \div Micro
<1>4. c \in Nat /\ d \in Nat /\ c <= d
  BY <1>3
<1> HIDE DEF c, d
<1>5. BaseFee + c \in Nat /\ BaseFee + c <= BaseFee + d
  BY <1>2, <1>4
<1> QED BY <1>5 DEF ChargedFee, c, d, x, y

\* The limit a transaction is sent with is at most what it may have, and at most
\* twice what it used.
LEMMA BudgetBounds ==
  ASSUME NEW u \in Nat
  PROVE  Budget(u) \in Nat /\ Budget(u) <= MaxUnits /\ Budget(u) <= 2 * u
<1>1. MaxUnits \in Nat /\ MaxU64 \in Nat
  BY FeeAssumption, AmountAssumption
<1>2. u \div 10 \in Nat /\ u \div 10 <= u
  OBVIOUS
<1> DEFINE tenth == u \div 10
<1>3. tenth \in Nat /\ tenth <= u
  BY <1>2
<1>4. Budget(u) = AtMost(Plus(u, tenth), MaxUnits)
  BY DEF Budget
<1> HIDE DEF tenth
<1> QED BY <1>1, <1>3, <1>4 DEF AtMost, Plus

\* Pricing a stage anew, unit by unit in lamports, is not less than what the
\* chain charges in micro-lamports for a tenth more units.
LEMMA StageFeeCovers ==
  ASSUME NEW u \in Nat, NEW p \in Nat
  PROVE  /\ StageFee(u, p) \in Nat
         /\ AtMost(ChargedFee(Budget(u), p), MaxU64) <= StageFee(u, p)
<1> DEFINE b == Budget(u)
           X == u * p
           a == b * p + Micro - 1
           c == a \div Micro
<1>1. /\ MaxU64 \in Nat /\ BaseFee \in Nat /\ Micro \in Nat /\ Micro >= 2
  BY FeeAssumption, AmountAssumption
<1>2. b \in Nat /\ b <= 2 * u
  BY BudgetBounds
<1> HIDE DEF b
<1>3. X \in Nat /\ b * p \in Nat /\ b * p <= 2 * X
  <2>1. b * p <= (2 * u) * p /\ (2 * u) * p = 2 * (u * p) /\ u * p \in Nat
    BY <1>2
  <2>2. b * p \in Nat
    BY <1>2
  <2> QED BY <2>1, <2>2
<1> HIDE DEF X
<1>4. X * Micro \in Nat /\ b * p <= X * Micro
  <2>1. 2 * X <= X * Micro /\ X * Micro \in Nat
    BY <1>1, <1>3
  <2> DEFINE m == X * Micro
             n == b * p
  <2>2. m \in Nat /\ n \in Nat /\ n <= 2 * X /\ 2 * X <= m
    BY <1>3, <2>1
  <2> HIDE DEF m, n
  <2>3. n <= m
    BY <1>3, <2>2
  <2> QED BY <2>1, <2>3 DEF m, n
<1>5. a \in Nat /\ a <= X * Micro + Micro - 1
  <2> DEFINE m == X * Micro
             n == b * p
  <2>1. m \in Nat /\ n \in Nat /\ n <= m
    BY <1>3, <1>4
  <2> HIDE DEF m, n
  <2>2. n + Micro - 1 \in Nat /\ n + Micro - 1 <= m + Micro - 1
    BY <1>1, <2>1
  <2> QED BY <2>2 DEF m, n
<1> HIDE DEF a
<1>6. c \in Nat /\ c * Micro <= a
  BY <1>1, <1>5
<1>7. ChargedFee(b, p) = BaseFee + c
  BY DEF ChargedFee, a
<1> HIDE DEF c
<1>8. c <= X
  <2> SUFFICES ASSUME X + 1 <= c PROVE FALSE
    BY <1>3, <1>6
  <2>1. PICK d \in Nat : c = X + 1 + d
    <3>1. c - (X + 1) \in Nat /\ c = X + 1 + (c - (X + 1))
      BY <1>3, <1>6
    <3> QED BY <3>1
  <2>2. c * Micro = X * Micro + Micro + d * Micro /\ d * Micro \in Nat
    BY <1>1, <1>3, <2>1
  <2> DEFINE m == X * Micro
             e == d * Micro
             g == c * Micro
  <2>3. /\ m \in Nat /\ e \in Nat /\ g = m + Micro + e /\ g <= a /\ a <= m + Micro - 1
    BY <1>4, <1>5, <1>6, <2>2
  <2> HIDE DEF m, e, g
  <2> QED BY <1>1, <1>5, <2>3
<1>9. StageFee(u, p) = AtMost(BaseFee + AtMost(X, MaxU64), MaxU64)
  BY DEF StageFee, Plus, Times, X
<1>10. AtMost(BaseFee + c, MaxU64) <= AtMost(BaseFee + AtMost(X, MaxU64), MaxU64)
       /\ AtMost(BaseFee + AtMost(X, MaxU64), MaxU64) \in Nat
  BY <1>1, <1>3, <1>6, <1>8 DEF AtMost
<1> QED BY <1>7, <1>9, <1>10 DEF b

\* Sums stay covered, also where they saturate.
LEMMA PlusCovers ==
  ASSUME NEW s \in Nat, NEW c \in Nat, NEW a \in Nat, NEW b \in Nat,
         AtMost(s, MaxU64) <= a, AtMost(c, MaxU64) <= b
  PROVE  Plus(a, b) \in Nat /\ AtMost(s + c, MaxU64) <= Plus(a, b)
BY AmountAssumption DEF Plus, AtMost

\* A stage whose price is known is charged a natural number.
LEMMA ChargeType ==
  ASSUME NEW q \in Seq(Nat), NEW k \in 1..Last, k <= Len(q)
  PROVE  /\ q[k] \in Nat /\ StageCharges(q)[k] \in Nat
         /\ StageCharges(q)[k] = ChargedFee(Budget(StageUnits[k]), q[k])
<1>1. StageUnits[k] \in Nat /\ q[k] \in Nat
  <2>1. k \in 1..Len(q) /\ Len(q) \in Nat
    BY StagesAre, LenProperties
  <2> QED BY <2>1, StagesAre, ElementOfSeq
<1> DEFINE b == Budget(StageUnits[k])
<1>2. b \in Nat
  BY <1>1, BudgetBounds
<1> HIDE DEF b
<1>3. ChargedFee(b, q[k]) \in Nat
  <2>1. b <= b
    BY <1>2
  <2> QED BY <1>1, <1>2, <2>1, ChargeMonotone
<1> QED BY <1>1, <1>3 DEF StageCharges, b

\* Every stage adds its charge.
LEMMA ChargedNext ==
  ASSUME NEW q \in Seq(Nat), NEW k \in 1..Last, k <= Len(q)
  PROVE  /\ ChargedBefore(q, k) \in Nat
         /\ ChargedBefore(q, k + 1) = ChargedBefore(q, k) + StageCharges(q)[k]
<1>1. Last \in Nat /\ Len(q) \in Nat
  BY StagesAre, LenProperties
<1>2. 1..k = 1..k - 1 \cup {k} /\ k \notin 1..k - 1 /\ (k + 1) - 1 = k
  BY <1>1
<1>3. \A j \in 1..k - 1 \cup {k} : StageCharges(q)[j] \in Nat
  <2>1. \A j \in 1..k - 1 \cup {k} : j \in 1..Last /\ j <= Len(q)
    BY <1>1
  <2> QED BY <2>1, ChargeType
<1>4. IsFiniteSet(1..k - 1)
  <2>1. k - 1 \in Nat
    BY <1>1
  <2> QED BY <2>1, FS_Interval
<1>5. SumFunctionOnSet(StageCharges(q), 1..k - 1 \cup {k})
        = SumFunctionOnSet(StageCharges(q), 1..k - 1) + StageCharges(q)[k]
  BY <1>2, <1>3, <1>4, SumAdd
<1>6. 1..(k + 1) - 1 = 1..k - 1 \cup {k}
  BY <1>2
<1>7. ChargedBefore(q, k) \in Nat
  BY <1>3, <1>4, SumType DEF ChargedBefore
<1> QED BY <1>5, <1>6, <1>7 DEF ChargedBefore

\* Nothing is charged before the first stage.
LEMMA ChargedFirst == \A q : ChargedBefore(q, 1) = 0
<1>1. 1..1 - 1 = {}
  OBVIOUS
<1> QED BY <1>1, SumEmpty DEF ChargedBefore

\* The price of the next stage does not change what those before are charged.
LEMMA ChargedAppended ==
  ASSUME NEW q \in Seq(Nat), NEW p \in Nat, NEW k \in 1..Last, Len(q) = k - 1
  PROVE  /\ Append(q, p) \in Seq(Nat) /\ Len(Append(q, p)) = k /\ Append(q, p)[k] = p
         /\ ChargedBefore(Append(q, p), k) = ChargedBefore(q, k)
<1> DEFINE r == Append(q, p)
<1>1. Last \in Nat /\ k - 1 \in Nat /\ (k - 1) + 1 = k
  BY StagesAre
<1>2. /\ r \in Seq(Nat) /\ Len(r) = k /\ r[k] = p
      /\ \A j \in 1..k - 1 : r[j] = q[j]
  BY <1>1, AppendProperties
<1> HIDE DEF r
<1>3. IsFiniteSet(1..k - 1)
  BY <1>1, FS_Interval
<1>4. \A j \in 1..k - 1 :
        StageCharges(r)[j] = StageCharges(q)[j] /\ StageCharges(q)[j] \in Nat
  <2> SUFFICES ASSUME NEW j \in 1..k - 1
               PROVE  StageCharges(r)[j] = StageCharges(q)[j] /\ StageCharges(q)[j] \in Nat
    OBVIOUS
  <2>1. j \in 1..Last /\ j <= Len(q) /\ j <= Len(r) /\ r[j] = q[j]
    BY <1>1, <1>2
  <2> QED BY <1>2, <2>1, ChargeType
<1>5. ChargedBefore(r, k) = ChargedBefore(q, k)
  BY <1>3, <1>4, SumSame DEF ChargedBefore
<1> QED BY <1>2, <1>5 DEF r

\* A step of an estimate keeps its total above the charges behind it.
LEMMA CostStep ==
  ASSUME EstimatorInv, CostsInv, NEW t \in Tasks, Ensure(t) \/ ToppedUp(t)
  PROVE  CostsInv'
<1> USE DEF CostsInv, Estimating
<1> DEFINE k == stage[t]
           q == quoted[t]
<1>1. /\ EstimatorDomains /\ EstimateInv(t) /\ CostInv(t) /\ k \in 1..Last + 1
      /\ Last \in Nat \ {0} /\ MaxU64 \in Nat /\ cost[t] \in Nat
      /\ available[t] \in 0..MaxU64 - 1 /\ q \in Seq(Nat)
  BY StagesAre, AmountAssumption DEF EstimatorInv, EstimateInv, CostInv
<1>2. SUFFICES ASSUME TRUE
               PROVE  /\ cost' \in [Tasks -> Nat] /\ available' \in [Tasks -> 0..MaxU64 - 1]
                      /\ DOMAIN quoted' = Tasks
                      /\ \A u \in Tasks \ {t} :
                           /\ est'[u] = est[u] /\ fee'[u] = fee[u] /\ stage'[u] = stage[u]
                           /\ cost'[u] = cost[u] /\ available'[u] = available[u]
                           /\ quoted'[u] = quoted[u]
                      /\ CostInv(t)'
  <2>1. ASSUME NEW u \in Tasks, CostInv(u),
               est'[u] = est[u], fee'[u] = fee[u], stage'[u] = stage[u],
               cost'[u] = cost[u], available'[u] = available[u], quoted'[u] = quoted[u]
        PROVE  CostInv(u)'
    BY <2>1 DEF CostInv, ChargedBefore, StageCharges
  <2> QED BY <1>2, <2>1
<1>3. CASE StartCached(t) \/ StartFresh(t)
  <2>1. /\ ~Estimating(t) /\ k = 1 /\ UNCHANGED <<cost, available, fee, stage>>
        /\ est'[t] \in {"simulate", "recompute"} /\ \A u \in Tasks \ {t} : est'[u] = est[u]
        /\ quoted' = [quoted EXCEPT ![t] = <<>>]
    BY <1>1, <1>3 DEF StartCached, StartFresh, Starts, EstimateInv, EstimatorDomains
  <2>2. quoted'[t] = <<>> /\ <<>> \in Seq(Nat) /\ Len(<<>>) = 0
    BY <2>1
  <2>3. AtMost(ChargedBefore(quoted'[t], 1), MaxU64) = 0
    BY <1>1, ChargedFirst DEF AtMost
  <2>4. CostInv(t)'
    BY <1>1, <2>1, <2>2, <2>3 DEF CostInv, ChargedBefore, StageCharges
  <2> QED BY <2>1, <2>4
<1>4. CASE AskFee(t)
  BY <1>1, <1>4 DEF AskFee, estimatorVars, taskVars, CostInv, ChargedBefore, StageCharges
<1>5. CASE PriceStage(t)
  <2>1. PICK fees \in FeeSamples :
          /\ est[t] = "simulate" /\ est' = [est EXCEPT ![t] = "run"]
          /\ UNCHANGED <<stage, cost, available>>
          /\ fee' = [fee EXCEPT ![t] = AveragePrice(fees)]
          /\ quoted' = [quoted EXCEPT ![t] = Append(@, AveragePrice(fees))]
    BY <1>5 DEF PriceStage
  <2> DEFINE p == AveragePrice(fees)
  <2>2. p \in Nat /\ quoted'[t] = Append(q, p) /\ fee'[t] = p /\ est'[t] = "run"
        /\ stage'[t] = k /\ cost'[t] = cost[t]
    BY <1>1, <2>1, AverageType DEF EstimatorDomains
  <2> HIDE DEF p
  <2>3. k \in 1..Last /\ Len(q) = k - 1 /\ AtMost(ChargedBefore(q, k), MaxU64) <= cost[t]
    <3>1. req[Fee(t)] = "ok"
      BY <1>5 DEF PriceStage, Read
    <3> QED BY <1>1, <2>1, <3>1 DEF CostInv, EstimateInv
  <2>4. /\ Append(q, p) \in Seq(Nat) /\ Len(Append(q, p)) = k /\ Append(q, p)[k] = p
        /\ ChargedBefore(Append(q, p), k) = ChargedBefore(q, k)
    BY <1>1, <2>2, <2>3, ChargedAppended
  <2>5. CostInv(t)'
    BY <2>2, <2>3, <2>4 DEF CostInv, ChargedBefore, StageCharges
  <2> QED BY <1>1, <2>1, <2>5 DEF EstimatorDomains
<1>6. ASSUME NEW charged \in Nat, NEW r \in Seq(Nat), k \in 1..Last, k <= Len(r),
             AtMost(ChargedBefore(r, k), MaxU64) <= cost[t],
             AtMost(StageCharges(r)[k], MaxU64) <= charged
      PROVE  /\ Plus(cost[t], charged) \in Nat
             /\ AtMost(ChargedBefore(r, k + 1), MaxU64) <= Plus(cost[t], charged)
  <2>1. /\ StageCharges(r)[k] \in Nat /\ ChargedBefore(r, k) \in Nat
        /\ ChargedBefore(r, k + 1) = ChargedBefore(r, k) + StageCharges(r)[k]
    BY <1>6, ChargedNext, ChargeType
  <2> QED BY <1>1, <1>6, <2>1, PlusCovers
<1>7. CASE Recompute(t)
  <2>1. PICK fees \in FeeSamples :
          /\ est[t] = "recompute" /\ req[Fee(t)] = "ok"
          /\ cost' = [cost EXCEPT ![t] = Plus(@, StageFee(breakdown[t][k], AveragePrice(fees)))]
          /\ quoted' = [quoted EXCEPT ![t] = Append(@, AveragePrice(fees))]
          /\ stage' = [stage EXCEPT ![t] = @ + 1]
          /\ UNCHANGED <<est, fee, available>>
    BY <1>7 DEF Recompute, Read
  <2>2. /\ k \in 1..Last /\ breakdown[t] = StageUnits /\ Len(q) = k - 1
        /\ AtMost(ChargedBefore(q, k), MaxU64) <= cost[t]
    BY <1>1, <2>1 DEF EstimateInv, CostInv
  <2> DEFINE p == AveragePrice(fees)
             u == StageUnits[k]
             r == Append(q, p)
  <2>3. u \in Nat /\ p \in Nat
    <3>1. u \in Nat
      BY <2>2, StagesAre, ElementOfSeq
    <3>2. p \in Nat
      BY AverageType
    <3> QED BY <3>1, <3>2
  <2>4. /\ quoted'[t] = r
        /\ cost'[t] = Plus(cost[t], StageFee(u, p)) /\ stage'[t] = k + 1 /\ est'[t] = est[t]
    BY <1>1, <2>1, <2>2 DEF EstimatorDomains
  <2>5. cost' = [cost EXCEPT ![t] = Plus(@, StageFee(u, p))]
    BY <2>1, <2>2
  <2> HIDE DEF p
  <2>6. /\ r \in Seq(Nat) /\ Len(r) = k /\ r[k] = p
        /\ ChargedBefore(r, k) = ChargedBefore(q, k)
    BY <1>1, <2>2, <2>3, ChargedAppended
  <2> HIDE DEF r
  <2>7. StageFee(u, p) \in Nat /\ AtMost(StageCharges(r)[k], MaxU64) <= StageFee(u, p)
    <3>1. StageCharges(r)[k] = ChargedFee(Budget(u), p)
      <4>1. k <= Len(r)
        BY <2>2, <2>6
      <4> QED BY <2>2, <2>6, <4>1, ChargeType
    <3> HIDE DEF u
    <3> QED BY <2>3, <3>1, StageFeeCovers
  <2>8. /\ Plus(cost[t], StageFee(u, p)) \in Nat
        /\ AtMost(ChargedBefore(r, k + 1), MaxU64) <= Plus(cost[t], StageFee(u, p))
    <3>1. k <= Len(r)
      BY <2>2, <2>6
    <3>2. AtMost(ChargedBefore(r, k), MaxU64) <= cost[t]
      BY <2>2, <2>6
    <3> HIDE DEF u
    <3> QED BY <1>6, <2>2, <2>6, <2>7, <3>1, <3>2
  <2> HIDE DEF u
  <2>9. CostInv(t)'
    <3>1. Len(r) = (k + 1) - 1 /\ est[t] = "recompute"
      BY <2>1, <2>2, <2>6
    <3> QED BY <2>4, <2>6, <2>8, <3>1 DEF CostInv, ChargedBefore, StageCharges
  <2>10. cost' \in [Tasks -> Nat]
    BY <2>5, <2>8
  <2> QED BY <1>1, <2>1, <2>9, <2>10 DEF EstimatorDomains
<1>8. CASE RunStage(t)
  <2>1. /\ est[t] = "run" /\ UNCHANGED <<available, quoted>>
        /\ cost' = [cost EXCEPT ![t] = Plus(@, ChargedFee(MaxUnits, fee[t]))]
        /\ stage' = [stage EXCEPT ![t] = @ + 1]
        /\ est' = [est EXCEPT ![t] = "simulate"] /\ fee' = [fee EXCEPT ![t] = 0]
    BY <1>8 DEF RunStage
  <2>2. /\ k \in 1..Last /\ Len(q) = k /\ fee[t] = q[k]
        /\ AtMost(ChargedBefore(q, k), MaxU64) <= cost[t]
    BY <1>1, <2>1 DEF EstimateInv, CostInv
  <2> DEFINE charged == ChargedFee(MaxUnits, fee[t])
  <2>3. charged \in Nat /\ AtMost(StageCharges(q)[k], MaxU64) <= charged
    <3> DEFINE b == Budget(StageUnits[k])
    <3>1. k <= Len(q)
      BY <2>2
    <3>2. /\ fee[t] \in Nat /\ StageUnits[k] \in Nat /\ MaxUnits \in Nat
          /\ StageCharges(q)[k] = ChargedFee(b, fee[t])
      <4>1. q[k] \in Nat /\ StageCharges(q)[k] = ChargedFee(b, q[k])
        BY <1>1, <2>2, <3>1, ChargeType
      <4>2. StageUnits[k] \in Nat /\ MaxUnits \in Nat
        BY <2>2, StagesAre, ElementOfSeq, FeeAssumption
      <4> HIDE DEF b, q
      <4> QED BY <2>2, <4>1, <4>2
    <3>3. b \in Nat /\ b <= MaxUnits
      BY <3>2, BudgetBounds
    <3> HIDE DEF b
    <3>4. ChargedFee(b, fee[t]) \in Nat /\ ChargedFee(b, fee[t]) <= charged
      BY <3>2, <3>3, ChargeMonotone
    <3>5. charged \in Nat
      <4>1. MaxUnits <= MaxUnits
        BY <3>2
      <4> QED BY <3>2, <4>1, ChargeMonotone
    <3> HIDE DEF charged
    <3> QED BY <1>1, <3>2, <3>4, <3>5 DEF AtMost
  <2>4. /\ cost'[t] = Plus(cost[t], charged) /\ stage'[t] = k + 1 /\ est'[t] = "simulate"
        /\ quoted'[t] = q
    BY <1>1, <2>1 DEF EstimatorDomains
  <2>5. cost' = [cost EXCEPT ![t] = Plus(@, charged)]
    BY <2>1
  <2> HIDE DEF charged
  <2>6. /\ Plus(cost[t], charged) \in Nat
        /\ AtMost(ChargedBefore(q, k + 1), MaxU64) <= Plus(cost[t], charged)
    <3>1. k <= Len(q)
      BY <2>2
    <3> QED BY <1>1, <1>6, <2>2, <2>3, <3>1
  <2>7. CostInv(t)'
    <3>1. Len(q) = (k + 1) - 1
      BY <2>2
    <3> QED BY <1>1, <2>4, <2>6, <3>1 DEF CostInv, ChargedBefore, StageCharges
  <2>8. cost' \in [Tasks -> Nat]
    BY <2>5, <2>6
  <2> QED BY <1>1, <2>1, <2>7, <2>8 DEF EstimatorDomains
<1>9. CASE StageRefused(t) \/ EstimateFails(t)
  <2>1. /\ est'[t] \in {"refused", "failed"} /\ cost' = [cost EXCEPT ![t] = 0]
        /\ UNCHANGED available /\ quoted' = [quoted EXCEPT ![t] = <<>>]
        /\ \A u \in Tasks \ {t} :
             est'[u] = est[u] /\ fee'[u] = fee[u] /\ stage'[u] = stage[u]
    BY <1>1, <1>9 DEF StageRefused, EstimateFails, Fails, Returns, EstimatorDomains
  <2>2. quoted'[t] \in Seq(Nat)
    BY <2>1
  <2> QED BY <1>1, <2>1, <2>2 DEF CostInv
<1>10. CASE Decide(t)
  <2>1. /\ est[t] \in {"simulate", "recompute"} /\ k = Last + 1
        /\ est' = [est EXCEPT ![t] = IF Sufficient(t) THEN "enough" ELSE "insufficient"]
        /\ cost' = [cost EXCEPT ![t] = 0] /\ UNCHANGED available
        /\ quoted' = IF Sufficient(t) THEN quoted ELSE [quoted EXCEPT ![t] = <<>>]
        /\ \A u \in Tasks \ {t} : fee'[u] = fee[u] /\ stage'[u] = stage[u]
    BY <1>1, <1>10 DEF Decide, Decides, Returns, EstimatorDomains
  <2>2. /\ Len(q) = Last
        /\ Sufficient(t) => ChargedBefore(q, Last + 1) <= available[t]
    <3>1. AtMost(ChargedBefore(q, Last + 1), MaxU64) <= cost[t] /\ Len(q) = Last
      BY <1>1, <2>1 DEF CostInv
    <3>2. ChargedBefore(q, Last + 1) \in Nat
      <4>1. Last \in 1..Last /\ Last <= Len(q)
        BY <1>1, <3>1
      <4>2. /\ ChargedBefore(q, Last) \in Nat /\ StageCharges(q)[Last] \in Nat
            /\ ChargedBefore(q, Last + 1) = ChargedBefore(q, Last) + StageCharges(q)[Last]
        BY <1>1, <4>1, ChargedNext, ChargeType
      <4> QED BY <4>2
    <3> QED BY <1>1, <3>1, <3>2 DEF Sufficient, AtMost
  <2>3. CASE Sufficient(t)
    <3>1. est'[t] = "enough" /\ quoted' = quoted
      BY <1>1, <2>1, <2>3 DEF EstimatorDomains
    <3>2. CostInv(t)'
      BY <1>1, <2>1, <2>2, <2>3, <3>1 DEF CostInv, ChargedBefore, StageCharges
    <3> QED BY <1>1, <2>1, <3>1, <3>2 DEF EstimatorDomains
  <2>4. CASE ~Sufficient(t)
    <3>1. est'[t] = "insufficient" /\ quoted'[t] = <<>> /\ <<>> \in Seq(Nat)
      BY <1>1, <2>1, <2>4 DEF EstimatorDomains
    <3>2. CostInv(t)'
      BY <3>1 DEF CostInv
    <3> QED BY <1>1, <2>1, <2>4, <3>2 DEF EstimatorDomains
  <2> QED BY <2>3, <2>4
<1>11. CASE TopUp(t)
  <2>1. /\ est'[t] = "idle" /\ available' = [available EXCEPT ![t] = MoreGas]
        /\ UNCHANGED <<cost, fee, stage, quoted>> /\ \A u \in Tasks \ {t} : est'[u] = est[u]
    BY <1>1, <1>11 DEF TopUp, EstimatorDomains
  <2> QED BY <1>1, <2>1, EstimatorAssumption DEF CostInv
<1> QED
  BY <1>3, <1>4, <1>5, <1>7, <1>8, <1>9, <1>10, <1>11 DEF Ensure, ToppedUp, Estimates

\* A restart ends the estimates under way; a task it leaves alone keeps what its
\* gas was compared with.
LEMMA CostRestartStep ==
  ASSUME BegunInv, EstimatorInv, CostsInv, Restart
  PROVE  CostsInv'
<1> USE DEF CostsInv, EstimatorInv, EstimatorDomains
<1>1. PICK again \in SUBSET Tasks :
        (\A t \in Tasks \ again : Ended(t)) /\ EstimatorRestarts(again)
  BY DEF Restart
<1>2. /\ cost' = [t \in Tasks |-> 0] /\ available' = available
      /\ DOMAIN quoted' = Tasks
  BY <1>1 DEF EstimatorRestarts
<1>3. ASSUME NEW t \in Tasks
      PROVE  CostInv(t)'
  <2>1. CASE t \in again
    <3>1. est'[t] = "idle" /\ quoted'[t] = <<>> /\ <<>> \in Seq(Nat)
      BY <1>1, <2>1 DEF EstimatorRestarts
    <3> QED BY <3>1 DEF CostInv, Estimating
  <2>2. CASE t \notin again
    <3>1. est'[t] = est[t] /\ quoted'[t] = quoted[t] /\ Ended(t)
      BY <1>1, <2>2 DEF EstimatorRestarts
    <3>2. est[t] \in {"enough", "insufficient", "refused", "failed"}
      BY <3>1 DEF Ended, BegunInv
    <3> QED BY <1>2, <3>1, <3>2 DEF CostInv, Estimating, ChargedBefore, StageCharges
  <2> QED BY <2>1, <2>2
<1> QED BY <1>2, <1>3

\* Whether the stages were simulated or a cached breakdown was priced anew, and
\* wherever the sums saturate, the gas of a task that passes covers what each
\* stage is charged under the limit it is sent with, at the price that the
\* estimate read for it (ensure_enough_gas).
THEOREM EnoughIsEnough == Spec => []EnoughCoversQuoted
<1>1. Init => CostsInv
  <2> SUFFICES ASSUME Init PROVE CostsInv
    OBVIOUS
  <2>1. \A t \in Tasks : est[t] = "idle" /\ quoted[t] = <<>>
    BY DEF Init, EstimatorInit
  <2> QED BY <2>1, EstimatorAssumption
          DEF Init, EstimatorInit, CostsInv, CostInv, Estimating
<1>2. BegunInv /\ EstimatorInv /\ CostsInv /\ [Next]_vars => CostsInv'
  <2> SUFFICES ASSUME BegunInv, EstimatorInv, CostsInv, [Next]_vars PROVE CostsInv'
    OBVIOUS
  <2>1. ASSUME UNCHANGED estimatorVars PROVE CostsInv'
    BY <2>1 DEF estimatorVars, taskVars, CostsInv, CostInv, Estimating, ChargedBefore,
                StageCharges
  <2>2. ASSUME NEW t \in Tasks, Begin(t) \/ Send(t) PROVE UNCHANGED estimatorVars
    BY <2>2 DEF Begin, Send
  <2> QED BY <2>1, <2>2, CostStep, CostRestartStep, NextSteps DEF vars
<1>3. EstimatorInv /\ CostsInv => EnoughCoversQuoted
  <2> SUFFICES ASSUME CostsInv, NEW t \in Tasks, est[t] = "enough"
               PROVE  /\ Len(quoted[t]) = Last
                      /\ SumFunctionOnSet(StageCharges(quoted[t]), 1..Last) <= available[t]
    BY DEF EnoughCoversQuoted, StageCharges
  <2>1. ChargedBefore(quoted[t], Last + 1)
          = SumFunctionOnSet(StageCharges(quoted[t]), 1..Last)
    <3>1. (Last + 1) - 1 = Last
      BY StagesAre
    <3> QED BY <3>1 DEF ChargedBefore
  <2> QED BY <2>1 DEF CostsInv, CostInv
<1> QED BY <1>1, <1>2, <1>3, EstimatorAlways, PTL DEF Spec

=============================================================================
