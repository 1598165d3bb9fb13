--------------------------- MODULE PricingProofs ----------------------------
(***************************************************************************)
(* Proofs about what the relayer publishes, for every chain, page size and *)
(* number of restarts: the events of a transaction, the shares they claim, *)
(* its price, and what the messages of a batch are charged together.       *)
(***************************************************************************)
EXTENDS RelayerProofs

-----------------------------------------------------------------------------
(* Conversion.                                                             *)

\* An event is converted exactly if it is complete; its kind is kept, and it
\* claims its share of the price or nothing.
LEMMA ConvertResult ==
  ASSUME NEW e, WellFormed(e), NEW price \in Nat
  PROVE  /\ Convert(e, price) # {} <=> Complete(e)
         /\ \A x \in Convert(e, price) : x.kind = e.kind /\ Claimed(x) \in {0, price}
<1> DEFINE Goal(out) == /\ out # {} <=> Complete(e)
                        /\ \A x \in out : x.kind = e.kind /\ Claimed(x) \in {0, price}
<1>1. CASE e.kind = "Call"
  <2>1. Convert(e, price) = ConvertCall(e)
    BY <1>1 DEF Convert
  <2> DEFINE Out(payload, message) ==
        [kind |-> "Call", event_id |-> e.event_id, payload |-> payload,
         message |-> message, destination_chain |-> e.destination_chain,
         meta |-> EventMetadata(e.meta, LAMBDA m : [parent_message_id |-> {}])]
  <2>2. \A x : x \in ConvertCall(e) <=>
          \E payload \in Decode(e.payload), message \in GatewayMessage(e.message) :
            x = Out(payload, message)
    BY DEF ConvertCall, EventMetadata
  <2>3. \A payload, message : /\ Out(payload, message).kind = "Call"
                              /\ Claimed(Out(payload, message)) = 0
    BY DEF Claimed
  <2> HIDE DEF Out
  <2>4. Decode(e.payload) # {} <=> e.payload # Malformed
    BY DEF Decode
  <2>5. GatewayMessage(e.message) # {} <=> e.message.payload_hash # Malformed
    BY DEF GatewayMessage, Decode
  <2>6. Complete(e) <=> e.payload # Malformed /\ e.message.payload_hash # Malformed
    BY <1>1 DEF Complete
  <2> QED BY <1>1, <2>1, <2>2, <2>3, <2>4, <2>5, <2>6
<1>2. CASE e.kind = "GasCredit"
  <2>1. Convert(e, price) = ConvertGasCredit(e)
    BY <1>2 DEF Convert
  <2>2. Goal(ConvertGasCredit(e))
    BY <1>2 DEF ConvertGasCredit, Complete, Claimed
  <2> QED BY <2>1, <2>2
<1>3. CASE e.kind = "GasRefunded"
  <2>1. Convert(e, price) = ConvertGasRefunded(e, price)
    BY <1>3 DEF Convert
  <2>2. Goal(ConvertGasRefunded(e, price))
    BY <1>3 DEF ConvertGasRefunded, Complete, Claimed, Claim, Token, WellFormed
  <2> QED BY <2>1, <2>2
<1>4. CASE e.kind = "MessageApproved"
  <2>1. Convert(e, price) = ConvertMessageApproved(e, price)
    BY <1>4 DEF Convert
  <2> DEFINE Out(message) ==
        [kind |-> "MessageApproved", event_id |-> e.event_id, message |-> message,
         meta |-> EventMetadata(e.meta, LAMBDA m : [command_id |-> m.command_id]),
         cost |-> Claim(e.cost, price)]
  <2>2. ConvertMessageApproved(e, price)
          = {Out(message) : message \in GatewayMessage(e.message)}
    BY DEF ConvertMessageApproved
  <2>3. Claim(e.cost, price).amount = price
    BY <1>4 DEF Claim, Token, WellFormed
  <2>4. \A message : /\ Out(message).kind = "MessageApproved"
                     /\ Claimed(Out(message)) = price
    BY <2>3 DEF Claimed
  <2> HIDE DEF Out
  <2>5. GatewayMessage(e.message) # {} <=> e.message.payload_hash # Malformed
    BY DEF GatewayMessage, Decode
  <2>6. Complete(e) <=> e.message.payload_hash # Malformed
    BY <1>4 DEF Complete
  <2> QED BY <1>4, <2>1, <2>2, <2>4, <2>5, <2>6
<1>5. CASE e.kind = "MessageExecuted"
  <2>1. Convert(e, price) = ConvertMessageExecuted(e, price)
    BY <1>5 DEF Convert
  <2>2. Goal(ConvertMessageExecuted(e, price))
    BY <1>5 DEF ConvertMessageExecuted, Complete, Claimed, Claim, Token, WellFormed, EventMetadata
  <2> QED BY <2>1, <2>2
<1>6. CASE e.kind = "SignersRotated"
  <2>1. Convert(e, price) = ConvertSignersRotated(e)
    BY <1>6 DEF Convert
  <2> DEFINE hashes == UNION {UNION {Decode(h) : h \in m.signers_hash} : m \in e.meta}
             epochs == UNION {m.epoch : m \in e.meta}
             Out(hash, epoch) ==
               [kind |-> "SignersRotated", event_id |-> e.event_id,
                message_id |-> e.message_id,
                meta |-> EventMetadata(e.meta, LAMBDA m : [signer_hash |-> hash,
                                                           epoch |-> epoch])]
  <2>2. \A x : x \in ConvertSignersRotated(e) <=>
          \E hash \in hashes, epoch \in epochs : x = Out(hash, epoch)
    BY DEF ConvertSignersRotated, EventMetadata
  <2>3. \A hash, epoch : /\ Out(hash, epoch).kind = "SignersRotated"
                         /\ Claimed(Out(hash, epoch)) = 0
    BY DEF Claimed
  <2> HIDE DEF Out
  <2>4. hashes # {} <=> \E m \in e.meta : m.signers_hash \ {Malformed} # {}
    BY DEF Decode
  <2>5. epochs # {} <=> \E m \in e.meta : m.epoch # {}
    OBVIOUS
  <2>6. Complete(e) <=> \E m \in e.meta : m.epoch # {} /\ m.signers_hash \ {Malformed} # {}
    BY <1>6 DEF Complete
  <2>7. \A m, n \in e.meta : m = n
    BY <1>6 DEF WellFormed
  <2> HIDE DEF hashes, epochs
  <2>8. Complete(e) <=> hashes # {} /\ epochs # {}
    BY <2>4, <2>5, <2>6, <2>7
  <2> QED BY <1>6, <2>1, <2>2, <2>3, <2>8
<1>7. CASE e.kind = "ITSInterchainTransfer"
  <2>1. Convert(e, price) = ConvertInterchainTransfer(e)
    BY <1>7 DEF Convert
  <2> DEFINE Out(id) ==
        [kind |-> "ITSInterchainTransfer", base |-> BaseMeta(e),
         message_id |-> e.message_id,
         token_spent |-> [token_id |-> id, amount |-> Token(e.token_spent).amount]]
  <2>2. ConvertInterchainTransfer(e) = {Out(id) : id \in e.token_spent.token_id}
    BY DEF ConvertInterchainTransfer
  <2>3. \A id : Out(id).kind = "ITSInterchainTransfer" /\ Claimed(Out(id)) = 0
    BY DEF Claimed
  <2> HIDE DEF Out
  <2>4. Complete(e) <=> e.token_spent.token_id # {}
    BY <1>7 DEF Complete
  <2> QED BY <1>7, <2>1, <2>2, <2>3, <2>4
<1>8. CASE e.kind = "ITSTokenMetadataRegistered"
  <2>1. Convert(e, price) = ConvertTokenMetadataRegistered(e)
    BY <1>8 DEF Convert
  <2>2. Goal(ConvertTokenMetadataRegistered(e))
    BY <1>8 DEF ConvertTokenMetadataRegistered, Complete, Claimed
  <2> QED BY <2>1, <2>2
<1>9. CASE e.kind = "ITSLinkTokenStarted"
  <2>1. Convert(e, price) = ConvertLinkTokenStarted(e)
    BY <1>9 DEF Convert
  <2>2. Goal(ConvertLinkTokenStarted(e))
    BY <1>9 DEF ConvertLinkTokenStarted, Complete, Claimed
  <2> QED BY <2>1, <2>2
<1>10. CASE e.kind = "ITSInterchainTokenDeploymentStarted"
  <2>1. Convert(e, price) = ConvertDeploymentStarted(e)
    BY <1>10 DEF Convert
  <2>2. Goal(ConvertDeploymentStarted(e))
    BY <1>10 DEF ConvertDeploymentStarted, Complete, Claimed
  <2> QED BY <2>1, <2>2
<1>11. CASE e.kind = "CannotExecuteMessageV2"
  <2>1. Convert(e, price) = {}
    BY <1>11 DEF Convert
  <2> QED BY <1>11, <2>1 DEF Complete
<1> QED
  BY <1>1, <1>2, <1>3, <1>4, <1>5, <1>6, <1>7, <1>8, <1>9, <1>10, <1>11
  DEF WellFormed, EventKinds

\* What a transaction's events are converted to: the complete ones, each in its
\* place, and each claims its share of the price or nothing.
LEMMA MapEventsResult ==
  ASSUME NEW T, NEW events \in Seq(T), \A n \in DOMAIN events : WellFormed(events[n]),
         NEW gas \in Nat
  PROVE  LET out == MapEvents(events, gas)
             complete == {n \in DOMAIN events : Complete(events[n])}
         IN /\ DOMAIN out = 1..Len(out) /\ Len(out) = Cardinality(complete)
            /\ \A n \in complete :
                 out[Cardinality({m \in complete : m <= n})].kind = events[n].kind
            /\ \A j \in DOMAIN out :
                 Claimed(out[j]) \in {0, PricePerEvent(events, gas)}
<1> DEFINE N == Len(events)
           price == PricePerEvent(events, gas)
           keep == {n \in 1..N : Convert(events[n], price) # {}}
           items == [n \in 1..N |-> CHOOSE x \in Convert(events[n], price) : TRUE]
           from == CHOOSE f : f = [n \in 0..N |->
                                     IF n = 0 THEN <<>>
                                     ELSE LET out == Convert(events[n], price)
                                          IN IF out = {} THEN f[n - 1]
                                             ELSE Append(f[n - 1],
                                                         CHOOSE x \in out : TRUE)]
           out == from[N]
           complete == {n \in DOMAIN events : Complete(events[n])}
<1>1. N \in Nat /\ DOMAIN events = 1..N
  BY LenProperties
<1>2. price \in Nat
  <2>1. events # <<>> => N > 0
    BY EmptySeq
  <2>2. \A n \in Nat : n > 0 => gas \div n \in Nat
    OBVIOUS
  <2> QED BY <1>1, <2>1, <2>2 DEF PricePerEvent
<1> HIDE DEF price
<1>3. Collects(from, items, keep, N)
  <2>1. ASSUME NEW f, NEW n \in 0..N
        PROVE  CollectStep(items, keep, f, n)
                 = IF n = 0 THEN <<>>
                   ELSE IF Convert(events[n], price) = {} THEN f[n - 1]
                   ELSE Append(f[n - 1], CHOOSE x \in Convert(events[n], price) : TRUE)
    <3>1. n # 0 => n \in 1..N
      BY <1>1
    <3> QED BY <3>1 DEF CollectStep
  <2>2. \A f : Collects(f, items, keep, N) <=>
                f = [n \in 0..N |->
                       IF n = 0 THEN <<>>
                       ELSE IF Convert(events[n], price) = {} THEN f[n - 1]
                       ELSE Append(f[n - 1], CHOOSE x \in Convert(events[n], price) : TRUE)]
    <3> HIDE DEF items, keep, N
    <3> QED BY <2>1 DEF Collects
  <2>3. \E f : Collects(f, items, keep, N)
    <3> HIDE DEF items, keep
    <3> QED BY <1>1, CollectExists
  <2> HIDE DEF items, keep
  <2> QED BY <2>2, <2>3, Zenon
<1>4. MapEvents(events, gas) = out
  BY DEF MapEvents, price
<1> HIDE DEF from
<1>5. ASSUME NEW n \in 1..N
      PROVE  /\ n \in keep <=> Complete(events[n])
             /\ n \in keep => /\ items[n].kind = events[n].kind
                             /\ Claimed(items[n]) \in {0, price}
  <2>1. WellFormed(events[n])
    BY <1>1
  <2>2. /\ Convert(events[n], price) # {} <=> Complete(events[n])
        /\ \A x \in Convert(events[n], price) :
             x.kind = events[n].kind /\ Claimed(x) \in {0, price}
    BY <1>2, <2>1, ConvertResult
  <2>3. n \in keep => items[n] \in Convert(events[n], price)
    OBVIOUS
  <2> QED BY <2>2, <2>3
<1>6. keep = complete /\ keep \in SUBSET (1..N)
  BY <1>1, <1>5
<1> HIDE DEF keep, items
<1>7. IsCollection(out, items, keep)
  <2>1. N \in Nat /\ keep \in SUBSET (1..N)
    BY <1>1, <1>6
  <2> HIDE DEF N, complete
  <2> QED BY <1>3, <2>1, CollectResult
<1> HIDE DEF out
<1>8. DOMAIN out = 1..Len(out) /\ Len(out) = Cardinality(keep)
  <2> DEFINE U == {items[n] : n \in keep}
  <2>1. out \in Seq(U)
    BY <1>7 DEF IsCollection
  <2> HIDE DEF U
  <2>2. DOMAIN out = 1..Len(out)
    BY <2>1, LenProperties
  <2> QED BY <1>7, <2>2 DEF IsCollection
<1>9. \A n \in keep : out[Place(keep, n)].kind = events[n].kind
  BY <1>5, <1>6, <1>7 DEF IsCollection
<1>10. \A j \in DOMAIN out : Claimed(out[j]) \in {0, price}
  BY <1>5, <1>6, <1>7, <1>8 DEF IsCollection
<1> HIDE DEF complete
<1>11. \A n \in complete :
         out[Cardinality({m \in complete : m <= n})].kind = events[n].kind
  BY <1>6, <1>9 DEF Place
<1> QED BY <1>4, <1>6, <1>8, <1>10, <1>11 DEF price, complete

\* What the events claim together is no more than the price.
LEMMA ClaimsBounded ==
  ASSUME NEW T, NEW events \in Seq(T), \A n \in DOMAIN events : WellFormed(events[n]),
         NEW gas \in Nat
  PROVE  LET out == MapEvents(events, gas)
         IN SumFunctionOnSet([n \in DOMAIN out |-> Claimed(out[n])], DOMAIN out) <= gas
<1> DEFINE out == MapEvents(events, gas)
           price == PricePerEvent(events, gas)
           complete == {n \in DOMAIN events : Complete(events[n])}
           claims == [n \in DOMAIN out |-> Claimed(out[n])]
           N == Len(events)
<1>1. /\ DOMAIN out = 1..Len(out) /\ Len(out) = Cardinality(complete)
      /\ \A j \in DOMAIN out : Claimed(out[j]) \in {0, price}
  BY MapEventsResult
<1> HIDE DEF out
<1>2. N \in Nat /\ DOMAIN events = 1..N
  BY LenProperties
<1>3. Len(out) \in Nat /\ Len(out) <= N
  <2>1. IsFiniteSet(1..N) /\ Cardinality(1..N) = N
    <3> HIDE DEF N
    <3>1. Cardinality(1..N) = IF 1 > N THEN 0 ELSE N - 1 + 1
      BY <1>2, FS_Interval
    <3> QED BY <1>2, <3>1, FS_Interval
  <2>2. complete \in SUBSET (1..N)
    BY <1>2
  <2> HIDE DEF complete, N
  <2> QED BY <1>1, <2>1, <2>2, FS_Subset, FS_CardinalityType
<1>4. price \in Nat /\ price * Len(out) <= gas
  <2>1. CASE events = <<>>
    BY <1>3, <2>1 DEF PricePerEvent
  <2>2. CASE events # <<>>
    <3>1. N > 0
      BY <1>2, <2>2, EmptySeq
    <3>2. price = gas \div N
      BY <2>2 DEF PricePerEvent
    <3> HIDE DEF price, N
    <3> DEFINE q == gas \div N
    <3>3. q \in Nat /\ q * N <= gas
      BY <1>2, <3>1
    <3> HIDE DEF q
    <3>4. q * Len(out) <= q * N
      BY <1>2, <1>3, <3>3
    <3>5. q * Len(out) \in Nat /\ q * N \in Nat
      BY <1>2, <1>3, <3>3
    <3> QED BY <3>2, <3>3, <3>4, <3>5 DEF q
  <2> QED BY <2>1, <2>2
<1> HIDE DEF price
<1>5. SumFunctionOnSet(claims, 1..Len(out)) <= price * Len(out)
  <2> DEFINE n == Len(out)
  <2>1. n \in Nat
    BY <1>3
  <2>2. \A j \in 1..n : claims[j] \in 0..price
    BY <1>1, <1>4
  <2> HIDE DEF n, claims
  <2>3. IsFiniteSet(1..n) /\ Cardinality(1..n) = n
    <3>1. Cardinality(1..n) = IF 1 > n THEN 0 ELSE n - 1 + 1
      BY <2>1, FS_Interval
    <3> QED BY <2>1, <3>1, FS_Interval
  <2>4. SumFunctionOnSet(claims, 1..n) <= price * Cardinality(1..n)
    <3>1. 1..n \in SUBSET (1..n) /\ (1..n) \ (1..n) = {}
      OBVIOUS
    <3> QED BY <1>4, <2>2, <2>3, <3>1, SumBounded
  <2> QED BY <2>3, <2>4 DEF n
<1>6. SumFunctionOnSet(claims, 1..Len(out)) \in Nat
  <2> DEFINE n == Len(out)
  <2>1. n \in Nat
    BY <1>3
  <2>2. \A j \in 1..n : claims[j] \in Nat
    BY <1>1, <1>4
  <2> HIDE DEF n, claims
  <2>3. IsFiniteSet(1..n)
    BY <2>1, FS_Interval
  <2>4. SumFunctionOnSet(claims, 1..n) \in Nat
    BY <2>2, <2>3, SumType
  <2> QED BY <2>4 DEF n
<1>7. SumFunctionOnSet(claims, DOMAIN out) <= gas
  <2> HIDE DEF claims
  <2> DEFINE claimed == SumFunctionOnSet(claims, DOMAIN out)
             most == price * Len(out)
  <2>1. claimed \in Nat /\ claimed <= most /\ most \in Nat /\ most <= gas
    BY <1>1, <1>3, <1>4, <1>5, <1>6
  <2> HIDE DEF claimed, most
  <2>2. claimed <= gas
    BY <2>1
  <2> QED BY <2>2 DEF claimed
<1> QED BY <1>7 DEF out

-----------------------------------------------------------------------------
(* Costs and shares.                                                       *)

\* Of which types the transactions of a chain are.
LEMMA ScriptProperties ==
  ASSUME script \in Histories, NEW i \in DOMAIN script
  PROVE  /\ DOMAIN script = 1..Len(script) /\ Len(script) \in Nat
         /\ script[i].cost \in 0..MaxU64 /\ script[i].ok \in BOOLEAN
         /\ DOMAIN script[i].ixs = 1..Len(script[i].ixs) /\ Len(script[i].ixs) \in Nat
         /\ \A k \in DOMAIN script[i].ixs : script[i].ixs[k].set_size \in Nat
         /\ \E T : script[i].events \in Seq(T)
         /\ \A n \in DOMAIN script[i].events : WellFormed(script[i].events[n])
<1> DEFINE ixs == script[i].ixs
           S == {ixs[k] : k \in DOMAIN ixs}
           R == {script[j] : j \in DOMAIN script}
<1>1. /\ script \in Seq(R) /\ ixs \in Seq(S)
      /\ script[i].cost \in 0..MaxU64 /\ script[i].ok \in BOOLEAN
      /\ \A k \in DOMAIN ixs : ixs[k].set_size \in Nat
      /\ \E T : script[i].events \in Seq(T)
      /\ \A n \in DOMAIN script[i].events : WellFormed(script[i].events[n])
  BY ForwarderAssumption
<1> HIDE DEF S, R
<1>2. DOMAIN script = 1..Len(script) /\ Len(script) \in Nat
  BY <1>1, LenProperties
<1>3. DOMAIN ixs = 1..Len(ixs) /\ Len(ixs) \in Nat
  BY <1>1, LenProperties
<1> QED BY <1>1, <1>2, <1>3

\* What saturates is cut at the bound.
LEMMA Saturates ==
  ASSUME NEW a \in Nat, NEW b \in Nat
  PROVE  /\ AtMost(a, MaxU64) \in 0..MaxU64
         /\ a <= MaxU64 => AtMost(a, MaxU64) = a
         /\ a <= b => AtMost(a, MaxU64) <= AtMost(b, MaxU64)
         /\ Plus(AtMost(a, MaxU64), b) = AtMost(a + b, MaxU64)
BY AmountAssumption DEF AtMost, Plus

\* A transaction's cost, once for each matching instruction.
LEMMA CostWithinType ==
  ASSUME script \in Histories, NEW i \in DOMAIN script, NEW steps
  PROVE  CostWithin(script[i], steps) \in 0..MaxU64
<1> DEFINE ixs == script[i].ixs
           matching == {k \in DOMAIN ixs : /\ ixs[k].program = "gateway"
                                           /\ ixs[k].name \in steps}
           n == Cardinality(matching)
<1>1. n \in Nat
  <2>0. DOMAIN ixs = 1..Len(ixs) /\ Len(ixs) \in Nat
    BY ScriptProperties
  <2>1. IsFiniteSet(1..Len(ixs)) /\ matching \in SUBSET (1..Len(ixs))
    BY <2>0, FS_Interval
  <2> HIDE DEF matching
  <2> QED BY <2>1, FS_Subset, FS_CardinalityType
<1>2. CostWithin(script[i], steps) = IF script[i].ok THEN Times(script[i].cost, n) ELSE 0
  BY DEF CostWithin
<1> HIDE DEF n
<1>3. script[i].cost * n \in Nat
  <2>1. script[i].cost \in Nat
    BY AmountAssumption, ScriptProperties
  <2> QED BY <1>1, <2>1
<1>4. Times(script[i].cost, n) \in 0..MaxU64
  BY <1>3, Saturates DEF Times
<1> QED BY <1>2, <1>4, AmountAssumption

\* The more signatures there are, the more they cost.
LEMMA CostOfMonotone ==
  ASSUME script \in Histories, NEW S \in SUBSET DOMAIN script, NEW R \in SUBSET S,
         NEW steps
  PROVE  /\ CostOf(script, S, steps) \in 0..MaxU64
         /\ CostOf(script, R, steps) \in 0..MaxU64
         /\ CostOf(script, R, steps) <= CostOf(script, S, steps)
<1> DEFINE f == [i \in R |-> CostWithin(script[i], steps)]
           g == [i \in S |-> CostWithin(script[i], steps)]
<1>1. \A i \in DOMAIN script : CostWithin(script[i], steps) \in Nat
  BY CostWithinType, AmountAssumption
<1>2. IsFiniteSet(S) /\ IsFiniteSet(R)
  <2>1. IsFiniteSet(DOMAIN script)
    BY FS_Interval, ChainProperties, ForwarderAssumption, LenProperties
  <2> QED BY <2>1, FS_Subset
<1>3. /\ \A i \in S : g[i] \in Nat
      /\ \A i \in R : f[i] \in Nat /\ f[i] <= g[i]
  BY <1>1
<1>4. CostOf(script, R, steps) = Sum(f, R) /\ CostOf(script, S, steps) = Sum(g, S)
  BY DEF CostOf
<1> HIDE DEF f, g
<1>5. SumFunctionOnSet(f, R) <= SumFunctionOnSet(g, S)
  BY <1>2, <1>3, SumMonotone
<1>6. SumFunctionOnSet(f, R) \in Nat /\ SumFunctionOnSet(g, S) \in Nat
  BY <1>2, <1>3, SumType
<1> QED BY <1>4, <1>5, <1>6, Saturates DEF Sum

\* Finalized transactions do not change, nor do they leave a history.
LEMMA ChainPrefix ==
  ASSUME script \in Histories, landed \in 0..Len(script)
  PROVE  /\ DOMAIN Chain = 1..landed
         /\ \A i \in 1..landed : i \in DOMAIN script /\ Chain[i] = script[i]
         /\ \A account : History(Chain, account)
                           = {j \in History(script, account) : j <= landed}
<1> DEFINE T == {script[i] : i \in DOMAIN script}
<1>1. /\ script \in Seq(T) /\ DOMAIN script = 1..Len(script) /\ DOMAIN Chain = 1..landed
      /\ Len(script) \in Nat /\ landed \in Nat /\ landed <= Len(script)
  BY ForwarderAssumption, ChainProperties
<1>2. \A i \in 1..landed : i \in DOMAIN script /\ script[i] \in T
  BY <1>1
<1> HIDE DEF T
<1>3. \A i \in 1..landed : Chain[i] = script[i + 1 - 1]
  BY <1>1, <1>2, SubSeqProperties DEF Chain
<1>4. \A i \in 1..landed : i + 1 - 1 = i
  BY <1>1
<1>5. \A i \in 1..landed : Chain[i] = script[i]
  BY <1>3, <1>4
<1>6. \A i : i \in 1..landed <=> i \in DOMAIN script /\ i <= landed
  BY <1>1
<1>7. ASSUME NEW account
      PROVE  History(Chain, account) = {j \in History(script, account) : j <= landed}
  BY <1>1, <1>5, <1>6 DEF History, Mentions
<1> QED BY <1>1, <1>2, <1>5, <1>7

\* So what has landed costs the same, whatever lands later.
LEMMA CostOfChain ==
  ASSUME script \in Histories, landed \in 0..Len(script), NEW S \in SUBSET (1..landed),
         NEW steps
  PROVE  CostOf(Chain, S, steps) = CostOf(script, S, steps)
<1>1. [i \in S |-> CostWithin(Chain[i], steps)] = [i \in S |-> CostWithin(script[i], steps)]
  BY ChainPrefix
<1> QED BY <1>1 DEF CostOf

\* The more a session costs, the greater a message's share in it.
LEMMA ShareMonotone ==
  ASSUME NEW a \in Nat, NEW b \in Nat, a <= b, NEW instruction,
         instruction.set_size \in Nat
  PROVE  /\ Share(instruction, a) \in Nat /\ Share(instruction, b) \in Nat
         /\ Share(instruction, a) <= Share(instruction, b)
BY QuotientMonotone DEF Share

-----------------------------------------------------------------------------
(* The price of a transaction, part by part.                               *)

SharesAt(i, last) == [k \in PricedIxs(i) |-> ShareAt(script[i].ixs[k], last)]

PricedBefore(i, n) == {k \in PricedIxs(i) : k < n}

\* The price of a transaction up to an instruction, if the chain had ended at
\* `last'.
PartAt(i, last, n) ==
  AtMost(script[i].cost + SumFunctionOnSet(SharesAt(i, last), PricedBefore(i, n)), MaxU64)

\* An instruction's share grows with the history.
LEMMA ShareAtMonotone ==
  ASSUME script \in Histories, NEW i \in DOMAIN script, NEW k \in DOMAIN script[i].ixs,
         NEW last \in Nat, NEW later \in Nat, last <= later
  PROVE  /\ ShareAt(script[i].ixs[k], last) \in Nat
         /\ ShareAt(script[i].ixs[k], later) \in Nat
         /\ ShareAt(script[i].ixs[k], last) <= ShareAt(script[i].ixs[k], later)
<1> DEFINE instruction == script[i].ixs[k]
           related == History(script, instruction.account)
           steps == StepsFor(instruction)
           R == {j \in related : j <= last}
           S == {j \in related : j <= later}
<1>1. S \in SUBSET DOMAIN script /\ R \in SUBSET S
  <2>1. \A j \in DOMAIN script : j \in Nat
    BY ScriptProperties
  <2>2. \A j \in DOMAIN script : j <= last => j <= later
    BY <2>1
  <2>3. related \subseteq DOMAIN script
    BY DEF History
  <2> HIDE DEF related
  <2> QED BY <2>2, <2>3
<1>2. instruction.set_size \in Nat
  BY ScriptProperties
<1>3. /\ ShareAt(instruction, last) = Share(instruction, CostOf(script, R, steps))
      /\ ShareAt(instruction, later) = Share(instruction, CostOf(script, S, steps))
  BY DEF ShareAt
<1> HIDE DEF instruction, R, S, steps
<1>4. /\ CostOf(script, R, steps) \in Nat /\ CostOf(script, S, steps) \in Nat
      /\ CostOf(script, R, steps) <= CostOf(script, S, steps)
  BY <1>1, CostOfMonotone, AmountAssumption
<1>5. /\ ShareAt(instruction, last) \in Nat /\ ShareAt(instruction, later) \in Nat
      /\ ShareAt(instruction, last) <= ShareAt(instruction, later)
  BY <1>2, <1>3, <1>4, ShareMonotone
<1> QED BY <1>5 DEF instruction

\* Instructions with a history are finitely many.
LEMMA PricedFinite ==
  ASSUME script \in Histories, NEW i \in DOMAIN script, NEW n
  PROVE  /\ IsFiniteSet(PricedIxs(i)) /\ IsFiniteSet(PricedBefore(i, n))
         /\ PricedIxs(i) \subseteq DOMAIN script[i].ixs
         /\ PricedBefore(i, n) \subseteq PricedIxs(i)
<1>1. IsFiniteSet(DOMAIN script[i].ixs)
  <2>1. DOMAIN script[i].ixs = 1..Len(script[i].ixs) /\ Len(script[i].ixs) \in Nat
    BY ScriptProperties
  <2> QED BY <2>1, FS_Interval
<1>2. PricedIxs(i) \subseteq DOMAIN script[i].ixs /\ PricedBefore(i, n) \subseteq PricedIxs(i)
  BY DEF PricedIxs, PricedBefore
<1> QED BY <1>1, <1>2, FS_Subset

\* What the shares up to an instruction add up to.
LEMMA PartType ==
  ASSUME script \in Histories, NEW i \in DOMAIN script, NEW last \in Nat, NEW n
  PROVE  /\ SumFunctionOnSet(SharesAt(i, last), PricedBefore(i, n)) \in Nat
         /\ script[i].cost \in Nat
         /\ PartAt(i, last, n) \in Nat
<1>1. \A k \in PricedBefore(i, n) : SharesAt(i, last)[k] \in Nat
  BY PricedFinite, ShareAtMonotone DEF SharesAt
<1>2. SumFunctionOnSet(SharesAt(i, last), PricedBefore(i, n)) \in Nat
  BY <1>1, PricedFinite, SumType
<1>3. script[i].cost \in Nat
  BY ScriptProperties, AmountAssumption
<1> DEFINE shares == SumFunctionOnSet(SharesAt(i, last), PricedBefore(i, n))
<1>4. PartAt(i, last, n) = AtMost(script[i].cost + shares, MaxU64) /\ shares \in Nat
  BY <1>2 DEF PartAt
<1> HIDE DEF shares
<1>5. AtMost(script[i].cost + shares, MaxU64) \in 0..MaxU64
  <2>1. script[i].cost + shares \in Nat
    BY <1>3, <1>4
  <2> QED BY <2>1, Saturates
<1> QED BY <1>2, <1>3, <1>4, <1>5, AmountAssumption

\* The price grows with the histories.
LEMMA PartMonotone ==
  ASSUME script \in Histories, NEW i \in DOMAIN script, NEW n,
         NEW last \in Nat, NEW later \in Nat, last <= later
  PROVE  PartAt(i, last, n) <= PartAt(i, later, n)
<1> DEFINE S == PricedBefore(i, n)
           f == SharesAt(i, last)
           g == SharesAt(i, later)
<1>1. \A k \in S : f[k] \in Nat /\ g[k] \in Nat /\ f[k] <= g[k]
  BY PricedFinite, ShareAtMonotone DEF SharesAt
<1>2. IsFiniteSet(S)
  BY PricedFinite
<1>3. /\ SumFunctionOnSet(f, S) \in Nat /\ SumFunctionOnSet(g, S) \in Nat
      /\ script[i].cost \in Nat
  BY PartType
<1>4. PartAt(i, last, n) = AtMost(script[i].cost + SumFunctionOnSet(f, S), MaxU64)
      /\ PartAt(i, later, n) = AtMost(script[i].cost + SumFunctionOnSet(g, S), MaxU64)
  BY DEF PartAt
<1> HIDE DEF S, f, g
<1>5. SumFunctionOnSet(f, S) <= SumFunctionOnSet(g, S)
  BY <1>1, <1>2, SumMonotone
<1> DEFINE a == script[i].cost + SumFunctionOnSet(f, S)
           b == script[i].cost + SumFunctionOnSet(g, S)
<1>6. a \in Nat /\ b \in Nat /\ a <= b
  BY <1>3, <1>5
<1>7. PartAt(i, last, n) = AtMost(a, MaxU64) /\ PartAt(i, later, n) = AtMost(b, MaxU64)
  BY <1>4
<1> HIDE DEF a, b
<1> QED BY <1>6, <1>7, Saturates

\* A priced instruction adds its share, another one nothing.
LEMMA PartNext ==
  ASSUME script \in Histories, NEW i \in DOMAIN script, NEW last \in Nat,
         NEW k \in DOMAIN script[i].ixs
  PROVE  PartAt(i, last, k + 1)
           = IF Priced(script[i].ixs[k])
             THEN Plus(PartAt(i, last, k), ShareAt(script[i].ixs[k], last))
             ELSE PartAt(i, last, k)
<1> DEFINE S == PricedBefore(i, k)
           f == SharesAt(i, last)
           share == ShareAt(script[i].ixs[k], last)
<1>1. \A j \in DOMAIN script[i].ixs : j \in Nat
  BY ScriptProperties
<1>2. \A j \in DOMAIN script[i].ixs : j < k + 1 <=> j < k \/ j = k
  BY <1>1
<1>3. ~(k < k)
  BY <1>1
<1>4. CASE Priced(script[i].ixs[k])
  <2>1. k \in PricedIxs(i)
    BY <1>4 DEF PricedIxs
  <2>2. PricedBefore(i, k + 1) = S \cup {k} /\ k \notin S
    BY <1>2, <1>3, <2>1, PricedFinite DEF PricedBefore
  <2>3. \A j \in S \cup {k} : f[j] \in Nat
    BY <2>1, PricedFinite, ShareAtMonotone DEF SharesAt
  <2>4. f[k] = share /\ share \in Nat
    BY <2>1, ShareAtMonotone DEF SharesAt
  <2>5. IsFiniteSet(S)
    BY PricedFinite
  <2>6. SumFunctionOnSet(f, S) \in Nat /\ script[i].cost \in Nat
    BY PartType
  <2>7. /\ PartAt(i, last, k + 1)
             = AtMost(script[i].cost + SumFunctionOnSet(f, S \cup {k}), MaxU64)
        /\ PartAt(i, last, k) = AtMost(script[i].cost + SumFunctionOnSet(f, S), MaxU64)
    BY <2>2 DEF PartAt
  <2> HIDE DEF S, f, share
  <2>8. SumFunctionOnSet(f, S \cup {k}) = SumFunctionOnSet(f, S) + share
    BY <2>2, <2>3, <2>4, <2>5, SumAdd
  <2> DEFINE sum == script[i].cost + SumFunctionOnSet(f, S)
  <2>9. sum \in Nat /\ script[i].cost + (SumFunctionOnSet(f, S) + share) = sum + share
    BY <2>4, <2>6
  <2> HIDE DEF sum
  <2>10. AtMost(sum + share, MaxU64) = Plus(AtMost(sum, MaxU64), share)
    BY <2>4, <2>9, Saturates
  <2> QED BY <1>4, <2>7, <2>8, <2>9, <2>10 DEF sum, share
<1>5. CASE ~Priced(script[i].ixs[k])
  <2>1. k \notin PricedIxs(i)
    BY <1>5 DEF PricedIxs
  <2>2. PricedBefore(i, k + 1) = S
    BY <1>2, <2>1, PricedFinite DEF PricedBefore
  <2> QED BY <1>5, <2>2 DEF PartAt
<1> QED BY <1>4, <1>5

\* Before its first instruction a transaction's price is its own cost; after its
\* last, it is the whole.
LEMMA PartEnds ==
  ASSUME script \in Histories, NEW i \in DOMAIN script, NEW last \in Nat
  PROVE  /\ PartAt(i, last, 1) = script[i].cost
         /\ \A n \in Nat : n > Len(script[i].ixs) => PartAt(i, last, n) = PriceAt(i, last)
<1>1. \A j \in DOMAIN script[i].ixs : j \in Nat /\ 1 <= j /\ j <= Len(script[i].ixs)
  BY ScriptProperties
<1>2. Len(script[i].ixs) \in Nat
  BY ScriptProperties
<1>3. PartAt(i, last, 1) = script[i].cost
  <2>1. \A j \in DOMAIN script[i].ixs : ~(j < 1)
    BY <1>1
  <2>2. PricedBefore(i, 1) = {}
    BY <2>1, PricedFinite DEF PricedBefore
  <2>3. SumFunctionOnSet(SharesAt(i, last), PricedBefore(i, 1)) = 0
    BY <2>2, SumEmpty
  <2>4. script[i].cost \in Nat /\ script[i].cost <= MaxU64
    BY ScriptProperties, AmountAssumption
  <2>5. script[i].cost + 0 = script[i].cost
    BY <2>4
  <2>6. PartAt(i, last, 1) = AtMost(script[i].cost, MaxU64)
    BY <2>3, <2>5 DEF PartAt
  <2> QED BY <2>4, <2>6, Saturates
<1>4. ASSUME NEW n \in Nat, n > Len(script[i].ixs)
      PROVE  PartAt(i, last, n) = PriceAt(i, last)
  <2>1. \A j \in DOMAIN script[i].ixs : j < n
    BY <1>1, <1>2, <1>4
  <2>2. PricedBefore(i, n) = PricedIxs(i)
    BY <2>1, PricedFinite DEF PricedBefore
  <2> QED BY <2>2 DEF PartAt, PriceAt, SharesAt
<1> QED BY <1>3, <1>4

-----------------------------------------------------------------------------
(* Pages.                                                                  *)

\* A page is a part of the history; what is older than the page is older than
\* its last signature; and where a page is empty, nothing is older.
LEMMA PageCollects ==
  ASSUME script \in Histories, landed \in 0..Len(script), cursor \in Nat, NEW account
  PROVE  LET page == Page(Chain, account, cursor)
             older == {j \in History(script, account) : j <= landed /\ j < cursor}
         IN /\ page \subseteq History(script, account)
            /\ page = {} => older = {}
            /\ page # {} => \A j \in older : CursorAfter(page) <= j => j \in page
<1> DEFINE related == History(script, account)
           older == {j \in related : j <= landed /\ j < cursor}
           page == {i \in older : Cardinality({j \in older : j > i}) < PageSize}
<1>1. landed \in Nat /\ DOMAIN script = 1..Len(script) /\ DOMAIN Chain = 1..landed
      /\ Len(script) \in Nat /\ landed <= Len(script)
  BY ChainProperties
<1>2. {i \in History(Chain, account) : i < cursor} = older
  <2>1. History(Chain, account) = {j \in related : j <= landed}
    BY ChainPrefix
  <2> HIDE DEF related
  <2> QED BY <2>1
<1>3. Page(Chain, account, cursor) = page
  BY <1>2 DEF Page
<1>4. older \subseteq 0..landed /\ older \subseteq related /\ page \subseteq older
  <2>1. related \subseteq 1..Len(script)
    BY <1>1 DEF History
  <2>2. \A j \in related : j \in Nat
    BY <2>1
  <2> HIDE DEF related
  <2> QED BY <1>1, <2>2
<1>5. IsFiniteSet(older) /\ \A j \in older : j \in Nat
  <2>1. IsFiniteSet(0..landed)
    BY <1>1, FS_Interval
  <2> HIDE DEF older
  <2>2. older \in SUBSET (0..landed)
    BY <1>4
  <2>3. IsFiniteSet(older)
    BY <2>1, <2>2, FS_Subset
  <2>4. \A j \in older : j \in 0..landed
    BY <2>2
  <2> QED BY <1>1, <2>3, <2>4
<1> DEFINE Newer(i) == {j \in older : j > i}
<1>6. ASSUME page = {}
      PROVE  older = {}
  <2> SUFFICES ASSUME older # {} PROVE FALSE
    OBVIOUS
  <2>1. PICK i \in older : \A j \in older : j <= i
    <3> HIDE DEF older
    <3> QED BY <1>1, <1>4, GreatestElement
  <2>2. Newer(i) = {}
    <3>1. \A j \in older : ~(j > i)
      BY <1>5, <2>1
    <3> HIDE DEF older
    <3> QED BY <3>1
  <2>3. Cardinality(Newer(i)) < PageSize
    BY <2>2, FS_EmptySet, ForwarderAssumption
  <2> QED BY <1>6, <2>1, <2>3
<1>7. ASSUME page # {}, NEW j \in older, CursorAfter(page) <= j
      PROVE  j \in page
  <2> DEFINE c == CursorAfter(page)
  <2>1. c \in page
    <3>1. page \subseteq Nat
      BY <1>4, <1>5
    <3>2. \E i \in page : \A k \in page : i <= k
      <4> HIDE DEF page
      <4> QED BY <1>7, <3>1, LeastElement
    <3> HIDE DEF page
    <3> QED BY <3>2 DEF CursorAfter
  <2>2. c \in older /\ Cardinality(Newer(c)) < PageSize /\ c <= j
    BY <1>7, <2>1
  <2> HIDE DEF c
  <2>3. Newer(j) \in SUBSET Newer(c) /\ Newer(c) \in SUBSET older
    <3>1. \A k \in older : k > j => k > c
      BY <1>5, <2>2
    <3> HIDE DEF older
    <3> QED BY <3>1
  <2>4. Cardinality(Newer(j)) < PageSize
    <3> HIDE DEF Newer, older
    <3>1. IsFiniteSet(Newer(c)) /\ IsFiniteSet(Newer(j))
      BY <1>5, <2>3, FS_Subset
    <3>2. Cardinality(Newer(j)) <= Cardinality(Newer(c))
      BY <2>3, <3>1, FS_Subset
    <3>3. Cardinality(Newer(j)) \in Nat /\ Cardinality(Newer(c)) \in Nat
      BY <3>1, FS_CardinalityType
    <3> QED BY <2>2, <3>2, <3>3, ForwarderAssumption
  <2> QED BY <2>4
<1> QED BY <1>3, <1>4, <1>6, <1>7

-----------------------------------------------------------------------------
(* The inductive invariant.                                                *)

\* What is held, queued or published was successful on chain.
OnlySuccessful ==
  /\ \A k \in DOMAIN queue : script[queue[k]].ok
  /\ current # NoTx => script[current].ok
  /\ \A k \in DOMAIN published : script[published[k].tx].ok

\* A command is made of the transaction's events and the price computed for it.
CommandsInv ==
  \A k \in DOMAIN published :
    /\ published[k].total \in Nat
    /\ published[k].events
         = MapEvents(script[published[k].tx].events, published[k].total)

Pricing == pc \in {"price", "page", "fetch"}

\* The price so far covers what was finalized before the transaction, and
\* nothing that has not happened.
TotalInv ==
  Pricing => /\ total \in Nat
             /\ PartAt(current, current, ix) <= total
             /\ total <= PartAt(current, landed, ix)

Related == History(script, Ixs[ix].account)

\* While the history is paged through, what is newer than the cursor and not
\* younger than the transaction has been collected; once it ends, everything.
PagesInv ==
  /\ pc = "page" => /\ Priced(Ixs[ix]) /\ signatures \subseteq Related
                    /\ \A j \in Related : cursor <= j /\ j <= current => j \in signatures
  /\ pc = "fetch" => /\ Priced(Ixs[ix]) /\ signatures \subseteq Related
                     /\ \A j \in Related : j <= current => j \in signatures

PricingInv == OnlySuccessful /\ CommandsInv /\ TotalInv /\ PagesInv

\* The steps the forwarder's state can take: its own, the chain's, the
\* listener's, and a restart.
Steps == Next \/ UNCHANGED vars \/ \E machine \in BOOLEAN : Restart(machine)

\* No other step of the relayer touches it.
LEMMA StepsOnly ==
  ASSUME TypeInv, [RelayerNext]_relayerVars
  PROVE  Steps
<1>1. ForwarderInv
  BY DEF TypeInv, RelayerTypeOK, ForwarderInv
<1>2. CASE UNCHANGED relayerVars
  BY <1>2 DEF relayerVars, Steps
<1>3. CASE RelayerNext
  BY <1>1, <1>3, ForwarderStepsOnly DEF Steps
<1> QED BY <1>2, <1>3

\* The chain's transactions never change.
LEMMA ScriptKept ==
  ASSUME Steps
  PROVE  script' = script
BY DEF Steps, Next, Step, Grow, Receive, SkipInstruction, BeginHistory, FetchPage, AddCosts,
       Publish, Fail, Arrive, Restart, vars, chainVars

\* A command stays as it was published, and a new one is the forwarder's.
LEMMA PublishedSteps ==
  ASSUME TypeInv, Steps
  PROVE  \A k \in DOMAIN published' :
           \/ k \in DOMAIN published /\ published'[k] = published[k]
           \/ Publish /\ published'[k] = Command
<1>1. CASE Publish
  <2>1. PICK S : published \in Seq(S)
    BY DEF TypeInv, PublishedInv
  <2>2. published \in Seq(S \cup {Command})
    BY <2>1, SeqMonotonic
  <2>3. /\ DOMAIN published' = 1..Len(published) + 1 /\ Len(published) \in Nat
        /\ DOMAIN published = 1..Len(published)
        /\ \A k \in 1..Len(published) : published'[k] = published[k]
        /\ published'[Len(published) + 1] = Command
    BY <1>1, <2>2, AppendProperties, LenProperties DEF Publish
  <2>4. \A k \in 1..Len(published) + 1 : k \in 1..Len(published) \/ k = Len(published) + 1
    BY <2>3
  <2> QED BY <1>1, <2>3, <2>4
<1>2. CASE ~Publish
  <2>1. published' = published
    BY <1>2
    DEF Steps, Next, Step, Grow, Receive, SkipInstruction, BeginHistory, FetchPage, AddCosts,
        Fail, Arrive, Restart, vars, forwarder
  <2> QED BY <2>1
<1> QED BY <1>1, <1>2

\* Only successful transactions come in, so only successful ones are published.
LEMMA OnlySuccessfulStep ==
  ASSUME TypeInv, OnlySuccessful, Steps
  PROVE  OnlySuccessful'
<1> USE DEF TypeInv, RelayerTypeOK, TypeOK
<1>0. /\ queue \in Seq(1..landed) /\ DOMAIN queue = 1..Len(queue) /\ Len(queue) \in Nat
      /\ landed \in Nat /\ script' = script
  BY LenProperties, ChainProperties, ScriptKept
<1>1. \A k \in DOMAIN published' : script[published'[k].tx].ok
  <2>1. Publish => script[Command.tx].ok
    BY DEF Publish, Command, OnlySuccessful
  <2> QED BY <2>1, PublishedSteps DEF OnlySuccessful
<1>2. CASE Receive
  <2>1. /\ current' = Head(queue) /\ queue' = Tail(queue) /\ queue # <<>>
    BY <1>2 DEF Receive
  <2>2. /\ Head(queue) = queue[1] /\ 1 \in DOMAIN queue
        /\ DOMAIN Tail(queue) = 1..Len(queue) - 1
        /\ \A k \in 1..Len(queue) - 1 : Tail(queue)[k] = queue[k + 1]
    BY <1>0, <2>1, HeadTailProperties, LenProperties, EmptySeq
  <2>3. \A k \in 1..Len(queue) - 1 : k + 1 \in DOMAIN queue
    BY <1>0
  <2> QED BY <1>0, <1>1, <2>1, <2>2, <2>3 DEF OnlySuccessful
<1>3. ASSUME NEW i \in DOMAIN script, Arrive(i)
      PROVE  OnlySuccessful'
  <2>1. /\ queue' = Append(queue, i) /\ i \in 1..landed /\ script[i].ok /\ current' = current
    BY <1>3 DEF Arrive
  <2>2. /\ DOMAIN queue' = 1..Len(queue) + 1
        /\ \A k \in 1..Len(queue) : queue'[k] = queue[k]
        /\ queue'[Len(queue) + 1] = i
    BY <1>0, <2>1, AppendProperties, LenProperties
  <2>3. \A k \in DOMAIN queue' : k \in DOMAIN queue \/ k = Len(queue) + 1
    BY <1>0, <2>2
  <2> QED BY <1>0, <1>1, <2>1, <2>2, <2>3 DEF OnlySuccessful
<1>4. CASE Publish \/ Restart(TRUE) \/ Restart(FALSE)
  <2>1. current' = NoTx /\ (queue' = queue \/ queue' = <<>>)
    BY <1>4 DEF Publish, Restart
  <2> QED BY <1>0, <1>1, <2>1 DEF OnlySuccessful
<1>5. CASE Grow \/ SkipInstruction \/ BeginHistory \/ FetchPage \/ AddCosts \/ Fail
           \/ UNCHANGED vars
  <2>1. UNCHANGED <<current, queue>>
    BY <1>5
    DEF Grow, SkipInstruction, BeginHistory, FetchPage, AddCosts, Fail, forwarder, vars
  <2> QED BY <1>0, <1>1, <2>1 DEF OnlySuccessful
<1>6. \A machine \in BOOLEAN : machine = TRUE \/ machine = FALSE
  OBVIOUS
<1> QED BY <1>2, <1>3, <1>4, <1>5, <1>6 DEF Next, Step, Steps

\* A command is published with the price computed for it and its own events.
LEMMA CommandsStep ==
  ASSUME TypeInv, TotalInv, CommandsInv, Steps
  PROVE  CommandsInv'
<1>1. script' = script
  BY ScriptKept
<1>2. Publish => /\ Command.total \in Nat
                 /\ Command.events = MapEvents(script[Command.tx].events, Command.total)
  BY DEF Publish, Command, TotalInv, Pricing
<1> QED BY <1>1, <1>2, PublishedSteps DEF CommandsInv

\* What the history collected for an instruction costs: no less than what was
\* finalized before the transaction, and no more than what has landed.
LEMMA SharesBounded ==
  ASSUME TypeInv, PagesInv, pc = "fetch"
  PROVE  LET share == Share(Ixs[ix], CostOf(Chain, signatures, StepsFor(Ixs[ix])))
         IN /\ share \in Nat
            /\ ShareAt(Ixs[ix], current) <= share
            /\ share <= ShareAt(Ixs[ix], landed)
<1> USE DEF TypeInv, RelayerTypeOK, TypeOK
<1>1. /\ landed \in Nat /\ Len(script) \in Nat /\ landed <= Len(script)
      /\ DOMAIN script = 1..Len(script) /\ DOMAIN Chain = 1..landed
      /\ current \in 1..landed /\ current \in DOMAIN script /\ ix \in DOMAIN Ixs
  BY ChainProperties DEF NoTx
<1> DEFINE instruction == Ixs[ix]
           steps == StepsFor(instruction)
           before == {j \in Related : j <= current}
           all == {j \in Related : j <= landed}
<1>2. \A j \in Related : j \in DOMAIN script
  BY DEF Related, History
<1>3. /\ before \in SUBSET signatures /\ signatures \in SUBSET all
      /\ signatures \in SUBSET (1..landed) /\ all \in SUBSET DOMAIN script
  <2>1. signatures \subseteq Related /\ \A j \in Related : j <= current => j \in signatures
    BY DEF PagesInv
  <2>2. \A j \in signatures : j <= landed
    BY <1>1
  <2> HIDE DEF Related
  <2> QED BY <1>2, <2>1, <2>2
<1>4. instruction.set_size \in Nat
  BY <1>1, ScriptProperties DEF Ixs
<1>5. /\ ShareAt(instruction, current) = Share(instruction, CostOf(script, before, steps))
      /\ ShareAt(instruction, landed) = Share(instruction, CostOf(script, all, steps))
  BY DEF ShareAt, Related
<1>6. CostOf(Chain, signatures, steps) = CostOf(script, signatures, steps)
  <2> HIDE DEF steps
  <2> QED BY <1>3, CostOfChain
<1> HIDE DEF instruction, steps, before, all
<1>7. /\ CostOf(script, before, steps) \in 0..MaxU64
      /\ CostOf(script, signatures, steps) \in 0..MaxU64
      /\ CostOf(script, all, steps) \in 0..MaxU64
      /\ CostOf(script, before, steps) <= CostOf(script, signatures, steps)
      /\ CostOf(script, signatures, steps) <= CostOf(script, all, steps)
  <2>1. signatures \in SUBSET DOMAIN script
    BY <1>3
  <2> QED BY <1>3, <2>1, CostOfMonotone
<1>8. /\ CostOf(script, before, steps) \in Nat /\ CostOf(script, signatures, steps) \in Nat
      /\ CostOf(script, all, steps) \in Nat
  BY <1>7, AmountAssumption
<1>9. /\ Share(instruction, CostOf(script, signatures, steps)) \in Nat
      /\ ShareAt(instruction, current) <= Share(instruction, CostOf(script, signatures, steps))
      /\ Share(instruction, CostOf(script, signatures, steps)) <= ShareAt(instruction, landed)
  BY <1>4, <1>5, <1>7, <1>8, ShareMonotone
<1> QED BY <1>6, <1>9 DEF instruction, steps

\* Saturating addition is monotone.
LEMMA PlusMonotone ==
  ASSUME NEW a \in Nat, NEW b \in Nat, NEW c \in Nat, NEW d \in Nat, a <= c, b <= d
  PROVE  Plus(a, b) \in Nat /\ Plus(a, b) <= Plus(c, d)
BY AmountAssumption DEF Plus, AtMost

\* The price so far stays between its bounds: the chain's growth raises only the
\* upper one, and an instruction adds what its history has cost.
LEMMA TotalStep ==
  ASSUME TypeInv, TotalInv, PagesInv, Steps
  PROVE  TotalInv'
<1> USE DEF TypeInv, RelayerTypeOK, TypeOK
<1>1. /\ landed \in Nat /\ Len(script) \in Nat /\ DOMAIN script = 1..Len(script)
      /\ landed <= Len(script) /\ script' = script
  BY ChainProperties, ScriptKept
<1>2. Pricing => current \in 1..landed /\ current \in DOMAIN script /\ current \in Nat
  BY <1>1 DEF Pricing, NoTx
<1>3. TotalInv' <=> (Pricing' => /\ total' \in Nat
                                 /\ PartAt(current', current', ix') <= total'
                                 /\ total' <= PartAt(current', landed', ix'))
  BY <1>1 DEF TotalInv, PartAt, SharesAt, PricedBefore, PricedIxs, ShareAt
<1>4. CASE Grow
  <2>1. landed' = landed + 1 /\ UNCHANGED <<pc, current, ix, total>>
    BY <1>4 DEF Grow, forwarder, pricing
  <2>2. SUFFICES ASSUME Pricing PROVE TotalInv'
    BY <1>3, <2>1 DEF Pricing
  <2>3. PartAt(current, landed, ix) <= PartAt(current, landed + 1, ix)
    BY <1>1, <1>2, <2>2, PartMonotone
  <2>4. PartAt(current, landed, ix) \in Nat /\ PartAt(current, landed + 1, ix) \in Nat
    <3>1. landed + 1 \in Nat /\ current \in DOMAIN script
      BY <1>1, <1>2, <2>2
    <3> QED BY <1>1, <3>1, PartType
  <2> QED BY <1>3, <2>1, <2>2, <2>3, <2>4 DEF TotalInv
<1>5. CASE Receive
  <2>1. /\ current' = Head(queue) /\ ix' = 1 /\ total' = script[Head(queue)].cost
        /\ landed' = landed
    BY <1>5 DEF Receive, chainVars
  <2>2. Head(queue) \in 1..landed
    BY <1>5, HeadTailProperties DEF Receive
  <2>3. Head(queue) \in DOMAIN script /\ Head(queue) \in Nat
    BY <1>1, <2>2
  <2> DEFINE i == Head(queue)
  <2> HIDE DEF i
  <2>4. /\ PartAt(i, i, 1) = script[i].cost /\ PartAt(i, landed, 1) = script[i].cost
        /\ script[i].cost \in Nat
    BY <1>1, <2>3, PartEnds, PartType DEF i
  <2> QED BY <1>3, <2>1, <2>4 DEF i
<1>6. CASE SkipInstruction
  <2>1. /\ pc = "price" /\ ix \in DOMAIN Ixs /\ ~Priced(Ixs[ix]) /\ ix' = ix + 1
        /\ UNCHANGED <<landed, pc, current, total>>
    <3>1. pc = "price" /\ ix <= Len(Ixs)
      BY <1>6 DEF SkipInstruction
    <3>2. ix \in DOMAIN Ixs
      BY <1>2, <3>1, ScriptProperties DEF Ixs, Pricing
    <3> QED BY <1>6, <3>2 DEF SkipInstruction, chainVars
  <2>2. /\ PartAt(current, current, ix + 1) = PartAt(current, current, ix)
        /\ PartAt(current, landed, ix + 1) = PartAt(current, landed, ix)
    BY <1>1, <1>2, <2>1, PartNext DEF Ixs, Pricing
  <2> QED BY <1>3, <2>1, <2>2 DEF TotalInv, Pricing
<1>7. CASE BeginHistory \/ FetchPage
  <2>1. /\ Pricing /\ UNCHANGED <<landed, current, ix, total>>
    BY <1>7 DEF BeginHistory, FetchPage, chainVars, Pricing
  <2> QED BY <1>3, <2>1 DEF TotalInv
<1>8. CASE AddCosts
  <2> DEFINE share == Share(Ixs[ix], CostOf(Chain, signatures, StepsFor(Ixs[ix])))
  <2>1. /\ pc = "fetch" /\ ix \in DOMAIN Ixs /\ Priced(Ixs[ix])
        /\ total' = Plus(total, share) /\ ix' = ix + 1
        /\ UNCHANGED <<landed, current>>
    BY <1>8 DEF AddCosts, chainVars, PagesInv
  <2>2. /\ share \in Nat /\ ShareAt(Ixs[ix], current) <= share
        /\ share <= ShareAt(Ixs[ix], landed)
    BY <2>1, SharesBounded
  <2> HIDE DEF share
  <2>3. current \in DOMAIN script /\ current \in Nat /\ ix \in DOMAIN script[current].ixs
    BY <1>2, <2>1 DEF Pricing, Ixs
  <2>4. /\ PartAt(current, current, ix + 1)
             = Plus(PartAt(current, current, ix), ShareAt(Ixs[ix], current))
        /\ PartAt(current, landed, ix + 1)
             = Plus(PartAt(current, landed, ix), ShareAt(Ixs[ix], landed))
    BY <1>1, <2>1, <2>3, PartNext DEF Ixs
  <2>5. /\ PartAt(current, current, ix) \in Nat /\ PartAt(current, landed, ix) \in Nat
        /\ ShareAt(Ixs[ix], current) \in Nat /\ ShareAt(Ixs[ix], landed) \in Nat
    <3>1. PartAt(current, current, ix) \in Nat /\ PartAt(current, landed, ix) \in Nat
      BY <1>1, <2>3, PartType
    <3>2. current <= current /\ landed <= landed
      BY <1>1, <2>3
    <3>3. ShareAt(Ixs[ix], current) \in Nat /\ ShareAt(Ixs[ix], landed) \in Nat
      BY <1>1, <2>3, <3>2, ShareAtMonotone DEF Ixs
    <3> QED BY <3>1, <3>3
  <2>6. /\ total \in Nat /\ PartAt(current, current, ix) <= total
        /\ total <= PartAt(current, landed, ix)
    BY <2>1 DEF TotalInv, Pricing
  <2>7. /\ total' \in Nat /\ PartAt(current, current, ix + 1) <= total'
        /\ total' <= PartAt(current, landed, ix + 1)
    <3>1. total' \in Nat /\ total' <= Plus(PartAt(current, landed, ix), ShareAt(Ixs[ix], landed))
      BY <2>1, <2>2, <2>5, <2>6, PlusMonotone
    <3>2. Plus(PartAt(current, current, ix), ShareAt(Ixs[ix], current)) <= total'
      BY <2>1, <2>2, <2>5, <2>6, PlusMonotone
    <3> QED BY <2>4, <3>1, <3>2
  <2> QED BY <1>3, <2>1, <2>7
<1>9. CASE \E i \in DOMAIN script : Arrive(i)
  BY <1>3, <1>9 DEF Arrive, TotalInv, Pricing, chainVars, pricing
<1>10. CASE Publish \/ Fail \/ \E machine \in BOOLEAN : Restart(machine)
  BY <1>3, <1>10 DEF Publish, Fail, Restart, At, Pricing
<1>11. CASE UNCHANGED vars
  BY <1>3, <1>11 DEF vars, chainVars, forwarder, pricing, TotalInv, Pricing
<1> QED BY <1>4, <1>5, <1>6, <1>7, <1>8, <1>9, <1>10, <1>11 DEF Steps, Next, Step

\* Whatever the chain adds while the pages are read, no transaction older than
\* the one that is priced is passed over.
LEMMA PagesStep ==
  ASSUME TypeInv, PagesInv, Steps
  PROVE  PagesInv'
<1> USE DEF TypeInv, RelayerTypeOK, TypeOK
<1>1. /\ landed \in Nat /\ Len(script) \in Nat /\ DOMAIN script = 1..Len(script)
      /\ landed <= Len(script) /\ script' = script
  BY ChainProperties, ScriptKept
<1>2. CASE BeginHistory
  <2>1. /\ pc' = "page" /\ Priced(Ixs[ix]) /\ cursor' = Len(script) + 1 /\ signatures' = {}
        /\ Ixs' = Ixs /\ ix' = ix
    BY <1>1, <1>2 DEF BeginHistory, At, Ixs
  <2>2. \A j \in Related : ~(Len(script) + 1 <= j)
    <3>1. \A j \in Related : j \in DOMAIN script
      BY DEF Related, History
    <3> QED BY <1>1, <3>1
  <2>3. Related' = Related
    BY <1>1, <2>1 DEF Related
  <2> QED BY <2>1, <2>2, <2>3 DEF PagesInv
<1>3. CASE FetchPage
  <2> DEFINE account == Ixs[ix].account
             page == Page(Chain, account, cursor)
             older == {j \in History(script, account) : j <= landed /\ j < cursor}
  <2>1. /\ page \subseteq Related
        /\ page = {} => older = {}
        /\ page # {} => \A j \in older : CursorAfter(page) <= j => j \in page
    BY PageCollects DEF Related
  <2>2. \A j \in Related : j <= current /\ j < cursor => j \in older
    <3>1. \A j \in Related : j \in DOMAIN script /\ (j <= current => j <= landed)
      BY <1>1 DEF Related, History
    <3> QED BY <3>1 DEF Related
  <2> HIDE DEF page, older
  <2>3. /\ pc = "page"
        /\ \/ page # {} /\ signatures' = signatures \cup page /\ cursor' = CursorAfter(page)
              /\ pc' = "page"
           \/ page = {} /\ pc' = "fetch" /\ signatures' = signatures
        /\ UNCHANGED <<current, ix>>
    BY <1>3 DEF FetchPage, At, page
  <2>4. Ixs' = Ixs /\ Related' = Related
    BY <1>1, <2>3 DEF Ixs, Related
  <2>5. /\ Priced(Ixs[ix]) /\ signatures \subseteq Related
        /\ \A j \in Related : cursor <= j /\ j <= current => j \in signatures
    BY <2>3 DEF PagesInv
  <2>6. \A j \in Related : cursor <= j \/ j < cursor
    <3>1. \A j \in Related : j \in DOMAIN script
      BY DEF Related, History
    <3> QED BY <1>1, <3>1
  <2>7. CASE page = {}
    <3>1. \A j \in Related : j <= current => j \in signatures
      BY <2>1, <2>2, <2>5, <2>6, <2>7
    <3> QED BY <2>3, <2>4, <2>5, <2>7, <3>1 DEF PagesInv
  <2>8. CASE page # {}
    <3>1. \A j \in Related : CursorAfter(page) <= j /\ j <= current => j \in signatures \cup page
      <4> SUFFICES ASSUME NEW j \in Related, CursorAfter(page) <= j, j <= current
                   PROVE  j \in signatures \cup page
        OBVIOUS
      <4>1. CASE cursor <= j
        BY <2>5, <4>1
      <4>2. CASE j < cursor
        <5>1. j \in older
          BY <2>2, <4>2
        <5> QED BY <2>1, <2>8, <5>1
      <4> QED BY <2>6, <4>1, <4>2
    <3>2. /\ pc' = "page" /\ signatures' = signatures \cup page
          /\ cursor' = CursorAfter(page)
      BY <2>3, <2>8
    <3>3. signatures' \subseteq Related
      BY <2>1, <2>5, <3>2
    <3>4. \A j \in Related : cursor' <= j /\ j <= current' => j \in signatures'
      BY <2>3, <3>1, <3>2
    <3>5. Priced(Ixs'[ix'])
      BY <2>3, <2>4, <2>5
    <3> QED BY <2>4, <3>2, <3>3, <3>4, <3>5 DEF PagesInv
  <2> QED BY <2>7, <2>8
<1>4. CASE Receive \/ SkipInstruction \/ AddCosts \/ Publish \/ Fail
             \/ \E machine \in BOOLEAN : Restart(machine)
  BY <1>4 DEF Receive, SkipInstruction, AddCosts, Publish, Fail, Restart, At, PagesInv
<1>5. CASE Grow \/ (\E i \in DOMAIN script : Arrive(i)) \/ UNCHANGED vars
  <2>1. UNCHANGED <<pc, current, ix, cursor, signatures>>
    BY <1>5 DEF Grow, Arrive, vars, forwarder, pricing
  <2>2. Ixs' = Ixs /\ Related' = Related
    BY <1>1, <2>1 DEF Ixs, Related
  <2> QED BY <2>1, <2>2 DEF PagesInv
<1> QED BY <1>2, <1>3, <1>4, <1>5 DEF Steps, Next, Step

\* The invariant, of every behaviour.
LEMMA PricingAlways == RelayerSpec => [](TypeInv /\ PricingInv)
<1>1. RelayerInit => PricingInv
  <2> SUFFICES ASSUME RelayerInit PROVE PricingInv
    OBVIOUS
  <2>1. queue = <<>> /\ published = <<>> /\ current = NoTx /\ pc = "receive"
    BY DEF RelayerInit, Init, Idle
  <2> QED BY <2>1
    DEF PricingInv, OnlySuccessful, CommandsInv, TotalInv, PagesInv, Pricing
<1>2. TypeInv /\ PricingInv /\ [RelayerNext]_relayerVars => PricingInv'
  BY StepsOnly, OnlySuccessfulStep, CommandsStep, TotalStep, PagesStep DEF PricingInv
<1> QED BY <1>1, <1>2, StoredAlways, PTL DEF RelayerSpec

-----------------------------------------------------------------------------
(* What is published.                                                      *)

\* A published transaction is one of the chain's, and its events are sound.
LEMMA PublishedProperties ==
  ASSUME TypeInv, NEW k \in DOMAIN published
  PROVE  /\ published[k].tx \in DOMAIN script /\ published[k].tx \in 1..landed
         /\ landed \in Nat /\ published[k].tx \in Nat
         /\ \E T : script[published[k].tx].events \in Seq(T)
         /\ \A n \in DOMAIN script[published[k].tx].events :
              WellFormed(script[published[k].tx].events[n])
<1> USE DEF TypeInv, RelayerTypeOK, TypeOK
<1>1. /\ landed \in Nat /\ Len(script) \in Nat /\ DOMAIN script = 1..Len(script)
      /\ landed <= Len(script)
  BY ChainProperties
<1>2. published[k].tx \in 1..landed
  BY DEF PublishedInv
<1>3. published[k].tx \in DOMAIN script /\ published[k].tx \in Nat
  BY <1>1, <1>2
<1> QED BY <1>1, <1>2, <1>3, ScriptProperties

\* What the events of a transaction claim together never exceeds the cost
\* computed for it, however many events there are, whichever of them claim and
\* whichever were dropped (map_core_events_to_amplifier).
THEOREM ClaimsCovered == RelayerSpec => []ClaimsWithinTotal
<1>1. TypeInv /\ PricingInv => ClaimsWithinTotal
  <2> SUFFICES ASSUME TypeInv, PricingInv, NEW k \in DOMAIN published
               PROVE  LET events == published[k].events
                          claims == [n \in DOMAIN events |-> Claimed(events[n])]
                      IN SumFunctionOnSet(claims, DOMAIN events) <= published[k].total
    BY DEF ClaimsWithinTotal
  <2> DEFINE parsed == script[published[k].tx].events
             gas == published[k].total
  <2>1. published[k].events = MapEvents(parsed, gas) /\ gas \in Nat
    BY DEF PricingInv, CommandsInv
  <2>2. (\E T : parsed \in Seq(T)) /\ \A n \in DOMAIN parsed : WellFormed(parsed[n])
    BY PublishedProperties
  <2> HIDE DEF parsed, gas
  <2>3. PICK T : parsed \in Seq(T)
    BY <2>2
  <2>4. LET out == MapEvents(parsed, gas)
        IN SumFunctionOnSet([n \in DOMAIN out |-> Claimed(out[n])], DOMAIN out) <= gas
    BY <2>1, <2>2, <2>3, ClaimsBounded
  <2> QED BY <2>1, <2>4 DEF gas
<1> QED BY <1>1, PricingAlways, PTL

\* A published command has, in the parser's order, every event with all its
\* Amplifier form requires, and no other (convert_core_event_to_amp and the
\* filter_map around it).
THEOREM EventsComplete == RelayerSpec => []CompleteEventsPublished
<1>1. TypeInv /\ PricingInv => CompleteEventsPublished
  <2> SUFFICES ASSUME TypeInv, PricingInv, NEW k \in DOMAIN published
               PROVE  LET parsed == script[published[k].tx].events
                          events == published[k].events
                          complete == {n \in DOMAIN parsed : Complete(parsed[n])}
                      IN /\ Len(events) = Cardinality(complete)
                         /\ \A n \in complete :
                              events[Cardinality({m \in complete : m <= n})].kind
                                = parsed[n].kind
    BY DEF CompleteEventsPublished
  <2> DEFINE parsed == script[published[k].tx].events
             gas == published[k].total
  <2>1. published[k].events = MapEvents(parsed, gas) /\ gas \in Nat
    BY DEF PricingInv, CommandsInv
  <2>2. (\E T : parsed \in Seq(T)) /\ \A n \in DOMAIN parsed : WellFormed(parsed[n])
    BY PublishedProperties
  <2> HIDE DEF gas
  <2>3. PICK T : parsed \in Seq(T)
    BY <2>2
  <2>4. LET out == MapEvents(parsed, gas)
            complete == {n \in DOMAIN parsed : Complete(parsed[n])}
        IN /\ Len(out) = Cardinality(complete)
           /\ \A n \in complete :
                out[Cardinality({m \in complete : m <= n})].kind = parsed[n].kind
    <3> HIDE DEF parsed
    <3> QED BY <2>1, <2>2, <2>3, MapEventsResult
  <2> QED BY <2>1, <2>4
<1> QED BY <1>1, PricingAlways, PTL

\* The whole price grows with the histories.
LEMMA PriceAtMonotone ==
  ASSUME script \in Histories, NEW i \in DOMAIN script,
         NEW last \in Nat, NEW later \in Nat, last <= later
  PROVE  /\ PriceAt(i, last) \in Nat /\ PriceAt(i, later) \in Nat
         /\ PriceAt(i, last) <= PriceAt(i, later)
<1> DEFINE n == Len(script[i].ixs) + 1
<1>1. n \in Nat /\ n > Len(script[i].ixs)
  BY ScriptProperties
<1> HIDE DEF n
<1>2. PartAt(i, last, n) = PriceAt(i, last) /\ PartAt(i, later, n) = PriceAt(i, later)
  BY <1>1, PartEnds
<1>3. PartAt(i, last, n) \in Nat /\ PartAt(i, later, n) \in Nat
  BY PartType
<1>4. PartAt(i, last, n) <= PartAt(i, later, n)
  BY PartMonotone
<1> QED BY <1>2, <1>3, <1>4

\* However the histories grow while they are paged through, everything that
\* was finalized before a transaction is in its price, and nothing that has not
\* happened (fetch_signatures and compute_total_gas).
THEOREM HistoryCovered == RelayerSpec => []PriceCoversHistory
<1>1. RelayerInit => PriceCoversHistory
  BY DEF RelayerInit, Init, PriceCoversHistory
<1>2. TypeInv /\ PricingInv /\ PriceCoversHistory /\ [RelayerNext]_relayerVars
        => PriceCoversHistory'
  <2> SUFFICES ASSUME TypeInv, PricingInv, PriceCoversHistory, [RelayerNext]_relayerVars
               PROVE  PriceCoversHistory'
    OBVIOUS
  <2> USE DEF TypeInv, RelayerTypeOK, TypeOK
  <2>1. Steps /\ script' = script
    BY StepsOnly, ScriptKept
  <2>2. /\ landed \in Nat /\ Len(script) \in Nat /\ DOMAIN script = 1..Len(script)
        /\ landed <= Len(script)
    BY ChainProperties
  <2>3. landed' = landed \/ landed' = landed + 1
    BY <2>1
    DEF Steps, Next, Step, Grow, Receive, SkipInstruction, BeginHistory, FetchPage, AddCosts,
        Publish, Fail, Arrive, Restart, vars, chainVars
  <2>4. PriceCoversHistory' <=>
          \A k \in DOMAIN published' :
            /\ PriceAt(published'[k].tx, published'[k].tx) <= published'[k].total
            /\ published'[k].total <= PriceAt(published'[k].tx, landed')
    BY <2>1 DEF PriceCoversHistory, PriceAt, PricedIxs, ShareAt
  <2>5. ASSUME NEW i \in 1..landed, NEW price \in Nat, price <= PriceAt(i, landed)
        PROVE  price <= PriceAt(i, landed')
    <3>1. landed' \in Nat /\ landed <= landed' /\ i \in DOMAIN script
      BY <2>2, <2>3
    <3>2. /\ PriceAt(i, landed) \in Nat /\ PriceAt(i, landed') \in Nat
          /\ PriceAt(i, landed) <= PriceAt(i, landed')
      BY <2>2, <3>1, PriceAtMonotone
    <3> QED BY <2>5, <3>2
  <2>6. CASE Publish
    <3> DEFINE i == current
    <3>1. /\ Command.tx = i /\ Command.total = total /\ total \in Nat /\ i \in 1..landed
          /\ PartAt(i, i, ix) <= total /\ total <= PartAt(i, landed, ix)
          /\ ix \in Nat /\ ix > Len(script[i].ixs)
      <4>1. current \in 1..landed
        BY <2>2, <2>6 DEF Publish, NoTx
      <4>2. ix > Len(script[i].ixs)
        BY <2>6 DEF Publish, Ixs
      <4> QED BY <2>6, <4>1, <4>2 DEF Publish, Command, PricingInv, TotalInv, Pricing
    <3>2. i \in DOMAIN script /\ i \in Nat
      BY <2>2, <3>1
    <3> HIDE DEF i
    <3>3. PriceAt(i, i) <= total /\ total <= PriceAt(i, landed)
      BY <2>2, <3>1, <3>2, PartEnds
    <3>4. total <= PriceAt(i, landed')
      BY <2>5, <3>1, <3>3
    <3> SUFFICES ASSUME NEW k \in DOMAIN published'
                 PROVE  /\ PriceAt(published'[k].tx, published'[k].tx) <= published'[k].total
                        /\ published'[k].total <= PriceAt(published'[k].tx, landed')
      BY <2>4
    <3>5. CASE k \in DOMAIN published /\ published'[k] = published[k]
      BY <2>5, <3>5 DEF PriceCoversHistory, PublishedInv, PricingInv, CommandsInv
    <3>6. CASE published'[k] = Command
      BY <3>1, <3>3, <3>4, <3>6
    <3> QED BY <2>1, <3>5, <3>6, PublishedSteps
  <2>7. CASE ~Publish
    <3> SUFFICES ASSUME NEW k \in DOMAIN published'
                 PROVE  /\ PriceAt(published'[k].tx, published'[k].tx) <= published'[k].total
                        /\ published'[k].total <= PriceAt(published'[k].tx, landed')
      BY <2>4
    <3>1. k \in DOMAIN published /\ published'[k] = published[k]
      BY <2>1, <2>7, PublishedSteps
    <3> QED BY <2>5, <3>1 DEF PriceCoversHistory, PublishedInv, PricingInv, CommandsInv
  <2> QED BY <2>6, <2>7
<1> QED BY <1>1, <1>2, PricingAlways, PTL DEF RelayerSpec

-----------------------------------------------------------------------------
(* The messages of a batch.                                                *)

\* The session's cost, of which every message of its batch pays a share.
SessionCost(account) == CostOf(Chain, History(Chain, account), SessionSteps)

\* That share.
PerMessage(cost, size) == IF size = 0 THEN 0 ELSE cost \div size

\* As many messages as the batch has, or fewer, pay no more than the cost.
LEMMA PerMessageBounded ==
  ASSUME NEW cost \in Nat, NEW size \in Nat
  PROVE  /\ PerMessage(cost, size) \in Nat
         /\ \A n \in Nat : n <= size => /\ PerMessage(cost, size) * n \in Nat
                                       /\ PerMessage(cost, size) * n <= cost
<1>1. CASE size = 0
  <2>1. \A n \in Nat : 0 * n = 0
    OBVIOUS
  <2> QED BY <1>1, <2>1 DEF PerMessage
<1>2. CASE size # 0
  <2> DEFINE q == cost \div size
  <2>1. q \in Nat /\ q * size <= cost
    BY <1>2
  <2>2. PerMessage(cost, size) = q
    BY <1>2 DEF PerMessage
  <2> HIDE DEF q
  <2>3. ASSUME NEW n \in Nat, n <= size
        PROVE  q * n \in Nat /\ q * n <= cost
    <3>1. q * n <= q * size /\ q * n \in Nat /\ q * size \in Nat
      BY <2>1, <2>3
    <3> DEFINE a == q * n
               b == q * size
    <3>2. a \in Nat /\ b \in Nat /\ a <= b /\ b <= cost
      BY <2>1, <3>1
    <3> HIDE DEF a, b
    <3>3. a <= cost
      BY <3>2
    <3> QED BY <3>1, <3>3 DEF a
  <2> QED BY <2>1, <2>2, <2>3
<1> QED BY <1>1, <1>2

\* A session's cost is an amount.
LEMMA SessionCostType ==
  ASSUME script \in Histories, landed \in 0..Len(script), NEW account
  PROVE  SessionCost(account) \in Nat
<1>1. History(Chain, account) \in SUBSET (1..landed)
      /\ History(Chain, account) \in SUBSET DOMAIN script
  BY ChainPrefix DEF History
<1> QED BY <1>1, CostOfChain, CostOfMonotone, AmountAssumption DEF SessionCost

\* A successful approval of the batch adds to its transaction's price what one
\* message of the batch pays, and nothing else does.
LEMMA ApprovalPrice ==
  ASSUME script \in Histories, landed \in 0..Len(script), NEW account,
         account # NoAccount, NEW i \in ApprovedBatch(script, account),
         NEW k \in DOMAIN script[i].ixs, Approves(script[i].ixs[k], account)
  PROVE  LET size == script[i].ixs[k].set_size
             cost == script[i].cost
         IN /\ Cardinality(ApprovedBatch(script, account)) <= size /\ size \in Nat
            /\ SessionCost(account) \in Nat /\ cost \in Nat
            /\ PriceAt(i, i) >= cost
            /\ PriceAt(i, landed)
                 <= cost + PerMessage(SessionCost(account), size)
<1> DEFINE instruction == script[i].ixs[k]
           size == instruction.set_size
           all == {j \in History(script, account) : j <= landed}
           share == ShareAt(instruction, landed)
<1>1. /\ landed \in Nat /\ Len(script) \in Nat /\ DOMAIN script = 1..Len(script)
      /\ landed <= Len(script) /\ DOMAIN Chain = 1..landed
      /\ i \in DOMAIN script /\ i \in Nat
  BY ChainProperties DEF ApprovedBatch
<1>2. /\ \A n \in DOMAIN script[i].ixs : Priced(script[i].ixs[n]) => n = k
      /\ Cardinality(ApprovedBatch(script, account)) <= size
  BY <1>1, BatchAssumption DEF Approves, ApprovedBatch
<1>3. size \in Nat /\ script[i].cost \in 0..MaxU64 /\ script[i].cost \in Nat
  BY <1>1, ScriptProperties, AmountAssumption
<1>4. PricedIxs(i) = {k}
  BY <1>2 DEF PricedIxs, Priced, Approves
<1>5. ASSUME NEW last \in Nat
      PROVE  /\ ShareAt(instruction, last) \in Nat
             /\ PriceAt(i, last) = AtMost(script[i].cost + ShareAt(instruction, last), MaxU64)
  <2> DEFINE f == SharesAt(i, last)
  <2>1. f[k] = ShareAt(instruction, last) /\ ShareAt(instruction, last) \in Nat
    <3>1. last <= last
      OBVIOUS
    <3> QED BY <1>1, <1>4, <3>1, ShareAtMonotone DEF SharesAt
  <2>2. PriceAt(i, last) = AtMost(script[i].cost + SumFunctionOnSet(f, PricedIxs(i)), MaxU64)
    BY DEF PriceAt, SharesAt
  <2> HIDE DEF f
  <2>3. SumFunctionOnSet(f, {k}) = f[k] + SumFunctionOnSet(f, {k} \ {k})
    <3>1. IsFiniteSet({k}) /\ \A x \in {k} : f[x] \in Nat
      BY <2>1, FS_Singleton
    <3> QED BY <3>1, SumElement
  <2>4. SumFunctionOnSet(f, {k} \ {k}) = 0
    <3>1. {k} \ {k} = {}
      OBVIOUS
    <3> QED BY <3>1, SumEmpty
  <2> QED BY <1>4, <2>1, <2>2, <2>3, <2>4
<1>6. PriceAt(i, i) >= script[i].cost
  <2>1. ShareAt(instruction, i) \in Nat
        /\ PriceAt(i, i) = AtMost(script[i].cost + ShareAt(instruction, i), MaxU64)
    BY <1>1, <1>5
  <2> QED BY <1>3, <2>1, AmountAssumption DEF AtMost
<1>7. PriceAt(i, landed) <= script[i].cost + share
  <2>1. share \in Nat /\ PriceAt(i, landed) = AtMost(script[i].cost + share, MaxU64)
    BY <1>1, <1>5
  <2> HIDE DEF share
  <2> QED BY <1>3, <2>1, AmountAssumption DEF AtMost
<1>8. SessionCost(account) \in Nat
      /\ share = PerMessage(SessionCost(account), size)
  <2>1. instruction.account = account /\ instruction.name = "ApproveMessage"
        /\ NeedsSession(instruction)
    BY DEF Approves
  <2>2. History(Chain, account) = all /\ all \in SUBSET (1..landed)
        /\ all \in SUBSET DOMAIN script
    BY <1>1, ChainPrefix DEF History
  <2>3. share = Share(instruction, CostOf(script, all, SessionSteps))
    BY <2>1 DEF ShareAt, StepsFor
  <2> HIDE DEF all, instruction, share
  <2>4. SessionCost(account) = CostOf(script, all, SessionSteps)
    BY <2>2, CostOfChain DEF SessionCost
  <2>5. CostOf(script, all, SessionSteps) \in Nat
    BY <2>4, SessionCostType
  <2> QED BY <2>1, <2>3, <2>4, <2>5 DEF Share, PerMessage
<1> QED BY <1>2, <1>3, <1>6, <1>7, <1>8

\* Then an approval published is charged at most its message's part of the
\* session, and one that is not, or failed, nothing.
LEMMA ApprovalCharged ==
  ASSUME TypeInv, PricingInv, PriceCoversHistory, NEW account, account # NoAccount,
         NEW i \in Approvals(account)
  PROVE  /\ i \notin ApprovedBatch(script, account) => Extra(i) = 0
         /\ \A k \in DOMAIN script[i].ixs :
              LET size == script[i].ixs[k].set_size
              IN Approves(script[i].ixs[k], account) =>
                   Extra(i) \in 0..PerMessage(SessionCost(account), size)
<1> USE DEF TypeInv, RelayerTypeOK, TypeOK
<1> DEFINE mine == {n \in DOMAIN published : published[n].tx = i}
           charged == {published[n].total - script[i].cost : n \in mine}
<1>1. mine # {} => i \in ApprovedBatch(script, account)
  BY DEF Approvals, ApprovedBatch, PricingInv, OnlySuccessful
<1>2. mine = {} => Extra(i) = 0
  BY DEF Extra
<1>3. ASSUME mine # {}, NEW k \in DOMAIN script[i].ixs, Approves(script[i].ixs[k], account)
      PROVE  LET size == script[i].ixs[k].set_size
             IN Extra(i) \in 0..PerMessage(SessionCost(account), size)
  <2> DEFINE size == script[i].ixs[k].set_size
             part == PerMessage(SessionCost(account), size)
  <2>1. /\ size \in Nat /\ SessionCost(account) \in Nat /\ script[i].cost \in Nat
        /\ PriceAt(i, i) >= script[i].cost /\ PriceAt(i, landed) <= script[i].cost + part
    BY <1>1, <1>3, ApprovalPrice
  <2>2. part \in Nat
    BY <2>1, PerMessageBounded
  <2>3. landed \in Nat /\ i \in DOMAIN script /\ i \in Nat
    BY ChainProperties DEF Approvals
  <2>4. PriceAt(i, i) \in Nat /\ PriceAt(i, landed) \in Nat
    <3>1. i <= i /\ landed <= landed
      BY <2>3
    <3> QED BY <2>3, <3>1, PriceAtMonotone
  <2> HIDE DEF part
  <2>5. ASSUME NEW n \in mine
        PROVE  published[n].total - script[i].cost \in 0..part
    <3>1. /\ published[n].total \in Nat
          /\ PriceAt(i, i) <= published[n].total /\ published[n].total <= PriceAt(i, landed)
      BY DEF PricingInv, CommandsInv, PriceCoversHistory
    <3> HIDE DEF mine
    <3> DEFINE gas == published[n].total
               own == script[i].cost
    <3> HIDE DEF gas, own
    <3>2. /\ gas \in Nat /\ own \in Nat /\ PriceAt(i, i) >= own /\ PriceAt(i, i) <= gas
          /\ gas <= PriceAt(i, landed) /\ PriceAt(i, landed) <= own + part
      BY <2>1, <3>1 DEF gas, own
    <3>3. gas - own \in 0..part
      BY <2>2, <2>4, <3>2
    <3> QED BY <3>3 DEF gas, own
  <2>6. charged \subseteq 0..part /\ charged # {}
    BY <1>3, <2>5
  <2>7. Extra(i) = IF charged = {} THEN 0
                   ELSE CHOOSE x \in charged : \A y \in charged : x >= y
    BY DEF Extra
  <2> HIDE DEF mine, charged
  <2>8. PICK x \in charged : \A y \in charged : y <= x
    BY <2>2, <2>6, GreatestElement
  <2>9. \A y \in charged : x >= y
    BY <2>2, <2>6, <2>8
  <2>10. Extra(i) \in charged
    BY <2>6, <2>7, <2>9
  <2> QED BY <2>6, <2>10 DEF part
<1>4. SessionCost(account) \in Nat
  BY SessionCostType
<1>5. ASSUME mine = {}, NEW k \in DOMAIN script[i].ixs
      PROVE  LET size == script[i].ixs[k].set_size
             IN Extra(i) \in 0..PerMessage(SessionCost(account), size)
  <2> DEFINE size == script[i].ixs[k].set_size
  <2>1. size \in Nat
    BY ScriptProperties DEF Approvals
  <2> HIDE DEF size
  <2>2. PerMessage(SessionCost(account), size) \in Nat
    BY <1>4, <2>1, PerMessageBounded
  <2>3. Extra(i) \in 0..PerMessage(SessionCost(account), size)
    BY <1>2, <1>5, <2>2
  <2> QED BY <2>3 DEF size
<1> QED BY <1>1, <1>2, <1>3, <1>5

\* The messages of a batch together are never charged more than their
\* verification session has cost, whatever was added to the session's history
\* while they were priced, published again after a restart or not
\* (compute_total_gas divides the session's cost by the size of the batch).
THEOREM SessionShared == RelayerSpec => []SessionSharesCovered
<1>1. TypeInv /\ PricingInv /\ PriceCoversHistory => SessionSharesCovered
  <2> SUFFICES ASSUME TypeInv, PricingInv, PriceCoversHistory,
                      NEW account \in Accounts \ {NoAccount}
               PROVE  SumFunctionOnSet([i \in Approvals(account) |-> Extra(i)],
                                       Approvals(account))
                        <= CostOf(Chain, History(Chain, account), SessionSteps)
    BY DEF SessionSharesCovered
  <2> USE DEF TypeInv, RelayerTypeOK, TypeOK
  <2> DEFINE S == Approvals(account)
             f == [i \in S |-> Extra(i)]
             R == ApprovedBatch(script, account)
  <2>1. R \in SUBSET S /\ S \in SUBSET DOMAIN script
    BY DEF Approvals, ApprovedBatch
  <2>2. IsFiniteSet(S) /\ IsFiniteSet(R)
    <3>1. IsFiniteSet(DOMAIN script)
      BY ChainProperties, FS_Interval
    <3> QED BY <2>1, <3>1, FS_Subset
  <2>3. \A i \in S \ R : f[i] = 0
    BY ApprovalCharged
  <2>4. SessionCost(account) \in Nat
    BY SessionCostType
  <2>5. CASE R = {}
    <3>1. \A i \in R : f[i] \in 0..0
      BY <2>5
    <3> HIDE DEF f, R, S
    <3>2. SumFunctionOnSet(f, S) <= 0 * Cardinality(R)
      BY <2>1, <2>2, <2>3, <3>1, SumBounded
    <3>3. Cardinality(R) = 0
      BY <2>5, FS_EmptySet
    <3>4. 0 * Cardinality(R) = 0
      BY <3>3
    <3>5. SumFunctionOnSet(f, S) \in Nat
      <4>1. \A i \in S : f[i] \in Nat
        BY <2>3, <2>5
      <4> QED BY <2>2, <4>1, SumType
    <3>6. SumFunctionOnSet(f, S) <= SessionCost(account)
      BY <2>4, <3>2, <3>4, <3>5
    <3> QED BY <3>6 DEF f, S, SessionCost
  <2>6. CASE R # {}
    <3>0. PICK a \in R : \E k \in DOMAIN script[a].ixs : Approves(script[a].ixs[k], account)
      BY <2>6 DEF ApprovedBatch
    <3>1. PICK k \in DOMAIN script[a].ixs : Approves(script[a].ixs[k], account)
      BY <3>0
    <3> DEFINE size == script[a].ixs[k].set_size
               part == PerMessage(SessionCost(account), size)
    <3>2. Cardinality(R) <= size /\ size \in Nat
      BY <3>1, ApprovalPrice
    <3>3. Cardinality(R) \in Nat /\ Cardinality(R) # 0
      BY <2>2, <2>6, FS_CardinalityType, FS_EmptySet
    <3>4. /\ part \in Nat /\ part * Cardinality(R) \in Nat
          /\ part * Cardinality(R) <= SessionCost(account)
      BY <2>4, <3>2, <3>3, PerMessageBounded
    <3>5. ASSUME NEW i \in R
          PROVE  f[i] \in 0..part
      <4>1. PICK n \in DOMAIN script[i].ixs : Approves(script[i].ixs[n], account)
        BY DEF ApprovedBatch
      <4>2. script[i].ixs[n].set_size = size
        <5>1. Approves(script[a].ixs[k], script[a].ixs[k].account)
              /\ script[a].ixs[k].account = account
          BY <3>1 DEF Approves
        <5>2. /\ script \in Histories /\ a \in DOMAIN script /\ script[a].ok
              /\ k \in DOMAIN script[a].ixs /\ account # NoAccount
              /\ n \in DOMAIN script[i].ixs /\ i \in ApprovedBatch(script, account)
          BY <3>1, <4>1 DEF ApprovedBatch
        <5> QED BY <4>1, <5>1, <5>2, BatchAssumption
      <4>3. i \in S
        BY <2>1
      <4> QED BY <4>1, <4>2, <4>3, ApprovalCharged
    <3> HIDE DEF f, R, S, part
    <3>6. SumFunctionOnSet(f, S) <= part * Cardinality(R)
      BY <2>1, <2>2, <2>3, <3>4, <3>5, SumBounded
    <3>7. SumFunctionOnSet(f, S) \in Nat
      <4>1. \A i \in S : f[i] \in Nat
        BY <2>3, <3>4, <3>5
      <4> QED BY <2>2, <4>1, SumType
    <3>8. SumFunctionOnSet(f, S) <= SessionCost(account)
      <4> DEFINE most == part * Cardinality(R)
                 charged == SumFunctionOnSet(f, S)
      <4>1. /\ most \in Nat /\ charged \in Nat /\ charged <= most
            /\ most <= SessionCost(account)
        BY <3>4, <3>6, <3>7
      <4> HIDE DEF most, charged
      <4>2. charged <= SessionCost(account)
        BY <2>4, <4>1
      <4> QED BY <4>2 DEF charged
    <3> QED BY <3>8 DEF f, S, SessionCost
  <2> QED BY <2>5, <2>6
<1> QED BY <1>1, HistoryCovered, PricingAlways, PTL
=============================================================================
