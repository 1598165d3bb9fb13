------------------------ MODULE SolanaListenerProofs ------------------------
(* Theorems about SolanaListener, for every Limit, chain and set of faults. *)
EXTENDS SolanaListener, TLAPS

Tx == [mentions : (SUBSET Addresses) \ {{}}, ok : BOOLEAN, slot : Nat \ {0}]

USE DEF NoSig, NoSlot, Addresses

\* Landing a transaction extends the chain and changes nothing before its end.
LEMMA LandExtends ==
  ASSUME TypeOK, NEW kind \in TxKinds, NEW step \in SlotSteps, Land(kind, step)
  PROVE  /\ chain' \in Seq(Tx)
         /\ Len(chain') = Len(chain) + 1
         /\ \A i \in Signatures : chain'[i] = chain[i]
         /\ Signatures' = Signatures \cup {Len(chain) + 1}
         /\ chain'[Len(chain) + 1].mentions = kind.mentions
         /\ chain'[Len(chain) + 1].ok = kind.ok
<1> DEFINE prev == IF chain = <<>> THEN 1 ELSE chain[Len(chain)].slot
           new  == [mentions |-> kind.mentions, ok |-> kind.ok,
                    slot |-> step + prev]
<1>1. chain \in Seq(Tx)
  BY DEF TypeOK, Tx
<1>2. prev \in Nat \ {0}
  <2>1. CASE chain = <<>>
    BY <2>1
  <2>2. CASE chain # <<>>
    <3>1. Len(chain) \in 1..Len(chain)
      BY <1>1, <2>2
    <3>2. chain[Len(chain)] \in Tx
      BY <1>1, <3>1
    <3> QED
      BY <2>2, <3>2 DEF Tx
  <2> QED
    BY <2>1, <2>2
<1>3. kind \in [mentions : (SUBSET Addresses) \ {{}}, ok : BOOLEAN] /\ step \in Nat
  BY ListenerAssumption
<1>4. step + prev \in Nat \ {0}
  BY <1>2, <1>3
<1>5. new \in Tx
  BY <1>3, <1>4 DEF Tx
<1>6. chain' = Append(chain, new)
  BY DEF Land
<1> HIDE DEF new
<1>7. /\ chain' \in Seq(Tx)
      /\ Len(chain') = Len(chain) + 1
      /\ \A i \in 1..Len(chain) : chain'[i] = chain[i]
      /\ chain'[Len(chain) + 1] = new
  BY <1>1, <1>5, <1>6
<1>8. Signatures' = Signatures \cup {Len(chain) + 1}
  BY <1>1, <1>7 DEF Signatures
<1> QED
  BY <1>7, <1>8 DEF Signatures, new

\* A signature of the chain is a transaction.
LEMMA ChainType == ASSUME TypeOK, NEW i \in Signatures PROVE chain[i] \in Tx
<1>1. chain \in Seq(Tx)
  BY DEF TypeOK, Tx
<1>2. i \in 1..Len(chain)
  BY DEF Signatures
<1> HIDE DEF Tx
<1> QED
  BY <1>1, <1>2

\* The numbers the invariants compare.
LEMMA Numbers ==
  ASSUME TypeOK
  PROVE  /\ Len(chain) \in Nat
         /\ \A i \in Signatures : i \in Nat /\ i >= 1 /\ i <= Len(chain)
         /\ scan.cursor \in Nat /\ scan.t1 \in Nat /\ scan.t2 \in Nat
         /\ latest \in Nat /\ latest <= Len(chain)
         /\ \A a \in Addresses : seen[a] \in Nat /\ seen[a] <= Len(chain)
<1>1. Len(chain) \in Nat
  BY DEF TypeOK
<1>2. \A i \in Signatures : i \in Nat /\ i >= 1 /\ i <= Len(chain)
  BY <1>1 DEF Signatures
<1>3. /\ {scan.cursor, scan.t1, scan.t2, latest} \subseteq Signatures \cup {0}
      /\ \A a \in Addresses : seen[a] \in Signatures \cup {0}
  BY DEF TypeOK
<1> QED
  BY <1>1, <1>2, <1>3

\* What fetch_batches_in_range takes for the newest signature is a signature.
LEMMA NewestAfterType ==
  ASSUME NEW S, NEW newest \in S, NEW slot \in Nat, NEW new \in S,
         NEW newSlot \in Nat
  PROVE  /\ NewestAfter(newest, slot, new, newSlot).sig \in S
         /\ NewestAfter(newest, slot, new, newSlot).slot \in Nat
BY DEF NewestAfter

\* Moving to the next address, or out of a scan, keeps the types.
LEMMA LeaveAddressType ==
  ASSUME TypeOK, Scanning, NEW newest \in Signatures \cup {NoSig},
         NEW slot \in Nat, LeaveAddress(newest, slot), UNCHANGED Signatures
  PROVE  /\ latest' \in Signatures \cup {NoSig}
         /\ scan' \in [addr : Addresses, t1 : Signatures \cup {NoSig},
                       t2 : Signatures \cup {NoSig},
                       cursor : Signatures \cup {NoSig},
                       newest : Signatures \cup {NoSig}, slot : Nat]
         /\ scan'.t2 = scan.t2
         /\ pc' \in {"scan", "connect", "send_first"}
         /\ pc' = "connect" <=> pc' # "scan" /\ scan.t2 = NoSig
BY DEF TypeOK, LeaveAddress, NextAddress, FinishStartup, FinishCatchUp

\* The initial states have the types.
LEMMA TypeInit == Init => TypeOK
BY DEF Init, TypeOK, Signatures, NoScan, NoPage, CatchUp, Scanning

\* The type invariant holds in every reachable state.
LEMMA TypeStep == TypeOK /\ [Next]_vars => TypeOK'
<1> SUFFICES ASSUME TypeOK, [Next]_vars PROVE TypeOK'
  OBVIOUS
<1> USE DEF CatchUp, Scanning
<1>0. Len(chain) \in Nat
  BY DEF TypeOK
<1>1. ASSUME NEW kind \in TxKinds, NEW step \in SlotSteps, Land(kind, step)
      PROVE  TypeOK'
  <2>1. /\ chain' \in Seq(Tx)
        /\ Signatures' = Signatures \cup {Len(chain) + 1}
    BY <1>1, LandExtends
  <2>2. wsq' \in [Addresses -> SUBSET Signatures']
    BY <1>1, <2>1 DEF Land, TypeOK
  <2>3. gap' \subseteq Signatures'
    BY <1>1, <2>1 DEF Land, TypeOK
  <2> QED
    BY <1>1, <2>1, <2>2, <2>3 DEF Land, TypeOK, task, Tx, NoPage
<1>2. ASSUME NEW forced \in Signatures \cup {NoSig}, Start(forced)
      PROVE  TypeOK'
  BY <1>2 DEF Start, BeginScan, TypeOK, Signatures, NoPage
<1>3. CASE FetchEmptyPage
  <2>1. /\ UNCHANGED Signatures
        /\ Scanning
        /\ scan.newest \in Signatures \cup {NoSig} /\ scan.slot \in Nat
    BY <1>3 DEF FetchEmptyPage, TypeOK, Signatures
  <2>2. seen' \in [Addresses -> Signatures \cup {0}]
    BY <1>0, <1>3 DEF FetchEmptyPage, SeeChain, TypeOK, Signatures
  <2> QED
    BY <1>3, <2>1, <2>2, LeaveAddressType DEF FetchEmptyPage, TypeOK
<1>4. CASE FetchPage
  <2>1. /\ UNCHANGED Signatures
        /\ ScanRange \subseteq Signatures
    BY <1>4 DEF FetchPage, Signatures, ScanRange, SignaturesForAddress
  <2>2. seen' \in [Addresses -> Signatures \cup {0}]
    BY <1>0, <1>4 DEF FetchPage, SeeChain, TypeOK, Signatures
  <2>3. /\ page' \in [sigs : SUBSET Signatures, todo : SUBSET Signatures,
                      oldest : Signatures, newest : Signatures]
    BY <1>4, <2>1 DEF FetchPage, PageFrom
  <2>4. page'.newest # NoSig /\ page'.oldest # NoSig
    BY <1>0, <2>3 DEF Signatures
  <2> QED
    BY <1>4, <2>1, <2>2, <2>3, <2>4 DEF FetchPage, TypeOK
<1>5. ASSUME NEW i \in page.todo, PageTxSent(i) \/ PageTxFailed(i)
      PROVE  TypeOK'
  BY <1>5 DEF PageTxSent, PageTxFailed, TypeOK, Signatures, ghosts
<1>6. CASE PageDone
  <2> DEFINE n == NewestAfter(scan.newest, scan.slot, page.newest,
                              chain[page.newest].slot)
  <2>1. UNCHANGED Signatures /\ Scanning
    BY <1>6 DEF PageDone, Signatures
  <2>a. page.newest \in Signatures
    BY <1>6 DEF PageDone, TypeOK
  <2>b. chain[page.newest].slot \in Nat
    BY <2>a, ChainType DEF Tx
  <2>c. scan.newest \in Signatures \cup {NoSig} /\ scan.slot \in Nat
    BY DEF TypeOK
  <2>2. n.sig \in Signatures \cup {NoSig} /\ n.slot \in Nat
    BY <2>a, <2>b, <2>c, NewestAfterType
  <2> HIDE DEF n
  <2>3. CASE Completed(page.sigs) /\ LeaveAddress(n.sig, n.slot)
    BY <1>6, <2>1, <2>2, <2>3, LeaveAddressType DEF PageDone, TypeOK, NoPage, ghosts
  <2>4. CASE /\ scan' = [scan EXCEPT !.cursor = page.oldest, !.newest = n.sig,
                                     !.slot = n.slot]
             /\ pc' = "scan"
             /\ UNCHANGED latest
    BY <1>6, <2>1, <2>2, <2>4 DEF PageDone, TypeOK, NoPage, ghosts
  <2> QED
    BY <1>6, <2>3, <2>4 DEF PageDone, n
<1>7. CASE Connect
  BY <1>7 DEF Connect, TypeOK, Signatures
<1>8. CASE SubscribeGas
  BY <1>8 DEF SubscribeGas, TypeOK, Signatures, ghosts
<1>9. ASSUME NEW a \in Addresses, FirstItem(a)
      PROVE  TypeOK'
  <2>1. PICK i \in wsq[a] : /\ wsq' = [wsq EXCEPT ![a] = wsq[a] \ {i}]
                           /\ first' = i
                           /\ BeginScan(latest, i)
    BY <1>9 DEF FirstItem
  <2>a. i \in Signatures
    BY DEF TypeOK
  <2>2. i \in 1..Len(chain) /\ i - 1 \in 0..Len(chain)
    BY <1>0, <2>a DEF Signatures
  <2>3. /\ seen' = [b \in Addresses |-> i - 1]
        /\ scan' = [addr |-> "gateway", t1 |-> latest, t2 |-> i, cursor |-> i,
                    newest |-> i, slot |-> NoSlot]
        /\ pc' = "scan"
    BY <2>1, <2>2 DEF BeginScan
  <2>4. /\ UNCHANGED <<Signatures, page, inflight, sent, warned, gap, chain, latest>>
        /\ wsq' \in [Addresses -> SUBSET Signatures]
        /\ first' \in Signatures /\ first' # NoSig
        /\ seen' \in [Addresses -> Signatures \cup {0}]
        /\ pc # "batch"
    BY <1>9, <2>1, <2>a, <2>2, <2>3 DEF FirstItem, TypeOK, Signatures
  <2> QED
    BY <2>a, <2>2, <2>3, <2>4 DEF TypeOK
<1>10. CASE SendFirst
  BY <1>10 DEF SendFirst, TypeOK, Signatures, ghosts
<1>11. ASSUME NEW a \in Addresses, PollItem(a)
       PROVE  TypeOK'
  BY <1>11 DEF PollItem, TypeOK, Signatures, ghosts
<1>12. ASSUME NEW f \in inflight, FetchDone(f)
       PROVE  TypeOK'
  BY <1>12 DEF FetchDone, TypeOK, Signatures, ghosts
<1>13. CASE Reconnect
  BY <1>13 DEF Reconnect, DropConnection, NoScan, NoPage, TypeOK, Signatures, ghosts
<1>14. CASE Crash
  BY <1>14 DEF Crash, DropConnection, NoScan, NoPage, TypeOK, Signatures, ghosts
<1>15. CASE UNCHANGED vars
  BY <1>15 DEF vars, TypeOK, Signatures
<1> QED
  BY <1>1, <1>2, <1>3, <1>4, <1>5, <1>6, <1>7, <1>8, <1>9, <1>10, <1>11, <1>12,
     <1>13, <1>14, <1>15 DEF Next

\* Every reachable state of the listener has its types, and its locals belong to
\* the place where the task stands (process_internal).
THEOREM TypeCorrect == Spec => []TypeOK
BY TypeInit, TypeStep, PTL DEF Spec

-----------------------------------------------------------------------------
(* What the scans and the streams account for.  None of the safety         *)
(* properties is inductive alone; their conjunction with these parts is.   *)

\* What is left of the current address below the cursor, and the part of it that
\* was on the chain when the address's scan began.
Below(i) == /\ Mentions(i, scan.addr)
            /\ i > scan.t1
            /\ scan.cursor # NoSig => i < scan.cursor
Ahead(i) == Below(i) /\ i <= seen[scan.addr]

\* An open page holds everything ahead down to its oldest signature, everything
\* at all when it is the last one, and what is no longer to do is handled.
PageInv ==
  pc = "batch" =>
    /\ \A i \in Signatures : Ahead(i) /\ i >= page.oldest => i \in page.sigs
    /\ Completed(page.sigs) => \A i \in Signatures : Ahead(i) => i \in page.sigs
    /\ \A i \in page.sigs : i \in page.todo \/ Handled(i)

AfterFirst == CatchUp \/ pc \in {"send_first", "realtime"}

\* A catch-up scan ends right below the first item.
CatchUpInv ==
  /\ AfterFirst => scan.t2 # NoSig /\ \A a \in Addresses : seen[a] = scan.t2 - 1
  /\ CatchUp => scan.cursor # NoSig
  /\ pc \in {"send_first", "realtime"} => scan.addr = "gas"
  /\ first # NoSig => first = scan.t2
  /\ pc = "realtime" => Handled(scan.t2)

Accounted(i) == Handled(i) \/ i \in Pending \/ i \in gap

\* From the first notification on, everything newer is accounted for.
StreamInv ==
  /\ pc \in {"down", "connect"} \/ Startup => \A a \in Addresses : wsq[a] = {}
  /\ pc # "realtime" => inflight = {}
  /\ pc \in {"sub_gas", "first"} =>
       \A a \in Addresses : \A j \in wsq[a] : \A i \in Signatures :
         i > j => Accounted(i)
  /\ AfterFirst => \A i \in Signatures : i > scan.t2 => Accounted(i)

ListenerInv == TypeOK /\ ScanLeavesNoHole /\ PageInv /\ CatchUpInv /\ StreamInv

\* At first nothing has landed, and the invariant holds.
LEMMA ListenerInit == Init => ListenerInv
BY TypeInit DEF Init, ListenerInv, ScanLeavesNoHole, PageInv, CatchUpInv, StreamInv,
   AfterFirst, CatchUp, Startup, Scanning, Signatures, NoScan

\* A handled transaction stays handled.
LEMMA HandledStable ==
  ASSUME TypeOK, [Next]_vars, NEW i \in Signatures, Handled(i)
  PROVE  Handled(i)'
<1> USE DEF Handled
<1>1. ASSUME NEW kind \in TxKinds, NEW step \in SlotSteps, Land(kind, step)
      PROVE  Handled(i)'
  BY <1>1, LandExtends DEF Land
<1>2. CASE UNCHANGED chain /\ sent \subseteq sent' /\ warned \subseteq warned'
  BY <1>2
<1>3. \/ \E kind \in TxKinds, step \in SlotSteps : Land(kind, step)
      \/ UNCHANGED chain /\ sent \subseteq sent' /\ warned \subseteq warned'
  BY DEF Next, vars, Start, FetchEmptyPage, FetchPage, PageTxSent, PageTxFailed,
         PageDone, Connect, SubscribeGas, FirstItem, SendFirst, PollItem,
         FetchDone, Reconnect, Crash
<1> QED
  BY <1>1, <1>2, <1>3

\* Leaving a page or an address with everything ahead of the cursor handled
\* leaves no hole.
LEMMA LeaveHole ==
  ASSUME TypeOK, ScanLeavesNoHole, CatchUpInv, Scanning,
         NEW newest, NEW slot, LeaveAddress(newest, slot),
         UNCHANGED Signatures,
         \A i \in Signatures, a \in Addresses : Mentions(i, a)' <=> Mentions(i, a),
         \A i \in Signatures : Handled(i) => Handled(i)',
         \A a \in Addresses : seen'[a] = seen[a] \/ (a = scan.addr /\ scan.cursor = NoSig),
         \A i \in Signatures :
           Below(i) /\ i <= seen'[scan.addr] => Handled(i)'
  PROVE  ScanLeavesNoHole'
<1> SUFFICES ASSUME NEW i \in Signatures, NEW a \in Addresses,
                    Mentions(i, a), i > scan'.t1, Visited(i, a)'
             PROVE  Handled(i)'
  BY DEF ScanLeavesNoHole
<1>0. scan.cursor \in Nat /\ i \in Nat /\ scan.t2 \in Nat /\ seen[a] \in Nat
  BY Numbers
<1>1. scan'.t1 = scan.t1 /\ scan'.t2 = scan.t2
  BY DEF LeaveAddress, NextAddress, FinishStartup, FinishCatchUp, TypeOK
<1>2. CASE a = scan.addr
  <2>1. i <= seen'[a]
    BY DEF Visited
  <2>2. CASE scan.cursor # NoSig /\ i >= scan.cursor
    BY <1>1, <1>2, <2>1, <2>2 DEF ScanLeavesNoHole, Visited
  <2>3. CASE scan.cursor # NoSig => i < scan.cursor
    BY <1>1, <1>2, <2>1, <2>3 DEF Below
  <2> QED
    BY <1>0, <2>2, <2>3
<1>3. CASE a # scan.addr
  <2>1. seen'[a] = seen[a]
    BY <1>3
  <2>2. CASE scan.addr = "gas"
    <3>1. a = "gateway" /\ Visited(i, a)
      BY <1>3, <2>1, <2>2 DEF Visited
    <3> QED
      BY <1>1, <3>1 DEF ScanLeavesNoHole
  <2>3. CASE scan.addr = "gateway"
    <3>1. /\ a = "gas" /\ scan'.addr = "gas" /\ pc' = "scan"
          /\ scan'.cursor = scan.t2
      BY <1>3, <2>3 DEF LeaveAddress, NextAddress, FinishStartup, FinishCatchUp, TypeOK
    <3>2. scan.t2 # NoSig /\ i >= scan.t2 /\ i <= seen[a]
      BY <2>1, <3>1 DEF Visited, Scanning
    <3>3. seen[a] = scan.t2 - 1
      BY <3>2 DEF CatchUpInv, AfterFirst, CatchUp
    <3> QED
      BY <1>0, <3>2, <3>3
  <2> QED
    BY <2>2, <2>3 DEF TypeOK
<1> QED
  BY <1>2, <1>3

\* What a scan goes past, page by page, is handled (fetch_batches_in_range).
LEMMA HoleStep == ListenerInv /\ [Next]_vars => ScanLeavesNoHole'
<1> SUFFICES ASSUME ListenerInv, [Next]_vars PROVE ScanLeavesNoHole'
  OBVIOUS
<1> USE DEF ListenerInv
<1>0. /\ TypeOK /\ ScanLeavesNoHole /\ CatchUpInv /\ PageInv
      /\ \A i \in Signatures : Handled(i) => Handled(i)'
  BY HandledStable
<1>t. /\ \A i \in Signatures : i \in Nat /\ i <= Len(chain)
      /\ Len(chain) \in Nat
      /\ scan.cursor \in Nat /\ scan.t1 \in Nat /\ scan.t2 \in Nat
      /\ \A a \in Addresses : seen[a] \in Nat /\ seen[a] <= Len(chain)
  BY Numbers
<1>1. ASSUME NEW kind \in TxKinds, NEW step \in SlotSteps, Land(kind, step)
      PROVE  ScanLeavesNoHole'
  <2>1. /\ UNCHANGED <<scan, pc, seen>>
        /\ Signatures' = Signatures \cup {Len(chain) + 1}
        /\ \A i \in Signatures : chain'[i] = chain[i]
    BY <1>1, LandExtends DEF Land, task
  <2> QED
    BY <1>0, <1>t, <2>1 DEF ScanLeavesNoHole, Visited, Mentions, Scanning
<1>2. CASE UNCHANGED <<chain, scan, pc, seen>>
  BY <1>0, <1>2 DEF ScanLeavesNoHole, Visited, Mentions, Scanning, Signatures
<1>3. ASSUME NEW forced \in Signatures \cup {NoSig}, Start(forced)
      PROVE  ScanLeavesNoHole'
  BY <1>3 DEF Start, BeginScan, ScanLeavesNoHole, Visited, Scanning
<1>4. CASE FetchEmptyPage
  <2>1. /\ UNCHANGED <<chain, Signatures>>
        /\ Scanning
    BY <1>4 DEF FetchEmptyPage, Scanning, Signatures
  <2>2. \A a \in Addresses : seen'[a] = seen[a] \/ (a = scan.addr /\ scan.cursor = NoSig)
    BY <1>4 DEF FetchEmptyPage, SeeChain, TypeOK
  <2>3. \A i \in Signatures : ~Below(i)
    BY <1>4 DEF FetchEmptyPage, ScanRange, SignaturesForAddress, Below
  <2>4. LeaveAddress(scan.newest, scan.slot)
    BY <1>4 DEF FetchEmptyPage
  <2> QED
    BY <1>0, <2>1, <2>2, <2>3, <2>4, LeaveHole DEF Mentions
<1>5. CASE FetchPage
  <2>1. /\ UNCHANGED <<chain, Signatures, scan>>
        /\ pc = "scan" /\ pc' = "batch"
        /\ \A a \in Addresses : seen'[a] = seen[a] \/ (a = scan.addr /\ scan.cursor = NoSig)
    BY <1>5 DEF FetchPage, Signatures, SeeChain, TypeOK
  <2> QED
    BY <1>0, <1>t, <2>1 DEF ScanLeavesNoHole, Visited, Scanning, Mentions, TypeOK
<1>6. CASE PageDone
  <2> DEFINE n == NewestAfter(scan.newest, scan.slot, page.newest,
                              chain[page.newest].slot)
  <2>1. /\ UNCHANGED <<chain, Signatures, seen>>
        /\ Scanning /\ pc = "batch"
        /\ \A i \in page.sigs : Handled(i)
    BY <1>0, <1>6 DEF PageDone, Signatures, Scanning, PageInv, ghosts
  <2> HIDE DEF n
  <2>2. CASE Completed(page.sigs) /\ LeaveAddress(n.sig, n.slot)
    <3>1. \A i \in Signatures : Ahead(i) => Handled(i)'
      BY <1>0, <2>1, <2>2 DEF PageInv
    <3> QED
      BY <1>0, <2>1, <2>2, <3>1, LeaveHole DEF Ahead, Mentions
  <2>3. CASE /\ scan' = [scan EXCEPT !.cursor = page.oldest, !.newest = n.sig,
                                     !.slot = n.slot]
             /\ pc' = "scan"
    <3> SUFFICES ASSUME NEW i \in Signatures, NEW a \in Addresses,
                        Mentions(i, a), i > scan'.t1, Visited(i, a)'
                 PROVE  Handled(i)'
      BY <2>1 DEF ScanLeavesNoHole, Mentions
    <3>1. /\ scan'.t1 = scan.t1 /\ scan'.addr = scan.addr
          /\ scan'.cursor = page.oldest /\ page.oldest \in Nat
      BY <2>3 DEF TypeOK, Signatures
    <3>2. CASE a = scan.addr /\ (scan.cursor # NoSig => i < scan.cursor)
      <4>1. Ahead(i) /\ i >= page.oldest
        BY <2>1, <2>3, <3>1, <3>2 DEF Visited, Ahead, Below, Scanning
      <4> QED
        BY <1>0, <2>1, <4>1 DEF PageInv
    <3>3. CASE ~(a = scan.addr /\ (scan.cursor # NoSig => i < scan.cursor))
      <4>1. Visited(i, a)
        BY <1>t, <2>1, <2>3, <3>1, <3>3 DEF Visited, Scanning
      <4> QED
        BY <1>0, <3>1, <4>1 DEF ScanLeavesNoHole
    <3> QED
      BY <3>2, <3>3
  <2> QED
    BY <1>6, <2>2, <2>3 DEF PageDone, n
<1>7. ASSUME UNCHANGED <<chain, scan, seen>>, ~Scanning, ~Scanning'
      PROVE  ScanLeavesNoHole'
  BY <1>0, <1>7 DEF ScanLeavesNoHole, Visited, Mentions, Signatures
<1>8. ASSUME NEW a \in Addresses, FirstItem(a)
      PROVE  ScanLeavesNoHole'
  <2>1. PICK i \in wsq[a] : BeginScan(latest, i)
    BY <1>8 DEF FirstItem
  <2>2. i \in Nat
    BY <1>t DEF TypeOK
  <2> QED
    BY <1>t, <1>8, <2>1, <2>2 DEF FirstItem, BeginScan, ScanLeavesNoHole, Visited, Scanning, Signatures
<1>9. CASE scan' = NoScan /\ ~Scanning'
  BY <1>9 DEF ScanLeavesNoHole, Visited, NoScan
<1> QED
  <2>1. ASSUME NEW i \in page.todo, PageTxSent(i) \/ PageTxFailed(i)
        PROVE  ScanLeavesNoHole'
    BY <1>2, <2>1 DEF PageTxSent, PageTxFailed, ghosts
  <2>2. CASE Connect \/ SubscribeGas \/ SendFirst
    BY <1>7, <2>2 DEF Connect, SubscribeGas, SendFirst, ghosts, Scanning
  <2>3. ASSUME NEW a \in Addresses, PollItem(a) PROVE ScanLeavesNoHole'
    BY <1>2, <2>3 DEF PollItem, ghosts
  <2>4. ASSUME NEW f \in inflight, FetchDone(f) PROVE ScanLeavesNoHole'
    BY <1>2, <2>4 DEF FetchDone, ghosts
  <2>5. CASE Reconnect \/ Crash
    BY <1>9, <2>5 DEF Reconnect, Crash, DropConnection, Scanning
  <2>6. CASE UNCHANGED vars
    BY <1>2, <2>6 DEF vars
  <2> QED
    BY <1>1, <1>3, <1>4, <1>5, <1>6, <1>8, <2>1, <2>2, <2>3, <2>4, <2>5, <2>6
    DEF Next

\* A page leaves out nothing between its oldest signature and the last page's.
LEMMA PageStep == ListenerInv /\ [Next]_vars => PageInv'
<1> SUFFICES ASSUME ListenerInv, [Next]_vars, pc' = "batch" PROVE PageInv'
  BY DEF PageInv
<1>0. /\ TypeOK /\ PageInv
      /\ \A i \in Signatures : Handled(i) => Handled(i)'
  BY HandledStable DEF ListenerInv
<1>t. /\ \A i \in Signatures : i \in Nat /\ i <= Len(chain)
      /\ Len(chain) \in Nat
      /\ \A a \in Addresses : seen[a] \in Nat /\ seen[a] <= Len(chain)
      /\ scan.addr \in Addresses
      /\ page.sigs \subseteq Signatures
  BY <1>0, Numbers DEF TypeOK
<1>1. ASSUME NEW kind \in TxKinds, NEW step \in SlotSteps, Land(kind, step)
      PROVE  PageInv'
  <2>1. /\ UNCHANGED <<scan, pc, seen, page>>
        /\ Signatures' = Signatures \cup {Len(chain) + 1}
        /\ \A i \in Signatures : chain'[i] = chain[i]
    BY <1>0, <1>1, LandExtends DEF Land, task
  <2>2. \A i \in Signatures' : Ahead(i)' => i \in Signatures /\ Ahead(i)
    BY <1>t, <2>1 DEF Ahead, Below, Mentions
  <2> QED
    BY <1>0, <1>t, <2>1, <2>2 DEF PageInv, Completed
<1>2. CASE FetchPage
  <2>1. /\ UNCHANGED <<chain, Signatures, scan, sent, warned>>
        /\ page'.sigs = PageFrom(ScanRange, page'.oldest)
        /\ IsPage(ScanRange, page'.sigs)
        /\ page'.todo = {i \in page'.sigs : chain[i].ok}
        /\ page'.sigs \subseteq Signatures
    BY <1>2 DEF FetchPage, Signatures, PageFrom, ScanRange, SignaturesForAddress
  <2>2. \A i \in Signatures : Below(i) => i \in ScanRange
    BY DEF Below, ScanRange, SignaturesForAddress
  <2>3. \A i \in Signatures' : Ahead(i)' => i \in ScanRange
    BY <2>1, <2>2 DEF Ahead, Below, Mentions
  <2>4. Completed(page'.sigs) => page'.sigs = ScanRange
    <3>1. Limit \in Nat
      BY ListenerAssumption
    <3> QED
      BY <2>1, <3>1 DEF Completed, IsPage
  <2>5. \A i \in page'.sigs : i \in page'.todo \/ Handled(i)'
    BY <2>1 DEF Handled
  <2>6. Completed(page.sigs)' <=> Completed(page'.sigs)
    BY DEF Completed
  <2> QED
    BY <2>1, <2>3, <2>4, <2>5, <2>6 DEF PageInv, PageFrom
<1>3. ASSUME NEW i \in page.todo, PageTxSent(i) \/ PageTxFailed(i)
      PROVE  PageInv'
  <2>1. /\ UNCHANGED <<chain, Signatures, scan, seen>>
        /\ page' = [page EXCEPT !.todo = page.todo \ {i}]
        /\ i \in sent' \cup warned'
        /\ pc = "batch"
    BY <1>3 DEF PageTxSent, PageTxFailed, Signatures, ghosts
  <2>2. page'.sigs = page.sigs /\ page'.oldest = page.oldest /\ page'.todo = page.todo \ {i}
    BY <1>0, <2>1 DEF TypeOK
  <2>3. \A j \in page.sigs : j \in page'.todo \/ Handled(j)'
    BY <1>0, <1>t, <2>1, <2>2 DEF PageInv, Handled
  <2> QED
    BY <1>0, <2>1, <2>2, <2>3 DEF PageInv, Ahead, Below, Mentions, Completed
<1>4. CASE UNCHANGED <<chain, scan, pc, seen, page>>
  BY <1>0, <1>t, <1>4 DEF PageInv, Ahead, Below, Mentions, Completed, Signatures
<1> QED
  <2>1. ASSUME NEW forced \in Signatures \cup {NoSig}, Start(forced) PROVE FALSE
    BY <2>1 DEF Start, BeginScan
  <2>2. CASE FetchEmptyPage \/ PageDone
    BY <2>2 DEF FetchEmptyPage, PageDone, LeaveAddress, NextAddress, FinishStartup,
                FinishCatchUp
  <2>3. CASE Connect \/ SubscribeGas \/ SendFirst \/ Reconnect \/ Crash
    BY <2>3 DEF Connect, SubscribeGas, SendFirst, Reconnect, Crash
  <2>4. ASSUME NEW a \in Addresses, FirstItem(a) PROVE FALSE
    BY <2>4 DEF FirstItem, BeginScan
  <2>5. ASSUME NEW a \in Addresses, PollItem(a) PROVE PageInv'
    BY <1>4, <2>5 DEF PollItem, ghosts
  <2>6. ASSUME NEW f \in inflight, FetchDone(f) PROVE PageInv'
    BY <1>4, <2>6 DEF FetchDone, ghosts
  <2>7. CASE UNCHANGED vars
    BY <1>4, <2>7 DEF vars
  <2> QED
    BY <1>1, <1>2, <1>3, <2>1, <2>2, <2>3, <2>4, <2>5, <2>6, <2>7 DEF Next

\* The catch-up scan of both addresses ends right below the first item.
LEMMA CatchUpStep == ListenerInv /\ [Next]_vars => CatchUpInv'
<1> SUFFICES ASSUME ListenerInv, [Next]_vars PROVE CatchUpInv'
  OBVIOUS
<1>0. /\ TypeOK /\ CatchUpInv
      /\ \A i \in Signatures : Handled(i) => Handled(i)'
  BY HandledStable DEF ListenerInv
<1>t. /\ \A i \in Signatures : i \in Nat /\ i >= 1
      /\ scan.t2 \in Signatures \cup {NoSig}
  BY <1>0, Numbers DEF TypeOK
<1> USE DEF AfterFirst, CatchUp, Scanning
<1>1. CASE UNCHANGED <<scan, pc, seen, first>>
  BY <1>0, <1>t, <1>1 DEF CatchUpInv
<1>2. ASSUME NEW forced \in Signatures \cup {NoSig}, Start(forced)
      PROVE  CatchUpInv'
  BY <1>0, <1>2 DEF Start, BeginScan, CatchUpInv, TypeOK
<1>3. ASSUME NEW newest, NEW slot, LeaveAddress(newest, slot), Scanning,
             SeeChain \/ UNCHANGED seen, UNCHANGED first
      PROVE  CatchUpInv'
  <2>1. scan'.t2 = scan.t2
    BY <1>0, <1>3 DEF LeaveAddress, NextAddress, FinishStartup, FinishCatchUp, TypeOK
  <2>2. CatchUp => UNCHANGED seen
    BY <1>0, <1>3 DEF CatchUpInv, SeeChain
  <2> QED
    BY <1>0, <1>3, <2>1, <2>2 DEF LeaveAddress, NextAddress, FinishStartup,
       FinishCatchUp, CatchUpInv, TypeOK
<1>4. CASE FetchPage
  <2>1. CatchUp => UNCHANGED seen
    BY <1>0, <1>4 DEF FetchPage, CatchUpInv, SeeChain
  <2> QED
    BY <1>0, <1>4, <2>1 DEF FetchPage, CatchUpInv
<1>5. CASE PageDone
  <2> DEFINE n == NewestAfter(scan.newest, scan.slot, page.newest,
                              chain[page.newest].slot)
  <2>1. /\ UNCHANGED <<seen, first>>
        /\ pc = "batch" /\ page.oldest # NoSig
    BY <1>0, <1>5 DEF PageDone, TypeOK, ghosts
  <2> HIDE DEF n
  <2>2. CASE LeaveAddress(n.sig, n.slot)
    BY <1>3, <2>1, <2>2
  <2>3. CASE /\ scan' = [scan EXCEPT !.cursor = page.oldest, !.newest = n.sig,
                                     !.slot = n.slot]
             /\ pc' = "scan"
    BY <1>0, <2>1, <2>3 DEF CatchUpInv, TypeOK
  <2> QED
    BY <1>5, <2>2, <2>3 DEF PageDone, n
<1>6. CASE Connect \/ SubscribeGas
  BY <1>0, <1>6 DEF Connect, SubscribeGas, CatchUpInv, ghosts
<1>7. ASSUME NEW a \in Addresses, FirstItem(a)
      PROVE  CatchUpInv'
  <2>1. PICK i \in wsq[a] : BeginScan(latest, i) /\ first' = i
    BY <1>7 DEF FirstItem
  <2>2. i \in Nat /\ i >= 1
    BY <1>0, <1>t DEF TypeOK
  <2> QED
    BY <2>1, <2>2 DEF BeginScan, CatchUpInv
<1>8. CASE SendFirst
  <2>1. /\ UNCHANGED <<scan, seen>> /\ first' = NoSig
        /\ first = scan.t2 /\ first \in sent'
        /\ pc = "send_first" /\ pc' = "realtime"
    BY <1>0, <1>8 DEF SendFirst, CatchUpInv, TypeOK, ghosts
  <2>2. Handled(scan.t2)'
    BY <2>1 DEF Handled
  <2> QED
    BY <1>0, <2>1, <2>2 DEF CatchUpInv
<1>9. CASE Reconnect \/ Crash
  BY <1>9 DEF Reconnect, Crash, DropConnection, CatchUpInv
<1> QED
  <2>1. ASSUME NEW kind \in TxKinds, NEW step \in SlotSteps, Land(kind, step)
        PROVE  CatchUpInv'
    BY <1>1, <2>1 DEF Land, task
  <2>2. CASE FetchEmptyPage
    BY <1>3, <2>2 DEF FetchEmptyPage
  <2>3. ASSUME NEW i \in page.todo, PageTxSent(i) \/ PageTxFailed(i)
        PROVE  CatchUpInv'
    BY <1>1, <2>3 DEF PageTxSent, PageTxFailed, ghosts
  <2>4. ASSUME NEW a \in Addresses, PollItem(a) PROVE CatchUpInv'
    BY <1>1, <2>4 DEF PollItem, ghosts
  <2>5. ASSUME NEW f \in inflight, FetchDone(f) PROVE CatchUpInv'
    BY <1>1, <2>5 DEF FetchDone, ghosts
  <2>6. CASE UNCHANGED vars
    BY <1>1, <2>6 DEF vars
  <2> QED
    BY <1>2, <1>4, <1>5, <1>6, <1>7, <1>8, <1>9, <2>1, <2>2, <2>3, <2>4, <2>5, <2>6
    DEF Next

\* What was accounted for stays so when no transaction leaves Pending unhandled.
LEMMA AccountedStable ==
  ASSUME TypeOK, [Next]_vars, UNCHANGED gap,
         \A j \in Pending : j \in Pending' \/ j \in sent',
         NEW i \in Signatures, Accounted(i)
  PROVE  Accounted(i)'
<1>1. Handled(i) => Handled(i)'
  BY HandledStable
<1>2. i \in sent' => Handled(i)'
  BY DEF Handled
<1> QED
  BY <1>1, <1>2 DEF Accounted

\* The subscriptions miss nothing newer than their first notification.
LEMMA StreamStep == ListenerInv /\ [Next]_vars => StreamInv'
<1> SUFFICES ASSUME ListenerInv, [Next]_vars PROVE StreamInv'
  OBVIOUS
<1>0. TypeOK /\ CatchUpInv /\ StreamInv
  BY DEF ListenerInv
<1>t. /\ \A i \in Signatures : i \in Nat /\ i >= 1 /\ i <= Len(chain)
      /\ Len(chain) \in Nat
      /\ \A a \in Addresses : wsq[a] \subseteq Signatures
      /\ scan.t2 \in Nat
      /\ wsq \in [Addresses -> SUBSET Signatures]
      /\ TypeOK'
  BY <1>0, Numbers, TypeStep DEF TypeOK
<1> USE DEF AfterFirst, CatchUp, Scanning, Startup
<1>1. ASSUME NEW kind \in TxKinds, NEW step \in SlotSteps, Land(kind, step)
      PROVE  StreamInv'
  <2>0. PICK new \in Nat : new = Len(chain) + 1
    BY <1>t
  <2>1. /\ UNCHANGED <<scan, pc, inflight, first, sent, warned>>
        /\ Signatures' = Signatures \cup {new}
        /\ \A i \in Signatures : chain'[i] = chain[i]
        /\ chain'[new].ok = kind.ok
        /\ kind.mentions \subseteq Addresses /\ kind.mentions # {}
    BY <1>0, <1>1, <2>0, LandExtends, ListenerAssumption DEF Land, task
  <2>2. \A a \in Addresses : /\ wsq[a] \subseteq wsq'[a]
                             /\ wsq'[a] \subseteq wsq[a] \cup {new}
                             /\ ~Subscribed(a) => wsq'[a] = wsq[a]
    BY <1>1, <2>0 DEF Land
  <2>3. gap \subseteq gap'
    BY <1>1 DEF Land
  <2>4. \A i \in Signatures : Accounted(i) => Accounted(i)'
    BY <2>1, <2>2, <2>3 DEF Accounted, Pending, Handled
  <2>5. CASE pc \in {"sub_gas", "first"} \/ AfterFirst
    <3>1. Accounted(new)'
      <4>1. CASE ~kind.ok
        BY <2>1, <4>1 DEF Accounted, Handled
      <4>2. CASE kind.ok /\ \E a \in kind.mentions : Subscribed(a)
        <5>1. PICK a \in kind.mentions : Subscribed(a)
          BY <4>2
        <5>2. new \in wsq'[a] /\ a \in Addresses
          BY <1>1, <2>0, <2>1, <4>2, <5>1 DEF Land
        <5> QED
          BY <5>2 DEF Accounted, Pending
      <4>3. CASE kind.ok /\ ~\E a \in kind.mentions : Subscribed(a)
        <5>1. pc = "sub_gas" /\ "gateway" \notin kind.mentions
          BY <2>1, <2>5, <4>3 DEF Subscribed
        <5>2. new \in gap'
          BY <1>1, <2>0, <5>1 DEF Land
        <5> QED
          BY <5>2 DEF Accounted
      <4> QED
        BY <4>1, <4>2, <4>3
    <3>2. \A a \in Addresses : \A j \in wsq'[a] : \A i \in Signatures' :
             i > j => j \in wsq[a]
      BY <1>t, <2>0, <2>1, <2>2
    <3> QED
      BY <1>0, <1>t, <2>1, <2>4, <2>5, <3>1, <3>2 DEF StreamInv
  <2>6. CASE ~(pc \in {"sub_gas", "first"} \/ AfterFirst)
    <3>1. \A a \in Addresses : ~Subscribed(a)
      BY <2>6 DEF Subscribed
    <3> QED
      BY <1>0, <2>1, <2>2, <2>6, <3>1 DEF StreamInv
  <2> QED
    BY <2>5, <2>6
<1>2. ASSUME UNCHANGED <<chain, wsq, inflight, first, gap>>,
             scan'.t2 = scan.t2, Scanning,
             pc' \in {"scan", "batch", "connect", "send_first"},
             pc' = "connect" => scan.t2 = NoSig,
             pc' = "send_first" => scan.t2 # NoSig
      PROVE  StreamInv'
  <2>1. UNCHANGED <<Signatures, Pending>>
    BY <1>2 DEF Signatures, Pending
  <2>2. \A i \in Signatures : Accounted(i) => Accounted(i)'
    BY <1>0, <1>2, <2>1, AccountedStable
  <2> QED
    BY <1>0, <1>2, <2>1, <2>2 DEF StreamInv
<1>3. ASSUME pc' \in {"down", "connect"} \/ Startup',
             \A a \in Addresses : wsq'[a] = {}, inflight' = {}
      PROVE  StreamInv'
  BY <1>3 DEF StreamInv
<1>4. CASE PageDone \/ FetchEmptyPage
  <2>1. ASSUME NEW newest, NEW slot, LeaveAddress(newest, slot)
        PROVE  /\ scan'.t2 = scan.t2
               /\ pc' \in {"scan", "connect", "send_first"}
               /\ pc' = "connect" => scan.t2 = NoSig
               /\ pc' = "send_first" => scan.t2 # NoSig
    BY <1>0, <2>1 DEF LeaveAddress, NextAddress, FinishStartup, FinishCatchUp, TypeOK
  <2>2. CASE FetchEmptyPage
    BY <1>2, <2>1, <2>2 DEF FetchEmptyPage
  <2>3. CASE PageDone
    <3>1. \/ \E newest, slot : LeaveAddress(newest, slot)
          \/ scan'.t2 = scan.t2 /\ pc' = "scan"
      BY <1>0, <2>3 DEF PageDone, TypeOK
    <3> QED
      BY <1>2, <2>1, <2>3, <3>1 DEF PageDone, ghosts
  <2> QED
    BY <1>4, <2>2, <2>3
<1>5. CASE Connect
  BY <1>0, <1>5 DEF Connect, StreamInv
<1>6. CASE SubscribeGas
  <2>1. UNCHANGED <<Signatures, Pending, gap, wsq, inflight>> /\ pc = "sub_gas" /\ pc' = "first"
    BY <1>6 DEF SubscribeGas, Signatures, Pending, ghosts
  <2>2. \A i \in Signatures : Accounted(i) => Accounted(i)'
    BY <1>0, <2>1, AccountedStable
  <2> QED
    BY <1>0, <2>1, <2>2 DEF StreamInv
<1>7. ASSUME NEW a \in Addresses, FirstItem(a)
      PROVE  StreamInv'
  <2>1. PICK i \in wsq[a] : /\ wsq' = [wsq EXCEPT ![a] = wsq[a] \ {i}]
                           /\ first' = i
                           /\ BeginScan(latest, i)
    BY <1>7 DEF FirstItem
  <2>2. /\ UNCHANGED <<Signatures, inflight, gap>>
        /\ pc = "first" /\ pc' = "scan" /\ scan'.t2 = i /\ i # NoSig
        /\ first = NoSig
    BY <1>0, <1>t, <1>7, <2>1 DEF FirstItem, BeginScan, Signatures, TypeOK
  <2>3. \A j \in Pending : j \in Pending'
    <3>1. \A b \in Addresses : wsq[b] \subseteq wsq'[b] \cup {i}
      BY <1>t, <2>1
    <3> QED
      BY <2>1, <2>2, <3>1 DEF Pending
  <2>4. \A k \in Signatures : Accounted(k) => Accounted(k)'
    BY <1>0, <2>2, <2>3, AccountedStable
  <2>5. \A k \in Signatures : k > i => Accounted(k)
    BY <1>0, <2>2 DEF StreamInv
  <2> QED
    BY <1>0, <2>2, <2>4, <2>5 DEF StreamInv
<1>8. CASE SendFirst
  <2>1. /\ UNCHANGED <<Signatures, scan, wsq, inflight, gap>>
        /\ pc = "send_first" /\ pc' = "realtime"
        /\ sent' = sent \cup {first} /\ first' = NoSig
    BY <1>8 DEF SendFirst, Signatures, ghosts
  <2>2. \A j \in Pending : j \in Pending' \/ j \in sent'
    BY <2>1 DEF Pending
  <2>3. \A i \in Signatures : Accounted(i) => Accounted(i)'
    BY <1>0, <2>1, <2>2, AccountedStable
  <2> QED
    BY <1>0, <2>1, <2>3 DEF StreamInv
<1>9. ASSUME pc = "realtime", pc' = "realtime", UNCHANGED <<Signatures, scan, gap>>,
             \A j \in Pending : j \in Pending' \/ j \in sent'
      PROVE  StreamInv'
  <2>1. \A i \in Signatures : Accounted(i) => Accounted(i)'
    BY <1>0, <1>9, AccountedStable
  <2> QED
    BY <1>0, <1>9, <2>1 DEF StreamInv
<1>10. ASSUME NEW a \in Addresses, PollItem(a)
       PROVE  StreamInv'
  <2>1. PICK i \in wsq[a] : /\ wsq' = [wsq EXCEPT ![a] = wsq[a] \ {i}]
                           /\ inflight' = inflight \cup {<<i, a>>}
    BY <1>10 DEF PollItem
  <2>2. /\ \A b \in Addresses : wsq[b] \subseteq wsq'[b] \cup {i}
        /\ first' = first
    BY <1>t, <1>10, <2>1 DEF PollItem
  <2>3. i \in Pending'
    <3>1. <<i, a>> \in inflight' /\ <<i, a>>[1] = i
      BY <2>1
    <3> QED
      BY <3>1 DEF Pending
  <2>4. \A j \in Pending : j \in Pending'
    BY <2>1, <2>2, <2>3 DEF Pending
  <2> QED
    BY <1>9, <1>10, <2>4 DEF PollItem, Signatures, ghosts
<1>11. ASSUME NEW f \in inflight, FetchDone(f)
       PROVE  StreamInv'
  <2>1. \A j \in Pending : j \in Pending' \/ j \in sent'
    BY <1>11 DEF FetchDone, Pending
  <2> QED
    BY <1>9, <1>11, <2>1 DEF FetchDone, Signatures, ghosts
<1>12. CASE UNCHANGED vars
  <2>1. UNCHANGED <<Signatures, Pending, gap, scan, pc, wsq, inflight>>
    BY <1>12 DEF vars, Signatures, Pending
  <2>2. \A i \in Signatures : Accounted(i) => Accounted(i)'
    BY <1>0, <2>1, AccountedStable
  <2> QED
    BY <1>0, <2>1, <2>2 DEF StreamInv
<1> QED
  <2>1. ASSUME NEW forced \in Signatures \cup {NoSig}, Start(forced)
        PROVE  StreamInv'
    BY <1>0, <1>3, <2>1 DEF Start, BeginScan, StreamInv
  <2>2. CASE FetchPage
    BY <1>2, <2>2 DEF FetchPage
  <2>3. ASSUME NEW i \in page.todo, PageTxSent(i) \/ PageTxFailed(i)
        PROVE  StreamInv'
    BY <1>2, <2>3 DEF PageTxSent, PageTxFailed, ghosts
  <2>4. CASE Reconnect \/ Crash
    BY <1>3, <2>4 DEF Reconnect, Crash, DropConnection
  <2> QED
    BY <1>1, <1>4, <1>5, <1>6, <1>7, <1>8, <1>10, <1>11, <1>12, <2>1, <2>2, <2>3, <2>4
    DEF Next

\* The invariant holds throughout, under every fault: what the open page, the
\* catch-up scan and the two streams account for.
THEOREM ListenerInvariant == Spec => []ListenerInv
<1>1. ListenerInv /\ [Next]_vars => ListenerInv'
  BY TypeStep, HoleStep, PageStep, CatchUpStep, StreamStep DEF ListenerInv
<1> QED
  BY <1>1, ListenerInit, PTL DEF Spec

\* Paging backwards leaves no hole, whatever lands meanwhile.
THEOREM NoHole == Spec => []ScanLeavesNoHole
<1>1. ListenerInv => ScanLeavesNoHole
  BY DEF ListenerInv
<1> QED
  BY <1>1, ListenerInvariant, PTL

\* A connection past its catch-up accounts for everything since its checkpoint.
LEMMA LosslessState == ListenerInv => ConnectionLossless
<1> SUFFICES ASSUME ListenerInv, pc \in {"send_first", "realtime"},
                    NEW i \in Signatures, i > scan.t1,
                    ~(i \in gap /\ i > scan.t2)
             PROVE  Handled(i) \/ i \in Pending
  BY DEF ConnectionLossless
<1> USE DEF ListenerInv
<1>1. /\ scan.t2 \in Nat /\ i \in Nat
      /\ scan.t2 # NoSig /\ scan.addr = "gas" /\ ~Scanning
      /\ \A a \in Addresses : seen[a] = scan.t2 - 1
  BY Numbers DEF CatchUpInv, AfterFirst, Scanning
<1>2. CASE i > scan.t2
  BY <1>2 DEF StreamInv, AfterFirst, Accounted
<1>3. CASE i = scan.t2
  <2>1. CASE pc = "realtime"
    BY <1>3, <2>1 DEF CatchUpInv
  <2>2. CASE pc = "send_first"
    BY <1>3, <2>2 DEF CatchUpInv, TypeOK, Pending
  <2> QED
    BY <2>1, <2>2
<1>4. CASE i < scan.t2
  <2>1. PICK a \in Addresses : Mentions(i, a)
    BY ChainType DEF Mentions, Tx
  <2>2. Visited(i, a)
    BY <1>1, <1>4 DEF Visited
  <2> QED
    BY <2>1, <2>2 DEF ScanLeavesNoHole
<1> QED
  BY <1>1, <1>2, <1>3, <1>4

\* process_realtime_logs: a connection past its catch-up accounts for every
\* successful transaction since its checkpoint, but for the subscription gap.
THEOREM Lossless == Spec => []ConnectionLossless
BY LosslessState, ListenerInvariant, PTL

-----------------------------------------------------------------------------
(* Without the five faults that lose events, the checkpoint never passes an *)
(* event that is neither sent nor still held.                              *)

QuietFaults ==
  Faults \cap {"scan_gap", "sub_gap", "drop", "batch_error", "force"} = {}

\* In a start-up scan without a gap both addresses are read up to the same
\* height, and the newest signature found is not beyond it.
StartupInv ==
  Startup =>
    /\ InScanGap => seen["gateway"] = Len(chain)
    /\ scan.addr = "gas" /\ ~InScanGap => seen["gas"] = seen["gateway"]
    /\ scan.newest <= seen["gateway"]
    /\ scan.cursor <= seen[scan.addr]
    /\ pc = "batch" => page.oldest <= page.newest /\ page.newest <= seen[scan.addr]

CheckpointInv ==
  /\ warned = {} /\ gap = {}
  /\ Scanning \/ pc = "send_first" => scan.t1 = latest
  /\ AfterFirst => \A i \in Signatures :
                     chain[i].ok /\ i <= scan.t1 => i \in sent \cup Pending
  /\ latest # NoSig /\ chain[latest].ok => latest \in sent

QuietInv == ListenerInv /\ StartupInv /\ CheckpointInv /\ NoEventMissed

\* A start-up scan in which nothing lands reads both addresses equally far.
LEMMA StartupStep ==
  ASSUME QuietFaults, QuietInv, [Next]_vars
  PROVE  StartupInv'
<1>0. TypeOK /\ TypeOK' /\ StartupInv
  BY TypeStep DEF QuietInv, ListenerInv
<1>t. /\ Len(chain) \in Nat
      /\ \A i \in Signatures : i \in Nat /\ i >= 1 /\ i <= Len(chain)
      /\ scan.newest \in Signatures \cup {NoSig}
      /\ page.newest \in Signatures \cup {NoSig}
      /\ scan.addr \in Addresses
      /\ seen \in [Addresses -> Signatures \cup {0}]
  BY <1>0, Numbers DEF TypeOK
<1> USE DEF Startup, Scanning, InScanGap
<1>1. ASSUME NEW kind \in TxKinds, NEW step \in SlotSteps, Land(kind, step)
      PROVE  StartupInv'
  <2>1. ~InScanGap /\ UNCHANGED <<pc, scan, page, seen>>
    BY <1>1 DEF Land, QuietFaults, task
  <2> QED
    BY <1>0, <2>1 DEF StartupInv
<1>2. CASE UNCHANGED <<chain, pc, scan, seen, page>>
  BY <1>0, <1>2 DEF StartupInv
<1>3. CASE ~Startup'
  BY <1>3 DEF StartupInv
<1>4. ASSUME NEW forced \in Signatures \cup {NoSig}, Start(forced)
      PROVE  StartupInv'
  BY <1>4 DEF Start, BeginScan, StartupInv
<1>5. ASSUME Startup, Startup', UNCHANGED chain,
             NEW newest, NEW slot, LeaveAddress(newest, slot),
             newest \in Signatures \cup {NoSig},
             newest <= seen'["gateway"],
             scan.addr = "gateway" => seen'["gateway"] = Len(chain),
             seen'["gas"] \in Nat
      PROVE  StartupInv'
  <2>1. /\ scan.addr = "gateway" /\ scan'.addr = "gas" /\ pc' = "scan"
        /\ scan'.cursor = NoSig /\ scan'.newest = newest
    BY <1>0, <1>5 DEF LeaveAddress, NextAddress, FinishStartup, FinishCatchUp, TypeOK
  <2> QED
    BY <1>5, <2>1 DEF StartupInv
<1>6. CASE FetchEmptyPage /\ Startup /\ Startup'
  <2>1. /\ UNCHANGED chain
        /\ LeaveAddress(scan.newest, scan.slot)
        /\ seen' \in [Addresses -> Signatures \cup {0}]
    BY <1>0, <1>6 DEF FetchEmptyPage, TypeOK, Signatures
  <2>2. scan.addr = "gateway"
    BY <1>t, <1>6, <2>1 DEF LeaveAddress, NextAddress, FinishStartup, FinishCatchUp
  <2>3. seen'["gateway"] = Len(chain)
    BY <1>0, <1>t, <1>6, <2>2 DEF FetchEmptyPage, SeeChain, StartupInv
  <2> QED
    BY <1>t, <1>5, <1>6, <2>1, <2>3
<1>7. CASE FetchPage /\ Startup
  <2>1. /\ UNCHANGED <<chain, scan>>
        /\ pc = "scan" /\ pc' = "batch"
        /\ page'.oldest \in ScanRange /\ page'.newest \in ScanRange
        /\ page'.oldest <= page'.newest
    BY <1>7 DEF FetchPage
  <2>2. /\ page'.newest \in Nat /\ page'.newest <= Len(chain)
        /\ scan.cursor # NoSig => page'.newest < scan.cursor
    BY <1>t, <2>1 DEF ScanRange, SignaturesForAddress
  <2>3. CASE scan.cursor = NoSig
    <3>1. seen' = [seen EXCEPT ![scan.addr] = Len(chain)]
      BY <1>7, <2>3 DEF FetchPage, SeeChain
    <3> QED
      BY <1>0, <1>t, <1>7, <2>1, <2>2, <2>3, <3>1 DEF StartupInv
  <2>4. CASE scan.cursor # NoSig
    <3>1. seen' = seen
      BY <1>7, <2>4 DEF FetchPage, SeeChain
    <3>2. scan.cursor \in Nat /\ seen[scan.addr] \in Nat
      BY <1>0, Numbers DEF TypeOK
    <3>3. page'.newest <= seen[scan.addr]
      BY <1>0, <1>7, <2>2, <2>4, <3>2 DEF StartupInv
    <3> QED
      BY <1>0, <1>7, <2>1, <2>4, <3>1, <3>3 DEF StartupInv
  <2> QED
    BY <2>3, <2>4
<1>8. CASE PageDone /\ Startup /\ Startup'
  <2> DEFINE n == NewestAfter(scan.newest, scan.slot, page.newest,
                              chain[page.newest].slot)
  <2>1. /\ UNCHANGED <<chain, seen>>
        /\ pc = "batch" /\ page.oldest # NoSig
    BY <1>0, <1>8 DEF PageDone, ghosts, TypeOK
  <2>2. /\ page.newest <= seen[scan.addr] /\ page.oldest <= seen[scan.addr]
        /\ scan.newest <= seen["gateway"] /\ page.newest <= seen["gateway"]
        /\ scan.addr = "gateway" => seen["gateway"] = Len(chain)
        /\ scan.addr = "gas" => seen["gas"] = seen["gateway"]
    <3>1. /\ page.oldest \in Nat /\ page.newest \in Nat
          /\ seen["gateway"] \in Nat /\ seen["gas"] \in Nat
      BY <1>0, <1>t DEF TypeOK
    <3> QED
      BY <1>0, <1>t, <1>8, <2>1, <3>1 DEF StartupInv
  <2>3. n.sig \in {scan.newest, page.newest}
    BY DEF NewestAfter
  <2> HIDE DEF n
  <2>4. CASE LeaveAddress(n.sig, n.slot)
    BY <1>t, <1>5, <1>8, <2>1, <2>2, <2>3, <2>4
  <2>5. CASE /\ scan' = [scan EXCEPT !.cursor = page.oldest, !.newest = n.sig,
                                     !.slot = n.slot]
             /\ pc' = "scan"
    <3>1. /\ scan'.cursor = page.oldest /\ scan'.newest = n.sig
          /\ scan'.addr = scan.addr
      BY <1>0, <2>5 DEF TypeOK
    <3> QED
      BY <1>t, <2>1, <2>2, <2>3, <2>5, <3>1 DEF StartupInv
  <2> QED
    BY <1>8, <2>4, <2>5 DEF PageDone, n
<1>9. ASSUME NEW i \in page.todo, PageTxSent(i) \/ PageTxFailed(i)
      PROVE  StartupInv'
  <2>1. /\ UNCHANGED <<chain, pc, scan, seen>>
        /\ page'.oldest = page.oldest /\ page'.newest = page.newest
    BY <1>0, <1>9 DEF PageTxSent, PageTxFailed, ghosts, TypeOK
  <2> QED
    BY <1>0, <2>1 DEF StartupInv
<1> QED
  <2>1. CASE (FetchEmptyPage \/ FetchPage \/ PageDone) /\ ~Startup
    BY <1>0, <1>3, <2>1 DEF FetchEmptyPage, FetchPage, PageDone, LeaveAddress, NextAddress,
       FinishStartup, FinishCatchUp, TypeOK
  <2>2. CASE Connect \/ SubscribeGas \/ SendFirst \/ Reconnect \/ Crash
    BY <1>3, <2>2 DEF Connect, SubscribeGas, SendFirst, Reconnect, Crash
  <2>3. ASSUME NEW a \in Addresses, FirstItem(a) PROVE StartupInv'
    <3>1. PICK i \in wsq[a] : BeginScan(latest, i)
      BY <2>3 DEF FirstItem
    <3>2. i \in Signatures
      BY <1>0 DEF TypeOK
    <3>3. i # NoSig
      BY <1>t, <3>2
    <3> QED
      BY <1>3, <3>1, <3>3 DEF BeginScan
  <2>4. ASSUME NEW a \in Addresses, PollItem(a) PROVE StartupInv'
    BY <1>2, <2>4 DEF PollItem, ghosts
  <2>5. ASSUME NEW f \in inflight, FetchDone(f) PROVE StartupInv'
    BY <1>2, <2>5 DEF FetchDone, ghosts
  <2>6. CASE UNCHANGED vars
    BY <1>2, <2>6 DEF vars
  <2> QED
    BY <1>1, <1>3, <1>4, <1>6, <1>7, <1>8, <1>9, <2>1, <2>2, <2>3, <2>4, <2>5, <2>6
    DEF Next

\* A start-up scan without a gap has sent everything up to what it found.
LEMMA StartupCovers ==
  ASSUME QuietInv, ListenerInv', UNCHANGED chain, warned' = {}, Startup,
         LeaveAddress(scan'.newest, scan'.slot), pc' = "connect",
         scan'.newest \in Nat, scan'.newest <= seen'["gateway"],
         seen'["gas"] = seen'["gateway"], sent \subseteq sent',
         NEW i \in Signatures, chain[i].ok, i <= scan'.newest
  PROVE  i \in sent'
<1> USE DEF QuietInv, ListenerInv
<1>t. i \in Nat /\ scan.t1 \in Nat /\ seen'["gateway"] \in Nat /\ i \in Signatures'
  <2>1. TypeOK' => seen'["gateway"] \in Nat
    BY DEF TypeOK, Signatures
  <2> QED
    BY <2>1, Numbers DEF Signatures
<1>1. CASE i <= scan.t1
  <2>1. wsq["gateway"] = {} /\ wsq["gas"] = {} /\ inflight = {} /\ first = NoSig
    BY DEF StreamInv, TypeOK, Startup, CatchUp, Scanning
  <2>2. Pending = {}
    BY <2>1 DEF Pending
  <2>3. i \in sent \cup Pending
    BY <1>1 DEF CheckpointInv, NoEventMissed, Startup
  <2> QED
    BY <2>2, <2>3
<1>2. CASE i > scan.t1
  <2>1. PICK a \in Addresses : Mentions(i, a)
    BY ChainType DEF Mentions, Tx
  <2>2. /\ scan'.addr = "gas" /\ scan'.t1 = scan.t1 /\ ~Scanning'
    BY DEF LeaveAddress, NextAddress, FinishStartup, FinishCatchUp, TypeOK, Scanning
  <2>3. Visited(i, a)'
    BY <1>t, <2>2 DEF Visited
  <2>4. Mentions(i, a)'
    BY <2>1 DEF Mentions
  <2>5. Handled(i)'
    BY <1>2, <1>t, <2>2, <2>3, <2>4 DEF ScanLeavesNoHole
  <2> QED
    BY <2>5 DEF Handled
<1> QED
  BY <1>t, <1>1, <1>2

\* A checkpoint moves only past what was sent or is being fetched.
LEMMA CheckpointStep ==
  ASSUME QuietFaults, QuietInv, [Next]_vars
  PROVE  CheckpointInv' /\ NoEventMissed'
<1>0. /\ TypeOK /\ TypeOK' /\ ListenerInv /\ ListenerInv' /\ CatchUpInv
      /\ CheckpointInv /\ NoEventMissed /\ StartupInv
  BY TypeStep, HoleStep, PageStep, CatchUpStep, StreamStep DEF QuietInv, ListenerInv
<1>t. /\ Len(chain) \in Nat
      /\ \A i \in Signatures : i \in Nat /\ i >= 1 /\ i <= Len(chain)
      /\ latest \in Nat /\ scan.t1 \in Nat /\ latest <= Len(chain)
      /\ latest \in Signatures \cup {NoSig}
      /\ scan.t1 \in Signatures \cup {NoSig}
  BY <1>0, Numbers DEF TypeOK
<1> USE DEF AfterFirst, CatchUp, Scanning
<1>w. warned' = {} /\ gap' = {}
  <2>1. ASSUME NEW kind \in TxKinds, NEW step \in SlotSteps, Land(kind, step)
        PROVE  warned' = {} /\ gap' = {}
    BY <1>0, <2>1 DEF Land, QuietFaults, CheckpointInv
  <2>2. ASSUME NEW i \in page.todo, PageTxSent(i) \/ PageTxFailed(i)
        PROVE  warned' = {} /\ gap' = {}
    BY <1>0, <2>2 DEF PageTxSent, PageTxFailed, QuietFaults, CheckpointInv, ghosts
  <2> QED
    BY <1>0, <2>1, <2>2 DEF CheckpointInv, Next, vars, ghosts, Start, FetchEmptyPage,
       FetchPage, PageDone, Connect, SubscribeGas, FirstItem, SendFirst, PollItem,
       FetchDone, Reconnect, Crash
\* Steps that keep the checkpoint and what is held.
<1>1. ASSUME UNCHANGED <<chain, latest>>, sent \subseteq sent',
             \A j \in Pending : j \in Pending' \/ j \in sent',
             Scanning' \/ pc' = "send_first" => scan'.t1 = latest,
             AfterFirst' => scan'.t1 = latest \/ (AfterFirst /\ scan'.t1 = scan.t1)
      PROVE  CheckpointInv' /\ NoEventMissed'
  <2>1. Signatures' = Signatures
    BY <1>1 DEF Signatures
  <2>2. \A i \in Signatures : i \in sent \cup Pending => i \in sent' \cup Pending'
    BY <1>1
  <2> QED
    BY <1>0, <1>1, <1>w, <2>1, <2>2 DEF CheckpointInv, NoEventMissed
\* Steps that drop what is held: nothing held is older than the checkpoint.
<1>2. CASE Reconnect \/ Crash
  <2>1. /\ UNCHANGED <<chain, latest, sent, Signatures>>
        /\ pc' \in {"connect", "down"}
        /\ \A j \in Pending : ~(j < latest)
    BY <1>2 DEF Reconnect, Crash, QuietFaults, Overtaken, Signatures, ghosts
  <2>2. \A i \in Signatures : chain[i].ok /\ i <= latest => i \in sent
    BY <1>0, <1>t, <2>1 DEF NoEventMissed, CheckpointInv
  <2> QED
    BY <1>0, <1>w, <2>1, <2>2 DEF CheckpointInv, NoEventMissed
<1>3. ASSUME NEW kind \in TxKinds, NEW step \in SlotSteps, Land(kind, step)
      PROVE  CheckpointInv' /\ NoEventMissed'
  <2>1. /\ UNCHANGED <<latest, pc, scan, inflight, first, sent>>
        /\ Signatures' = Signatures \cup {Len(chain) + 1}
        /\ \A i \in Signatures : chain'[i] = chain[i]
        /\ \A a \in Addresses : wsq[a] \subseteq wsq'[a]
    BY <1>0, <1>3, LandExtends DEF Land, task
  <2>2. Pending \subseteq Pending'
    BY <2>1 DEF Pending
  <2>3. scan.t1 <= Len(chain)
    BY <1>t
  <2> QED
    BY <1>0, <1>t, <1>w, <2>1, <2>2, <2>3 DEF CheckpointInv, NoEventMissed
<1>4. ASSUME UNCHANGED <<chain, inflight, first, wsq>>, sent \subseteq sent', Scanning,
             NEW newest, NEW slot, LeaveAddress(newest, slot),
             newest \in Signatures \cup {NoSig},
             Startup /\ scan.addr = "gas" =>
               newest <= seen'["gateway"] /\ seen'["gas"] = seen'["gateway"]
      PROVE  CheckpointInv' /\ NoEventMissed'
  <2>1. /\ UNCHANGED <<Signatures, Pending>>
        /\ scan'.t1 = scan.t1 /\ scan'.newest = newest /\ scan'.slot = slot
        /\ scan'.t2 = scan.t2
    BY <1>0, <1>4 DEF LeaveAddress, NextAddress, FinishStartup, FinishCatchUp, TypeOK,
       Pending, Signatures
  <2>2. CASE pc' # "connect"
    <3>1. latest' = latest /\ pc' \in {"scan", "send_first"}
      BY <1>4, <2>2 DEF LeaveAddress, NextAddress, FinishStartup, FinishCatchUp
    <3>2. AfterFirst' => AfterFirst
      BY <1>4, <2>1, <3>1 DEF LeaveAddress, NextAddress, FinishStartup, FinishCatchUp
    <3> QED
      BY <1>0, <1>1, <1>4, <2>1, <3>1, <3>2 DEF CheckpointInv
  <2>3. CASE pc' = "connect"
    <3>1. /\ Startup /\ scan.addr = "gas"
          /\ latest' = IF newest # NoSig THEN newest ELSE latest
      BY <1>4, <2>3 DEF LeaveAddress, NextAddress, FinishStartup, FinishCatchUp, Startup
    <3>2. newest \in Nat
      BY <1>4, <1>t
    <3>3. \A i \in Signatures : chain[i].ok /\ i <= newest => i \in sent'
      BY <1>0, <1>4, <1>w, <2>1, <2>3, <3>1, <3>2, StartupCovers
    <3>4. CASE newest = NoSig
      BY <1>0, <1>4, <1>w, <2>1, <2>3, <3>1, <3>4 DEF CheckpointInv, NoEventMissed
    <3>5. CASE newest # NoSig
      BY <1>4, <1>w, <2>1, <2>3, <3>1, <3>2, <3>3, <3>5 DEF CheckpointInv, NoEventMissed
    <3> QED
      BY <3>4, <3>5
  <2> QED
    BY <2>2, <2>3
<1>5. CASE FetchEmptyPage
  <2>1. /\ UNCHANGED <<chain, inflight, first, sent, wsq>> /\ pc = "scan"
        /\ LeaveAddress(scan.newest, scan.slot)
        /\ scan.newest \in Signatures \cup {NoSig}
    BY <1>0, <1>5 DEF FetchEmptyPage, TypeOK
  <2>2. ASSUME Startup, scan.addr = "gas"
        PROVE  scan.newest <= seen'["gateway"] /\ seen'["gas"] = seen'["gateway"]
    <3>1. seen'["gateway"] = seen["gateway"]
      BY <1>5, <2>2 DEF FetchEmptyPage, SeeChain, TypeOK
    <3>2. seen'["gas"] = seen["gateway"]
      BY <1>0, <1>5, <2>2 DEF FetchEmptyPage, SeeChain, StartupInv, InScanGap, TypeOK
    <3> QED
      BY <1>0, <2>2, <3>1, <3>2 DEF StartupInv
  <2> QED
    BY <1>4, <2>1, <2>2
<1>6. CASE PageDone
  <2> DEFINE n == NewestAfter(scan.newest, scan.slot, page.newest,
                              chain[page.newest].slot)
  <2>1. /\ UNCHANGED <<chain, inflight, first, sent, wsq, seen>> /\ pc = "batch"
        /\ n.sig \in {scan.newest, page.newest}
        /\ {scan.newest, page.newest} \subseteq Signatures \cup {NoSig}
    BY <1>0, <1>6 DEF PageDone, TypeOK, NewestAfter, ghosts
  <2> HIDE DEF n
  <2>2. CASE LeaveAddress(n.sig, n.slot)
    <3>1. ASSUME Startup, scan.addr = "gas"
          PROVE  n.sig <= seen["gateway"] /\ seen["gas"] = seen["gateway"]
      BY <1>0, <2>1, <3>1 DEF StartupInv, InScanGap
    <3> QED
      BY <1>4, <2>1, <2>2, <3>1
  <2>3. CASE /\ scan' = [scan EXCEPT !.cursor = page.oldest, !.newest = n.sig,
                                     !.slot = n.slot]
             /\ pc' = "scan" /\ UNCHANGED latest
    <3>1. scan'.t1 = scan.t1 /\ scan'.t2 = scan.t2 /\ Pending' = Pending
      BY <1>0, <2>1, <2>3 DEF TypeOK, Pending
    <3> QED
      BY <1>0, <1>1, <2>1, <2>3, <3>1 DEF CheckpointInv
  <2> QED
    BY <1>6, <2>2, <2>3 DEF PageDone, n
<1>7. ASSUME NEW f \in inflight, FetchDone(f)
      PROVE  CheckpointInv' /\ NoEventMissed'
  <2>1. /\ UNCHANGED <<chain, Signatures, scan, wsq, first>>
        /\ pc = "realtime" /\ pc' = "realtime"
        /\ sent' = sent \cup {f[1]} /\ latest' = f[1]
        /\ inflight' = inflight \ {f}
    BY <1>7 DEF FetchDone, Signatures, ghosts
  <2>2. \A j \in Pending : j \in Pending' \/ j \in sent'
    BY <2>1 DEF Pending
  <2>3. \A i \in Signatures : chain[i].ok /\ i <= scan.t1 => i \in sent \cup Pending
    BY <1>0, <2>1 DEF CheckpointInv
  <2>4. \A i \in Signatures : chain[i].ok /\ i > scan.t1 => i \in sent \cup Pending
    BY <1>0, <2>1, LosslessState DEF ConnectionLossless, CheckpointInv, Handled
  <2>5. \A i \in Signatures : chain[i].ok => i \in sent' \cup Pending'
    BY <1>t, <2>1, <2>2, <2>3, <2>4
  <2> QED
    BY <1>0, <1>w, <2>1, <2>5 DEF CheckpointInv, NoEventMissed
<1>8. ASSUME NEW a \in Addresses, FirstItem(a)
      PROVE  CheckpointInv' /\ NoEventMissed'
  <2>1. PICK i \in wsq[a] : /\ wsq' = [wsq EXCEPT ![a] = wsq[a] \ {i}]
                           /\ first' = i
                           /\ BeginScan(latest, i)
    BY <1>8 DEF FirstItem
  <2>2. wsq \in [Addresses -> SUBSET Signatures]
    BY <1>0 DEF TypeOK
  <2>3. i \in Nat /\ i # NoSig
    BY <1>t, <2>2
  <2>4. \A b \in Addresses : wsq[b] \subseteq wsq'[b] \cup {i}
    BY <2>1, <2>2
  <2>5. UNCHANGED <<chain, latest, sent, inflight>> /\ first = NoSig
    BY <1>0, <1>8 DEF FirstItem, TypeOK
  <2>6. i \in Pending'
    BY <2>1, <2>3 DEF Pending
  <2>7. \A j \in Pending : j \in Pending'
    BY <2>4, <2>5, <2>6 DEF Pending
  <2> QED
    BY <1>1, <2>1, <2>5, <2>7 DEF BeginScan
<1>9. ASSUME NEW a \in Addresses, PollItem(a)
      PROVE  CheckpointInv' /\ NoEventMissed'
  <2>1. PICK i \in wsq[a] : /\ wsq' = [wsq EXCEPT ![a] = wsq[a] \ {i}]
                           /\ inflight' = inflight \cup {<<i, a>>}
    BY <1>9 DEF PollItem
  <2>2. wsq \in [Addresses -> SUBSET Signatures]
    BY <1>0 DEF TypeOK
  <2>3. \A b \in Addresses : wsq[b] \subseteq wsq'[b] \cup {i}
    BY <2>1, <2>2
  <2>4. i \in Pending'
    <3>1. <<i, a>> \in inflight' /\ <<i, a>>[1] = i
      BY <2>1
    <3> QED
      BY <3>1 DEF Pending
  <2>5. UNCHANGED <<chain, latest, sent, first, scan, pc>> /\ pc = "realtime"
    BY <1>9 DEF PollItem
  <2>6. \A j \in Pending : j \in Pending'
    BY <2>1, <2>3, <2>4, <2>5 DEF Pending
  <2> QED
    BY <1>1, <2>5, <2>6
<1>10. CASE SendFirst
  <2>1. \A j \in Pending : j \in Pending' \/ j \in sent'
    BY <1>10 DEF SendFirst, Pending
  <2> QED
    BY <1>0, <1>1, <1>10, <2>1 DEF SendFirst, CheckpointInv
<1>11. ASSUME UNCHANGED <<chain, latest, wsq, inflight, first>>, sent \subseteq sent',
              \/ UNCHANGED <<scan, pc>>
              \/ pc' \in {"sub_gas", "first"}
              \/ pc = "scan" /\ pc' = "batch" /\ UNCHANGED scan
       PROVE  CheckpointInv' /\ NoEventMissed'
  <2>1. Pending' = Pending
    BY <1>11 DEF Pending
  <2> QED
    BY <1>0, <1>1, <1>11, <2>1 DEF CheckpointInv
<1>12. ASSUME NEW forced \in Signatures \cup {NoSig}, Start(forced)
       PROVE  CheckpointInv' /\ NoEventMissed'
  <2>1. /\ forced = NoSig
        /\ UNCHANGED <<chain, wsq, inflight, first, sent>>
        /\ latest' = latest
    BY <1>12 DEF Start, QuietFaults
  <2>2. scan'.t1 = latest /\ scan'.t2 = NoSig /\ pc' = "scan" /\ Pending' = Pending
    BY <1>12, <2>1 DEF Start, BeginScan, Pending
  <2> QED
    BY <1>1, <2>1, <2>2
<1> QED
  <2>1. CASE FetchPage
    BY <1>11, <2>1 DEF FetchPage
  <2>2. ASSUME NEW i \in page.todo, PageTxSent(i) \/ PageTxFailed(i)
        PROVE  CheckpointInv' /\ NoEventMissed'
    BY <1>11, <2>2 DEF PageTxSent, PageTxFailed
  <2>3. CASE Connect \/ SubscribeGas
    BY <1>11, <2>3 DEF Connect, SubscribeGas
  <2>4. CASE UNCHANGED vars
    BY <1>11, <2>4 DEF vars
  <2> QED
    BY <1>2, <1>3, <1>5, <1>6, <1>7, <1>8, <1>9, <1>10, <1>12, <2>1, <2>2, <2>3, <2>4
    DEF Next

\* Every step keeps the strengthened invariant.
LEMMA QuietStep == QuietFaults /\ QuietInv /\ [Next]_vars => QuietInv'
BY TypeStep, HoleStep, PageStep, CatchUpStep, StreamStep, StartupStep, CheckpointStep
DEF QuietInv, ListenerInv

\* At first there is no checkpoint and nothing to miss.
LEMMA QuietInit == Init => QuietInv
BY ListenerInit DEF Init, QuietInv, StartupInv, CheckpointInv, NoEventMissed,
   Startup, Scanning, AfterFirst, CatchUp, Signatures

\* The checkpoint never passes an event that is neither sent nor held.
THEOREM CheckpointSafe == QuietFaults => (Spec => []NoEventMissed)
<1> SUFFICES ASSUME QuietFaults PROVE Spec => []NoEventMissed
  OBVIOUS
<1>1. QuietInv => NoEventMissed
  BY DEF QuietInv
<1> QED
  BY <1>1, QuietInit, QuietStep, PTL DEF Spec

-----------------------------------------------------------------------------
(* Under the same condition the listener implements the abstract feed.     *)

\* With no event missed, the abstract status depends on the chain and on what
\* was sent alone.
LEMMA StatusSimple ==
  ASSUME QuietInv, NEW i \in 1..MaxTx
  PROVE  Status(i) = IF ~Landed(i) THEN "unseen"
                     ELSE IF i \in sent THEN "delivered" ELSE "outstanding"
<1>1. ASSUME Landed(i), i \notin sent PROVE i > latest \/ i \in Pending
  BY <1>1, Numbers DEF QuietInv, ListenerInv, NoEventMissed, Landed
<1> QED
  BY <1>1 DEF Status

\* Every step happens, delivers one event, or leaves every status alone.
LEMMA FeedStep ==
  ASSUME QuietFaults, QuietInv, [Next]_vars
  PROVE  [Feed!Next]_[i \in 1..MaxTx |-> Status(i)]
<1> DEFINE status == [i \in 1..MaxTx |-> Status(i)]
<1>0. QuietInv' /\ TypeOK /\ TypeOK'
  BY QuietStep DEF QuietInv, ListenerInv
<1>1. \A i \in 1..MaxTx :
        status[i] = IF ~Landed(i) THEN "unseen"
                    ELSE IF i \in sent THEN "delivered" ELSE "outstanding"
  BY StatusSimple
<1>2. \A i \in 1..MaxTx :
        status'[i] = IF ~Landed(i)' THEN "unseen"
                     ELSE IF i \in sent' THEN "delivered" ELSE "outstanding"
  <2>1. ASSUME NEW i \in 1..MaxTx
        PROVE  Status(i)' = IF ~Landed(i)' THEN "unseen"
                            ELSE IF i \in sent' THEN "delivered" ELSE "outstanding"
    <3>1. ASSUME Landed(i)', i \notin sent' PROVE i > latest' \/ i \in Pending'
      <4>1. /\ \A j \in Signatures' : chain'[j].ok /\ j <= latest' => j \in sent' \cup Pending'
            /\ i \in Signatures' /\ chain'[i].ok
        BY <1>0, <3>1 DEF QuietInv, NoEventMissed, Landed
      <4>2. latest' \in Nat /\ i \in Nat
        <5>1. latest' \in Signatures' \cup {NoSig} /\ Len(chain') \in Nat
          BY <1>0 DEF TypeOK
        <5> QED
          BY <5>1 DEF Signatures
      <4> QED
        BY <3>1, <4>1, <4>2
    <3> QED
      BY <3>1 DEF Status
  <2> QED
    BY <2>1
<1>3. /\ status = [i \in 1..MaxTx |-> status[i]]
      /\ status' = [i \in 1..MaxTx |-> status'[i]]
  OBVIOUS
<1> HIDE DEF status
<1>4. ASSUME NEW kind \in TxKinds, NEW step \in SlotSteps, Land(kind, step)
      PROVE  Feed!Next \/ status' = status
  <2>0. Len(chain) \in Nat /\ MaxTx \in Nat
    BY <1>0, Numbers, ListenerAssumption
  <2>1. PICK e \in 1..MaxTx : e = Len(chain) + 1
    BY <1>4, <2>0 DEF Land
  <2>2. /\ sent' = sent /\ sent \subseteq Signatures
        /\ \A i \in 1..MaxTx : i # e => (Landed(i)' <=> Landed(i))
        /\ ~Landed(e)
        /\ e \notin Signatures
    BY <1>0, <1>4, <2>0, <2>1, LandExtends DEF Land, Landed, Signatures, TypeOK
  <2>3. CASE Landed(e)'
    <3>1. status[e] = "unseen" /\ status'[e] = "outstanding"
      BY <1>1, <1>2, <2>2, <2>3
    <3>2. \A i \in 1..MaxTx : i # e => status'[i] = status[i]
      BY <1>1, <1>2, <2>2
    <3>3. status' = [status EXCEPT ![e] = "outstanding"]
      BY <1>3, <3>1, <3>2
    <3> QED
      BY <3>1, <3>3 DEF Feed!Next, Feed!Happen, status
  <2>4. CASE ~Landed(e)'
    <3>1. \A i \in 1..MaxTx : status'[i] = status[i]
      BY <1>1, <1>2, <2>2, <2>4
    <3> QED
      BY <1>3, <3>1
  <2> QED
    BY <2>3, <2>4
<1>5. ASSUME NEW e \in Signatures, UNCHANGED chain, sent' = sent \cup {e}
      PROVE  Feed!Next \/ status' = status
  <2>1. \A i \in 1..MaxTx : Landed(i)' <=> Landed(i)
    BY <1>5 DEF Landed, Signatures
  <2>2. CASE e \in 1..MaxTx /\ status[e] = "outstanding"
    <3>1. Landed(e)
      BY <1>1, <2>2
    <3>2. status'[e] = "delivered"
      BY <1>2, <1>5, <2>1, <2>2, <3>1
    <3>3. \A i \in 1..MaxTx : i # e => status'[i] = status[i]
      BY <1>1, <1>2, <1>5, <2>1
    <3>4. status' = [status EXCEPT ![e] = "delivered"]
      BY <1>3, <2>2, <3>2, <3>3
    <3> QED
      BY <2>2, <3>4 DEF Feed!Next, Feed!Deliver, status
  <2>3. CASE ~(e \in 1..MaxTx /\ status[e] = "outstanding")
    <3>1. \A i \in 1..MaxTx : status'[i] = status[i]
      BY <1>1, <1>2, <1>5, <2>1, <2>3
    <3> QED
      BY <1>3, <3>1
  <2> QED
    BY <2>2, <2>3
<1>6. ASSUME UNCHANGED <<chain, sent>>
      PROVE  status' = status
  <2>1. \A i \in 1..MaxTx : Landed(i)' <=> Landed(i)
    BY <1>6 DEF Landed, Signatures
  <2>2. \A i \in 1..MaxTx : status'[i] = status[i]
    BY <1>1, <1>2, <1>6, <2>1
  <2> QED
    BY <1>3, <2>2
<1>7. Feed!Next \/ status' = status
  <2>1. ASSUME NEW i \in page.todo, PageTxSent(i) \/ PageTxFailed(i)
        PROVE  Feed!Next \/ status' = status
    <3>1. i \in Signatures
      BY <1>0 DEF TypeOK
    <3> QED
      BY <1>5, <1>6, <2>1, <3>1 DEF PageTxSent, PageTxFailed
  <2>2. CASE SendFirst
    <3>1. first \in Signatures
      BY <1>0, <2>2 DEF SendFirst, TypeOK
    <3> QED
      BY <1>5, <2>2, <3>1 DEF SendFirst
  <2>3. ASSUME NEW f \in inflight, FetchDone(f) PROVE Feed!Next \/ status' = status
    <3>1. f[1] \in Signatures
      BY <1>0 DEF TypeOK
    <3> QED
      BY <1>5, <2>3, <3>1 DEF FetchDone
  <2> QED
    BY <1>4, <1>6, <2>1, <2>2, <2>3 DEF Next, vars, Start, FetchEmptyPage, FetchPage,
       PageDone, Connect, SubscribeGas, FirstItem, PollItem, Reconnect, Crash
<1> QED
  BY <1>7 DEF status

\* The listener never drops an event: it implements the at-least-once feed.
THEOREM ListenerImplementsFeed == QuietFaults => (Spec => Feed!Spec)
<1> SUFFICES ASSUME QuietFaults PROVE Spec => Feed!Spec
  OBVIOUS
<1>1. Init => Feed!Init
  BY DEF Init, Feed!Init, Status, Landed, Signatures
<1>2. QuietInv /\ [Next]_vars => [Feed!Next]_[i \in 1..MaxTx |-> Status(i)]
  BY FeedStep
<1> QED
  BY <1>1, <1>2, QuietInit, QuietStep, PTL DEF Spec, Feed!Spec
=============================================================================
