--------------------------- MODULE SolanaListener ---------------------------
(***************************************************************************)
(* The Solana listener (crates/solana-listener): one asynchronous task     *)
(* that turns the transactions of two accounts, the gateway program and    *)
(* the gas service's config PDA, into a stream of fetched transactions.    *)
(* On start it scans the history page by page over HTTP; then it           *)
(* subscribes to both accounts over one WebSocket connection, scans once   *)
(* more what landed up to the first item received, and from there fetches  *)
(* each notified transaction concurrently.  The signature it stores on     *)
(* disk after each transaction (`latest') is where the next scan begins.   *)
(*                                                                         *)
(* A signature is its position in the finalized chain; 0 is "no            *)
(* signature", the same sentinel the state file uses.                      *)
(***************************************************************************)
EXTENDS Integers, FiniteSets, Sequences

CONSTANTS
  Limit,      \* LIMIT: the signatures one RPC page may hold
  MaxTx,      \* bound: the transactions that land on the chain
  TxKinds,    \* the transactions that may land: [mentions, ok] records
  SlotSteps,  \* by how much the slot may grow from one transaction to the next
  Faults      \* the events of the environment this instance permits

FaultKinds == {"scan_gap", "sub_gap", "drop", "batch_error", "crash", "ws_end",
               "force"}
Addresses  == {"gateway", "gas"}
NoSig      == 0
NoSlot     == 0

ASSUME ListenerAssumption ==
  /\ Limit \in Nat \ {0}
  /\ MaxTx \in Nat
  /\ TxKinds \subseteq [mentions : (SUBSET Addresses) \ {{}}, ok : BOOLEAN]
  /\ SlotSteps \subseteq Nat
  /\ Faults \subseteq FaultKinds

VARIABLES
  chain,    \* the finalized transactions mentioning a monitored address
  latest,   \* latest_processed_signature: the only state that survives a crash
  pc,       \* where the listener task stands
  scan,     \* the locals of fetch_batches_in_range
  page,     \* the locals of SignatureRangeFetcher::fetch
  wsq,      \* per subscription, the notifications not yet polled
  inflight, \* FuturesUnordered: <<signature, subscription>> being fetched
  first,    \* the first item received on the current connection
  sent,     \* history: every signature put on the channel
  warned,   \* history: signatures whose fetch failed inside a page
  seen,     \* history: the end of the chain when each address's scan began
  gap       \* history: what landed between the two subscriptions

task == <<latest, pc, scan, page, inflight, first>>
ghosts == <<seen, gap>>
vars == <<chain, latest, pc, scan, page, wsq, inflight, first,
          sent, warned, seen, gap>>

-----------------------------------------------------------------------------
(* The chain and the RPC node.                                             *)

Signatures == 1..Len(chain)
Mentions(i, a) == a \in chain[i].mentions

\* getSignaturesForAddress: strictly older than `before', strictly newer than
\* `until', failed transactions included.
SignaturesForAddress(a, before, until) ==
  {i \in Signatures : /\ Mentions(i, a)
                      /\ i > until
                      /\ before # NoSig => i < before}

\* A page is the newest Limit signatures of the range, or all of a smaller one.
PageFrom(range, oldest) == {i \in range : i >= oldest}
IsPage(range, p) == \/ Cardinality(p) = Limit
                    \/ Cardinality(p) < Limit /\ p = range

NoPage == [sigs |-> {}, todo |-> {}, oldest |-> NoSig, newest |-> NoSig]
NoScan == [addr |-> "gateway", t1 |-> NoSig, t2 |-> NoSig, cursor |-> NoSig,
           newest |-> NoSig, slot |-> NoSlot]

Scanning == pc \in {"scan", "batch"}
Startup  == Scanning /\ scan.t2 = NoSig
CatchUp  == Scanning /\ scan.t2 # NoSig

Subscribed(a) ==
  \/ pc \in {"first", "send_first", "realtime"} \/ CatchUp
  \/ pc = "sub_gas" /\ a = "gateway"

\* What the running task still holds in memory for a transaction.
Pending == wsq["gateway"] \cup wsq["gas"] \cup {f[1] : f \in inflight}
             \cup (IF first = NoSig THEN {} ELSE {first})

\* The checkpoint has overtaken a transaction that is still only in memory.
Overtaken == \E i \in Pending : i < latest

-----------------------------------------------------------------------------
Init ==
  /\ chain = <<>>
  /\ latest = NoSig
  /\ pc = "down"
  /\ scan = NoScan
  /\ page = NoPage
  /\ wsq = [a \in Addresses |-> {}]
  /\ inflight = {}
  /\ first = NoSig
  /\ sent = {}
  /\ warned = {}
  /\ seen = [a \in Addresses |-> 0]
  /\ gap = {}

\* Between the first pages of the two addresses of a start-up scan.
InScanGap ==
  /\ Startup
  /\ \/ scan.addr = "gateway" /\ (pc = "batch" \/ scan.cursor # NoSig)
     \/ scan.addr = "gas" /\ pc = "scan" /\ scan.cursor = NoSig

\* A transaction is finalized; the node notifies the subscriptions it matches.
\* Failed transactions are filtered out of the stream before anything sees them.
Land(kind, step) ==
  /\ Len(chain) < MaxTx
  /\ InScanGap => "scan_gap" \in Faults
  /\ pc = "sub_gas" => "sub_gap" \in Faults
  /\ LET sig  == Len(chain) + 1
         slot == step + (IF chain = <<>> THEN 1 ELSE chain[Len(chain)].slot)
     IN /\ chain' = Append(chain, [mentions |-> kind.mentions, ok |-> kind.ok,
                                   slot |-> slot])
        /\ wsq' = [a \in Addresses |->
                     IF Subscribed(a) /\ a \in kind.mentions /\ kind.ok
                       THEN wsq[a] \cup {sig} ELSE wsq[a]]
        /\ gap' = IF pc = "sub_gas" /\ "gateway" \notin kind.mentions
                    THEN gap \cup {sig} ELSE gap
  /\ UNCHANGED <<task, sent, warned, seen>>

-----------------------------------------------------------------------------
(* fetch_batches_in_range: page by page, first one address, then the other.*)

BeginScan(t1, t2) ==
  /\ pc' = "scan"
  /\ scan' = [addr |-> "gateway", t1 |-> t1, t2 |-> t2, cursor |-> t2,
              newest |-> t2, slot |-> NoSlot]
  /\ seen' = [a \in Addresses |-> IF t2 = NoSig THEN 0 ELSE t2 - 1]

\* FORCE_LAST_PROCESSED_SIGNATURE, when set, first replaces the checkpoint.
Start(forced) ==
  /\ pc = "down"
  /\ forced # NoSig => "force" \in Faults
  /\ latest' = IF forced # NoSig THEN forced ELSE latest
  /\ BeginScan(latest', NoSig)
  /\ UNCHANGED <<chain, page, wsq, inflight, first, sent, warned, gap>>

\* The three-way match that tracks the newest signature over all pages.
NewestAfter(newest, slot, new, newSlot) ==
  CASE newest = NoSig /\ slot = NoSlot -> [sig |-> new, slot |-> newSlot]
    [] newest # NoSig /\ slot = NoSlot -> [sig |-> newest, slot |-> slot]
    [] OTHER -> [sig |-> IF slot < newSlot THEN new ELSE newest, slot |-> slot]

NextAddress(newest, slot) ==
  /\ scan.addr = "gateway"
  /\ scan' = [scan EXCEPT !.addr = "gas", !.cursor = scan.t2,
                          !.newest = newest, !.slot = slot]
  /\ pc' = "scan"
  /\ UNCHANGED latest

\* The start-up scan's result becomes the checkpoint.
FinishStartup(newest, slot) ==
  /\ scan.addr = "gas" /\ scan.t2 = NoSig
  /\ scan' = [scan EXCEPT !.newest = newest, !.slot = slot]
  /\ latest' = IF newest # NoSig THEN newest ELSE latest
  /\ pc' = "connect"

\* The catch-up scan's result is discarded.
FinishCatchUp(newest, slot) ==
  /\ scan.addr = "gas" /\ scan.t2 # NoSig
  /\ scan' = [scan EXCEPT !.newest = newest, !.slot = slot]
  /\ pc' = "send_first"
  /\ UNCHANGED latest

LeaveAddress(newest, slot) == \/ NextAddress(newest, slot)
                              \/ FinishStartup(newest, slot)
                              \/ FinishCatchUp(newest, slot)

\* Variant: the range starts one signature too late.
ScanRangeSkippingOldest == SignaturesForAddress(scan.addr, scan.cursor, scan.t1 + 1)

\* What is left to fetch of an address: older than the last page, newer than t1.
ScanRange == SignaturesForAddress(scan.addr, scan.cursor, scan.t1)

SeeChain == seen' = IF scan.cursor = NoSig
                      THEN [seen EXCEPT ![scan.addr] = Len(chain)] ELSE seen

FetchEmptyPage ==
  /\ pc = "scan"
  /\ ScanRange = {}
  /\ LeaveAddress(scan.newest, scan.slot)
  /\ SeeChain
  /\ UNCHANGED <<chain, page, wsq, inflight, first, sent, warned, gap>>

FetchPage ==
  /\ pc = "scan"
  /\ \E oldest, newest \in ScanRange :
       /\ \A i \in ScanRange : i <= newest
       /\ IsPage(ScanRange, PageFrom(ScanRange, oldest))
       /\ LET sigs == PageFrom(ScanRange, oldest)
          IN page' = [sigs |-> sigs, todo |-> {i \in sigs : chain[i].ok},
                      oldest |-> oldest, newest |-> newest]
  /\ pc' = "batch"
  /\ SeeChain
  /\ UNCHANGED <<chain, latest, scan, wsq, inflight, first, sent, warned, gap>>

\* fetch_and_send: the page's transactions are fetched concurrently and each
\* successful one is sent ...
PageTxSent(i) ==
  /\ pc = "batch" /\ i \in page.todo
  /\ page' = [page EXCEPT !.todo = page.todo \ {i}]
  /\ sent' = sent \cup {i}
  /\ UNCHANGED <<chain, latest, pc, scan, wsq, inflight, first, warned, ghosts>>

\* ... but one whose fetch errs is only logged.
PageTxFailed(i) ==
  /\ "batch_error" \in Faults
  /\ pc = "batch" /\ i \in page.todo
  /\ page' = [page EXCEPT !.todo = page.todo \ {i}]
  /\ warned' = warned \cup {i}
  /\ UNCHANGED <<chain, latest, pc, scan, wsq, inflight, first, sent, ghosts>>

\* Variant: a full page is taken for the last one.
CompletedWhenFull(sigs) == Cardinality(sigs) <= Limit

Completed(sigs) == Cardinality(sigs) < Limit

PageDone ==
  /\ pc = "batch" /\ page.todo = {}
  /\ LET n == NewestAfter(scan.newest, scan.slot, page.newest,
                          chain[page.newest].slot)
     IN \/ Completed(page.sigs) /\ LeaveAddress(n.sig, n.slot)
        \/ /\ ~Completed(page.sigs)
           /\ scan' = [scan EXCEPT !.cursor = page.oldest, !.newest = n.sig,
                                   !.slot = n.slot]
           /\ pc' = "scan"
           /\ UNCHANGED latest
  /\ page' = NoPage
  /\ UNCHANGED <<chain, wsq, inflight, first, sent, warned, ghosts>>

-----------------------------------------------------------------------------
(* process_realtime_logs.                                                  *)

\* A new WebSocket connection, subscribed to the gateway.
Connect ==
  /\ pc = "connect"
  /\ pc' = "sub_gas"
  /\ gap' = {}
  /\ UNCHANGED <<chain, latest, scan, page, wsq, inflight, first, sent, warned,
                 seen>>

SubscribeGas ==
  /\ pc = "sub_gas"
  /\ pc' = "first"
  /\ UNCHANGED <<chain, latest, scan, page, wsq, inflight, first, sent, warned,
                 ghosts>>

IsHead(i, a) == i \in wsq[a] /\ \A j \in wsq[a] : i <= j

\* Variant: the first item becomes the checkpoint before its catch-up has run.
FirstItemStored(a) ==
  /\ pc = "first"
  /\ \E i \in wsq[a] : /\ IsHead(i, a)
                       /\ wsq' = [wsq EXCEPT ![a] = wsq[a] \ {i}]
                       /\ first' = i
                       /\ latest' = i
                       /\ BeginScan(latest, i)
  /\ UNCHANGED <<chain, page, inflight, sent, warned, gap>>

\* The first item triggers the scan of what landed since the checkpoint.
FirstItem(a) ==
  /\ pc = "first"
  /\ \E i \in wsq[a] : /\ IsHead(i, a)
                       /\ wsq' = [wsq EXCEPT ![a] = wsq[a] \ {i}]
                       /\ first' = i
                       /\ BeginScan(latest, i)
  /\ UNCHANGED <<chain, latest, page, inflight, sent, warned, gap>>

\* Variant: the first item only delimits the catch-up and is never sent.
SendFirstForgotten ==
  /\ pc = "send_first"
  /\ first' = NoSig
  /\ pc' = "realtime"
  /\ UNCHANGED <<chain, latest, scan, page, wsq, inflight, sent, warned, ghosts>>

\* The first item is sent but never stored as the checkpoint.
SendFirst ==
  /\ pc = "send_first"
  /\ sent' = sent \cup {first}
  /\ first' = NoSig
  /\ pc' = "realtime"
  /\ UNCHANGED <<chain, latest, scan, page, wsq, inflight, warned, ghosts>>

\* Variant: the combined stream never reaches its second half.
PollGatewayOnly(a) ==
  /\ a = "gateway"
  /\ pc = "realtime"
  /\ \E i \in wsq[a] : /\ IsHead(i, a)
                       /\ wsq' = [wsq EXCEPT ![a] = wsq[a] \ {i}]
                       /\ inflight' = inflight \cup {<<i, a>>}
  /\ UNCHANGED <<chain, latest, pc, scan, page, first, sent, warned, ghosts>>

\* A notification is polled: its transaction's fetch joins the others.
PollItem(a) ==
  /\ pc = "realtime"
  /\ \E i \in wsq[a] : /\ IsHead(i, a)
                       /\ wsq' = [wsq EXCEPT ![a] = wsq[a] \ {i}]
                       /\ inflight' = inflight \cup {<<i, a>>}
  /\ UNCHANGED <<chain, latest, pc, scan, page, first, sent, warned, ghosts>>

\* Some fetch completes, in any order: send it, then store it.  Sending on an
\* unbounded channel never waits, so that both are one poll of the task; the
\* channel is memory, and a process that dies between them loses the item with
\* the checkpoint not yet stored.
FetchDone(f) ==
  /\ pc = "realtime"
  /\ f \in inflight
  /\ inflight' = inflight \ {f}
  /\ sent' = sent \cup {f[1]}
  /\ latest' = f[1]
  /\ UNCHANGED <<chain, pc, scan, page, wsq, first, warned, ghosts>>

\* Variant: the first item outlives the connection.
DropKeepingFirst ==
  /\ wsq' = [a \in Addresses |-> {}]
  /\ inflight' = {}
  /\ first' = first
  /\ scan' = NoScan
  /\ page' = NoPage

DropConnection ==
  /\ wsq' = [a \in Addresses |-> {}]
  /\ inflight' = {}
  /\ first' = NoSig
  /\ scan' = NoScan
  /\ page' = NoPage

\* Either stream ended, or a fetch failed: `continue 'outer'.  The stream and
\* the futures it owns are dropped with whatever they still held.
Reconnect ==
  /\ "ws_end" \in Faults
  /\ pc \in {"first", "realtime"}
  /\ Overtaken => "drop" \in Faults
  /\ DropConnection
  /\ pc' = "connect"
  /\ UNCHANGED <<chain, latest, sent, warned, ghosts>>

\* An error returned with `?', or the end of the process.
Crash ==
  /\ "crash" \in Faults
  /\ pc # "down"
  /\ Overtaken => "drop" \in Faults
  /\ DropConnection
  /\ pc' = "down"
  /\ UNCHANGED <<chain, latest, sent, warned, ghosts>>

-----------------------------------------------------------------------------
Next ==
  \/ \E kind \in TxKinds, step \in SlotSteps : Land(kind, step)
  \/ \E forced \in Signatures \cup {NoSig} : Start(forced)
  \/ FetchEmptyPage
  \/ FetchPage
  \/ \E i \in page.todo : PageTxSent(i) \/ PageTxFailed(i)
  \/ PageDone
  \/ Connect
  \/ SubscribeGas
  \/ \E a \in Addresses : FirstItem(a)
  \/ SendFirst
  \/ \E a \in Addresses : PollItem(a)
  \/ \E f \in inflight : FetchDone(f)
  \/ Reconnect
  \/ Crash

Spec == Init /\ [][Next]_vars

\* The task is started, and runs whenever it can; both streams and every
\* future of the set are polled.  Nothing obliges the chain to grow.
Fairness ==
  /\ WF_vars(Start(NoSig))
  /\ WF_vars(FetchEmptyPage \/ FetchPage \/ PageDone)
  /\ WF_vars(Connect) /\ WF_vars(SubscribeGas) /\ WF_vars(SendFirst)
  /\ WF_vars(\E a \in Addresses : FirstItem(a))
  /\ \A a \in Addresses : WF_vars(PollItem(a))
  /\ \A i \in 1..MaxTx : WF_vars(PageTxSent(i))
  /\ \A i \in 1..MaxTx, a \in Addresses : WF_vars(FetchDone(<<i, a>>))

FairSpec == Spec /\ Fairness

-----------------------------------------------------------------------------
(* Properties.                                                             *)

\* The state's types, and what holds of the locals wherever the task stands:
\* signatures refer to the chain, a page is open only in `batch', the first
\* item is held exactly while its catch-up runs.
TypeOK ==
  /\ chain \in Seq([mentions : (SUBSET Addresses) \ {{}}, ok : BOOLEAN,
                     slot : Nat \ {0}])
  /\ latest \in Signatures \cup {NoSig}
  /\ pc \in {"down", "scan", "batch", "connect", "sub_gas", "first",
             "send_first", "realtime"}
  /\ scan \in [addr : Addresses, t1 : Signatures \cup {NoSig},
               t2 : Signatures \cup {NoSig}, cursor : Signatures \cup {NoSig},
               newest : Signatures \cup {NoSig}, slot : Nat]
  /\ page \in [sigs : SUBSET Signatures, todo : SUBSET Signatures,
               oldest : Signatures \cup {NoSig}, newest : Signatures \cup {NoSig}]
  /\ wsq \in [Addresses -> SUBSET Signatures]
  /\ inflight \subseteq Signatures \X Addresses
  /\ first \in Signatures \cup {NoSig}
  /\ sent \subseteq Signatures
  /\ warned \subseteq Signatures
  /\ seen \in [Addresses -> Signatures \cup {0}]
  /\ gap \subseteq Signatures
  /\ pc = "batch" => page.newest # NoSig /\ page.oldest # NoSig
  /\ pc # "batch" => page = NoPage
  /\ CatchUp \/ pc = "send_first" <=> first # NoSig

Handled(i) == ~chain[i].ok \/ i \in sent \cup warned

\* What the scan has gone past for address a.
Visited(i, a) ==
  /\ i <= seen[a]
  /\ \/ Scanning /\ a = scan.addr /\ scan.cursor # NoSig /\ i >= scan.cursor
     \/ a = "gateway" /\ scan.addr = "gas"
     \/ ~Scanning /\ scan.addr = "gas"

\* Paging backwards while the chain grows leaves no hole: whatever an address's
\* scan has gone past since t1 was sent, failed on chain, or was logged.
ScanLeavesNoHole ==
  \A i \in Signatures, a \in Addresses :
    Mentions(i, a) /\ i > scan.t1 /\ Visited(i, a) => Handled(i)

\* A connection that finished its catch-up accounts for every successful
\* transaction since the checkpoint it started from, under every fault, except
\* one that landed between the two subscriptions and after the first item.
ConnectionLossless ==
  pc \in {"send_first", "realtime"} =>
    \A i \in Signatures :
      i > scan.t1 /\ ~(i \in gap /\ i > scan.t2) => Handled(i) \/ i \in Pending

\* No event at or before the checkpoint is missed: it was sent, or the running
\* task still holds it.
NoEventMissed ==
  \A i \in Signatures :
    chain[i].ok /\ i <= latest => i \in sent \cup Pending

\* fetch_batches_in_range returns the chronologically newest signature.
ScanReturnsNewest ==
  pc = "connect" /\ scan.addr = "gas" =>
    \A i \in Signatures, a \in Addresses :
      Mentions(i, a) /\ i > scan.t1 /\ i <= seen[a]
        => scan.newest # NoSig /\ chain[i].slot <= chain[scan.newest].slot

\* While one connection lasts, every successful transaction is sent, unless
\* the listener waits for a first item that never comes.
AwaitingFirst == pc = "first" /\ wsq["gateway"] \cup wsq["gas"] = {}
Landed(i) == i \in Signatures /\ chain[i].ok
EventuallySent ==
  <>[](pc \notin {"connect", "down"}) =>
    \A i \in 1..MaxTx : [](Landed(i) => <>(i \in sent \/ []AwaitingFirst))

\* An event is outstanding while the task holds it or a later scan, which
\* starts at the checkpoint, will reach it.
Status(i) == CASE ~Landed(i) -> "unseen"
               [] Landed(i) /\ i \in sent -> "delivered"
               [] Landed(i) /\ i \notin sent /\ (i > latest \/ i \in Pending)
                    -> "outstanding"
               [] OTHER -> "lost"

Feed == INSTANCE EventFeed WITH Events <- 1..MaxTx,
                                status <- [i \in 1..MaxTx |-> Status(i)]

\* Without the recorded faults the listener implements the abstract feed.
ImplementsEventFeed == Feed!Spec
=============================================================================
