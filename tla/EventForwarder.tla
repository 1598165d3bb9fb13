--------------------------- MODULE EventForwarder ---------------------------
(***************************************************************************)
(* The event forwarder (process_internal of solana-event-forwarder): it    *)
(* takes one transaction at a time from the listener's unbounded channel,  *)
(* prices it, which reads account histories from a chain that keeps        *)
(* growing, parses its events and publishes them to the Amplifier.  Any    *)
(* error, and the end of the channel, stop it for good.                    *)
(*                                                                         *)
(* The chain is a script of transactions of which the first `landed' are   *)
(* finalized; a transaction is known by its position.  What the parser     *)
(* finds in a transaction is a field of it, `events'.                      *)
(***************************************************************************)
EXTENDS GasComputation, EventConversion

CONSTANTS
  Histories,  \* the chains to choose from
  Faults      \* the events of the environment this instance permits

FaultKinds == {"rpc", "crash"}

ASSUME ForwarderAssumption ==
  /\ PageSize \in Nat \ {0}
  /\ Faults \subseteq FaultKinds
  /\ \A chain \in Histories :
       /\ chain \in Seq({chain[i] : i \in DOMAIN chain})
       /\ \A i \in DOMAIN chain :
            LET ixs == chain[i].ixs
                events == chain[i].events
            IN /\ ixs \in Seq({ixs[k] : k \in DOMAIN ixs})
               /\ events \in Seq({events[n] : n \in DOMAIN events})
               /\ chain[i].cost \in 0..MaxU64 /\ chain[i].ok \in BOOLEAN
               /\ \A k \in DOMAIN ixs : ixs[k].set_size \in Nat
               /\ \A n \in DOMAIN events : WellFormed(events[n])

Approves(instruction, account) ==
  /\ NeedsSession(instruction) /\ instruction.name = "ApproveMessage"
  /\ instruction.account = account

ApprovedBatch(chain, account) ==
  {i \in DOMAIN chain : /\ chain[i].ok
                        /\ \E k \in DOMAIN chain[i].ixs :
                             Approves(chain[i].ixs[k], account)}

\* Who approves a message of a batch does nothing else in the transaction that
\* has a price, every approval states the batch's size, and the gateway
\* approves a message only once.
ASSUME BatchAssumption ==
  \A chain \in Histories : \A i \in DOMAIN chain :
    \A k \in DOMAIN chain[i].ixs :
      LET instruction == chain[i].ixs[k]
          batch == ApprovedBatch(chain, instruction.account)
      IN Approves(instruction, instruction.account)
           /\ instruction.account # NoAccount /\ chain[i].ok =>
         /\ \A n \in DOMAIN chain[i].ixs : Priced(chain[i].ixs[n]) => n = k
         /\ Cardinality(batch) <= instruction.set_size
         /\ \A j \in batch : \A n \in DOMAIN chain[j].ixs :
              Approves(chain[j].ixs[n], instruction.account) =>
                chain[j].ixs[n].set_size = instruction.set_size

VARIABLES
  script, landed,  \* the chain
  queue,           \* the channel from the listener
  pc,              \* where process_internal stands
  current,         \* the transaction it holds
  ix,              \* the instruction it prices
  cursor,          \* before which signature the next page starts
  signatures,      \* the signatures collected so far
  total,           \* total_gas_cost
  published        \* the commands on the Amplifier's channel

chainVars == <<script, landed>>
pricing == <<ix, cursor, signatures, total>>
forwarder == <<queue, pc, current, pricing, published>>
vars == <<chainVars, forwarder>>

Chain == SubSeq(script, 1, landed)

NoTx == 0

Idle ==
  /\ pc = "receive" /\ queue = <<>> /\ current = NoTx
  /\ ix = 1 /\ cursor = 0 /\ signatures = {} /\ total = 0

Init ==
  /\ script \in Histories /\ landed = 0
  /\ Idle
  /\ published = <<>>

-----------------------------------------------------------------------------
(* The environment.                                                        *)

Grow ==
  /\ landed < Len(script)
  /\ landed' = landed + 1
  /\ UNCHANGED <<script, forwarder>>

\* The listener puts a transaction on the channel.
Arrive(i) ==
  /\ i \in 1..landed /\ script[i].ok
  /\ queue' = Append(queue, i)
  /\ UNCHANGED <<chainVars, pc, current, pricing, published>>

-----------------------------------------------------------------------------
(* process_internal.                                                       *)

At(location) == pc' = location

Receive ==
  /\ pc = "receive" /\ queue # <<>>
  /\ current' = Head(queue) /\ queue' = Tail(queue)
  /\ ix' = 1 /\ total' = script[Head(queue)].cost
  /\ At("price")
  /\ UNCHANGED <<chainVars, cursor, signatures, published>>

Ixs == script[current].ixs

\* An instruction without a history to pay for.
SkipInstruction ==
  /\ pc = "price" /\ ix <= Len(Ixs) /\ ~Priced(Ixs[ix])
  /\ ix' = ix + 1
  /\ UNCHANGED <<chainVars, queue, pc, current, cursor, signatures, total,
                 published>>

BeginHistory ==
  /\ pc = "price" /\ ix <= Len(Ixs) /\ Priced(Ixs[ix])
  /\ cursor' = Len(script) + 1 /\ signatures' = {}
  /\ At("page")
  /\ UNCHANGED <<chainVars, queue, current, ix, total, published>>

\* Variant: the first page is taken for the whole history.
FetchFirstPage ==
  /\ pc = "page"
  /\ LET page == Page(Chain, Ixs[ix].account, cursor)
     IN /\ signatures' = signatures \cup page
        /\ UNCHANGED cursor /\ At("fetch")
  /\ UNCHANGED <<chainVars, queue, current, ix, total, published>>

\* One request of fetch_signatures; an empty page ends the loop.
FetchPage ==
  /\ pc = "page"
  /\ LET page == Page(Chain, Ixs[ix].account, cursor)
     IN \/ /\ page # {}
           /\ signatures' = signatures \cup page
           /\ cursor' = CursorAfter(page)
           /\ UNCHANGED pc
        \/ page = {} /\ At("fetch") /\ UNCHANGED <<cursor, signatures>>
  /\ UNCHANGED <<chainVars, queue, current, ix, total, published>>

\* The concurrent fetches of all transactions, joined: finalized transactions
\* do not change, so the order the answers come in shows nowhere.
AddCosts ==
  /\ pc = "fetch"
  /\ LET cost == CostOf(Chain, signatures, StepsFor(Ixs[ix]))
     IN total' = Plus(total, Share(Ixs[ix], cost))
  /\ ix' = ix + 1
  /\ At("price")
  /\ UNCHANGED <<chainVars, queue, current, cursor, signatures, published>>

Command ==
  [tx |-> current, total |-> total,
   events |-> MapEvents(script[current].events, total)]

\* All instructions are priced: parse, convert and send the command.  It is
\* sent even without an event in it.
Publish ==
  /\ pc = "price" /\ ix > Len(Ixs)
  /\ published' = Append(published, Command)
  /\ current' = NoTx /\ ix' = 1 /\ cursor' = 0 /\ signatures' = {} /\ total' = 0
  /\ At("receive")
  /\ UNCHANGED <<chainVars, queue>>

\* Variant: a transaction that cannot be priced is skipped.
FailSkipping ==
  /\ "rpc" \in Faults
  /\ pc \in {"price", "page", "fetch"}
  /\ At("receive") /\ current' = NoTx
  /\ UNCHANGED <<chainVars, queue, pricing, published>>

\* An RPC request, the parser or the channel to the Amplifier fails: `?'.
Fail ==
  /\ "rpc" \in Faults
  /\ pc \in {"price", "page", "fetch"}
  /\ At("stopped")
  /\ UNCHANGED <<chainVars, queue, current, pricing, published>>

Step == Receive \/ SkipInstruction \/ BeginHistory \/ FetchPage \/ AddCosts
          \/ Publish

Next == Grow \/ Step \/ Fail \/ \E i \in DOMAIN script : Arrive(i)

Spec == Init /\ [][Next]_vars

-----------------------------------------------------------------------------
(* Properties of what is published.                                        *)

Locations == {"receive", "price", "page", "fetch", "stopped"}

TypeOK ==
  /\ script \in Histories /\ landed \in 0..Len(script)
  /\ queue \in Seq(1..landed)
  /\ pc \in Locations
  /\ current \in 0..landed
  /\ pc \in {"price", "page", "fetch"} => current # NoTx
  /\ pc = "receive" => current = NoTx
  /\ pc \in {"page", "fetch"} => ix \in DOMAIN Ixs
  /\ ix \in Nat \ {0} /\ cursor \in Nat /\ signatures \subseteq 1..landed

Claimed(e) == IF "cost" \in DOMAIN e THEN e.cost.amount ELSE 0

\* What the events of a transaction claim together never exceeds the cost
\* computed for it, whichever of them claim and whichever were dropped.
ClaimsWithinTotal ==
  \A k \in DOMAIN published :
    LET events == published[k].events
        claims == [n \in DOMAIN events |-> Claimed(events[n])]
    IN SumFunctionOnSet(claims, DOMAIN events) <= published[k].total

Complete(e) ==
  /\ e.kind # "CannotExecuteMessageV2"
  /\ e.kind = "Call" => e.payload # Malformed
  /\ e.kind \in {"Call", "MessageApproved"} =>
       e.message.payload_hash # Malformed
  /\ e.kind = "ITSInterchainTransfer" => e.token_spent.token_id # {}
  /\ e.kind = "SignersRotated" =>
       \E m \in e.meta : m.epoch # {} /\ m.signers_hash \ {Malformed} # {}

\* A published command has, in the parser's order, every event with all its
\* Amplifier form requires, whatever else of it is missing or malformed, and
\* no other.
CompleteEventsPublished ==
  \A k \in DOMAIN published :
    LET parsed == script[published[k].tx].events
        events == published[k].events
        complete == {n \in DOMAIN parsed : Complete(parsed[n])}
        Place(n) == Cardinality({m \in complete : m <= n})
    IN /\ Len(events) = Cardinality(complete)
       /\ \A n \in complete : events[Place(n)].kind = parsed[n].kind

PricedIxs(i) == {k \in DOMAIN script[i].ixs : Priced(script[i].ixs[k])}

\* What an instruction adds to the price if the chain had ended at `last'.
ShareAt(instruction, last) ==
  LET before == {j \in History(script, instruction.account) : j <= last}
  IN Share(instruction, CostOf(script, before, StepsFor(instruction)))

\* A transaction's price if the chain had ended there.
PriceAt(i, last) ==
  LET shares == [k \in PricedIxs(i) |-> ShareAt(script[i].ixs[k], last)]
  IN AtMost(script[i].cost + SumFunctionOnSet(shares, PricedIxs(i)), MaxU64)

\* However the histories grow while they are paged through, everything that
\* was finalized before a transaction is in its price, and nothing that has not
\* happened.
PriceCoversHistory ==
  \A k \in DOMAIN published :
    LET i == published[k].tx
    IN /\ PriceAt(i, i) <= published[k].total
       /\ published[k].total <= PriceAt(i, landed)

Approvals(account) ==
  {i \in DOMAIN script :
     \E k \in DOMAIN script[i].ixs : Approves(script[i].ixs[k], account)}

Extra(i) ==
  LET charged == {published[k].total - script[i].cost :
                    k \in {n \in DOMAIN published : published[n].tx = i}}
  IN IF charged = {} THEN 0 ELSE CHOOSE x \in charged : \A y \in charged : x >= y

Accounts == UNION {{script[i].ixs[k].account : k \in DOMAIN script[i].ixs} :
                     i \in DOMAIN script}

\* The messages of a batch together are never charged more than their
\* verification session has cost, published again after a restart or not.
SessionSharesCovered ==
  \A account \in Accounts \ {NoAccount} :
    SumFunctionOnSet([i \in Approvals(account) |-> Extra(i)], Approvals(account))
      <= CostOf(Chain, History(Chain, account), SessionSteps)

\* The price of a transaction counts no transaction more than once.
EachTransactionOnce ==
  \A k \in DOMAIN published :
    LET i == published[k].tx
        related == {i} \cup UNION {History(script, script[i].ixs[n].account) :
                                     n \in PricedIxs(i)}
    IN published[k].total
         <= SumFunctionOnSet([j \in related |-> script[j].cost], related)
=============================================================================
