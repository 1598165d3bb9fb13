--------------------------- MODULE GasComputation ---------------------------
(***************************************************************************)
(* What a gateway transaction has cost in all (gateway-gas-computation): its *)
(* own cost, and that of the transactions that prepared it.  An approval   *)
(* and a rotation of signers stand on a verification session, an execution *)
(* on an uploaded payload; the history of the session's or the payload's   *)
(* account is fetched page by page, and the cost of what it holds added up. *)
(*                                                                         *)
(* A transaction has a cost, a status and instructions; an instruction is  *)
(* the program, the instruction's name, the account whose history matters  *)
(* and, for an approval, the number of messages its batch has.             *)
(***************************************************************************)
EXTENDS Amounts, Sequences, FiniteSets

CONSTANT PageSize   \* signatures in a page of a history, 1000 in the code

NoAccount == "no account"   \* the instruction's account list is too short

SessionSteps == {"InitializePayloadVerificationSession", "VerifySignature"}
PayloadSteps == {"InitializeMessagePayload", "WriteMessagePayload",
                 "CommitMessagePayload", "CloseMessagePayload"}

-----------------------------------------------------------------------------
(* compute_total_gas: which history an instruction calls for.              *)

NeedsSession(ix) ==
  ix.program = "gateway" /\ ix.name \in {"ApproveMessage", "RotateSigners"}

NeedsPayload(ix) == ix.program # "gateway" /\ ix.name = "axelar_executable"

Priced(ix) == (NeedsSession(ix) \/ NeedsPayload(ix)) /\ ix.account # NoAccount

StepsFor(ix) == IF NeedsSession(ix) THEN SessionSteps ELSE PayloadSteps

\* Variant: every message of a batch is charged for the whole session.
ShareWhole(ix, cost) == cost

\* The messages of a batch share the cost of its session.
Share(ix, cost) ==
  IF ix.name # "ApproveMessage" THEN cost
  ELSE IF ix.set_size = 0 THEN 0 ELSE cost \div ix.set_size

-----------------------------------------------------------------------------
(* fetch_signatures: pages from the newest signature to the oldest.        *)

Mentions(tx, account) == \E k \in DOMAIN tx.ixs : tx.ixs[k].account = account

History(chain, account) == {i \in DOMAIN chain : Mentions(chain[i], account)}

\* The newest signatures of the account before the cursor, a page of them.
Page(chain, account, cursor) ==
  LET older == {i \in History(chain, account) : i < cursor}
  IN {i \in older : Cardinality({j \in older : j > i}) < PageSize}

\* The last signature of the page, which the next page starts before: pages
\* are disjoint, also when the history grows meanwhile.
CursorAfter(page) == CHOOSE i \in page : \A j \in page : i <= j

-----------------------------------------------------------------------------
(* cost_of_signature_verification and cost_of_payload_uploading.           *)

\* A transaction's cost is added once for each of its matching instructions.
CostWithin(tx, steps) ==
  LET matching == {k \in DOMAIN tx.ixs : /\ tx.ixs[k].program = "gateway"
                                         /\ tx.ixs[k].name \in steps}
  IN IF tx.ok THEN Times(tx.cost, Cardinality(matching)) ELSE 0

CostOf(chain, signatures, steps) ==
  Sum([i \in signatures |-> CostWithin(chain[i], steps)], signatures)
=============================================================================
