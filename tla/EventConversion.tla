-------------------------- MODULE EventConversion ---------------------------
(***************************************************************************)
(* From the parser's events to the Amplifier's (utils.rs): which events    *)
(* are kept, what they carry, and the share of the transaction's cost they *)
(* claim.  An optional value is a set of at most one element, so that      *)
(* Option::map and `?' are set comprehensions and a skipped event is {}.   *)
(* Text that does not decode (base64, a timestamp) is Malformed.           *)
(***************************************************************************)
EXTENDS Integers, Sequences, FiniteSets

Malformed == "malformed"

EventKinds ==
  {"Call", "GasCredit", "GasRefunded", "MessageApproved", "MessageExecuted",
   "SignersRotated", "ITSInterchainTransfer", "ITSTokenMetadataRegistered",
   "ITSLinkTokenStarted", "ITSInterchainTokenDeploymentStarted",
   "CannotExecuteMessageV2"}

\* The parser's types, as far as anything depends on them.
WellFormed(e) ==
  /\ e.kind \in EventKinds
  /\ e.kind \in {"GasRefunded", "MessageApproved", "MessageExecuted"} =>
       "amount" \in DOMAIN e.cost
  /\ e.kind = "SignersRotated" => \A m, n \in e.meta : m = n

\* BASE64_STANDARD.decode and parse_from_rfc3339.
Decode(text) == {text} \ {Malformed}

-----------------------------------------------------------------------------
(* Parts of events.                                                        *)

\* Variant: a hash that does not decode is sent on.
GatewayMessageAsIs(message) == {message}

GatewayMessage(message) ==
  {[message EXCEPT !.payload_hash = hash] : hash \in Decode(message.payload_hash)}

\* A timestamp that cannot be parsed is left out, not the event.
EventMetadata(meta, Extra(_)) ==
  {[tx_id |-> m.tx_id, timestamp |-> Decode(m.timestamp), extra |-> Extra(m)]
     : m \in meta}

BaseMeta(e) ==
  [event_id |-> e.event_id, meta |-> EventMetadata(e.meta, LAMBDA m : {})]

Token(amount) == [token_id |-> amount.token_id, amount |-> amount.amount]

\* Whatever cost the parser found is replaced by the share, in the same token.
Claim(cost, price) == Token([cost EXCEPT !.amount = price])

-----------------------------------------------------------------------------
(* One operator per kind of event.                                         *)

ConvertCall(e) ==
  {[kind |-> "Call", event_id |-> e.event_id, payload |-> payload,
    message |-> message, destination_chain |-> e.destination_chain,
    meta |-> EventMetadata(e.meta, LAMBDA m : [parent_message_id |-> {}])]
     : payload \in Decode(e.payload), message \in GatewayMessage(e.message)}

ConvertGasCredit(e) ==
  {[kind |-> "GasCredit", base |-> BaseMeta(e), message_id |-> e.message_id,
    payment |-> Token(e.payment)]}

ConvertGasRefunded(e, price) ==
  {[kind |-> "GasRefunded", base |-> BaseMeta(e), message_id |-> e.message_id,
    refunded_amount |-> Token(e.refunded_amount), cost |-> Claim(e.cost, price)]}

ConvertMessageApproved(e, price) ==
  {[kind |-> "MessageApproved", event_id |-> e.event_id, message |-> message,
    meta |-> EventMetadata(e.meta, LAMBDA m : [command_id |-> m.command_id]),
    cost |-> Claim(e.cost, price)]
     : message \in GatewayMessage(e.message)}

Status == [SUCCESSFUL |-> "Successful", REVERTED |-> "Reverted"]

ConvertMessageExecuted(e, price) ==
  {[kind |-> "MessageExecuted", event_id |-> e.event_id,
    message_id |-> e.message_id, status |-> Status[e.status],
    meta |-> EventMetadata(e.meta, LAMBDA m : [command_id |-> m.command_id,
                                               children |-> m.child_message_ids]),
    cost |-> Claim(e.cost, price)]}

\* Both the hash and the epoch are in the metadata, and both are required.
ConvertSignersRotated(e) ==
  LET hashes == UNION {UNION {Decode(h) : h \in m.signers_hash} : m \in e.meta}
      epochs == UNION {m.epoch : m \in e.meta}
  IN {[kind |-> "SignersRotated", event_id |-> e.event_id,
       message_id |-> e.message_id,
       meta |-> EventMetadata(e.meta, LAMBDA m : [signer_hash |-> hash,
                                                  epoch |-> epoch])]
        : hash \in hashes, epoch \in epochs}

ConvertInterchainTransfer(e) ==
  {[kind |-> "ITSInterchainTransfer", base |-> BaseMeta(e),
    message_id |-> e.message_id,
    token_spent |-> [token_id |-> id, amount |-> Token(e.token_spent).amount]]
     : id \in e.token_spent.token_id}

ConvertTokenMetadataRegistered(e) ==
  {[kind |-> "ITSTokenMetadataRegistered", base |-> BaseMeta(e),
    message_id |-> e.message_id, token |-> e.address]}

ConvertLinkTokenStarted(e) ==
  {[kind |-> "ITSLinkTokenStarted", base |-> BaseMeta(e),
    message_id |-> e.message_id, token |-> e.token_id,
    manager |-> e.token_manager_type]}

ConvertDeploymentStarted(e) ==
  {[kind |-> "ITSInterchainTokenDeploymentStarted", base |-> BaseMeta(e),
    message_id |-> e.message_id, token |-> e.token_id]}

\* convert_core_event_to_amp.
Convert(e, price) ==
  CASE e.kind = "Call"            -> ConvertCall(e)
    [] e.kind = "GasCredit"       -> ConvertGasCredit(e)
    [] e.kind = "GasRefunded"     -> ConvertGasRefunded(e, price)
    [] e.kind = "MessageApproved" -> ConvertMessageApproved(e, price)
    [] e.kind = "MessageExecuted" -> ConvertMessageExecuted(e, price)
    [] e.kind = "SignersRotated"  -> ConvertSignersRotated(e)
    [] e.kind = "ITSInterchainTransfer" -> ConvertInterchainTransfer(e)
    [] e.kind = "ITSTokenMetadataRegistered" -> ConvertTokenMetadataRegistered(e)
    [] e.kind = "ITSLinkTokenStarted" -> ConvertLinkTokenStarted(e)
    [] e.kind = "ITSInterchainTokenDeploymentStarted" ->
         ConvertDeploymentStarted(e)
    [] e.kind = "CannotExecuteMessageV2" -> {}

-----------------------------------------------------------------------------
(* map_core_events_to_amplifier.                                           *)

\* Variant: an event claims the whole cost.
PriceWhole(events, total) == total

PricePerEvent(events, total) ==
  IF events = <<>> THEN 0 ELSE total \div Len(events)

\* The converted events in the order of the parsed ones (filter_map).
MapEvents(events, total) ==
  LET price == PricePerEvent(events, total)
      from[n \in 0..Len(events)] ==
        IF n = 0 THEN <<>>
        ELSE LET out == Convert(events[n], price)
             IN IF out = {} THEN from[n - 1]
                ELSE Append(from[n - 1], CHOOSE x \in out : TRUE)
  IN from[Len(events)]
=============================================================================
