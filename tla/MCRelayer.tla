----------------------------- MODULE MCRelayer ------------------------------
(* The chains of the relayer's instance for TLC: a batch approved after its *)
(* verification session, an uploaded message executed, a rotation of       *)
(* signers beside calls, and events that do not convert.                   *)
EXTENDS Relayer

Ix(program, name, account, size) ==
  [program |-> program, name |-> name, account |-> account, set_size |-> size]
Gw(name, account) == Ix("gateway", name, account, 0)
Approve(account, size) == Ix("gateway", "ApproveMessage", account, size)
Run(account) == Ix("destination", "axelar_executable", account, 0)

Tx(cost, ixs, events) == [cost |-> cost, ok |-> TRUE, ixs |-> ixs, events |-> events]
Refused(cost, ixs) == [cost |-> cost, ok |-> FALSE, ixs |-> ixs, events |-> <<>>]

-----------------------------------------------------------------------------
Lamports(n) == [token_id |-> {}, amount |-> n]
Meta == {[tx_id |-> {"tx"}, timestamp |-> "t", command_id |-> {"c"},
          child_message_ids |-> {}, signers_hash |-> {"h"}, epoch |-> {1}]}
Undated == {[m EXCEPT !.timestamp = Malformed] : m \in Meta}
Unsigned == {[m EXCEPT !.signers_hash = {Malformed}] : m \in Meta}
Message(hash) == [message_id |-> "m", source_chain |-> "ethereum",
                  source_address |-> "a", destination_address |-> "b",
                  payload_hash |-> hash]

Call(payload) ==
  [kind |-> "Call", event_id |-> "e1", meta |-> Undated, payload |-> payload,
   message |-> Message("h"), destination_chain |-> "ethereum"]
Credit == [kind |-> "GasCredit", event_id |-> "e2", meta |-> {},
           message_id |-> "m", payment |-> Lamports(7)]
Refunded == [kind |-> "GasRefunded", event_id |-> "e3", meta |-> Meta,
             message_id |-> "m", refunded_amount |-> Lamports(3), cost |-> Lamports(0)]
Approved(hash) ==
  [kind |-> "MessageApproved", event_id |-> "e4", meta |-> Meta,
   message |-> Message(hash), cost |-> Lamports(0)]
Executed(status) ==
  [kind |-> "MessageExecuted", event_id |-> "e5", meta |-> Meta,
   message_id |-> "m", status |-> status, cost |-> Lamports(0)]
Rotated(meta) ==
  [kind |-> "SignersRotated", event_id |-> "e6", meta |-> meta, message_id |-> "m"]
Transfer(token) ==
  [kind |-> "ITSInterchainTransfer", event_id |-> "e7", meta |-> Meta,
   message_id |-> "m", token_spent |-> [token_id |-> token, amount |-> 4]]
Registered == [kind |-> "ITSTokenMetadataRegistered", event_id |-> "e8",
               meta |-> Meta, message_id |-> "m", address |-> "mint"]
LinkStarted == [kind |-> "ITSLinkTokenStarted", event_id |-> "e9", meta |-> Meta,
                message_id |-> "m", token_id |-> "t",
                token_manager_type |-> "LockUnlock"]
Deployment == [kind |-> "ITSInterchainTokenDeploymentStarted", event_id |-> "e10",
               meta |-> Meta, message_id |-> "m", token_id |-> "t"]
CannotExecute == [kind |-> "CannotExecuteMessageV2", event_id |-> "e11"]

-----------------------------------------------------------------------------
Batch ==
  << Tx(5, <<Gw("InitializePayloadVerificationSession", "s")>>, <<>>),
     Tx(7, <<Gw("VerifySignature", "s")>>, <<>>),
     Tx(4, <<Approve("s", 2)>>, <<Approved("h")>>),
     Tx(4, <<Approve("s", 2)>>, <<Approved("h")>>),
     Tx(6, <<Gw("VerifySignature", "s")>>, <<>>) >>

\* The upload of a message and its execution, which closes the payload account
\* in the same transaction.
Upload ==
  << Tx(5, <<Gw("InitializeMessagePayload", "p")>>, <<>>),
     Tx(6, <<Gw("WriteMessagePayload", "p")>>, <<>>),
     Refused(3, <<Gw("WriteMessagePayload", "p")>>),
     Tx(5, <<Gw("CommitMessagePayload", "p")>>, <<>>),
     Tx(8, <<Run("p"), Gw("CloseMessagePayload", "p")>>,
        <<Executed("SUCCESSFUL"), Refunded, Credit>>) >>

Rotation ==
  << Tx(5, <<Gw("InitializePayloadVerificationSession", "s")>>, <<>>),
     Tx(7, <<Gw("CallContract", NoAccount)>>,
        <<Call("p"), Call(Malformed), Approved(Malformed), Transfer({})>>),
     Tx(4, <<Gw("RotateSigners", "s")>>, <<Rotated(Meta), Rotated(Unsigned),
                                           Rotated({}), Executed("REVERTED")>>),
     Tx(9, <<Run(NoAccount), Approve(NoAccount, 1)>>,
        <<Transfer({"t"}), Registered, LinkStarted, Deployment, CannotExecute>>) >>

Chains == {Batch, Upload, Rotation}
UploadOnly == {Upload}
=============================================================================
