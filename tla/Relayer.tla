------------------------------ MODULE Relayer -------------------------------
(***************************************************************************)
(* The relayer's way up (main.rs): the listener puts every transaction on  *)
(* the channel and then stores its signature, the forwarder prices and     *)
(* publishes them, other components store their task ids in the same file. *)
(* The engine ends the process when one component ends; a restart begins   *)
(* at the stored signature, with an empty channel.                         *)
(*                                                                         *)
(* The listener is here the sequential reading of the chain that its own   *)
(* module, SolanaListener, examines in detail.                             *)
(***************************************************************************)
EXTENDS EventForwarder

CONSTANTS
  Writers,      \* the owners of the state file's fields, the listener among them
  MaxStored,    \* bounds the ids the other components store
  MaxRestarts   \* bounds the restarts

ASSUME RelayerAssumption == "listener" \in Writers /\ MaxRestarts \in Nat

VARIABLES
  mem, disk, holder, step, value, acked, since,   \* the state file
  at,         \* the last transaction the listener has taken from the chain
  listener,   \* where the listener stands
  begin,      \* the signature this life of the process began at
  base,       \* how many commands earlier lives had published
  lost,       \* the transactions that were in memory when a life ended
  restarts

file == <<mem, disk, holder, step, value, acked, since>>
reading == <<at, listener>>
life == <<begin, base, lost, restarts>>
relayerVars == <<vars, file, reading, life>>

State == INSTANCE StateFile

RelayerInit ==
  /\ Init
  /\ State!FileInit
  /\ at = 0 /\ listener = "read"
  /\ begin = 0 /\ base = 0 /\ lost = {} /\ restarts = 0

-----------------------------------------------------------------------------
Others == UNCHANGED <<file, reading, life>>

ChainGrows == Grow /\ Others

Forward == Step /\ Others

\* Every bound on restarts is a bound on what causes them.
ForwarderFails == restarts < MaxRestarts /\ Fail /\ Others

\* The listener takes the next transaction and sends it, unless it failed.
Read ==
  /\ listener = "read" /\ at < landed
  /\ at' = at + 1 /\ listener' = "store"
  /\ IF script[at + 1].ok THEN Arrive(at + 1) ELSE UNCHANGED vars
  /\ UNCHANGED <<file, life>>

\* Variant: the newest signature seen is stored.
StoreNewest ==
  /\ listener = "store"
  /\ State!Lock("listener", landed)
  /\ listener' = "storing"
  /\ UNCHANGED <<vars, at, life>>

StoreSignature ==
  /\ listener = "store"
  /\ State!Lock("listener", at)
  /\ listener' = "storing"
  /\ UNCHANGED <<vars, at, life>>

\* A task id, by the task processor or by the Amplifier client.
StoreTask(w) ==
  /\ w # "listener" /\ mem[w] < MaxStored
  /\ State!Lock(w, mem[w] + 1)
  /\ UNCHANGED <<vars, reading, life>>

Write == State!Write /\ UNCHANGED <<vars, reading, life>>

Flush ==
  /\ State!Flush
  /\ listener' = IF holder = "listener" THEN "read" ELSE listener
  /\ UNCHANGED <<vars, at, life>>

\* Variant: the error of a set is swallowed.
FlushErrorIgnored ==
  /\ "crash" \in Faults /\ restarts < MaxRestarts
  /\ State!FlushFails
  /\ UNCHANGED <<vars, reading, life>>

\* Whoever set it returns the error, and the engine ends the others with it.
FlushFails ==
  /\ "crash" \in Faults /\ restarts < MaxRestarts
  /\ State!FlushFails
  /\ listener' = "stopped"
  /\ UNCHANGED <<vars, at, life>>

WriteBack == State!WriteBack /\ UNCHANGED <<vars, reading, life>>

InMemory == {queue[k] : k \in DOMAIN queue} \cup ({current} \ {NoTx})

\* A component has ended, or the process or the machine dies.
Restart(machine) ==
  /\ restarts < MaxRestarts
  /\ "crash" \in Faults \/ pc = "stopped" \/ listener = "stopped"
  /\ machine => "crash" \in Faults
  /\ State!Reopen(machine)
  /\ at' = mem'["listener"] /\ listener' = "read"
  /\ begin' = at' /\ base' = Len(published)
  /\ lost' = lost \cup InMemory
  /\ restarts' = restarts + 1
  /\ pc' = "receive" /\ queue' = <<>> /\ current' = NoTx
  /\ ix' = 1 /\ cursor' = 0 /\ signatures' = {} /\ total' = 0
  /\ UNCHANGED <<chainVars, published>>

RelayerNext ==
  \/ ChainGrows \/ Forward \/ ForwarderFails
  \/ Read \/ StoreSignature \/ Write \/ Flush \/ FlushFails \/ WriteBack
  \/ \E w \in Writers : StoreTask(w)
  \/ \E machine \in BOOLEAN : Restart(machine)

RelayerSpec == RelayerInit /\ [][RelayerNext]_relayerVars

\* The components are polled, the file is flushed, and the supervisor starts
\* the process again once a component has ended.
RelayerFairness ==
  /\ WF_relayerVars(Forward)
  /\ WF_relayerVars(Read \/ StoreSignature)
  /\ WF_relayerVars(Write \/ Flush)
  /\ WF_relayerVars((pc = "stopped" \/ listener = "stopped") /\ Restart(FALSE))

FairRelayerSpec == RelayerSpec /\ RelayerFairness

-----------------------------------------------------------------------------
(* Properties.                                                             *)

\* The state's types.
RelayerTypeOK ==
  /\ TypeOK
  /\ State!FileTypeOK
  /\ at \in 0..landed /\ begin \in 0..at
  /\ listener \in {"read", "store", "storing", "stopped"}
  /\ base \in 0..Len(published)
  /\ lost \subseteq 1..landed
  /\ restarts \in 0..MaxRestarts

\* The state file keeps what it acknowledged, through the death of the process
\* and of the machine.
AckedSurvives == State!AckedSurvives

\* The transaction the forwarder holds, if any.
Held == IF current = NoTx THEN <<>> ELSE <<current>>

\* What this life of the process has published, holds and has queued.
Pipeline ==
  [k \in 1..(Len(published) - base) |-> published[base + k].tx] \o Held \o queue

\* In one life of the process every successful transaction the listener read
\* is published, held or queued, once and in the order of the chain.
NothingSkipped ==
  /\ \A j, k \in DOMAIN Pipeline : j < k => Pipeline[j] < Pipeline[k]
  /\ {Pipeline[k] : k \in DOMAIN Pipeline}
       = {i \in begin + 1 .. at : script[i].ok}

PublishedTxs == {published[k].tx : k \in DOMAIN published}

\* Across restarts: what lies below the stored signature, in memory or on disk,
\* was published, is on its way, or was in memory when a life ended.
StoredIsAccountedFor ==
  \A w \in {mem["listener"], disk["listener"]} : \A i \in 1..w :
    script[i].ok => i \in PublishedTxs \cup InMemory \cup lost

\* From the chain to the Amplifier, through any number of restarts, the relayer
\* is a ReplayedFeed: in order, without a gap but what was in memory when a life
\* ended, and replaying nothing below the signature in the file, which never
\* moves back.
Feed == INSTANCE ReplayedFeed WITH
  wanted <- [i \in DOMAIN script |-> script[i].ok],
  position <- at,
  pending <- Held \o queue,
  log <- [k \in DOMAIN published |-> published[k].tx],
  checkpoint <- disk["listener"]

ImplementsReplayedFeed == Feed!Spec

\* Once the chain and the restarts come to an end, every successful transaction
\* has been published, or was lost with the memory of a life that ended.
EventuallyPublished ==
  <>[](\A i \in 1..landed : script[i].ok => i \in PublishedTxs \cup lost)
=============================================================================
