---------------------------- MODULE ReplayedFeed -----------------------------
(***************************************************************************)
(* What the relayer's way up promises the Amplifier: the wanted positions  *)
(* of a stream are logged in order, none skipped, until the reader loses   *)
(* its memory.  It then reads again from somewhere between its checkpoint, *)
(* which never moves back, and the position it had reached; only what was  *)
(* pending at that moment may be missing from the log, and only what lies  *)
(* above the checkpoint may be logged again.                               *)
(***************************************************************************)
EXTENDS Integers, Sequences

VARIABLES
  wanted,      \* for each position of the stream, whether it is to be logged
  position,    \* how far the reader has come
  pending,     \* what it has read and not logged, oldest first
  log,         \* the positions logged
  checkpoint   \* below which it never reads again

feed == <<wanted, position, pending, log, checkpoint>>

Init ==
  /\ wanted \in Seq(BOOLEAN)
  /\ position = 0 /\ pending = <<>> /\ log = <<>> /\ checkpoint = 0

Take ==
  /\ position < Len(wanted)
  /\ position' = position + 1
  /\ pending' = IF wanted[position'] THEN Append(pending, position') ELSE pending
  /\ UNCHANGED <<wanted, log, checkpoint>>

Emit ==
  /\ pending # <<>>
  /\ log' = Append(log, Head(pending)) /\ pending' = Tail(pending)
  /\ UNCHANGED <<wanted, position, checkpoint>>

Store(p) ==
  /\ checkpoint' = p
  /\ UNCHANGED <<wanted, position, pending, log>>

GoBack(p) ==
  /\ position' = p /\ pending' = <<>>
  /\ UNCHANGED <<wanted, log, checkpoint>>

Next == Take \/ Emit \/ \E p \in checkpoint..position : Store(p) \/ GoBack(p)

Spec == Init /\ [][Next]_feed
=============================================================================
