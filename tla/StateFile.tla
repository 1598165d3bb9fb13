----------------------------- MODULE StateFile ------------------------------
(***************************************************************************)
(* The relayer's only persistent state (file-based-storage): one memory-   *)
(* mapped record behind a mutex, a field for each of its writers.  A set   *)
(* locks the mutex, changes one field in place and flushes the mapping;    *)
(* the operating system may write the page back at any other time, keeps   *)
(* it when the process dies and loses it with the machine.  A field of     *)
(* zeros means that nothing was stored.                                    *)
(***************************************************************************)
EXTENDS Integers

CONSTANT Writers   \* the components that store something, a field each

VARIABLES
  mem,      \* the mapped record
  disk,     \* the file
  holder,   \* who holds the mutex, if anybody
  step,     \* how far the holder's set has come
  value,    \* what it sets
  acked,    \* per field, the value of the last set that returned Ok
  since     \* per field, the values given to set after that one

file == <<mem, disk, holder, step, value, acked, since>>

Nobody == "nobody"
Zero   == 0

\* MmapState::new on a file that is too short writes a record of zeros.
FileInit ==
  /\ mem = [w \in Writers |-> Zero] /\ disk = mem
  /\ holder = Nobody /\ step = "free" /\ value = Zero
  /\ acked = mem /\ since = [w \in Writers |-> {}]

\* Option: nothing, or the one value stored.
Get(w) == {mem[w]} \ {Zero}

Lock(w, v) ==
  /\ step = "free"
  /\ holder' = w /\ value' = v /\ step' = "locked"
  /\ since' = [since EXCEPT ![w] = @ \cup {v}]
  /\ UNCHANGED <<mem, disk, acked>>

\* Variant: every setter changes the same field, as a copied closure would.
WriteOneField ==
  /\ step = "locked"
  /\ mem' = [mem EXCEPT ![CHOOSE w \in Writers : TRUE] = value]
  /\ step' = "written"
  /\ UNCHANGED <<disk, holder, value, acked, since>>

Write ==
  /\ step = "locked"
  /\ mem' = [mem EXCEPT ![holder] = value]
  /\ step' = "written"
  /\ UNCHANGED <<disk, holder, value, acked, since>>

Unlock == step' = "free" /\ holder' = Nobody /\ value' = Zero

\* Variant: the set returns without waiting for the flush.
FlushLater ==
  /\ step = "written"
  /\ acked' = [acked EXCEPT ![holder] = value]
  /\ since' = [since EXCEPT ![holder] = {}]
  /\ Unlock
  /\ UNCHANGED <<mem, disk>>

Flush ==
  /\ step = "written"
  /\ disk' = mem
  /\ acked' = [acked EXCEPT ![holder] = value]
  /\ since' = [since EXCEPT ![holder] = {}]
  /\ Unlock
  /\ UNCHANGED mem

\* The set returns the error; what it wrote stays in the mapping.
FlushFails ==
  /\ step = "written"
  /\ Unlock
  /\ UNCHANGED <<mem, disk, acked, since>>

WriteBack ==
  /\ disk # mem
  /\ disk' = mem
  /\ UNCHANGED <<mem, holder, step, value, acked, since>>

\* The process dies, or the machine, and the file is mapped again.
Reopen(machine) ==
  /\ mem' = IF machine THEN disk ELSE mem
  /\ Unlock
  /\ UNCHANGED <<disk, acked, since>>

-----------------------------------------------------------------------------
FileTypeOK ==
  /\ DOMAIN mem = Writers /\ DOMAIN disk = Writers
  /\ DOMAIN acked = Writers /\ DOMAIN since = Writers
  /\ step \in {"free", "locked", "written"}
  /\ step # "free" => holder \in Writers /\ value \in since[holder]
  /\ step = "written" => mem[holder] = value

\* Whatever dies and whenever, a field never falls back behind the last value
\* whose set returned Ok.
AckedSurvives ==
  \A w \in Writers : {mem[w], disk[w]} \subseteq {acked[w]} \cup since[w]
=============================================================================
