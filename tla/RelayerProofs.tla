--------------------------- MODULE RelayerProofs ----------------------------
(***************************************************************************)
(* Proofs about Relayer, for every chain, every set of writers, every page *)
(* size and every number of restarts: the state file keeps what it has     *)
(* acknowledged, the forwarder skips nothing, and what lies below the      *)
(* stored signature is accounted for.                                      *)
(***************************************************************************)
EXTENDS Relayer, SumsProofs, SequenceTheorems

\* What is published is a sequence of commands, each for a transaction of the
\* chain.
PublishedInv ==
  /\ \E S : published \in Seq(S)
  /\ \A k \in DOMAIN published : published[k].tx \in 1..landed

ForwarderInv == TypeOK /\ PublishedInv

FileInv == State!FileTypeOK /\ State!AckedSurvives

\* The whole of the state's types.
TypeInv == RelayerTypeOK /\ PublishedInv /\ FileInv

\* The stored signature is never ahead of what the listener has taken from the
\* chain, in memory, on disk or on its way there.
StoredInv ==
  /\ mem["listener"] \in Nat /\ disk["listener"] \in Nat
  /\ disk["listener"] <= mem["listener"] /\ mem["listener"] <= at
  /\ step # "free" /\ holder = "listener" => value = at /\ listener = "storing"

-----------------------------------------------------------------------------
(* Pages and chains.                                                       *)

\* The chain so far is the beginning of the script.
LEMMA ChainProperties ==
  ASSUME script \in Histories, landed \in 0..Len(script)
  PROVE  /\ Len(script) \in Nat
         /\ DOMAIN script = 1..Len(script)
         /\ DOMAIN Chain = 1..landed
<1> DEFINE S == {script[i] : i \in DOMAIN script}
<1>1. script \in Seq(S)
  BY ForwarderAssumption
<1>2. Len(script) \in Nat /\ DOMAIN script = 1..Len(script)
  <2> HIDE DEF S
  <2> QED BY <1>1, LenProperties
<1>3. \A i \in 1..landed : script[i] \in S
  BY <1>2
<1>4. Chain \in Seq(S) /\ Len(Chain) = landed
  <2> HIDE DEF S
  <2>1. /\ Chain \in Seq(S)
        /\ Len(Chain) = IF 1 <= landed THEN landed - 1 + 1 ELSE 0
    BY <1>2, <1>3, SubSeqProperties DEF Chain
  <2> QED BY <1>2, <2>1
<1>5. DOMAIN Chain = 1..landed
  <2> HIDE DEF S
  <2> QED BY <1>4, LenProperties
<1> QED BY <1>2, <1>5

\* A page holds positions of the chain, and the next one starts at one of them.
LEMMA PageProperties ==
  ASSUME script \in Histories, landed \in 0..Len(script), NEW account
  PROVE  LET page == Page(Chain, account, cursor)
         IN page \subseteq 1..landed /\ (page # {} => CursorAfter(page) \in Nat)
<1> DEFINE page == Page(Chain, account, cursor)
<1>1. page \subseteq 1..landed
  BY ChainProperties DEF Page, History
<1>2. ASSUME page # {}
      PROVE  CursorAfter(page) \in Nat
  <2> HIDE DEF page
  <2>1. page \subseteq Nat /\ landed \in Nat
    BY <1>1, ChainProperties
  <2>2. \E i \in page : \A j \in page : i <= j
    BY <2>1, <1>2, LeastElement
  <2> QED BY <2>1, <2>2 DEF CursorAfter
<1> QED BY <1>1, <1>2

-----------------------------------------------------------------------------
(* The state file.                                                         *)

FileSteps ==
  \/ \E w \in Writers : \E v \in {at, mem[w] + 1} : State!Lock(w, v)
  \/ State!Write \/ State!Flush \/ State!FlushFails \/ State!WriteBack
  \/ \E machine \in BOOLEAN : State!Reopen(machine)

\* Every step of the relayer leaves the file alone or is one of its operations.
LEMMA FileStepsOnly ==
  ASSUME RelayerNext
  PROVE  FileSteps \/ UNCHANGED file
<1>1. \A w \in Writers : StoreTask(w) => FileSteps
  BY DEF StoreTask, FileSteps
<1>2. StoreSignature => FileSteps
  BY RelayerAssumption DEF StoreSignature, FileSteps
<1>3. (Write \/ Flush \/ FlushFails \/ WriteBack) => FileSteps
  BY DEF Write, Flush, FlushFails, WriteBack, FileSteps
<1>4. \A machine \in BOOLEAN : Restart(machine) => FileSteps
  BY DEF Restart, FileSteps
<1>5. (ChainGrows \/ Forward \/ ForwarderFails \/ Read) => UNCHANGED file
  BY DEF ChainGrows, Forward, ForwarderFails, Read, Others
<1> QED BY <1>1, <1>2, <1>3, <1>4, <1>5 DEF RelayerNext

\* The operations of the file keep what was acknowledged.
LEMMA FileStep ==
  ASSUME FileInv, FileSteps \/ UNCHANGED file
  PROVE  FileInv'
<1> USE DEF FileInv, State!FileTypeOK, State!AckedSurvives
<1>1. ASSUME NEW w \in Writers, NEW v, State!Lock(w, v)
      PROVE  FileInv'
  BY <1>1 DEF State!Lock
<1>2. CASE State!Write
  BY <1>2 DEF State!Write
<1>3. CASE State!Flush
  BY <1>3 DEF State!Flush, State!Unlock
<1>4. CASE State!FlushFails
  BY <1>4 DEF State!FlushFails, State!Unlock
<1>5. CASE State!WriteBack
  BY <1>5 DEF State!WriteBack
<1>6. ASSUME NEW machine \in BOOLEAN, State!Reopen(machine)
      PROVE  FileInv'
  BY <1>6 DEF State!Reopen, State!Unlock
<1>7. CASE UNCHANGED file
  BY <1>7 DEF file
<1> QED BY <1>1, <1>2, <1>3, <1>4, <1>5, <1>6, <1>7 DEF FileSteps

-----------------------------------------------------------------------------
(* The forwarder.                                                          *)

\* A step of the forwarder, or of the chain, keeps its types and what is
\* published on the chain.
LEMMA ForwarderStep ==
  ASSUME ForwarderInv, Next
  PROVE  ForwarderInv'
<1> USE DEF ForwarderInv, TypeOK, Locations, NoTx, chainVars, forwarder, pricing, At
<1>0. Len(script) \in Nat /\ DOMAIN script = 1..Len(script) /\ landed \in Nat
  BY ChainProperties
<1>1. CASE Grow
  <2>1. landed' = landed + 1 /\ landed' \in 0..Len(script)
    BY <1>0, <1>1 DEF Grow
  <2>2. 1..landed \subseteq 1..landed'
    BY <1>0, <2>1
  <2>3. queue \in Seq(1..landed')
    BY <2>2, SeqMonotonic
  <2>4. PublishedInv'
    BY <1>1, <2>2 DEF Grow, PublishedInv
  <2> QED BY <1>0, <1>1, <2>1, <2>2, <2>3, <2>4 DEF Grow, Ixs
<1>2. ASSUME NEW i \in DOMAIN script, Arrive(i)
      PROVE  ForwarderInv'
  <2>1. i \in 1..landed /\ queue' \in Seq(1..landed)
    BY <1>2, AppendProperties DEF Arrive
  <2> QED BY <1>2, <2>1 DEF Arrive, PublishedInv, Ixs
<1>3. CASE Receive
  <2>1. Head(queue) \in 1..landed /\ Tail(queue) \in Seq(1..landed)
    BY <1>3, HeadTailProperties DEF Receive
  <2> QED BY <1>0, <1>3, <2>1 DEF Receive, PublishedInv
<1>4. CASE SkipInstruction
  BY <1>4 DEF SkipInstruction, PublishedInv, Ixs
<1>5. CASE BeginHistory
  <2>1. current \in 1..Len(script)
    BY <1>0, <1>5 DEF BeginHistory
  <2>2. Len(Ixs) \in Nat /\ DOMAIN Ixs = 1..Len(Ixs)
    <3>1. Ixs \in Seq({Ixs[k] : k \in DOMAIN Ixs})
      BY <1>0, <2>1, ForwarderAssumption DEF Ixs
    <3> QED BY <3>1, LenProperties
  <2>3. ix' \in DOMAIN Ixs /\ Ixs' = Ixs
    BY <1>5, <2>2 DEF BeginHistory, Ixs
  <2> QED BY <1>0, <1>5, <2>3 DEF BeginHistory, PublishedInv
<1>6. CASE FetchPage
  <2> DEFINE page == Page(Chain, Ixs[ix].account, cursor)
  <2>1. page \subseteq 1..landed /\ (page # {} => CursorAfter(page) \in Nat)
    BY PageProperties
  <2> HIDE DEF page
  <2>2. cursor' \in Nat /\ signatures' \subseteq 1..landed
        /\ pc' \in {"page", "fetch"}
        /\ UNCHANGED <<script, landed, queue, current, ix, total, published>>
    <3> USE DEF page
    <3> QED BY <1>6, <2>1 DEF FetchPage
  <2> QED BY <1>6, <2>2 DEF FetchPage, PublishedInv, Ixs
<1>7. CASE AddCosts
  BY <1>7 DEF AddCosts, PublishedInv, Ixs
<1>8. CASE Publish
  <2>1. PICK S : published \in Seq(S)
    BY DEF PublishedInv
  <2>2. published \in Seq(S \cup {Command})
    BY <2>1, SeqMonotonic
  <2>3. /\ published' \in Seq(S \cup {Command})
        /\ DOMAIN published' = 1..Len(published) + 1
        /\ DOMAIN published = 1..Len(published)
        /\ Len(published) \in Nat
        /\ \A k \in 1..Len(published) : published'[k] = published[k]
        /\ published'[Len(published) + 1] = Command
    BY <1>8, <2>2, AppendProperties, LenProperties DEF Publish
  <2>4. Command.tx \in 1..landed
    BY <1>0, <1>8 DEF Command, Publish
  <2>5. \A k \in DOMAIN published' : published'[k].tx \in 1..landed
    <3>1. \A k \in 1..Len(published) + 1 :
             k \in 1..Len(published) \/ k = Len(published) + 1
      BY <2>3
    <3>2. \A k \in DOMAIN published : published[k].tx \in 1..landed
      BY DEF PublishedInv
    <3> QED BY <2>3, <2>4, <3>1, <3>2
  <2> QED BY <1>8, <2>3, <2>5 DEF Publish, PublishedInv
<1>9. CASE Fail
  BY <1>9 DEF Fail, PublishedInv, Ixs
<1> QED BY <1>1, <1>2, <1>3, <1>4, <1>5, <1>6, <1>7, <1>8, <1>9 DEF Next, Step

-----------------------------------------------------------------------------
(* The types.                                                              *)

\* The types hold at the start.
LEMMA TypeInit == ASSUME RelayerInit PROVE TypeInv
<1> USE DEF RelayerInit, Init, Idle
<1>1. FileInv
  BY DEF FileInv, State!FileInit, State!FileTypeOK, State!AckedSurvives, State!Nobody,
         State!Zero
<1>2. ForwarderInv
  <2>1. Len(script) \in Nat
    BY ChainProperties, ForwarderAssumption, LenProperties
  <2>2. published \in Seq({}) /\ queue \in Seq(1..landed)
    BY EmptySeq
  <2> QED BY <2>1, <2>2 DEF ForwarderInv, TypeOK, PublishedInv, Locations, NoTx
<1> QED
  BY <1>1, <1>2, RelayerAssumption, EmptySeq
  DEF TypeInv, RelayerTypeOK, FileInv, ForwarderInv

\* What a restart leaves of the forwarder.
LEMMA RestartForwarder ==
  ASSUME ForwarderInv, NEW machine \in BOOLEAN, Restart(machine)
  PROVE  ForwarderInv'
<1>1. queue' \in Seq((1..landed)')
  BY EmptySeq DEF Restart
<1>2. Len(script) \in Nat /\ landed \in Nat
  BY ChainProperties DEF ForwarderInv, TypeOK
<1> QED
  BY <1>1, <1>2 DEF Restart, ForwarderInv, TypeOK, PublishedInv, chainVars, Locations, NoTx

\* Every other step is one of the forwarder's or leaves it alone.
LEMMA ForwarderStepsOnly ==
  ASSUME ForwarderInv, RelayerNext, \A machine \in BOOLEAN : ~Restart(machine)
  PROVE  Next \/ UNCHANGED vars
<1>1. CASE ChainGrows
  BY <1>1 DEF ChainGrows, Next
<1>2. CASE Forward
  BY <1>2 DEF Forward, Next
<1>3. CASE ForwarderFails
  BY <1>3 DEF ForwarderFails, Next
<1>4. CASE Read
  <2>1. Arrive(at + 1) => at + 1 \in DOMAIN script
    BY ChainProperties DEF Arrive, ForwarderInv, TypeOK
  <2> QED BY <1>4, <2>1 DEF Read, Next
<1>5. CASE StoreSignature \/ Write \/ Flush \/ FlushFails \/ WriteBack
  BY <1>5 DEF StoreSignature, Write, Flush, FlushFails, WriteBack
<1>6. ASSUME NEW w \in Writers, StoreTask(w)
      PROVE  UNCHANGED vars
  BY <1>6 DEF StoreTask
<1> QED BY <1>1, <1>2, <1>3, <1>4, <1>5, <1>6 DEF RelayerNext

\* The stored signature never gets ahead of the listener, and what is set is
\* what the listener has read.
LEMMA StoredStep ==
  ASSUME TypeInv, StoredInv, RelayerNext
  PROVE  StoredInv'
<1> USE DEF TypeInv, RelayerTypeOK, StoredInv, State!FileTypeOK
<1>0. landed \in Nat /\ "listener" \in Writers
  BY ChainProperties, RelayerAssumption DEF TypeOK
<1>1. CASE ChainGrows \/ Forward \/ ForwarderFails
  BY <1>1 DEF ChainGrows, Forward, ForwarderFails, Others, file, reading
<1>2. CASE Read
  BY <1>0, <1>2 DEF Read, file
<1>3. CASE StoreSignature
  BY <1>0, <1>3 DEF StoreSignature, State!Lock
<1>4. CASE Write
  BY <1>0, <1>4 DEF Write, State!Write, reading
<1>5. CASE Flush
  BY <1>0, <1>5 DEF Flush, State!Flush, State!Unlock
<1>6. CASE FlushFails
  BY <1>0, <1>6 DEF FlushFails, State!FlushFails, State!Unlock
<1>7. CASE WriteBack
  BY <1>0, <1>7 DEF WriteBack, State!WriteBack, reading
<1>8. ASSUME NEW w \in Writers, StoreTask(w)
      PROVE  StoredInv'
  BY <1>0, <1>8 DEF StoreTask, State!Lock, reading
<1>9. ASSUME NEW machine \in BOOLEAN, Restart(machine)
      PROVE  StoredInv'
  BY <1>0, <1>9 DEF Restart, State!Reopen, State!Unlock
<1> QED BY <1>1, <1>2, <1>3, <1>4, <1>5, <1>6, <1>7, <1>8, <1>9 DEF RelayerNext

\* Neither the forwarder nor the listener takes anything out of what was
\* published, and the chain only grows.
LEMMA PublishedGrows ==
  ASSUME TypeInv, Next \/ UNCHANGED vars
  PROVE  /\ Len(published) \in Nat /\ Len(published') \in Nat
         /\ Len(published) <= Len(published')
         /\ landed \in Nat /\ landed' \in Nat /\ landed <= landed'
<1> USE DEF TypeInv, RelayerTypeOK, PublishedInv, TypeOK
<1>1. PICK S : published \in Seq(S)
  OBVIOUS
<1>2. Len(published) \in Nat /\ landed \in Nat
  BY <1>1, ChainProperties, LenProperties
<1>3. CASE Grow
  BY <1>2, <1>3 DEF Grow, forwarder
<1>4. CASE Publish
  <2>1. published \in Seq(S \cup {Command})
    BY <1>1, SeqMonotonic
  <2>2. Len(published') = Len(published) + 1
    BY <1>4, <2>1, AppendProperties DEF Publish
  <2> QED BY <1>2, <1>4, <2>2 DEF Publish, chainVars
<1>5. CASE Receive \/ SkipInstruction \/ BeginHistory \/ FetchPage \/ AddCosts \/ Fail
           \/ (\E i \in DOMAIN script : Arrive(i)) \/ UNCHANGED vars
  BY <1>2, <1>5
  DEF Receive, SkipInstruction, BeginHistory, FetchPage, AddCosts, Fail, Arrive, chainVars,
      vars, forwarder
<1> QED BY <1>3, <1>4, <1>5 DEF Next, Step

\* What a life ends with in memory has landed.
LEMMA MemoryOnChain ==
  ASSUME TypeOK
  PROVE  InMemory \subseteq 1..landed
<1>1. \A k \in DOMAIN queue : queue[k] \in 1..landed
  BY LenProperties, ElementOfSeq DEF TypeOK
<1>2. landed \in Nat
  BY ChainProperties DEF TypeOK
<1> QED BY <1>1, <1>2 DEF InMemory, TypeOK, NoTx

\* Every step keeps the types.
LEMMA TypeStep ==
  ASSUME TypeInv, StoredInv, RelayerNext
  PROVE  TypeInv'
<1> USE DEF TypeInv, RelayerTypeOK
<1>1. FileInv'
  BY FileStepsOnly, FileStep
<1>2. ForwarderInv
  BY DEF ForwarderInv
<1>3. StoredInv'
  BY StoredStep
<1>4. CASE \E machine \in BOOLEAN : Restart(machine)
  <2>1. PICK machine \in BOOLEAN : Restart(machine)
    BY <1>4
  <2>2. ForwarderInv'
    BY <1>2, <2>1, RestartForwarder
  <2>3. lost' \subseteq 1..landed'
    BY <2>1, MemoryOnChain DEF Restart, chainVars
  <2>4. Len(published) \in Nat /\ landed \in Nat
    BY ChainProperties, LenProperties DEF PublishedInv, TypeOK
  <2>5. at' \in 0..landed' /\ begin' \in 0..at'
    BY <2>1, <2>4, RelayerAssumption
    DEF Restart, StoredInv, State!Reopen, chainVars
  <2>6. base' \in 0..Len(published') /\ restarts' \in 0..MaxRestarts
    BY <2>1, <2>4, RelayerAssumption DEF Restart
  <2>7. listener' = "read"
    BY <2>1 DEF Restart
  <2> QED BY <1>1, <2>2, <2>3, <2>5, <2>6, <2>7 DEF ForwarderInv, FileInv
<1>5. CASE \A machine \in BOOLEAN : ~Restart(machine)
  <2>1. Next \/ UNCHANGED vars
    BY <1>2, <1>5, ForwarderStepsOnly
  <2>2. ForwarderInv'
    <3>1. CASE UNCHANGED vars
      BY <1>2, <3>1
      DEF ForwarderInv, TypeOK, PublishedInv, vars, chainVars, forwarder, pricing, Ixs
    <3> QED BY <1>2, <2>1, <3>1, ForwarderStep
  <2>3. /\ Len(published) \in Nat /\ Len(published') \in Nat
        /\ Len(published) <= Len(published')
        /\ landed \in Nat /\ landed' \in Nat /\ landed <= landed'
    BY <2>1, PublishedGrows
  <2>4. UNCHANGED life
    BY <1>5
    DEF RelayerNext, ChainGrows, Forward, ForwarderFails, Others, Read, StoreSignature, Write,
        Flush, FlushFails, WriteBack, StoreTask
  <2>5. at' \in 0..landed' /\ at <= at'
        /\ listener' \in {"read", "store", "storing", "stopped"}
    <3>1. CASE Read
      BY <2>3, <3>1 DEF Read
    <3>2. CASE ~Read
      <4>1. at' = at /\ listener' \in {"read", "store", "storing", "stopped"}
        BY <1>5, <3>2
        DEF RelayerNext, ChainGrows, Forward, ForwarderFails, Others, StoreSignature, Write,
            Flush, FlushFails, WriteBack, StoreTask, reading
      <4> QED BY <2>3, <4>1
    <3> QED BY <3>1, <3>2
  <2> QED BY <1>1, <2>2, <2>3, <2>4, <2>5 DEF ForwarderInv, FileInv, life
<1> QED BY <1>4, <1>5

\* A step that changes nothing.
LEMMA Stutter ==
  ASSUME UNCHANGED relayerVars
  PROVE  /\ UNCHANGED <<script, landed, queue, pc, current, ix, cursor, signatures, total,
                        published>>
         /\ UNCHANGED <<mem, disk, holder, step, value, acked, since>>
         /\ UNCHANGED <<at, listener, begin, base, lost, restarts>>
BY DEF relayerVars, vars, chainVars, forwarder, pricing, file, reading, life

\* A step that changes nothing.
LEMMA StoredStutter ==
  ASSUME TypeInv, StoredInv, UNCHANGED relayerVars
  PROVE  TypeInv' /\ StoredInv'
BY Stutter
DEF TypeInv, RelayerTypeOK, TypeOK, PublishedInv, FileInv, State!FileTypeOK,
    State!AckedSurvives, StoredInv, Ixs

\* Both invariants, of every behaviour.
LEMMA StoredAlways == RelayerSpec => [](TypeInv /\ StoredInv)
<1>1. RelayerInit => TypeInv /\ StoredInv
  BY TypeInit, RelayerAssumption
  DEF RelayerInit, StoredInv, State!FileInit, State!Zero
<1>2. TypeInv /\ StoredInv /\ [RelayerNext]_relayerVars => TypeInv' /\ StoredInv'
  BY TypeStep, StoredStep, StoredStutter
<1> QED BY <1>1, <1>2, PTL DEF RelayerSpec

\* The state's types hold throughout.
THEOREM TypeCorrect == RelayerSpec => []RelayerTypeOK
<1>1. TypeInv => RelayerTypeOK
  BY DEF TypeInv
<1> QED BY <1>1, StoredAlways, PTL

\* Through the death of the process and of the machine, the state file keeps
\* for every field the last value whose set returned Ok, or a later one.
THEOREM AckedPersists == RelayerSpec => []AckedSurvives
<1>1. TypeInv => AckedSurvives
  BY DEF TypeInv, FileInv, AckedSurvives
<1> QED BY <1>1, StoredAlways, PTL

-----------------------------------------------------------------------------
(* The forwarder's order.                                                  *)

\* The transactions this life has published.
Sent == [k \in 1..(Len(published) - base) |-> published[base + k].tx]

\* The pipeline is what was sent, what is held and what is queued, in turn.
LEMMA PipelineParts ==
  ASSUME TypeInv
  PROVE  /\ Sent \in Seq(1..landed) /\ Len(Sent) = Len(published) - base
         /\ Held \in Seq(1..landed)
         /\ queue \in Seq(1..landed)
         /\ Sent \o Held \in Seq(1..landed)
         /\ Pipeline = (Sent \o Held) \o queue
         /\ Pipeline \in Seq(1..landed)
<1> USE DEF TypeInv, RelayerTypeOK, TypeOK
<1>1. Len(published) \in Nat /\ DOMAIN published = 1..Len(published) /\ landed \in Nat
  BY ChainProperties, LenProperties DEF PublishedInv
<1>2. Len(published) - base \in Nat
  BY <1>1
<1>3. \A k \in 1..(Len(published) - base) : published[base + k].tx \in 1..landed
  <2>1. \A k \in 1..(Len(published) - base) : base + k \in DOMAIN published
    BY <1>1
  <2> QED BY <2>1 DEF PublishedInv
<1>4. Sent \in [1..(Len(published) - base) -> 1..landed]
  BY <1>3 DEF Sent
<1>5. Sent \in Seq(1..landed)
  BY <1>2, <1>4, SeqDef
<1>6. Len(Sent) = Len(published) - base
  BY <1>2, <1>4, <1>5, LenProperties
<1>7. Held \in Seq(1..landed)
  <2>1. current # NoTx => current \in 1..landed
    BY <1>1 DEF NoTx
  <2>2. CASE current # NoTx
    BY <2>1, <2>2 DEF Held
  <2>3. CASE current = NoTx
    BY <2>3, EmptySeq DEF Held
  <2> QED BY <2>2, <2>3
<1>8. Sent \o Held \in Seq(1..landed)
  BY <1>5, <1>7, ConcatProperties
<1>9. Pipeline = (Sent \o Held) \o queue
  BY DEF Pipeline, Sent, Held
<1>10. (Sent \o Held) \o queue \in Seq(1..landed)
  BY <1>8, ConcatProperties
<1> QED BY <1>5, <1>6, <1>7, <1>8, <1>9, <1>10

\* The head of a sequence before its rest is the sequence.
LEMMA HeadBeforeTail ==
  ASSUME NEW S, NEW s \in Seq(S), s # <<>>
  PROVE  <<Head(s)>> \o Tail(s) = s
<1>1. /\ <<Head(s)>> \in Seq(S) /\ Len(<<Head(s)>>) = 1 /\ <<Head(s)>>[1] = s[1]
      /\ Tail(s) \in Seq(S) /\ Len(s) \in Nat \ {0} /\ Len(Tail(s)) = Len(s) - 1
      /\ \A k \in 1..Len(Tail(s)) : Tail(s)[k] = s[k + 1]
  BY HeadTailProperties, EmptySeq
<1>2. /\ <<Head(s)>> \o Tail(s) \in Seq(S)
      /\ Len(<<Head(s)>> \o Tail(s)) = Len(s)
      /\ \A k \in 1..Len(s) :
           (<<Head(s)>> \o Tail(s))[k] =
             IF k <= 1 THEN <<Head(s)>>[k] ELSE Tail(s)[k - 1]
  BY <1>1, ConcatProperties
<1>3. ASSUME NEW k \in 1..Len(s)
      PROVE  (<<Head(s)>> \o Tail(s))[k] = s[k]
  <2>1. CASE k = 1
    BY <1>1, <1>2, <2>1
  <2>2. CASE k # 1
    <3>1. k - 1 \in 1..Len(Tail(s)) /\ (k - 1) + 1 = k /\ ~(k <= 1)
      BY <1>1, <2>2
    <3> QED BY <1>1, <1>2, <3>1
  <2> QED BY <2>1, <2>2
<1> QED BY <1>2, <1>3, SeqEqual

\* Taking a transaction off the channel moves it within the pipeline.
LEMMA PipelineReceive ==
  ASSUME TypeInv, Receive, UNCHANGED base
  PROVE  Pipeline' = Pipeline
<1>1. /\ queue # <<>> /\ Held = <<>> /\ Sent' = Sent
      /\ queue' = Tail(queue) /\ current' = Head(queue)
  BY DEF TypeInv, RelayerTypeOK, TypeOK, Receive, Held, Sent
<1>2. Head(queue) \in 1..landed /\ landed \in Nat
  BY <1>1, HeadTailProperties, ChainProperties DEF TypeInv, RelayerTypeOK, TypeOK
<1>3. Held' = <<Head(queue)>>
  BY <1>1, <1>2 DEF Held, NoTx
<1>4. <<Head(queue)>> \in Seq(1..landed) /\ Tail(queue) \in Seq(1..landed)
  BY <1>1, <1>2, PipelineParts, HeadTailProperties
<1>5. Pipeline' = (Sent \o <<Head(queue)>>) \o Tail(queue)
  BY <1>1, <1>3 DEF Pipeline, Sent, Held
<1>6. (Sent \o <<Head(queue)>>) \o Tail(queue) = Sent \o (<<Head(queue)>> \o Tail(queue))
  <2>1. Sent \in Seq(1..landed)
    BY PipelineParts
  <2> QED BY <1>4, <2>1, ConcatAssociative
<1>7. Pipeline = Sent \o queue
  BY <1>1, PipelineParts, ConcatEmptySeq
<1> QED BY <1>1, <1>5, <1>6, <1>7, PipelineParts, HeadBeforeTail

\* So does publishing it.
LEMMA PipelinePublish ==
  ASSUME TypeInv, Publish, UNCHANGED base
  PROVE  Pipeline' = Pipeline
<1> USE DEF TypeInv, RelayerTypeOK, TypeOK
<1>0. landed \in Nat /\ current \in 1..landed /\ Held = <<current>> /\ queue' = queue
  BY ChainProperties DEF Publish, NoTx, Held
<1>1. PICK S : published \in Seq(S)
  BY DEF PublishedInv
<1>2. published \in Seq(S \cup {Command})
  BY <1>1, SeqMonotonic
<1>3. /\ Len(published') = Len(published) + 1 /\ Len(published) \in Nat
      /\ \A k \in 1..Len(published) : published'[k] = published[k]
      /\ published'[Len(published) + 1] = Command
  BY <1>2, AppendProperties, LenProperties DEF Publish
<1>4. Sent \o <<current>> \in Seq(1..landed)
  BY <1>0, PipelineParts
<1>5. /\ Len(Sent \o <<current>>) = Len(Sent) + 1 /\ Len(Sent) = Len(published) - base
      /\ \A k \in 1..Len(Sent) + 1 :
           (Sent \o <<current>>)[k] = IF k <= Len(Sent) THEN Sent[k] ELSE current
  <2>1. <<current>> \in Seq(1..landed) /\ Len(<<current>>) = 1 /\ <<current>>[1] = current
    BY <1>0
  <2>2. Len(Sent) \in Nat /\ Len(Sent) = Len(published) - base
    BY <1>3, PipelineParts
  <2>3. \A k \in 1..Len(Sent) + 1 : ~(k <= Len(Sent)) => k - Len(Sent) = 1
    BY <2>2
  <2>4. Sent \in Seq(1..landed)
    BY PipelineParts
  <2>5. /\ Len(Sent \o <<current>>) = Len(Sent) + Len(<<current>>)
        /\ \A k \in 1..Len(Sent) + Len(<<current>>) :
             (Sent \o <<current>>)[k] =
               IF k <= Len(Sent) THEN Sent[k] ELSE <<current>>[k - Len(Sent)]
    BY <2>1, <2>4, ConcatProperties
  <2> QED BY <2>1, <2>2, <2>3, <2>5
<1>6. /\ Sent' = [k \in 1..(Len(published) + 1 - base) |-> published'[base + k].tx]
      /\ Sent = [k \in 1..(Len(published) - base) |-> published[base + k].tx]
      /\ Len(published) - base \in Nat
  BY <1>3 DEF Sent
<1>7. ASSUME NEW k \in 1..(Len(published) + 1 - base)
      PROVE  published'[base + k].tx = (Sent \o <<current>>)[k]
  <2>1. CASE k <= Len(published) - base
    <3>1. k \in 1..(Len(published) - base) /\ base + k \in 1..Len(published)
      BY <1>3, <2>1
    <3>2. published'[base + k].tx = Sent[k]
      BY <1>3, <1>6, <3>1
    <3> QED BY <1>3, <1>5, <1>6, <2>1, <3>1, <3>2
  <2>2. CASE ~(k <= Len(published) - base)
    <3>1. base + k = Len(published) + 1 /\ k = Len(Sent) + 1 /\ Len(Sent) \in Nat
      BY <1>3, <1>5, <1>6, <2>2
    <3>2. Command.tx = current
      BY DEF Command
    <3>3. published'[base + k].tx = current
      BY <1>3, <3>1, <3>2
    <3>4. (Sent \o <<current>>)[k] = current
      BY <1>5, <3>1
    <3> QED BY <3>3, <3>4
  <2> QED BY <2>1, <2>2
<1>8. Sent' = [k \in 1..Len(Sent \o <<current>>) |-> (Sent \o <<current>>)[k]]
  <2>1. Len(Sent \o <<current>>) = Len(published) + 1 - base
    BY <1>3, <1>5, <1>6
  <2> QED BY <1>6, <1>7, <2>1
<1>9. Sent' = Sent \o <<current>>
  BY <1>4, <1>8, LenProperties
<1>10. Pipeline' = (Sent' \o <<>>) \o queue
  BY <1>0 DEF Publish, Pipeline, Sent, NoTx, Held
<1>11. (Sent \o <<current>>) \o <<>> = Sent \o <<current>>
  BY <1>4, ConcatEmptySeq
<1> QED BY <1>0, <1>9, <1>10, <1>11, PipelineParts

\* Every other step of the forwarder leaves the pipeline alone.
LEMMA PipelineKept ==
  ASSUME TypeInv, UNCHANGED <<base, at, begin>>,
         Grow \/ Step \/ Fail \/ UNCHANGED vars, NothingSkipped
  PROVE  NothingSkipped'
<1>1. UNCHANGED script
  BY DEF Grow, Step, Fail, Receive, SkipInstruction, BeginHistory, FetchPage, AddCosts,
         Publish, vars, chainVars
<1>2. Pipeline' = Pipeline
  <2>1. CASE Receive
    BY <2>1, PipelineReceive
  <2>2. CASE Publish
    BY <2>2, PipelinePublish
  <2>3. CASE Grow \/ SkipInstruction \/ BeginHistory \/ FetchPage \/ AddCosts \/ Fail
             \/ UNCHANGED vars
    <3>1. UNCHANGED <<published, current, queue>>
      BY <2>3
      DEF Grow, SkipInstruction, BeginHistory, FetchPage, AddCosts, Fail, forwarder, vars
    <3> QED BY <3>1 DEF Pipeline, Held
  <2> QED BY <2>1, <2>2, <2>3 DEF Step
<1> QED BY <1>1, <1>2 DEF NothingSkipped

\* The listener appends the next transaction, if it succeeded.
LEMMA PipelineRead ==
  ASSUME TypeInv, Read, NothingSkipped
  PROVE  NothingSkipped'
<1> USE DEF TypeInv, RelayerTypeOK, TypeOK
<1>1. /\ landed \in Nat /\ at \in Nat /\ begin \in Nat /\ begin <= at
      /\ at' = at + 1 /\ at + 1 \in 1..landed
      /\ UNCHANGED <<base, begin, script, published, current>>
  BY ChainProperties DEF Read, life, Arrive, chainVars, vars, forwarder
<1>2. /\ Pipeline \in Seq(1..landed) /\ DOMAIN Pipeline = 1..Len(Pipeline)
      /\ Len(Pipeline) \in Nat
  BY PipelineParts, LenProperties
<1>3. CASE script[at + 1].ok
  <2>1. queue' = Append(queue, at + 1)
    BY <1>3 DEF Read, Arrive
  <2>2. Pipeline' = (Sent \o Held) \o Append(queue, at + 1)
    BY <1>1, <2>1 DEF Pipeline, Sent, Held
  <2>3. Pipeline' = Append(Pipeline, at + 1)
    <3>1. Append(queue, at + 1) = queue \o <<at + 1>>
      BY <1>1, PipelineParts, AppendIsConcat
    <3>2. <<at + 1>> \in Seq(1..landed)
      BY <1>1
    <3>3. (Sent \o Held) \o (queue \o <<at + 1>>) = ((Sent \o Held) \o queue) \o <<at + 1>>
      <4> DEFINE done == Sent \o Held
      <4>1. done \in Seq(1..landed) /\ queue \in Seq(1..landed)
        BY PipelineParts
      <4> HIDE DEF done
      <4>2. done \o (queue \o <<at + 1>>) = (done \o queue) \o <<at + 1>>
        BY <3>2, <4>1, ConcatAssociative
      <4> QED BY <4>2 DEF done
    <3>4. Append(Pipeline, at + 1) = Pipeline \o <<at + 1>>
      BY <1>1, <1>2, AppendIsConcat
    <3> QED BY <2>2, <3>1, <3>3, <3>4, PipelineParts
  <2>4. /\ DOMAIN Pipeline' = 1..Len(Pipeline) + 1
        /\ \A k \in 1..Len(Pipeline) : Pipeline'[k] = Pipeline[k]
        /\ Pipeline'[Len(Pipeline) + 1] = at + 1
    BY <1>1, <1>2, <2>3, AppendProperties, LenProperties
  <2>5. \A k \in 1..Len(Pipeline) : Pipeline[k] \in begin + 1 .. at
    BY <1>2 DEF NothingSkipped
  <2>6. ASSUME NEW j \in DOMAIN Pipeline', NEW k \in DOMAIN Pipeline', j < k
        PROVE  Pipeline'[j] < Pipeline'[k]
    <3>1. j \in 1..Len(Pipeline) /\ Pipeline'[j] = Pipeline[j]
      BY <1>2, <2>4, <2>6
    <3>2. CASE k \in 1..Len(Pipeline)
      BY <1>2, <2>4, <2>6, <3>1, <3>2 DEF NothingSkipped
    <3>3. CASE k = Len(Pipeline) + 1
      BY <1>1, <2>4, <2>5, <3>1, <3>3
    <3> QED BY <1>2, <2>4, <3>2, <3>3
  <2>7. {Pipeline'[k] : k \in DOMAIN Pipeline'} = {Pipeline[k] : k \in DOMAIN Pipeline} \cup {at + 1}
    <3>1. 1..Len(Pipeline) + 1 = DOMAIN Pipeline \cup {Len(Pipeline) + 1}
      BY <1>2
    <3> QED BY <1>2, <2>4, <3>1
  <2>8. {i \in begin + 1 .. at + 1 : script[i].ok} = {i \in begin + 1 .. at : script[i].ok} \cup {at + 1}
    BY <1>1, <1>3
  <2> QED BY <1>1, <2>6, <2>7, <2>8 DEF NothingSkipped
<1>4. CASE ~script[at + 1].ok
  <2>1. Pipeline' = Pipeline
    BY <1>1, <1>4 DEF Read, vars, forwarder, Pipeline, Held
  <2>2. {i \in begin + 1 .. at + 1 : script[i].ok} = {i \in begin + 1 .. at : script[i].ok}
    BY <1>1, <1>4
  <2> QED BY <1>1, <2>1, <2>2 DEF NothingSkipped
<1> QED BY <1>3, <1>4

\* A new life begins with an empty pipeline, right above the stored signature.
LEMMA PipelineRestart ==
  ASSUME TypeInv, StoredInv, NEW machine \in BOOLEAN, Restart(machine)
  PROVE  NothingSkipped'
<1>1. /\ at' \in Nat /\ begin' = at' /\ base' = Len(published') /\ Len(published') \in Nat
      /\ current' = NoTx /\ queue' = <<>>
  BY LenProperties
  DEF Restart, StoredInv, State!Reopen, TypeInv, PublishedInv
<1>2. Pipeline' = <<>>
  <2>1. 1..(Len(published') - base') = {}
    BY <1>1
  <2>2. Sent' = <<>>
    BY <2>1 DEF Sent
  <2>3. Pipeline' = (<<>> \o <<>>) \o <<>>
    BY <1>1, <2>2 DEF Pipeline, Sent, Held
  <2> QED BY <2>3, EmptySeq, ConcatEmptySeq
<1>3. begin' + 1 .. at' = {}
  <2>1. \A n \in Nat : n + 1 .. n = {}
    OBVIOUS
  <2> QED BY <1>1, <2>1
<1> QED BY <1>2, <1>3 DEF NothingSkipped

\* Steps that are not the forwarder's, the listener's reading or a restart.
LEMMA OtherSteps ==
  ASSUME StoreSignature \/ Write \/ Flush \/ FlushFails \/ WriteBack
           \/ \E w \in Writers : StoreTask(w)
  PROVE  UNCHANGED <<vars, at, life>>
BY DEF StoreSignature, Write, Flush, FlushFails, WriteBack, StoreTask, reading

\* In one life of the process every successful transaction the listener read
\* is published, held or queued, once and in the order of the chain.
THEOREM InOrder == RelayerSpec => []NothingSkipped
<1>1. RelayerInit => NothingSkipped
  <2> SUFFICES ASSUME RelayerInit PROVE NothingSkipped
    OBVIOUS
  <2>1. Sent = <<>> /\ current = NoTx /\ queue = <<>> /\ at = 0 /\ begin = 0
    BY EmptySeq DEF RelayerInit, Init, Idle, Sent
  <2>2. Pipeline = <<>>
    BY <2>1, EmptySeq, ConcatEmptySeq DEF Pipeline, Sent, Held
  <2> QED BY <2>1, <2>2 DEF NothingSkipped
<1>2. TypeInv /\ StoredInv /\ NothingSkipped /\ [RelayerNext]_relayerVars => NothingSkipped'
  <2> SUFFICES ASSUME TypeInv, StoredInv, NothingSkipped, [RelayerNext]_relayerVars
               PROVE  NothingSkipped'
    OBVIOUS
  <2>1. CASE ChainGrows \/ Forward \/ ForwarderFails
    <3>1. UNCHANGED <<base, at, begin>> /\ (Grow \/ Step \/ Fail)
      BY <2>1 DEF ChainGrows, Forward, ForwarderFails, Others, reading, life
    <3> QED BY <3>1, PipelineKept
  <2>2. CASE Read
    BY <2>2, PipelineRead
  <2>3. CASE StoreSignature \/ Write \/ Flush \/ FlushFails \/ WriteBack
               \/ \E w \in Writers : StoreTask(w)
    <3>1. UNCHANGED <<base, at, begin>> /\ UNCHANGED vars
      BY <2>3, OtherSteps DEF life
    <3> QED BY <3>1, PipelineKept
  <2>4. CASE \E machine \in BOOLEAN : Restart(machine)
    BY <2>4, PipelineRestart
  <2>5. CASE UNCHANGED relayerVars
    <3>1. UNCHANGED <<base, at, begin>> /\ UNCHANGED vars
      BY <2>5 DEF relayerVars, reading, life
    <3> QED BY <3>1, PipelineKept
  <2> QED BY <2>1, <2>2, <2>3, <2>4, <2>5 DEF RelayerNext
<1> QED BY <1>1, <1>2, StoredAlways, PTL DEF RelayerSpec

-----------------------------------------------------------------------------
(* What the stored signature stands for.                                   *)

Accounted == PublishedTxs \cup InMemory \cup lost

\* Not only what lies below the stored signature: everything that was read.
ReadIsAccountedFor == \A i \in 1..at : script[i].ok => i \in Accounted

\* The forwarder's steps move a transaction from the channel to its hands and
\* from there to the Amplifier.
LEMMA ForwarderKeepsAccount ==
  ASSUME TypeInv, Next \/ UNCHANGED vars, UNCHANGED lost
  PROVE  Accounted \subseteq Accounted'
<1> USE DEF TypeInv, RelayerTypeOK, TypeOK
<1>0. queue \in Seq(1..landed) /\ DOMAIN queue = 1..Len(queue) /\ Len(queue) \in Nat
  BY LenProperties
<1>1. CASE Receive
  <2>1. /\ queue # <<>> /\ current' = Head(queue) /\ queue' = Tail(queue)
        /\ UNCHANGED published /\ current = NoTx
    BY <1>1 DEF Receive
  <2>2. /\ Head(queue) \in 1..landed /\ Head(queue) = queue[1]
        /\ DOMAIN Tail(queue) = 1..Len(queue) - 1
        /\ \A k \in 1..Len(queue) - 1 : Tail(queue)[k] = queue[k + 1]
    BY <1>0, <2>1, HeadTailProperties, LenProperties
  <2>3. ASSUME NEW k \in DOMAIN queue
        PROVE  queue[k] \in InMemory'
    <3>1. CASE k = 1
      <4>1. current' # NoTx
        BY <2>1, <2>2, ChainProperties DEF NoTx
      <4> QED BY <2>1, <2>2, <3>1, <4>1 DEF InMemory, NoTx
    <3>2. CASE k # 1
      <4>1. k - 1 \in 1..Len(queue) - 1 /\ (k - 1) + 1 = k
        BY <1>0, <3>2
      <4> QED BY <2>1, <2>2, <4>1 DEF InMemory
    <3> QED BY <3>1, <3>2
  <2>4. InMemory \subseteq InMemory'
    BY <2>1, <2>3 DEF InMemory
  <2> QED BY <2>1, <2>4 DEF Accounted, PublishedTxs
<1>2. CASE Publish
  <2>1. PICK S : published \in Seq(S)
    BY DEF PublishedInv
  <2>2. published \in Seq(S \cup {Command})
    BY <2>1, SeqMonotonic
  <2>3. /\ DOMAIN published' = 1..Len(published) + 1 /\ Len(published) \in Nat
        /\ DOMAIN published = 1..Len(published)
        /\ \A k \in 1..Len(published) : published'[k] = published[k]
        /\ published'[Len(published) + 1] = Command
    BY <1>2, <2>2, AppendProperties, LenProperties DEF Publish
  <2>4. PublishedTxs \subseteq PublishedTxs'
    BY <2>3 DEF PublishedTxs
  <2>5. current \in PublishedTxs'
    <3>1. Len(published) + 1 \in DOMAIN published'
      BY <2>3
    <3>2. Command.tx = current
      BY DEF Command
    <3> QED BY <2>3, <3>1, <3>2 DEF PublishedTxs
  <2>6. UNCHANGED queue
    BY <1>2 DEF Publish
  <2> QED BY <2>4, <2>5, <2>6 DEF Accounted, InMemory
<1>3. ASSUME NEW i \in DOMAIN script, Arrive(i)
      PROVE  Accounted \subseteq Accounted'
  <2>1. /\ queue' = Append(queue, i) /\ i \in 1..landed /\ UNCHANGED <<current, published>>
    BY <1>3 DEF Arrive
  <2>2. /\ DOMAIN queue' = 1..Len(queue) + 1
        /\ \A k \in 1..Len(queue) : queue'[k] = queue[k]
    BY <1>0, <2>1, AppendProperties, LenProperties
  <2>3. InMemory \subseteq InMemory'
    BY <1>0, <2>1, <2>2 DEF InMemory
  <2> QED BY <2>1, <2>3 DEF Accounted, PublishedTxs
<1>4. CASE Grow \/ SkipInstruction \/ BeginHistory \/ FetchPage \/ AddCosts \/ Fail
           \/ UNCHANGED vars
  <2>1. UNCHANGED <<published, current, queue>>
    BY <1>4
    DEF Grow, SkipInstruction, BeginHistory, FetchPage, AddCosts, Fail, forwarder, vars
  <2> QED BY <2>1 DEF Accounted, PublishedTxs, InMemory
<1> QED BY <1>1, <1>2, <1>3, <1>4 DEF Next, Step

\* What the listener reads next is queued, unless it failed on chain.
LEMMA ReadIsAccounted ==
  ASSUME TypeInv, Read, ReadIsAccountedFor
  PROVE  ReadIsAccountedFor'
<1> USE DEF TypeInv, RelayerTypeOK, TypeOK
<1>1. at \in Nat /\ at' = at + 1 /\ landed \in Nat /\ at < landed
      /\ UNCHANGED <<script, lost>>
  BY ChainProperties DEF Read, life, Arrive, chainVars, vars
<1>2. Next \/ UNCHANGED vars
  <2>1. Arrive(at + 1) => at + 1 \in DOMAIN script
    BY ChainProperties DEF Arrive
  <2> QED BY <2>1 DEF Read, Next
<1>3. Accounted \subseteq Accounted'
  BY <1>1, <1>2, ForwarderKeepsAccount
<1>4. script[at + 1].ok => at + 1 \in Accounted'
  <2> SUFFICES ASSUME script[at + 1].ok PROVE at + 1 \in Accounted'
    OBVIOUS
  <2>1. queue' = Append(queue, at + 1)
    BY DEF Read, Arrive
  <2>2. at + 1 \in 1..landed /\ queue \in Seq(1..landed)
    BY <1>1
  <2>3. Len(queue) + 1 \in DOMAIN queue' /\ queue'[Len(queue) + 1] = at + 1
    BY <2>1, <2>2, AppendProperties, LenProperties
  <2> QED BY <2>3 DEF Accounted, InMemory
<1>5. \A i \in 1..at + 1 : i \in 1..at \/ i = at + 1
  BY <1>1
<1> QED BY <1>1, <1>3, <1>4, <1>5 DEF ReadIsAccountedFor

\* Across restarts: what lies below the stored signature, in memory or on disk,
\* was published, is on its way, or was in memory when a life ended.
THEOREM NothingForgotten == RelayerSpec => []StoredIsAccountedFor
<1>1. RelayerInit => ReadIsAccountedFor
  BY DEF RelayerInit, ReadIsAccountedFor
<1>2. TypeInv /\ StoredInv /\ ReadIsAccountedFor /\ [RelayerNext]_relayerVars
        => ReadIsAccountedFor'
  <2> SUFFICES ASSUME TypeInv, StoredInv, ReadIsAccountedFor, [RelayerNext]_relayerVars
               PROVE  ReadIsAccountedFor'
    OBVIOUS
  <2>1. ASSUME Grow \/ Step \/ Fail \/ UNCHANGED vars, UNCHANGED <<at, lost>>
        PROVE  ReadIsAccountedFor'
    <3>1. UNCHANGED script
      BY <2>1
      DEF Grow, Step, Fail, Receive, SkipInstruction, BeginHistory, FetchPage, AddCosts,
          Publish, vars, chainVars
    <3>2. Accounted \subseteq Accounted'
      BY <2>1, ForwarderKeepsAccount DEF Next
    <3> QED BY <2>1, <3>1, <3>2 DEF ReadIsAccountedFor
  <2>2. CASE ChainGrows \/ Forward \/ ForwarderFails
    <3>1. UNCHANGED <<at, lost>> /\ (Grow \/ Step \/ Fail)
      BY <2>2 DEF ChainGrows, Forward, ForwarderFails, Others, reading, life
    <3> QED BY <2>1, <3>1
  <2>3. CASE Read
    BY <2>3, ReadIsAccounted
  <2>4. CASE StoreSignature \/ Write \/ Flush \/ FlushFails \/ WriteBack
               \/ \E w \in Writers : StoreTask(w)
    <3>1. UNCHANGED <<at, lost>> /\ UNCHANGED vars
      BY <2>4, OtherSteps DEF life
    <3> QED BY <2>1, <3>1
  <2>5. ASSUME NEW machine \in BOOLEAN, Restart(machine)
        PROVE  ReadIsAccountedFor'
    <3>1. Accounted \subseteq Accounted' /\ UNCHANGED script
      BY <2>5 DEF Restart, Accounted, PublishedTxs, chainVars
    <3>2. at' \in Nat /\ at' <= at /\ at \in Nat
      BY <2>5, ChainProperties
      DEF Restart, StoredInv, State!Reopen, TypeInv, RelayerTypeOK, TypeOK
    <3> QED BY <3>1, <3>2 DEF ReadIsAccountedFor
  <2>6. CASE UNCHANGED relayerVars
    <3>1. UNCHANGED <<at, lost>> /\ UNCHANGED vars
      BY <2>6 DEF relayerVars, reading, life
    <3> QED BY <2>1, <3>1
  <2> QED BY <2>2, <2>3, <2>4, <2>5, <2>6 DEF RelayerNext
<1>3. TypeInv /\ StoredInv /\ ReadIsAccountedFor => StoredIsAccountedFor
  <2> SUFFICES ASSUME TypeInv, StoredInv, ReadIsAccountedFor
               PROVE  StoredIsAccountedFor
    OBVIOUS
  <2>1. at \in Nat
    BY ChainProperties DEF TypeInv, RelayerTypeOK, TypeOK
  <2>2. \A w \in {mem["listener"], disk["listener"]} : w \in Nat /\ w <= at
    BY <2>1 DEF StoredInv
  <2> QED BY <2>1, <2>2 DEF ReadIsAccountedFor, StoredIsAccountedFor, Accounted
<1> QED BY <1>1, <1>2, <1>3, StoredAlways, PTL DEF RelayerSpec
-----------------------------------------------------------------------------
(* The relayer as a ReplayedFeed.                                          *)

Pending == Held \o queue

Log == [k \in DOMAIN published |-> published[k].tx]

Wanted == [i \in DOMAIN script |-> script[i].ok]

\* The initial states are initial states of the feed.
LEMMA FeedInit ==
  ASSUME RelayerInit
  PROVE  Feed!Init
<1>1. Len(script) \in Nat /\ DOMAIN script = 1..Len(script)
  BY ForwarderAssumption, LenProperties DEF RelayerInit, Init
<1>2. Wanted \in [1..Len(script) -> BOOLEAN]
  BY <1>1, ForwarderAssumption DEF RelayerInit, Init, Wanted
<1>3. Wanted \in Seq(BOOLEAN)
  BY <1>1, <1>2, SeqDef
<1>4. Pending = <<>>
  BY ConcatEmptySeq, EmptySeq DEF RelayerInit, Init, Idle, Pending, Held
<1>5. Log = <<>>
  BY EmptySeq DEF RelayerInit, Init, Log
<1>6. at = 0 /\ disk["listener"] = 0
  BY RelayerAssumption DEF RelayerInit, State!FileInit, State!Zero
<1> QED BY <1>3, <1>4, <1>5, <1>6 DEF Feed!Init, Pending, Log, Wanted

\* What is pending and logged, as sequences of positions.
LEMMA PendingParts ==
  ASSUME TypeInv
  PROVE  /\ Held \in Seq(1..landed) /\ queue \in Seq(1..landed)
         /\ Pending \in Seq(1..landed)
         /\ landed \in Nat /\ Len(script) \in Nat /\ landed <= Len(script)
         /\ DOMAIN script = 1..Len(script) /\ Len(Wanted) = Len(script)
         /\ \A i \in 1..Len(script) : Wanted[i] = script[i].ok
<1>1. /\ landed \in Nat /\ Len(script) \in Nat /\ landed <= Len(script)
      /\ DOMAIN script = 1..Len(script)
  BY ChainProperties DEF TypeInv, RelayerTypeOK, TypeOK
<1>2. Pending \in Seq(1..landed)
  BY PipelineParts, ConcatProperties DEF Pending
<1>3. Wanted \in [1..Len(script) -> BOOLEAN]
  BY <1>1, ForwarderAssumption DEF TypeInv, RelayerTypeOK, TypeOK, Wanted
<1>4. Len(Wanted) = Len(script)
  BY <1>1, <1>3, SeqDef, LenProperties
<1> QED BY <1>1, <1>2, <1>4, PipelineParts DEF Wanted

\* Taking a transaction off the channel shows nowhere.
LEMMA FeedReceive ==
  ASSUME TypeInv, Receive
  PROVE  Pending' = Pending /\ Log' = Log
<1>1. Held = <<>> /\ queue # <<>> /\ queue' = Tail(queue) /\ current' = Head(queue)
  BY DEF TypeInv, RelayerTypeOK, TypeOK, Receive, Held
<1>2. Head(queue) \in 1..landed /\ landed \in Nat
  BY <1>1, PendingParts, HeadTailProperties
<1>3. Held' = <<Head(queue)>>
  BY <1>1, <1>2 DEF Held, NoTx
<1>4. Pending' = <<Head(queue)>> \o Tail(queue)
  BY <1>1, <1>3 DEF Pending
<1>5. Pending = queue
  BY <1>1, PendingParts, ConcatEmptySeq DEF Pending
<1>6. Log' = Log
  BY DEF Receive, Log
<1> QED BY <1>1, <1>4, <1>5, <1>6, PendingParts, HeadBeforeTail

\* Publishing logs the oldest of what is pending.
LEMMA FeedPublish ==
  ASSUME TypeInv, Publish
  PROVE  /\ Pending # <<>> /\ Pending' = Tail(Pending)
         /\ Log' = Append(Log, Head(Pending))
<1>1. /\ landed \in Nat /\ current \in 1..landed /\ Held = <<current>> /\ queue' = queue
      /\ Held' = <<>>
  BY PendingParts DEF TypeInv, RelayerTypeOK, TypeOK, Publish, NoTx, Held
<1>2. /\ Pending = <<current>> \o queue /\ Pending' = queue
      /\ queue \in Seq(1..landed) /\ Pending \in Seq(1..landed)
  BY <1>1, PendingParts, ConcatEmptySeq DEF Pending
<1>3. Pending # <<>> /\ Head(Pending) = current /\ Tail(Pending) = queue
  <2>1. <<current>> \in Seq(1..landed) /\ Len(<<current>>) = 1 /\ <<current>>[1] = current
    BY <1>1
  <2>2. /\ Len(Pending) = 1 + Len(queue) /\ Len(queue) \in Nat
        /\ \A k \in 1..1 + Len(queue) :
             Pending[k] = IF k <= 1 THEN <<current>>[k] ELSE queue[k - 1]
    BY <1>2, <2>1, ConcatProperties, LenProperties
  <2>3. Pending # <<>>
    BY <1>2, <2>2, EmptySeq
  <2>4. /\ Head(Pending) = Pending[1] /\ Tail(Pending) \in Seq(1..landed)
        /\ Len(Tail(Pending)) = Len(Pending) - 1
        /\ \A k \in 1..Len(Tail(Pending)) : Tail(Pending)[k] = Pending[k + 1]
    BY <1>2, <2>3, HeadTailProperties
  <2>5. ASSUME NEW k \in 1..Len(queue)
        PROVE  Tail(Pending)[k] = queue[k]
    <3>1. k \in 1..Len(Tail(Pending)) /\ k + 1 \in 1..1 + Len(queue) /\ ~(k + 1 <= 1)
      BY <2>2, <2>4
    <3>2. Pending[k + 1] = queue[(k + 1) - 1] /\ (k + 1) - 1 = k
      BY <2>2, <3>1
    <3> QED BY <2>4, <3>1, <3>2
  <2>6. Len(Tail(Pending)) = Len(queue)
    BY <2>2, <2>4
  <2>7. Tail(Pending) = queue
    BY <1>2, <2>4, <2>5, <2>6, SeqEqual
  <2>8. Head(Pending) = current
    BY <2>1, <2>2, <2>4
  <2> QED BY <2>3, <2>7, <2>8
<1>4. Log' = Append(Log, current)
  <2>1. PICK S : published \in Seq(S)
    BY DEF TypeInv, PublishedInv
  <2>2. published \in Seq(S \cup {Command})
    BY <2>1, SeqMonotonic
  <2> DEFINE n == Len(published)
  <2>3. /\ n \in Nat /\ DOMAIN published = 1..n /\ DOMAIN published' = 1..n + 1
        /\ \A k \in 1..n : published'[k] = published[k]
        /\ published'[n + 1] = Command
    <3>1. published' \in Seq(S \cup {Command}) /\ Len(published') = n + 1
      BY <2>2, AppendProperties DEF Publish
    <3> QED BY <2>2, <3>1, AppendProperties, LenProperties DEF Publish
  <2> HIDE DEF n
  <2>4. Command.tx = current
    BY DEF Command
  <2>5. \A k \in 1..n : published[k].tx \in 1..landed
    BY <2>3 DEF TypeInv, PublishedInv
  <2>6. Log \in Seq(1..landed) /\ Len(Log) = n
    <3>1. Log \in [1..n -> 1..landed]
      BY <2>3, <2>5 DEF Log
    <3>2. Log \in Seq(1..landed)
      BY <2>3, <3>1, SeqDef
    <3>3. DOMAIN Log = 1..n
      BY <3>1
    <3>4. Len(Log) \in Nat /\ DOMAIN Log = 1..Len(Log)
      BY <3>2, LenProperties
    <3>5. Len(Log) = n
      BY <2>3, <3>3, <3>4
    <3> QED BY <3>2, <3>5
  <2>7. Log' \in Seq(1..landed) /\ Len(Log') = n + 1
    <3>1. ASSUME NEW k \in 1..n + 1
          PROVE  published'[k].tx \in 1..landed
      <4>1. CASE k \in 1..n
        BY <2>3, <2>5, <4>1
      <4>2. CASE k = n + 1
        BY <1>1, <2>3, <2>4, <4>2
      <4> QED BY <2>3, <4>1, <4>2
    <3>2. Log' \in [1..n + 1 -> 1..landed] /\ n + 1 \in Nat
      BY <2>3, <3>1 DEF Log
    <3>3. Log' \in Seq(1..landed)
      BY <3>2, SeqDef
    <3>4. DOMAIN Log' = 1..n + 1
      BY <3>2
    <3>5. Len(Log') \in Nat /\ DOMAIN Log' = 1..Len(Log')
      BY <3>3, LenProperties
    <3>6. Len(Log') = n + 1
      BY <3>2, <3>4, <3>5
    <3> QED BY <3>3, <3>6
  <2>8. /\ Append(Log, current) \in Seq(1..landed) /\ Len(Append(Log, current)) = n + 1
        /\ \A k \in 1..n : Append(Log, current)[k] = Log[k]
        /\ Append(Log, current)[n + 1] = current
    BY <1>1, <2>6, AppendProperties
  <2>9. ASSUME NEW k \in 1..n + 1
        PROVE  Log'[k] = Append(Log, current)[k]
    <3>1. CASE k \in 1..n
      BY <2>3, <2>8, <3>1 DEF Log
    <3>2. CASE k = n + 1
      BY <2>3, <2>4, <2>8, <3>2 DEF Log
    <3>3. k \in 1..n \/ k = n + 1
      BY <2>3
    <3> QED BY <3>1, <3>2, <3>3
  <2> QED BY <2>7, <2>8, <2>9, SeqEqual
<1> QED BY <1>2, <1>3, <1>4

\* Reading appends a successful transaction to what is pending.
LEMMA FeedRead ==
  ASSUME TypeInv, Read
  PROVE  /\ at < Len(script) /\ at' = at + 1 /\ at + 1 \in 1..Len(script)
         /\ Pending' = IF script[at + 1].ok THEN Append(Pending, at + 1) ELSE Pending
         /\ Log' = Log
<1>1. /\ at \in Nat /\ at < Len(script) /\ at' = at + 1 /\ at + 1 \in 1..landed
      /\ at + 1 \in 1..Len(script) /\ Log' = Log /\ Held' = Held
  <2>1. /\ landed \in Nat /\ landed <= Len(script) /\ Len(script) \in Nat
        /\ at \in Nat /\ at <= landed
    BY PendingParts DEF TypeInv, RelayerTypeOK
  <2>2. at < landed /\ at' = at + 1
    BY DEF Read
  <2>3. UNCHANGED <<published, current>>
    BY DEF Read, Arrive, vars, forwarder
  <2>4. Log' = Log /\ Held' = Held
    BY <2>3 DEF Log, Held
  <2> QED BY <2>1, <2>2, <2>4
<1>2. CASE script[at + 1].ok
  <2>1. Pending' = Held \o Append(queue, at + 1)
    BY <1>1, <1>2 DEF Read, Arrive, Pending
  <2>2. Append(queue, at + 1) = queue \o <<at + 1>>
    BY <1>1, PendingParts, AppendIsConcat
  <2>3. <<at + 1>> \in Seq(1..landed)
    BY <1>1
  <2>4. Held \o (queue \o <<at + 1>>) = (Held \o queue) \o <<at + 1>>
    BY <2>3, PendingParts, ConcatAssociative
  <2>5. Append(Pending, at + 1) = Pending \o <<at + 1>>
    BY <1>1, PendingParts, AppendIsConcat
  <2> QED BY <1>1, <1>2, <2>1, <2>2, <2>4, <2>5 DEF Pending
<1>3. CASE ~script[at + 1].ok
  BY <1>1, <1>3 DEF Read, vars, forwarder, Pending
<1> QED BY <1>1, <1>2, <1>3

\* Every step is one of the feed, or changes nothing there.
LEMMA FeedStep ==
  ASSUME TypeInv, StoredInv, [RelayerNext]_relayerVars
  PROVE  [Feed!Next]_(Feed!feed)
<1> DEFINE Same == UNCHANGED <<Wanted, at, Pending, Log, disk["listener"]>>
<1> USE DEF Feed!Next, Feed!feed
<1>1. Wanted' = Wanted
  <2>1. script' = script
    <3>1. Next => script' = script
      BY DEF Next, Step, Grow, Arrive, Receive, SkipInstruction, BeginHistory, FetchPage,
             AddCosts, Publish, Fail, chainVars
    <3>2. CASE \E machine \in BOOLEAN : Restart(machine)
      BY <3>2 DEF Restart, chainVars
    <3>3. CASE UNCHANGED relayerVars
      BY <3>3, Stutter
    <3>4. ForwarderInv
      BY DEF TypeInv, RelayerTypeOK, ForwarderInv
    <3> QED BY <3>1, <3>2, <3>3, <3>4, ForwarderStepsOnly DEF vars, chainVars
  <2> QED BY <2>1 DEF Wanted
<1>2. ASSUME Same PROVE UNCHANGED Feed!feed
  BY <1>2 DEF Wanted, Pending, Log
<1>3. CASE ChainGrows \/ Forward \/ ForwarderFails
  <2>1. (Grow \/ Step \/ Fail) /\ at' = at /\ disk' = disk
    BY <1>3 DEF ChainGrows, Forward, ForwarderFails, Others, reading, file
  <2>2. CASE Receive
    BY <1>1, <1>2, <2>1, <2>2, FeedReceive
  <2>3. CASE Publish
    <3>1. Feed!Emit
      BY <1>1, <2>1, <2>3, FeedPublish DEF Feed!Emit, Pending, Log, Wanted
    <3> QED BY <3>1
  <2>4. CASE Grow \/ SkipInstruction \/ BeginHistory \/ FetchPage \/ AddCosts \/ Fail
    <3>1. UNCHANGED <<published, current, queue>>
      BY <2>4 DEF Grow, SkipInstruction, BeginHistory, FetchPage, AddCosts, Fail, forwarder
    <3> QED BY <1>1, <1>2, <2>1, <3>1 DEF Pending, Log, Held
  <2> QED BY <2>1, <2>2, <2>3, <2>4 DEF Step
<1>4. CASE Read
  <2>1. disk' = disk
    BY <1>4 DEF Read, file
  <2>2. Wanted[at + 1] = script[at + 1].ok /\ Len(Wanted) = Len(script)
    BY <1>4, FeedRead, PendingParts
  <2>3. Feed!Take
    BY <1>1, <1>4, <2>1, <2>2, FeedRead DEF Feed!Take, Pending, Log, Wanted
  <2> QED BY <2>3
<1>5. ASSUME UNCHANGED <<vars, at>>
      PROVE  UNCHANGED <<Pending, Log, at>>
  BY <1>5 DEF vars, forwarder, Pending, Log, Held
<1>6. CASE StoreSignature \/ Write \/ FlushFails \/ \E w \in Writers : StoreTask(w)
  <2>1. disk' = disk
    BY <1>6 DEF StoreSignature, Write, FlushFails, StoreTask, State!Lock, State!Write,
                State!FlushFails
  <2> QED BY <1>1, <1>2, <1>5, <1>6, <2>1, OtherSteps
<1>7. CASE Flush \/ WriteBack
  <2>1. disk' = mem
    BY <1>7 DEF Flush, WriteBack, State!Flush, State!WriteBack
  <2>2. mem["listener"] \in disk["listener"]..at
    BY DEF StoredInv, TypeInv, RelayerTypeOK
  <2>3. UNCHANGED <<Pending, Log, at>>
    BY <1>5, <1>7, OtherSteps
  <2>4. Feed!Store(mem["listener"])
    BY <1>1, <2>1, <2>3 DEF Feed!Store, Pending, Log, Wanted
  <2> QED BY <2>2, <2>4
<1>8. ASSUME NEW machine \in BOOLEAN, Restart(machine)
      PROVE  Feed!Next
  <2>1. /\ disk' = disk /\ at' \in {mem["listener"], disk["listener"]}
        /\ UNCHANGED published /\ queue' = <<>> /\ current' = NoTx
    BY <1>8 DEF Restart, State!Reopen
  <2>2. at' \in disk["listener"]..at
    BY <2>1 DEF StoredInv, TypeInv, RelayerTypeOK
  <2>3. Pending' = <<>> /\ Log' = Log
    BY <2>1, ConcatEmptySeq, EmptySeq DEF Pending, Held, Log
  <2>4. Feed!GoBack(at')
    BY <1>1, <2>1, <2>3 DEF Feed!GoBack, Pending, Log, Wanted
  <2> QED BY <2>2, <2>4
<1>9. CASE UNCHANGED relayerVars
  BY <1>1, <1>2, <1>9, Stutter DEF Pending, Log, Held
<1> QED BY <1>3, <1>4, <1>6, <1>7, <1>8, <1>9 DEF RelayerNext

\* Listener, state file and forwarder together publish every successful
\* transaction in order, skip nothing but what is in memory when a life ends,
\* and never go back behind the signature in the file.
THEOREM RelayerImplementsFeed == RelayerSpec => ImplementsReplayedFeed
<1>1. RelayerInit => Feed!Init
  BY FeedInit
<1>2. TypeInv /\ StoredInv /\ [RelayerNext]_relayerVars => [Feed!Next]_(Feed!feed)
  BY FeedStep
<1> QED BY <1>1, <1>2, StoredAlways, PTL DEF RelayerSpec, ImplementsReplayedFeed, Feed!Spec
=============================================================================
