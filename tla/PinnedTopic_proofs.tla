------------------------- MODULE PinnedTopic_proofs --------------------------
(***************************************************************************)
(* Proofs about PinnedTopic, for every set of publishers, streams, blocks  *)
(* and lengths, every width of the packed seq and every bound.             *)
(***************************************************************************)
EXTENDS PinnedTopic, FiniteSetTheorems, TLAPS

(***************************************************************************)
(* The inductive invariant.                                                *)
(***************************************************************************)

\* What the locals of a process hold at each of its steps.  A packed word that
\* a stream goes on with is a published message.
Published == Messages \ {Unpublished}
LocalsOK ==
  /\ \A p \in Pubs :
       /\ ppc[p] \in {"setblock", "enter"} \cup Writing => own[p] \in Blocks
       /\ ppc[p] \in {"claimed", "stored"} => data[own[p]] \in Published
  /\ \A s \in Streams :
       /\ spc[s] \in {"readblk", "register", "recheck"} => rpk[s] \in Published
       /\ spc[s] \in {"register", "recheck"} => rblk[s] \in Blocks

\* A publisher's pinned block is its own: not in the pool, not another's.
OwnOK ==
  /\ \A p \in Pubs : own[p] \notin free
  /\ \A p, q \in Pubs : own[p] = own[q] /\ own[p] # NoBlock => p = q

\* The readers that TE_PINNED_READERS counts.
RegSet == {s \in Streams : spc[s] \in Registered}
HeldSet == UNION {{<<s, g>> : g \in guards[s]} : s \in Streams}

\* The reader counter, with the finiteness that lets it be a number.
CounterOK ==
  /\ \A p, q \in Writers : p = q
  /\ IsFiniteSet(RegSet) /\ IsFiniteSet(HeldSet)
  /\ readers = IF Writers = {} THEN Cardinality(RegSet) + Cardinality(HeldSet) ELSE Writer
  /\ Writers # {} => RegSet = {} /\ HeldSet = {}

\* A stream that holds a guard is between calls, and there is nothing newer
\* for it than the message it holds: one guard per stream.
GuardCurrent ==
  \A s \in Streams :
    guards[s] # {} => spc[s] = "idle" /\ Packed(pinSeq).seq <= last[s]

\* Without mishaps one publisher owns the pinned block for good; outside a
\* write the block holds the message of TE_PINNED_SEQ, and every guard and
\* every read in progress is about that block.
Undisturbed ==
  /\ \A p, q \in Pubs : own[p] # NoBlock /\ own[q] # NoBlock => p = q
  /\ \A p \in Pubs : own[p] # NoBlock /\ ppc[p] # "setblock" => pinBlk = own[p]
  /\ pinSeq # Unpublished =>
       /\ \E p \in Pubs : own[p] # NoBlock /\ ppc[p] # "setblock"
       /\ Writers = {} => data[pinBlk] = pinSeq
  /\ \A p \in Pubs : ppc[p] = "stored" => data[own[p]] = pinSeq
  /\ \A s \in Streams :
       /\ spc[s] \in {"readblk", "register", "recheck"} => pinSeq # Unpublished
       /\ spc[s] \in {"register", "recheck"} => rblk[s] = pinBlk
       /\ \A g \in guards[s] :
            /\ pinSeq # Unpublished
            /\ g = [seq |-> Packed(pinSeq).seq, blk |-> pinBlk, len |-> pinSeq.len]

PinnedInv ==
  /\ TypeOK /\ LocalsOK /\ OwnOK /\ CounterOK /\ GuardCurrent
  /\ mishaps = {} => Undisturbed

(***************************************************************************)
(* Facts about the packed word.                                            *)
(***************************************************************************)
LEMMA ModFacts ==
  ASSUME NEW n \in Nat
  PROVE  n % SeqMod \in 0 .. SeqMod - 1 /\ n % SeqMod <= n
  <1>1. SeqMod \in Nat /\ SeqMod > 0 BY PinnedAssumption
  <1>2. n % SeqMod \in 0 .. SeqMod - 1 BY <1>1, Z3
  <1>3. n % SeqMod <= n BY <1>1, Z3
  <1> QED BY <1>2, <1>3

LEMMA PackedFacts ==
  /\ Packed(Unpublished) = Unpublished
  /\ Unpublished \in Messages
  /\ \A m \in Published : /\ m \in [seq : Seqs, len : Lens]
                          /\ Packed(m) \in [seq : 0 .. SeqMod - 1, len : Lens]
                          /\ Packed(m).seq \in Seqs /\ Packed(m).len = m.len
  /\ \A m \in Messages : Packed(m).seq \in Seqs
  <1>0. \A n \in Nat : n % SeqMod \in 0 .. SeqMod - 1 /\ n % SeqMod <= n BY ModFacts
  <1>1. 0 % SeqMod = 0 BY <1>0
  <1>2. \A n \in Seqs : n % SeqMod \in 0 .. SeqMod - 1 /\ n % SeqMod \in Seqs
    BY <1>0, PinnedAssumption DEF Seqs
  <1>3. Packed(Unpublished) = Unpublished /\ Unpublished \in Messages
    BY <1>1 DEF Packed, Unpublished, Messages
  <1>4. 0 \in Seqs BY PinnedAssumption DEF Seqs
  <1>5. \A m \in Published : m \in [seq : Seqs, len : Lens] BY DEF Published, Messages
  <1>6. \A m \in [seq : Seqs, len : Lens] :
          /\ Packed(m) \in [seq : 0 .. SeqMod - 1, len : Lens]
          /\ Packed(m).seq \in Seqs /\ Packed(m).len = m.len
    BY <1>2 DEF Packed
  <1>7. \A m \in Messages : Packed(m).seq \in Seqs
    BY <1>3, <1>4, <1>6 DEF Messages, Unpublished
  <1> QED BY <1>3, <1>5, <1>6, <1>7

(***************************************************************************)
(* Type correctness.                                                       *)
(***************************************************************************)
TypeInv == TypeOK /\ LocalsOK

LEMMA InitType == Init => TypeInv
  <1> SUFFICES ASSUME Init PROVE TypeInv OBVIOUS
  <1>1. 0 \in Seqs BY PinnedAssumption DEF Seqs
  <1>2. TypeOK BY <1>1, PackedFacts DEF Init, TypeOK, Pool!Init, MaybeBlock
  <1>3. LocalsOK BY DEF Init, LocalsOK, Writing
  <1> QED BY <1>2, <1>3 DEF TypeInv

\* The actions of a publisher, and those of a stream.
PubNext(p) ==
  \/ Open(p) \/ SetPinnedBlock(p) \/ ReusePinned(p)
  \/ EnterWriter(p) \/ ReadersActive(p)
  \/ StorePinned(p) \/ LeaveWriter(p)
  \/ DropPinnedLoan(p) \/ DropPublisher(p)
  \/ \E b \in Blocks : AllocPinned(p, b)
  \/ \E n \in Lens : ClaimSeq(p, n)
StreamNext(s) ==
  \/ Subscribe(s) \/ DropStream(s)
  \/ LoadPacked(s) \/ ReadPinnedBlk(s) \/ Register(s) \/ WriterActive(s)
  \/ Recheck(s) \/ RecheckFails(s) \/ UndoRegister(s)
  \/ \E g \in guards[s] : DropGuard(s, g)

LEMMA NextParts ==
  Next <=> \/ \E p \in Pubs : PubNext(p)
           \/ \E b \in Blocks : OtherLoan(b)
           \/ \E s \in Streams : StreamNext(s)
  BY DEF Next, PubNext, StreamNext

LEMMA PubStepType ==
  ASSUME TypeInv, OwnOK, CounterOK, NEW p \in Pubs, PubNext(p)
  PROVE  TypeInv'
  <1> USE PinnedAssumption
      DEF TypeInv, TypeOK, LocalsOK, MaybeBlock, Step, streamVars, pubVars, Writing
  <1>1. CASE Open(p) BY <1>1 DEF Open
  <1>2. CASE SetPinnedBlock(p) BY <1>2 DEF SetPinnedBlock
  <1>3. CASE ReusePinned(p) BY <1>3 DEF ReusePinned
  <1>4. CASE EnterWriter(p)
    <2> USE <1>4 DEF EnterWriter
    <2>1. own[p] \in Blocks OBVIOUS
    <2>2. \A q \in Pubs : ppc[q] \notin Writing
      BY DEF CounterOK, Writers
    <2>3. TypeOK' BY <2>1
    <2>4. LocalsOK' BY <2>1, <2>2
    <2> QED BY <2>3, <2>4
  <1>5. CASE ReadersActive(p) BY <1>5 DEF ReadersActive
  <1>6. CASE StorePinned(p)
    <2>1. data[own[p]] \in Messages BY <1>6 DEF StorePinned, Published
    <2> QED BY <1>6, <2>1 DEF StorePinned
  <1>7. CASE LeaveWriter(p) BY <1>7 DEF LeaveWriter
  <1>8. CASE DropPinnedLoan(p) BY <1>8 DEF DropPinnedLoan
  <1>9. CASE DropPublisher(p)
    <2> USE <1>9 DEF DropPublisher
    <2>1. CASE own[p] = NoBlock BY <2>1
    <2>2. CASE own[p] # NoBlock
      <3>0. own[p] \in Blocks BY <2>2
      <3>a. free' \in SUBSET Blocks BY <2>2, <3>0 DEF Pool!Give
      <3>b. mishaps' \in SUBSET {"abandon", "drop", "second"} BY <2>2
      <3>1. TypeOK' BY <2>2, <3>a, <3>b
      <3>2. LocalsOK' BY <2>2
      <3> QED BY <3>1, <3>2
    <2> QED BY <2>1, <2>2
  <1>10. ASSUME NEW b \in Blocks, AllocPinned(p, b) PROVE TypeInv'
    BY <1>10 DEF AllocPinned, Pool!Take
  <1>11. ASSUME NEW n \in Lens, ClaimSeq(p, n) PROVE TypeInv'
    <2> USE <1>11 DEF ClaimSeq
    <2>1. own[p] \in Blocks OBVIOUS
    <2>2. writeSeq + 1 \in Seqs /\ writeSeq + 1 # 0 BY DEF Seqs
    <2>3. [seq |-> writeSeq + 1, len |-> n] \in Published
      <3>1. [seq |-> writeSeq + 1, len |-> n] # Unpublished BY <2>2 DEF Unpublished
      <3> QED BY <2>2, <3>1 DEF Published, Messages
    <2>4. \A q \in Pubs : q # p => ppc[q] \notin Writing BY DEF CounterOK, Writers
    <2>5. data'[own[p]] \in Published BY <2>1, <2>3
    <2>6. TypeOK' BY <2>1, <2>2, <2>3 DEF Published
    <2>7. LocalsOK' BY <2>4, <2>5
    <2> QED BY <2>6, <2>7
  <1> QED BY <1>1, <1>2, <1>3, <1>4, <1>5, <1>6, <1>7, <1>8, <1>9, <1>10, <1>11 DEF PubNext

LEMMA OtherStepType ==
  ASSUME TypeInv, OwnOK, NEW b \in Blocks, OtherLoan(b)
  PROVE  TypeInv'
  <1> USE PinnedAssumption DEF TypeInv, TypeOK, LocalsOK, MaybeBlock, streamVars, pubVars, OtherLoan
  <1>1. TypeOK' OBVIOUS
  <1>2. \A p \in Pubs : own[p] # b BY DEF OwnOK
  <1>3. LocalsOK' BY <1>2
  <1> QED BY <1>1, <1>3

\* What the counter says of a stream that is counted.
LEMMA CounterPositive ==
  ASSUME CounterOK
  PROVE  /\ RegSet # {} => Writers = {} /\ readers \in Nat \ {0}
         /\ HeldSet # {} => Writers = {} /\ readers \in Nat \ {0}
         /\ Writers = {} => readers \in Nat
  <1> DEFINE r == Cardinality(RegSet)
             h == Cardinality(HeldSet)
  <1>1. r \in Nat /\ h \in Nat /\ (RegSet # {} => r # 0) /\ (HeldSet # {} => h # 0)
    BY FS_CardinalityType, FS_EmptySet DEF CounterOK
  <1>2. Writers = {} => readers = r + h BY DEF CounterOK
  <1>3. RegSet # {} \/ HeldSet # {} => Writers = {} BY DEF CounterOK
  <1> HIDE DEF r, h
  <1> QED BY <1>1, <1>2, <1>3

LEMMA StreamStepType ==
  ASSUME TypeInv, CounterOK, NEW s \in Streams, StreamNext(s)
  PROVE  TypeInv'
  <1> USE PinnedAssumption, PackedFacts
      DEF TypeInv, TypeOK, LocalsOK, MaybeBlock, StreamStep, streamVars, pubVars, Registered,
          ForgetRead
  <1>1. CASE Subscribe(s) BY <1>1 DEF Subscribe
  <1>2. CASE DropStream(s)
    <2>1. 0 \in Seqs BY DEF Seqs
    <2> QED BY <1>2, <2>1 DEF DropStream
  <1>3. CASE LoadPacked(s)
    <2>1. pinSeq \in Published BY <1>3 DEF LoadPacked, Published
    <2> QED BY <1>3, <2>1 DEF LoadPacked
  <1>4. CASE ReadPinnedBlk(s) BY <1>4 DEF ReadPinnedBlk
  <1>5. CASE Register(s)
    <2>1. readers + 1 \in Nat BY <1>5 DEF Register
    <2> QED BY <1>5, <2>1 DEF Register
  <1>6. CASE WriterActive(s) BY <1>6 DEF WriterActive
  <1>7. CASE Recheck(s)
    <2> USE <1>7 DEF Recheck
    <2>1. rpk[s] \in Published /\ rblk[s] \in Blocks OBVIOUS
    <2>2. [seq |-> Packed(rpk[s]).seq, blk |-> rblk[s], len |-> rpk[s].len] \in Guards
      BY <2>1 DEF Guards
    <2>3. guards' \in [Streams -> SUBSET Guards] BY <2>2
    <2>4. last' \in [Streams -> Seqs] BY <2>1
    <2>5. TypeOK' BY <2>3, <2>4
    <2> QED BY <2>5
  <1>8. CASE RecheckFails(s) BY <1>8 DEF RecheckFails
  <1>9. CASE UndoRegister(s)
    <2>1. s \in RegSet BY <1>9 DEF UndoRegister, RegSet
    <2>2. readers - 1 \in Nat BY <2>1, CounterPositive
    <2> QED BY <1>9, <2>2 DEF UndoRegister
  <1>10. ASSUME NEW g \in guards[s], DropGuard(s, g) PROVE TypeInv'
    <2>1. <<s, g>> \in HeldSet BY DEF HeldSet
    <2>2. readers - 1 \in Nat BY <2>1, CounterPositive
    <2> QED BY <1>10, <2>2 DEF DropGuard
  <1> QED BY <1>1, <1>2, <1>3, <1>4, <1>5, <1>6, <1>7, <1>8, <1>9, <1>10 DEF StreamNext

(***************************************************************************)
(* Ownership of the pinned blocks.                                         *)
(***************************************************************************)
LEMMA OwnStep ==
  ASSUME TypeInv, OwnOK, [Next]_vars
  PROVE  OwnOK'
  <1> USE PinnedAssumption DEF TypeInv, TypeOK, OwnOK, MaybeBlock, vars, pubVars, streamVars
  <1>1. ASSUME NEW p \in Pubs, PubNext(p) PROVE OwnOK'
    <2>1. ASSUME NEW b \in Blocks, AllocPinned(p, b) PROVE OwnOK'
      BY <2>1 DEF AllocPinned, Pool!Take
    <2>2. CASE DropPublisher(p)
      <3>1. CASE own[p] = NoBlock BY <2>2, <3>1 DEF DropPublisher
      <3>2. CASE own[p] # NoBlock
        <4>1. /\ free' = free \cup {own[p]} /\ own'[p] = NoBlock
              /\ \A q \in Pubs : q # p => own'[q] = own[q]
          BY <2>2, <3>2 DEF DropPublisher, Pool!Give
        <4>2. NoBlock \notin free' BY <3>2, <4>1
        <4> QED BY <3>2, <4>1, <4>2
      <3> QED BY <3>1, <3>2
    <2>3. CASE own' = own /\ free' = free BY <2>3
    <2> QED BY <1>1, <2>1, <2>2, <2>3
           DEF PubNext, Open, SetPinnedBlock, ReusePinned, EnterWriter, ReadersActive,
               StorePinned, LeaveWriter, DropPinnedLoan, ClaimSeq
  <1>2. ASSUME NEW b \in Blocks, OtherLoan(b) PROVE OwnOK'
    BY <1>2 DEF OtherLoan
  <1>3. ASSUME NEW s \in Streams, StreamNext(s) PROVE OwnOK'
    BY <1>3 DEF StreamNext, Subscribe, DropStream, LoadPacked, ReadPinnedBlk, Register,
                WriterActive, Recheck, RecheckFails, UndoRegister, DropGuard
  <1>4. CASE UNCHANGED vars BY <1>4
  <1> QED BY <1>1, <1>2, <1>3, <1>4, NextParts

(***************************************************************************)
(* The reader counter.                                                     *)
(***************************************************************************)
LEMMA CounterSame ==
  ASSUME CounterOK, Writers' = Writers, RegSet' = RegSet, HeldSet' = HeldSet, readers' = readers
  PROVE  CounterOK'
  BY DEF CounterOK

LEMMA PubStepCounter ==
  ASSUME TypeInv, CounterOK, NEW p \in Pubs, PubNext(p)
  PROVE  CounterOK'
  <1> USE PinnedAssumption DEF TypeInv, TypeOK, Step, Writing
  <1>1. UNCHANGED <<spc, guards>>
    BY DEF PubNext, Open, SetPinnedBlock, ReusePinned, EnterWriter, ReadersActive, StorePinned,
           LeaveWriter, DropPinnedLoan, DropPublisher, AllocPinned, ClaimSeq, streamVars
  <1>2. RegSet' = RegSet /\ HeldSet' = HeldSet BY <1>1 DEF RegSet, HeldSet
  <1>3. CASE EnterWriter(p)
    <2>1. Writers = {} /\ readers = 0 BY <1>3 DEF EnterWriter, CounterOK
    <2>2. Writers' = {p} BY <1>3, <2>1 DEF EnterWriter, Writers
    <2>3. RegSet = {} /\ HeldSet = {} BY <2>1, CounterPositive
    <2> QED BY <1>2, <1>3, <2>2, <2>3 DEF EnterWriter, CounterOK
  <1>4. CASE LeaveWriter(p) \/ DropPinnedLoan(p)
    <2>1. p \in Writers BY <1>4 DEF LeaveWriter, DropPinnedLoan, Writers
    <2>2. Writers' = {} BY <1>4, <2>1 DEF LeaveWriter, DropPinnedLoan, Writers, CounterOK
    <2>3. RegSet = {} /\ HeldSet = {} BY <2>1 DEF CounterOK
    <2>4. Cardinality(RegSet) = 0 /\ Cardinality(HeldSet) = 0 BY <2>3, FS_EmptySet
    <2>5. readers' = 0 BY <1>4 DEF LeaveWriter, DropPinnedLoan
    <2> QED BY <1>2, <2>2, <2>4, <2>5 DEF CounterOK
  <1>5. ASSUME \/ Open(p) \/ SetPinnedBlock(p) \/ ReusePinned(p) \/ ReadersActive(p)
               \/ StorePinned(p) \/ DropPublisher(p)
               \/ \E b \in Blocks : AllocPinned(p, b)
               \/ \E n \in Lens : ClaimSeq(p, n)
        PROVE  CounterOK'
    <2>1. readers' = readers
      BY <1>5 DEF Open, SetPinnedBlock, ReusePinned, ReadersActive, StorePinned, DropPublisher,
                  AllocPinned, ClaimSeq
    <2>2. Writers' = Writers
      BY <1>5 DEF Open, SetPinnedBlock, ReusePinned, ReadersActive, StorePinned, DropPublisher,
                  AllocPinned, ClaimSeq, Writers
    <2> QED BY <1>2, <2>1, <2>2, CounterSame
  <1> QED BY <1>3, <1>4, <1>5 DEF PubNext

LEMMA StreamStepCounter ==
  ASSUME TypeInv, CounterOK, GuardCurrent, NEW s \in Streams, StreamNext(s)
  PROVE  CounterOK'
  <1> USE DEF TypeInv, TypeOK, StreamStep, Registered
  <1>1. ppc' = ppc
    BY DEF StreamNext, Subscribe, DropStream, LoadPacked, ReadPinnedBlk, Register, WriterActive,
           Recheck, RecheckFails, UndoRegister, DropGuard, pubVars
  <1>2. Writers' = Writers BY <1>1 DEF Writers
  <1>3. /\ IsFiniteSet(RegSet) /\ IsFiniteSet(HeldSet)
        /\ Cardinality(RegSet) \in Nat /\ Cardinality(HeldSet) \in Nat
    BY FS_CardinalityType DEF CounterOK
  <1>4. CASE Register(s)
    <2>1. s \notin RegSet /\ RegSet' = RegSet \cup {s} BY <1>4 DEF Register, RegSet
    <2>2. HeldSet' = HeldSet /\ readers' = readers + 1 BY <1>4 DEF Register, HeldSet
    <2>3. Writers = {} BY <1>4 DEF Register, CounterOK
    <2>4. IsFiniteSet(RegSet') /\ Cardinality(RegSet') = Cardinality(RegSet) + 1
      BY <1>3, <2>1, FS_AddElement
    <2> QED BY <1>2, <1>3, <2>2, <2>3, <2>4 DEF CounterOK
  <1>5. CASE Recheck(s)
    <2> DEFINE g == [seq |-> Packed(rpk[s]).seq, blk |-> rblk[s], len |-> rpk[s].len]
    <2> USE <1>5 DEF Recheck
    <2>1. s \in RegSet /\ RegSet' = RegSet \ {s} BY DEF RegSet
    <2>2. guards[s] = {} BY DEF GuardCurrent
    <2>3. guards'[s] = {g} /\ \A t \in Streams : t # s => guards'[t] = guards[t] BY <2>2
    <2> HIDE DEF g
    <2>4. <<s, g>> \notin HeldSet BY <2>2 DEF HeldSet
    <2>5. HeldSet' = HeldSet \cup {<<s, g>>} BY <2>2, <2>3 DEF HeldSet
    <2>6. Writers = {} BY <2>1 DEF CounterOK
    <2>7. IsFiniteSet(RegSet') /\ Cardinality(RegSet') = Cardinality(RegSet) - 1
      BY <1>3, <2>1, FS_RemoveElement
    <2>8. IsFiniteSet(HeldSet') /\ Cardinality(HeldSet') = Cardinality(HeldSet) + 1
      BY <1>3, <2>4, <2>5, FS_AddElement
    <2>9. readers = Cardinality(RegSet) + Cardinality(HeldSet) BY <2>6 DEF CounterOK
    <2>10. readers' = readers OBVIOUS
    <2>11. readers' = Cardinality(RegSet') + Cardinality(HeldSet')
      BY <1>3, <2>7, <2>8, <2>9, <2>10
    <2> QED BY <1>2, <2>6, <2>7, <2>8, <2>11 DEF CounterOK
  <1>6. CASE UndoRegister(s)
    <2>1. s \in RegSet /\ RegSet' = RegSet \ {s} BY <1>6 DEF UndoRegister, RegSet
    <2>2. HeldSet' = HeldSet /\ readers' = readers - 1 BY <1>6 DEF UndoRegister, HeldSet
    <2>3. Writers = {} BY <2>1 DEF CounterOK
    <2>4. IsFiniteSet(RegSet') /\ Cardinality(RegSet') = Cardinality(RegSet) - 1
      BY <1>3, <2>1, FS_RemoveElement
    <2> QED BY <1>2, <1>3, <2>2, <2>3, <2>4 DEF CounterOK
  <1>7. ASSUME NEW g \in guards[s], DropGuard(s, g) PROVE CounterOK'
    <2> USE <1>7 DEF DropGuard
    <2>1. RegSet' = RegSet /\ readers' = readers - 1 BY DEF RegSet
    <2>2. guards'[s] = guards[s] \ {g} /\ \A t \in Streams : t # s => guards'[t] = guards[t]
      OBVIOUS
    <2>3. <<s, g>> \in HeldSet BY DEF HeldSet
    <2>4. HeldSet' = HeldSet \ {<<s, g>>}
      <3>1. ASSUME NEW x \in HeldSet' PROVE x \in HeldSet \ {<<s, g>>}
        <4>0. PICK t \in Streams : \E h \in guards'[t] : x = <<t, h>> BY DEF HeldSet
        <4>1. PICK h \in guards'[t] : x = <<t, h>> BY <4>0
        <4>2. h \in guards[t] /\ (t = s => h # g) BY <2>2, <4>1
        <4>3. x # <<s, g>> BY <4>1, <4>2
        <4> QED BY <4>1, <4>2, <4>3 DEF HeldSet
      <3>2. ASSUME NEW x \in HeldSet, x # <<s, g>> PROVE x \in HeldSet'
        <4>0. PICK t \in Streams : \E h \in guards[t] : x = <<t, h>> BY DEF HeldSet
        <4>1. PICK h \in guards[t] : x = <<t, h>> BY <4>0
        <4>2. h \in guards'[t] BY <2>2, <3>2, <4>1
        <4> QED BY <4>1, <4>2 DEF HeldSet
      <3> QED BY <3>1, <3>2
    <2>5. Writers = {} /\ readers = Cardinality(RegSet) + Cardinality(HeldSet)
      BY <2>3 DEF CounterOK
    <2>6. IsFiniteSet(HeldSet') /\ Cardinality(HeldSet') = Cardinality(HeldSet) - 1
      <3> DEFINE e == <<s, g>>
      <3>1. e \in HeldSet /\ HeldSet' = HeldSet \ {e} BY <2>3, <2>4
      <3> HIDE DEF e
      <3>2. /\ IsFiniteSet(HeldSet \ {e})
            /\ Cardinality(HeldSet \ {e}) = Cardinality(HeldSet) - 1
        BY <1>3, <3>1, FS_RemoveElement
      <3> QED BY <3>1, <3>2
    <2>7. readers' = Cardinality(RegSet') + Cardinality(HeldSet') BY <1>3, <2>1, <2>5, <2>6
    <2> QED BY <1>2, <1>3, <2>1, <2>5, <2>6, <2>7 DEF CounterOK
  <1>8. ASSUME \/ Subscribe(s) \/ DropStream(s) \/ LoadPacked(s) \/ ReadPinnedBlk(s)
               \/ WriterActive(s) \/ RecheckFails(s)
        PROVE  CounterOK'
    <2>1. readers' = readers /\ guards' = guards
      BY <1>8 DEF Subscribe, DropStream, LoadPacked, ReadPinnedBlk, WriterActive, RecheckFails
    <2>2. RegSet' = RegSet
      BY <1>8 DEF Subscribe, DropStream, LoadPacked, ReadPinnedBlk, WriterActive, RecheckFails,
                  RegSet
    <2>3. HeldSet' = HeldSet BY <2>1 DEF HeldSet
    <2> QED BY <1>2, <2>1, <2>2, <2>3, CounterSame
  <1> QED BY <1>4, <1>5, <1>6, <1>7, <1>8 DEF StreamNext

(***************************************************************************)
(* The guards.                                                             *)
(***************************************************************************)
\* While a guard is held no publisher is past the compare-exchange.
LEMMA GuardExcludes ==
  ASSUME CounterOK, NEW s \in Streams, guards[s] # {}
  PROVE  Writers = {} /\ readers # 0
  <1>1. PICK g \in guards[s] : TRUE OBVIOUS
  <1>2. <<s, g>> \in HeldSet BY DEF HeldSet
  <1> QED BY <1>2, CounterPositive

LEMMA PubStepGuard ==
  ASSUME TypeInv, CounterOK, GuardCurrent, NEW p \in Pubs, PubNext(p)
  PROVE  GuardCurrent'
  <1>1. UNCHANGED <<spc, guards, last>>
    BY DEF PubNext, Open, SetPinnedBlock, ReusePinned, EnterWriter, ReadersActive, StorePinned,
           LeaveWriter, DropPinnedLoan, DropPublisher, AllocPinned, ClaimSeq, streamVars
  <1>2. CASE StorePinned(p)
    <2>1. p \in Writers BY <1>2 DEF StorePinned, Step, Writers, Writing
    <2>2. \A s \in Streams : guards[s] = {} BY <2>1, GuardExcludes
    <2> QED BY <1>1, <2>2 DEF GuardCurrent
  <1>3. CASE pinSeq' = pinSeq
    BY <1>1, <1>3 DEF GuardCurrent, Packed
  <1> QED BY <1>2, <1>3
         DEF PubNext, Open, SetPinnedBlock, ReusePinned, EnterWriter, ReadersActive,
             LeaveWriter, DropPinnedLoan, DropPublisher, AllocPinned, ClaimSeq

LEMMA StreamStepGuard ==
  ASSUME TypeInv, GuardCurrent, NEW s \in Streams, StreamNext(s)
  PROVE  GuardCurrent'
  <1> USE DEF StreamStep, Registered
  <1>0. Packed(pinSeq).seq \in Nat BY PackedFacts, PinnedAssumption DEF TypeInv, TypeOK, Seqs
  <1>1. pinSeq' = pinSeq
    BY DEF StreamNext, Subscribe, DropStream, LoadPacked, ReadPinnedBlk, Register,
           WriterActive, Recheck, RecheckFails, UndoRegister, DropGuard
  <1>2. Packed(pinSeq').seq = Packed(pinSeq).seq BY <1>1
  <1>3. ASSUME NEW t \in Streams, t # s
        PROVE  guards'[t] = guards[t] /\ spc'[t] = spc[t] /\ last'[t] = last[t]
    BY <1>3 DEF StreamNext, Subscribe, DropStream, LoadPacked, ReadPinnedBlk, Register,
           WriterActive, Recheck, RecheckFails, UndoRegister, DropGuard, TypeInv, TypeOK
  <1>4. CASE Recheck(s)
    <2>1. spc'[s] = "idle" /\ last'[s] = Packed(pinSeq).seq
      BY <1>4 DEF Recheck, TypeInv, TypeOK
    <2> QED BY <1>0, <1>2, <1>3, <2>1 DEF GuardCurrent
  <1>5. ASSUME NEW g \in guards[s], DropGuard(s, g) PROVE GuardCurrent'
    <2>1. guards[s] # {} /\ spc'[s] = "idle" /\ last' = last
      BY <1>5 DEF DropGuard, TypeInv, TypeOK
    <2> QED BY <1>2, <1>3, <2>1 DEF GuardCurrent
  <1>6. CASE LoadPacked(s)
    <2>1. guards[s] = {} /\ guards' = guards
      <3>1. Packed(pinSeq).seq > last[s] /\ guards' = guards BY <1>6 DEF LoadPacked
      <3>2. last[s] \in Nat BY PinnedAssumption DEF TypeInv, TypeOK, Seqs
      <3> QED BY <1>0, <3>1, <3>2 DEF GuardCurrent
    <2> QED BY <1>2, <1>3, <2>1 DEF GuardCurrent
  <1>7. ASSUME \/ Subscribe(s) \/ DropStream(s) \/ ReadPinnedBlk(s) \/ Register(s)
               \/ WriterActive(s) \/ RecheckFails(s) \/ UndoRegister(s)
        PROVE  guards[s] = {} /\ guards' = guards
    BY <1>7 DEF Subscribe, DropStream, ReadPinnedBlk, Register, WriterActive, RecheckFails,
                UndoRegister, GuardCurrent
  <1>8. CASE guards[s] = {} /\ guards' = guards
    BY <1>2, <1>3, <1>8 DEF GuardCurrent
  <1> QED BY <1>4, <1>5, <1>6, <1>7, <1>8 DEF StreamNext

(***************************************************************************)
(* Without mishaps.                                                        *)
(***************************************************************************)
LEMMA MishapsStay == ASSUME [Next]_vars PROVE mishaps \subseteq mishaps'
  <1> USE DEF vars
  <1>1. ASSUME NEW p \in Pubs, PubNext(p) PROVE mishaps \subseteq mishaps'
    BY <1>1 DEF PubNext, Open, SetPinnedBlock, ReusePinned, EnterWriter, ReadersActive,
                StorePinned, LeaveWriter, DropPinnedLoan, DropPublisher, AllocPinned, ClaimSeq
  <1>2. ASSUME NEW b \in Blocks, OtherLoan(b) PROVE mishaps \subseteq mishaps'
    BY <1>2 DEF OtherLoan
  <1>3. ASSUME NEW s \in Streams, StreamNext(s) PROVE mishaps \subseteq mishaps'
    BY <1>3 DEF StreamNext, Subscribe, DropStream, LoadPacked, ReadPinnedBlk, Register,
                WriterActive, Recheck, RecheckFails, UndoRegister, DropGuard
  <1> QED BY <1>1, <1>2, <1>3, NextParts

LEMMA PubStepUndisturbed ==
  ASSUME TypeInv, CounterOK, Undisturbed, NEW p \in Pubs, PubNext(p), mishaps' = {}
  PROVE  Undisturbed'
  <1> USE PinnedAssumption
      DEF TypeInv, TypeOK, LocalsOK, MaybeBlock, Step, Writing, Writers, streamVars, pubVars
  <1>0. UNCHANGED <<spc, guards, rblk>>
    BY DEF PubNext, Open, SetPinnedBlock, ReusePinned, EnterWriter, ReadersActive, StorePinned,
           LeaveWriter, DropPinnedLoan, DropPublisher, AllocPinned, ClaimSeq
  <1>1. CASE Open(p)
    <2>1. own[p] = NoBlock \/ pinBlk = own[p] BY <1>1 DEF Open, Undisturbed
    <2> QED BY <1>0, <1>1, <2>1 DEF Open, Undisturbed
  <1>2. CASE SetPinnedBlock(p)
    <2> USE <1>2 DEF SetPinnedBlock
    <2>1. own[p] \in Blocks OBVIOUS
    <2>2. \A q \in Pubs : own[q] # NoBlock => q = p BY <2>1 DEF Undisturbed
    <2>3. pinSeq = Unpublished BY <2>2 DEF Undisturbed
    <2> QED BY <1>0, <2>1, <2>2, <2>3 DEF Undisturbed
  <1>3. CASE ReusePinned(p) BY <1>0, <1>3 DEF ReusePinned, Undisturbed
  <1>4. CASE EnterWriter(p)
    <2> USE <1>4 DEF EnterWriter
    <2>1. Writers = {} BY DEF CounterOK
    <2>2. p \in Writers' OBVIOUS
    <2>3. \A q \in Pubs : ppc'[q] # "stored" BY <2>1
    <2> QED BY <1>0, <2>2, <2>3 DEF Undisturbed
  <1>5. CASE ReadersActive(p) BY <1>0, <1>5 DEF ReadersActive, Undisturbed
  <1>6. CASE StorePinned(p)
    <2> USE <1>6 DEF StorePinned
    <2>1. p \in Writers /\ p \in Writers' OBVIOUS
    <2>2. \A s \in Streams : guards[s] = {} BY <2>1, GuardExcludes
    <2>3. own[p] \in Blocks /\ pinSeq' \in Published /\ pinSeq' = data[own[p]] OBVIOUS
    <2>4. pinSeq' # Unpublished BY <2>3 DEF Published
    <2>5. \A q \in Pubs : ppc'[q] = "stored" => q = p
      BY <2>1 DEF CounterOK
    <2>6. \E q \in Pubs : own'[q] # NoBlock /\ ppc'[q] # "setblock" BY <2>3
    <2> QED BY <1>0, <2>1, <2>2, <2>3, <2>4, <2>5, <2>6 DEF Undisturbed
  <1>7. CASE LeaveWriter(p)
    <2> USE <1>7 DEF LeaveWriter
    <2>1. own[p] \in Blocks /\ pinBlk = own[p] /\ data[own[p]] = pinSeq BY DEF Undisturbed
    <2> QED BY <1>0, <2>1 DEF Undisturbed
  <1>8. CASE DropPinnedLoan(p) BY <1>8 DEF DropPinnedLoan
  <1>9. CASE DropPublisher(p)
    <2> USE <1>9 DEF DropPublisher
    <2>1. own[p] = NoBlock OBVIOUS
    <2> QED BY <1>0, <2>1 DEF Undisturbed
  <1>10. ASSUME NEW b \in Blocks, AllocPinned(p, b) PROVE Undisturbed'
    <2> USE <1>10 DEF AllocPinned
    <2>1. \A q \in Pubs : own[q] = NoBlock OBVIOUS
    <2>2. pinSeq = Unpublished BY <2>1 DEF Undisturbed
    <2>3. own'[p] = b /\ ppc'[p] = "setblock" OBVIOUS
    <2>4. \A q \in Pubs : q # p => own'[q] = NoBlock /\ ppc'[q] = ppc[q] BY <2>1
    <2>5. \A q \in Pubs : ppc[q] # "stored" BY <2>1
    <2> QED BY <1>0, <2>1, <2>2, <2>3, <2>4, <2>5 DEF Undisturbed
  <1>11. ASSUME NEW n \in Lens, ClaimSeq(p, n) PROVE Undisturbed'
    <2> USE <1>11 DEF ClaimSeq
    <2>1. p \in Writers /\ p \in Writers' OBVIOUS
    <2>2. \A q \in Pubs : ppc'[q] # "stored" BY <2>1 DEF CounterOK
    <2> QED BY <1>0, <2>1, <2>2 DEF Undisturbed
  <1> QED BY <1>1, <1>2, <1>3, <1>4, <1>5, <1>6, <1>7, <1>8, <1>9, <1>10, <1>11 DEF PubNext

LEMMA OtherStepUndisturbed ==
  ASSUME TypeInv, OwnOK, Undisturbed, NEW b \in Blocks, OtherLoan(b)
  PROVE  Undisturbed'
  <1> USE DEF OtherLoan, streamVars, pubVars
  <1>1. \A p \in Pubs : own[p] # b BY DEF OwnOK
  <1>2. \A c \in Blocks : c # b => data'[c] = data[c] BY DEF TypeInv, TypeOK
  <1>3. Writers' = Writers BY DEF Writers
  <1>4. pinSeq # Unpublished => data'[pinBlk] = data[pinBlk]
    BY <1>1, <1>2 DEF Undisturbed, TypeInv, TypeOK
  <1>5. \A p \in Pubs : ppc[p] = "stored" => data'[own[p]] = data[own[p]]
    BY <1>1, <1>2 DEF TypeInv, LocalsOK, Writing
  <1> QED BY <1>3, <1>4, <1>5 DEF Undisturbed, Packed

LEMMA StreamStepUndisturbed ==
  ASSUME TypeInv, CounterOK, Undisturbed, NEW s \in Streams, StreamNext(s)
  PROVE  Undisturbed'
  <1> USE DEF TypeInv, TypeOK, LocalsOK, StreamStep, ForgetRead, pubVars
  <1>1. UNCHANGED <<ppc, own, data, pinSeq, pinBlk>>
    BY DEF StreamNext, Subscribe, DropStream, LoadPacked, ReadPinnedBlk, Register,
           WriterActive, Recheck, RecheckFails, UndoRegister, DropGuard
  <1>2. Writers' = Writers BY <1>1 DEF Writers
  <1> DEFINE G == [seq |-> Packed(pinSeq).seq, blk |-> pinBlk, len |-> pinSeq.len]
             StreamOK(t) ==
               /\ spc'[t] \in {"readblk", "register", "recheck"} => pinSeq # Unpublished
               /\ spc'[t] \in {"register", "recheck"} => rblk'[t] = pinBlk
               /\ \A g \in guards'[t] : pinSeq # Unpublished /\ g = G
  <1>3. ASSUME NEW t \in Streams, t # s PROVE StreamOK(t)
    <2>1. guards'[t] = guards[t] /\ spc'[t] = spc[t] /\ rblk'[t] = rblk[t]
      BY <1>3 DEF StreamNext, Subscribe, DropStream, LoadPacked, ReadPinnedBlk, Register,
             WriterActive, Recheck, RecheckFails, UndoRegister, DropGuard
    <2> QED BY <2>1 DEF Undisturbed
  <1>4. StreamOK(s)
    <2>0. \A g \in guards[s] : pinSeq # Unpublished /\ g = G BY DEF Undisturbed
    <2>1. CASE LoadPacked(s)
      <3>1. pinSeq # Unpublished BY <2>1, PackedFacts DEF LoadPacked
      <3> QED BY <2>0, <2>1, <3>1 DEF LoadPacked
    <2>2. CASE ReadPinnedBlk(s) BY <2>0, <2>2 DEF ReadPinnedBlk, Undisturbed
    <2>3. CASE Register(s) BY <2>0, <2>3 DEF Register, Undisturbed
    <2>4. CASE Recheck(s)
      <3>1. pinSeq # Unpublished /\ rblk[s] = pinBlk BY <2>4 DEF Recheck, Undisturbed
      <3>2. pinSeq \in Published /\ rpk[s] \in Published
        BY <2>4, <3>1 DEF Recheck, Published
      <3>3. Packed(rpk[s]) = Packed(pinSeq) BY <2>4 DEF Recheck
      <3>4. rpk[s].len = pinSeq.len /\ Packed(rpk[s]).seq = Packed(pinSeq).seq
        BY <3>2, <3>3, PackedFacts
      <3>5. guards'[s] = guards[s] \cup {G} /\ spc'[s] = "idle"
        BY <2>4, <3>1, <3>4 DEF Recheck
      <3> HIDE DEF G
      <3> QED BY <2>0, <3>1, <3>5
    <2>5. ASSUME NEW g \in guards[s], DropGuard(s, g) PROVE StreamOK(s)
      BY <2>0, <2>5 DEF DropGuard
    <2>6. ASSUME \/ Subscribe(s) \/ DropStream(s) \/ WriterActive(s) \/ RecheckFails(s)
                 \/ UndoRegister(s)
          PROVE  StreamOK(s)
      BY <2>0, <2>6 DEF Subscribe, DropStream, WriterActive, RecheckFails, UndoRegister
    <2> QED BY <2>1, <2>2, <2>3, <2>4, <2>5, <2>6 DEF StreamNext
  <1>5. \A t \in Streams : StreamOK(t) BY <1>3, <1>4
  <1> QED BY <1>1, <1>2, <1>5 DEF Undisturbed, Packed

(***************************************************************************)
(* The invariant.                                                          *)
(***************************************************************************)
LEMMA InitInv == Init => PinnedInv
  <1> SUFFICES ASSUME Init PROVE PinnedInv OBVIOUS
  <1>1. TypeInv BY InitType
  <1>2. OwnOK BY PinnedAssumption DEF Init, OwnOK, Pool!Init
  <1>3. Writers = {} /\ RegSet = {} /\ HeldSet = {}
    BY DEF Init, Writers, Writing, RegSet, Registered, HeldSet
  <1>4. CounterOK BY <1>3, FS_EmptySet DEF Init, CounterOK
  <1>5. GuardCurrent BY DEF Init, GuardCurrent
  <1>6. Undisturbed BY DEF Init, Undisturbed
  <1> QED BY <1>1, <1>2, <1>4, <1>5, <1>6 DEF PinnedInv, TypeInv

LEMMA NextInv == PinnedInv /\ [Next]_vars => PinnedInv'
  <1> SUFFICES ASSUME PinnedInv, [Next]_vars PROVE PinnedInv' OBVIOUS
  <1>0. TypeInv /\ OwnOK /\ CounterOK /\ GuardCurrent BY DEF PinnedInv, TypeInv
  <1>1. OwnOK' BY <1>0, OwnStep
  <1>2. mishaps' = {} => Undisturbed /\ mishaps = {} BY MishapsStay DEF PinnedInv
  <1>3. ASSUME NEW p \in Pubs, PubNext(p) PROVE PinnedInv'
    <2>1. TypeInv' BY <1>0, <1>3, PubStepType
    <2>2. CounterOK' BY <1>0, <1>3, PubStepCounter
    <2>3. GuardCurrent' BY <1>0, <1>3, PubStepGuard
    <2>4. mishaps' = {} => Undisturbed' BY <1>0, <1>2, <1>3, PubStepUndisturbed
    <2> QED BY <1>1, <2>1, <2>2, <2>3, <2>4 DEF PinnedInv, TypeInv
  <1>4. ASSUME NEW b \in Blocks, OtherLoan(b) PROVE PinnedInv'
    <2>1. TypeInv' BY <1>0, <1>4, OtherStepType
    <2>2. CounterOK'
      BY <1>0, <1>4, CounterSame DEF OtherLoan, pubVars, streamVars, Writers, RegSet, HeldSet
    <2>3. GuardCurrent' BY <1>0, <1>4 DEF OtherLoan, streamVars, GuardCurrent, Packed
    <2>4. mishaps' = {} => Undisturbed' BY <1>0, <1>2, <1>4, OtherStepUndisturbed
    <2> QED BY <1>1, <2>1, <2>2, <2>3, <2>4 DEF PinnedInv, TypeInv
  <1>5. ASSUME NEW s \in Streams, StreamNext(s) PROVE PinnedInv'
    <2>1. TypeInv' BY <1>0, <1>5, StreamStepType
    <2>2. CounterOK' BY <1>0, <1>5, StreamStepCounter
    <2>3. GuardCurrent' BY <1>0, <1>5, StreamStepGuard
    <2>4. mishaps' = {} => Undisturbed' BY <1>0, <1>2, <1>5, StreamStepUndisturbed
    <2> QED BY <1>1, <2>1, <2>2, <2>3, <2>4 DEF PinnedInv, TypeInv
  <1>6. CASE UNCHANGED vars
    <2> USE <1>6 DEF vars, pubVars, streamVars
    <2>1. TypeOK' BY <1>0 DEF TypeInv, TypeOK
    <2>2. LocalsOK' BY <1>0 DEF TypeInv, LocalsOK
    <2>3. CounterOK' BY <1>0, CounterSame DEF Writers, RegSet, HeldSet
    <2>4. GuardCurrent' BY <1>0 DEF GuardCurrent, Packed
    <2>5. Undisturbed => Undisturbed' BY DEF Undisturbed, Packed, Writers
    <2> QED BY <1>1, <1>2, <2>1, <2>2, <2>3, <2>4, <2>5 DEF PinnedInv
  <1> QED BY <1>3, <1>4, <1>5, <1>6, NextParts

LEMMA InvAlways == Spec => []PinnedInv
  BY InitInv, NextInv, PTL DEF Spec

(***************************************************************************)
(* Results.                                                                *)
(***************************************************************************)

\* Type correctness; in particular TE_PINNED_READERS never goes below zero and
\* TE_PINNED_SEQ is never built from a block that is being written.
THEOREM TypeCorrect == Spec => []TypeOK
  BY InvAlways, PTL DEF PinnedInv

\* loan_pinned and try_recv_pinned exclude each other: one writer at most, no
\* guard and no registered stream beside it, and an exact counter otherwise,
\* with any number of publishers, after abandoned loans and dropped publishers.
THEOREM Exclusion == Spec => []PinnedExclusion
  <1>1. PinnedInv => PinnedExclusion
    <2> SUFFICES ASSUME PinnedInv PROVE PinnedExclusion OBVIOUS
    <2>1. CounterOK BY DEF PinnedInv
    <2>2. ReaderCount = Cardinality(RegSet) + Cardinality(HeldSet)
      BY DEF ReaderCount, RegSet, HeldSet
    <2>3. Cardinality(Writers) <= 1
      <3>1. CASE Writers = {} BY <3>1, FS_EmptySet
      <3>2. CASE Writers # {}
        <4>1. PICK p \in Writers : TRUE BY <3>2
        <4>2. Writers = {p} BY <2>1, <4>1 DEF CounterOK
        <4> QED BY <4>2, FS_Singleton
      <3> QED BY <3>1, <3>2
    <2>4. Writers # {} => Cardinality(RegSet) = 0 /\ Cardinality(HeldSet) = 0
      BY <2>1, FS_EmptySet DEF CounterOK
    <2> QED BY <2>1, <2>2, <2>3, <2>4 DEF PinnedExclusion, CounterOK
  <1> QED BY <1>1, InvAlways, PTL

\* Until a loan is abandoned, a publisher dropped or a second one pins a block,
\* every guard that try_recv_pinned has returned shows one whole message with
\* its own seq and length, although the re-check compares only the truncated seq.
THEOREM GuardsIntact == Spec => []GuardIntegrity
  <1>1. PinnedInv => GuardIntegrity
    <2> SUFFICES ASSUME PinnedInv, mishaps = {}, NEW s \in Streams, NEW g \in guards[s]
                 PROVE  data[g.blk] # Dirty /\ Packed(data[g.blk]) = [seq |-> g.seq, len |-> g.len]
      BY DEF GuardIntegrity
    <2>1. Undisturbed /\ CounterOK BY DEF PinnedInv
    <2>2. Writers = {} BY <2>1, GuardExcludes
    <2>3. /\ pinSeq # Unpublished
          /\ g = [seq |-> Packed(pinSeq).seq, blk |-> pinBlk, len |-> pinSeq.len]
      BY <2>1 DEF Undisturbed
    <2>4. data[pinBlk] = pinSeq BY <2>1, <2>2, <2>3 DEF Undisturbed
    <2>5. pinSeq \in Messages BY DEF PinnedInv, TypeOK
    <2>6. pinSeq # Dirty
      <3>1. pinSeq \in [seq : Nat, len : Nat]
        <4>1. Seqs \subseteq Nat /\ Lens \subseteq Nat BY PinnedAssumption DEF Seqs
        <4>2. CASE pinSeq \in [seq : Seqs, len : Lens] BY <4>1, <4>2
        <4>3. CASE pinSeq = [seq |-> 0, len |-> 0] BY <4>3
        <4> QED BY <2>5, <4>2, <4>3 DEF Messages, Unpublished
      <3> QED BY <3>1, PinnedAssumption
    <2>7. Packed(pinSeq) = [seq |-> Packed(pinSeq).seq, len |-> pinSeq.len] BY DEF Packed
    <2> QED BY <2>3, <2>4, <2>6, <2>7
  <1> QED BY <1>1, InvAlways, PTL

\* No step of any process changes the bytes under a guard while a publisher
\* owns its block, whatever mishaps came before.
THEOREM GuardsStable == Spec => GuardStable
  <1> DEFINE Stable == \A s \in Streams : \A g \in guards[s] :
                         (\E p \in Pubs : own[p] = g.blk) => data'[g.blk] = data[g.blk]
  <1>1. PinnedInv /\ [Next]_vars => [Stable]_vars
    <2> SUFFICES ASSUME PinnedInv, Next, NEW s \in Streams, NEW g \in guards[s],
                        NEW q \in Pubs, own[q] = g.blk
                 PROVE  data'[g.blk] = data[g.blk]
      OBVIOUS
    <2> USE DEF PinnedInv
    <2>1. Writers = {} /\ readers # 0 BY GuardExcludes
    <2>2. ASSUME NEW p \in Pubs, PubNext(p) PROVE data' = data
      <3>1. ~ EnterWriter(p) BY <2>1 DEF EnterWriter
      <3>2. \A n \in Lens : ~ ClaimSeq(p, n) BY <2>1 DEF ClaimSeq, Step, Writers, Writing
      <3> QED BY <2>2, <3>1, <3>2
             DEF PubNext, Open, SetPinnedBlock, ReusePinned, ReadersActive, StorePinned,
                 LeaveWriter, DropPinnedLoan, DropPublisher, AllocPinned
    <2>3. ASSUME NEW b \in Blocks, OtherLoan(b) PROVE data'[g.blk] = data[g.blk]
      <3>1. g.blk # b BY <2>3 DEF OtherLoan, OwnOK
      <3>2. g.blk \in Blocks BY DEF TypeOK, Guards
      <3> QED BY <2>3, <3>1, <3>2 DEF OtherLoan, TypeOK
    <2>4. ASSUME NEW t \in Streams, StreamNext(t) PROVE data' = data
      BY <2>4 DEF StreamNext, Subscribe, DropStream, LoadPacked, ReadPinnedBlk, Register,
             WriterActive, Recheck, RecheckFails, UndoRegister, DropGuard
    <2> QED BY <2>2, <2>3, <2>4, NextParts
  <1>2. Spec => [][Stable]_vars BY <1>1, InvAlways, PTL DEF Spec
  <1> QED BY <1>2 DEF GuardStable

=============================================================================
