----------------------------- MODULE PinnedTopic -----------------------------
(***************************************************************************)
(* Pinned publishing on one topic: a publisher keeps one block and writes  *)
(* every message into it, streams read it in place.  TE_PINNED_READERS     *)
(* holds the number of readers or the writer's sentinel, TE_PINNED_SEQ the *)
(* message's seq (32 bits of it) and length, TE_PINNED_BLOCK the block.    *)
(*                                                                         *)
(* Every access to shared memory is a step.  A payload is the seq and the  *)
(* length it was published with; a block somebody may be writing to, or    *)
(* wrote to without publishing, holds `Dirty'.  TE_PINNED_SEQ is kept with *)
(* the whole seq and truncated where it is read.  `mishaps' records which  *)
(* of the events that break the guarantees of this mode have happened:     *)
(*   "abandon"  a PinnedLoan was dropped without publish                   *)
(*   "drop"     a Publisher was dropped and its pinned block freed         *)
(*   "second"   a second publisher started to pin a block on the topic     *)
(* The specification has no fairness, so a process may stop for good after *)
(* any step, as in a crash: what it wrote to shared memory stays.          *)
(***************************************************************************)
EXTENDS Integers, FiniteSets

CONSTANTS Pubs,      \* publishers that hold a handle of the topic
          Streams,   \* subscriptions to it
          Blocks,    \* blocks of the pool
          NoBlock,   \* NO_BLOCK
          Lens,      \* lengths of messages
          Writer,    \* PINNED_WRITER_ACTIVE
          Dirty,     \* content of a block that is no published message
          SeqMod,    \* TE_PINNED_SEQ keeps the seq modulo SeqMod (2^32)
          MaxSeq     \* bound: messages

ASSUME PinnedAssumption ==
  /\ NoBlock \notin Blocks
  /\ Writer \notin Nat
  /\ Lens \subseteq Nat
  /\ Dirty \notin [seq : Nat, len : Nat]
  /\ SeqMod \in Nat \ {0}
  /\ MaxSeq \in Nat

VARIABLES free,      \* the pool
          data,      \* what each block holds
          writeSeq,  \* TE_WRITE_SEQ
          pinSeq,    \* TE_PINNED_SEQ: [seq, len]
          pinBlk,    \* TE_PINNED_BLOCK
          readers,   \* TE_PINNED_READERS
          mishaps,   \* history: subset of {"abandon", "drop", "second"}
          ppc, own,               \* publishers; own is Publisher.pinned_blocks[topic]
          spc, last, rpk, rblk,   \* streams; rpk is the packed word that was read
          guards     \* the PinnedGuards each stream has handed out

pubVars == <<ppc, own>>
streamVars == <<spc, last, rpk, rblk, guards>>
vars == <<free, data, writeSeq, pinSeq, pinBlk, readers, mishaps,
          pubVars, streamVars>>

Pool == INSTANCE BlockPool

MaybeBlock == Blocks \cup {NoBlock}
Seqs == 0 .. MaxSeq
Unpublished == [seq |-> 0, len |-> 0]
Messages == [seq : Seqs, len : Lens] \cup {Unpublished}
Guards == [seq : 0 .. SeqMod - 1, blk : Blocks, len : Lens]

\* Mutant: the packed word keeps the whole seq.
Packed_Whole(m) == m

\* What a reader gets of TE_PINNED_SEQ: 32 bits of the seq, and the length.
Packed(m) == [seq |-> m.seq % SeqMod, len |-> m.len]

Writing == {"writing", "claimed", "stored"}   \* the sentinel is ours
Registered == {"recheck", "undo"}             \* counted as a reader

TypeOK ==
  /\ free \in SUBSET Blocks
  /\ data \in [Blocks -> Messages \cup {Dirty}]
  /\ writeSeq \in Seqs
  /\ pinSeq \in Messages
  /\ pinBlk \in Blocks
  /\ readers \in Nat \cup {Writer}
  /\ mishaps \in SUBSET {"abandon", "drop", "second"}
  /\ ppc \in [Pubs -> {"gone", "idle", "setblock", "enter"} \cup Writing]
  /\ own \in [Pubs -> MaybeBlock]
  /\ spc \in [Streams -> {"off", "idle", "readblk", "register"} \cup Registered]
  /\ last \in [Streams -> Seqs]
  /\ rpk \in [Streams -> Messages]
  /\ rblk \in [Streams -> MaybeBlock]
  /\ guards \in [Streams -> SUBSET Guards]

\* create zeroes the file: no message, no reader, and block 0 as the pinned
\* block (any one of them: blocks are alike).
Init ==
  /\ Pool!Init
  /\ data = [b \in Blocks |-> Dirty]
  /\ writeSeq = 0
  /\ pinSeq = Unpublished
  /\ pinBlk \in Blocks
  /\ readers = 0
  /\ mishaps = {}
  /\ ppc = [p \in Pubs |-> "gone"]
  /\ own = [p \in Pubs |-> NoBlock]
  /\ spc = [s \in Streams |-> "off"]
  /\ last = [s \in Streams |-> 0]
  /\ rpk = [s \in Streams |-> Unpublished]
  /\ rblk = [s \in Streams |-> NoBlock]
  /\ guards = [s \in Streams |-> {}]

(***************************************************************************)
(* Publishers                                                              *)
(***************************************************************************)
Step(p, from, to) ==
  /\ ppc[p] = from
  /\ ppc' = [ppc EXCEPT ![p] = to]

\* Publisher::create or open: no pinned block yet.
Open(p) ==
  /\ Step(p, "gone", "idle")
  /\ UNCHANGED <<free, data, writeSeq, pinSeq, pinBlk, readers, mishaps, own, streamVars>>

\* loan_pinned, the first time: allocate the block (with an empty pool:
\* Error::PoolExhausted, and nothing changes) ...
AllocPinned(p, b) ==
  /\ own[p] = NoBlock
  /\ Step(p, "idle", "setblock")
  /\ Pool!Take(b)
  /\ own' = [own EXCEPT ![p] = b]
  /\ mishaps' = IF \A q \in Pubs : own[q] = NoBlock
                  THEN mishaps ELSE mishaps \cup {"second"}
  /\ UNCHANGED <<data, writeSeq, pinSeq, pinBlk, readers, streamVars>>

\* ... and tell the subscribers.
SetPinnedBlock(p) ==
  /\ Step(p, "setblock", "enter")
  /\ pinBlk' = own[p]
  /\ UNCHANGED <<free, data, writeSeq, pinSeq, readers, mishaps, own, streamVars>>

\* loan_pinned, later: the block is there already.
ReusePinned(p) ==
  /\ own[p] # NoBlock
  /\ Step(p, "idle", "enter")
  /\ UNCHANGED <<free, data, writeSeq, pinSeq, pinBlk, readers, mishaps, own, streamVars>>

\* Mutant: the sentinel is stored after a separate look at the counter, which
\* is no longer 0.
EnterWriter_Blind(p) ==
  /\ Step(p, "enter", "writing")
  /\ readers' = Writer
  /\ data' = [data EXCEPT ![own[p]] = Dirty]
  /\ UNCHANGED <<free, writeSeq, pinSeq, pinBlk, mishaps, own, streamVars>>

\* The compare-exchange from 0 to the sentinel; the caller gets a PinnedLoan
\* and starts to write ...
EnterWriter(p) ==
  /\ Step(p, "enter", "writing")
  /\ readers = 0
  /\ readers' = Writer
  /\ data' = [data EXCEPT ![own[p]] = Dirty]
  /\ UNCHANGED <<free, writeSeq, pinSeq, pinBlk, mishaps, own, streamVars>>

\* ... or Error::PinnedReadersActive.
ReadersActive(p) ==
  /\ Step(p, "enter", "idle")
  /\ readers # 0
  /\ UNCHANGED <<free, data, writeSeq, pinSeq, pinBlk, readers, mishaps, own, streamVars>>

\* PinnedLoan::publish of the n bytes written: commit_pinned claims a seq, ...
ClaimSeq(p, n) ==
  /\ Step(p, "writing", "claimed")
  /\ writeSeq < MaxSeq
  /\ writeSeq' = writeSeq + 1
  /\ data' = [data EXCEPT ![own[p]] = [seq |-> writeSeq + 1, len |-> n]]
  /\ UNCHANGED <<free, pinSeq, pinBlk, readers, mishaps, own, streamVars>>

\* ... stores it with the length, ...
StorePinned(p) ==
  /\ Step(p, "claimed", "stored")
  /\ pinSeq' = data[own[p]]
  /\ UNCHANGED <<free, data, writeSeq, pinBlk, readers, mishaps, own, streamVars>>

\* ... and publish clears the sentinel.
LeaveWriter(p) ==
  /\ Step(p, "stored", "idle")
  /\ readers' = 0
  /\ UNCHANGED <<free, data, writeSeq, pinSeq, pinBlk, mishaps, own, streamVars>>

\* Drop of a PinnedLoan that was not published.
DropPinnedLoan(p) ==
  /\ Step(p, "writing", "idle")
  /\ readers' = 0
  /\ mishaps' = mishaps \cup {"abandon"}
  /\ UNCHANGED <<free, data, writeSeq, pinSeq, pinBlk, own, streamVars>>

\* Drop of the Publisher: its pinned block is freed, whoever reads it, and
\* TE_PINNED_BLOCK goes on naming it.
DropPublisher(p) ==
  /\ Step(p, "idle", "gone")
  /\ IF own[p] = NoBlock
       THEN UNCHANGED <<free, own, mishaps>>
       ELSE /\ Pool!Give(own[p])
            /\ own' = [own EXCEPT ![p] = NoBlock]
            /\ mishaps' = mishaps \cup {"drop"}
  /\ UNCHANGED <<data, writeSeq, pinSeq, pinBlk, readers, streamVars>>

\* Somebody else's loan from the same pool (module PubSubRing): the block is
\* taken, written to, and given back.
OtherLoan(b) ==
  /\ b \in free
  /\ data' = [data EXCEPT ![b] = Dirty]
  /\ UNCHANGED <<free, writeSeq, pinSeq, pinBlk, readers, mishaps, pubVars, streamVars>>

(***************************************************************************)
(* Streams                                                                 *)
(***************************************************************************)
StreamStep(s, from, to) ==
  /\ spc[s] = from
  /\ spc' = [spc EXCEPT ![s] = to]

\* Subscriber::subscribe starts at the latest message, with all bits of its seq.
Subscribe(s) ==
  /\ StreamStep(s, "off", "idle")
  /\ last' = [last EXCEPT ![s] = writeSeq]
  /\ UNCHANGED <<free, data, writeSeq, pinSeq, pinBlk, readers, mishaps,
                 pubVars, rpk, rblk, guards>>

\* A guard borrows its stream, so the stream is dropped after them.
DropStream(s) ==
  /\ StreamStep(s, "idle", "off")
  /\ guards[s] = {}
  /\ last' = [last EXCEPT ![s] = 0]
  /\ UNCHANGED <<free, data, writeSeq, pinSeq, pinBlk, readers, mishaps,
                 pubVars, rpk, rblk, guards>>

\* try_recv_pinned reads TE_PINNED_SEQ (None, and no change, when there is
\* nothing there or nothing new), ...
LoadPacked(s) ==
  /\ StreamStep(s, "idle", "readblk")
  /\ Packed(pinSeq) # Unpublished
  /\ Packed(pinSeq).seq > last[s]
  /\ rpk' = [rpk EXCEPT ![s] = pinSeq]
  /\ UNCHANGED <<free, data, writeSeq, pinSeq, pinBlk, readers, mishaps,
                 pubVars, last, rblk, guards>>

\* ... then the block, never NO_BLOCK, ...
ReadPinnedBlk(s) ==
  /\ StreamStep(s, "readblk", "register")
  /\ rblk' = [rblk EXCEPT ![s] = pinBlk]
  /\ UNCHANGED <<free, data, writeSeq, pinSeq, pinBlk, readers, mishaps,
                 pubVars, last, rpk, guards>>

\* ... counts itself in, unless the sentinel is there, ...
Register(s) ==
  /\ readers # Writer
  /\ StreamStep(s, "register", "recheck")
  /\ readers' = readers + 1
  /\ UNCHANGED <<free, data, writeSeq, pinSeq, pinBlk, mishaps,
                 pubVars, last, rpk, rblk, guards>>

\* The locals of try_recv_pinned at its return.
ForgetRead(s) ==
  /\ rpk' = [rpk EXCEPT ![s] = Unpublished]
  /\ rblk' = [rblk EXCEPT ![s] = NoBlock]

WriterActive(s) ==
  /\ readers = Writer
  /\ StreamStep(s, "register", "idle")
  /\ ForgetRead(s)
  /\ UNCHANGED <<free, data, writeSeq, pinSeq, pinBlk, readers, mishaps,
                 pubVars, last, guards>>

\* Mutant: no re-check after registering.
Recheck_Skipped(s) ==
  /\ StreamStep(s, "recheck", "idle")
  /\ last' = [last EXCEPT ![s] = Packed(rpk[s]).seq]
  /\ guards' = [guards EXCEPT ![s] = @ \cup
                  {[seq |-> Packed(rpk[s]).seq, blk |-> rblk[s], len |-> rpk[s].len]}]
  /\ ForgetRead(s)
  /\ UNCHANGED <<free, data, writeSeq, pinSeq, pinBlk, readers, mishaps, pubVars>>

\* ... and returns a guard if TE_PINNED_SEQ is still what it was.
Recheck(s) ==
  /\ Packed(pinSeq) = Packed(rpk[s])
  /\ StreamStep(s, "recheck", "idle")
  /\ last' = [last EXCEPT ![s] = Packed(rpk[s]).seq]
  /\ guards' = [guards EXCEPT ![s] = @ \cup
                  {[seq |-> Packed(rpk[s]).seq, blk |-> rblk[s], len |-> rpk[s].len]}]
  /\ ForgetRead(s)
  /\ UNCHANGED <<free, data, writeSeq, pinSeq, pinBlk, readers, mishaps, pubVars>>

RecheckFails(s) ==
  /\ Packed(pinSeq) # Packed(rpk[s])
  /\ StreamStep(s, "recheck", "undo")
  /\ ForgetRead(s)
  /\ UNCHANGED <<free, data, writeSeq, pinSeq, pinBlk, readers, mishaps,
                 pubVars, last, guards>>

\* Mutant: undone by a plain store of 0, as publish does for the sentinel.
UndoRegister_Store(s) ==
  /\ StreamStep(s, "undo", "idle")
  /\ readers' = 0
  /\ UNCHANGED <<free, data, writeSeq, pinSeq, pinBlk, mishaps,
                 pubVars, last, rpk, rblk, guards>>

UndoRegister(s) ==
  /\ StreamStep(s, "undo", "idle")
  /\ readers' = readers - 1
  /\ UNCHANGED <<free, data, writeSeq, pinSeq, pinBlk, mishaps,
                 pubVars, last, rpk, rblk, guards>>

DropGuard(s, g) ==
  /\ StreamStep(s, "idle", "idle")
  /\ g \in guards[s]
  /\ guards' = [guards EXCEPT ![s] = @ \ {g}]
  /\ readers' = readers - 1
  /\ UNCHANGED <<free, data, writeSeq, pinSeq, pinBlk, mishaps,
                 pubVars, last, rpk, rblk>>

Next ==
  \/ \E p \in Pubs :
       \/ Open(p) \/ SetPinnedBlock(p) \/ ReusePinned(p)
       \/ EnterWriter(p) \/ ReadersActive(p)
       \/ StorePinned(p) \/ LeaveWriter(p)
       \/ DropPinnedLoan(p) \/ DropPublisher(p)
       \/ \E b \in Blocks : AllocPinned(p, b)
       \/ \E n \in Lens : ClaimSeq(p, n)
  \/ \E b \in Blocks : OtherLoan(b)
  \/ \E s \in Streams :
       \/ Subscribe(s) \/ DropStream(s)
       \/ LoadPacked(s) \/ ReadPinnedBlk(s) \/ Register(s) \/ WriterActive(s)
       \/ Recheck(s) \/ RecheckFails(s) \/ UndoRegister(s)
       \/ \E g \in guards[s] : DropGuard(s, g)

Spec == Init /\ [][Next]_vars

(***************************************************************************)
(* Properties                                                              *)
(***************************************************************************)
Writers == {p \in Pubs : ppc[p] \in Writing}

\* Readers that TE_PINNED_READERS should count: the guards, and the streams
\* between registering and the answer.
ReaderCount ==
  Cardinality({s \in Streams : spc[s] \in Registered})
    + Cardinality(UNION {{<<s, g>> : g \in guards[s]} : s \in Streams})

\* Overlapping reads and writes are prevented (loan.rs, PinnedLoan): the
\* counter is exact, the sentinel stands for exactly one writer, and a writer
\* excludes every guard, with two publishers and after drops too.
PinnedExclusion ==
  /\ Cardinality(Writers) <= 1
  /\ readers = IF Writers = {} THEN ReaderCount ELSE Writer
  /\ Writers # {} => ReaderCount = 0

\* What a guard shows is one whole published message, with its own length,
\* for as long as it is held: the seqlock re-check of try_recv_pinned and the
\* sentinel together.  The mishaps are the events that break this promise.
GuardIntegrity ==
  mishaps = {} =>
    \A s \in Streams : \A g \in guards[s] :
      data[g.blk] # Dirty /\ Packed(data[g.blk]) = [seq |-> g.seq, len |-> g.len]

\* While a guard is held and a publisher owns its block, no step of anybody
\* changes the bytes under it, whatever mishap came before.
GuardStable ==
  [][\A s \in Streams : \A g \in guards[s] :
        (\E p \in Pubs : own[p] = g.blk) => data'[g.blk] = data[g.blk]]_vars

=============================================================================
