-------------------------- MODULE PubSubRing_proofs --------------------------
(***************************************************************************)
(* Proofs about PubSubRing, for every number of publishers, streams,       *)
(* topics and blocks, every ring depth and every bound.                    *)
(***************************************************************************)
EXTENDS PubSubRing, TLAPS

\* What the locals of a process hold at each of its steps.
LocalsOK ==
  /\ \A p \in Pubs :
       /\ ppc[p] \in {"loaned", "claimed", "forcing", "marked", "oldread", "rcset"} => pblk[p] \in Blocks
       /\ ppc[p] = "recycle" => pold[p] \in Blocks
  /\ \A s \in Streams :
       /\ spc[s] \in {"acquire", "check", "undo", "free", "unheld"} => rblk[s] \in Blocks
       /\ rseq[s] <= cur[s]

TypeInv == TypeOK /\ LocalsOK

LEMMA NoTopicType == NoTopic \in Topics
  BY RingAssumption DEF NoTopic

LEMMA SlotType == ASSUME NEW n \in Nat PROVE Slot(n) \in SlotIdx
  BY RingAssumption DEF Slot, SlotIdx

LEMMA IncType == \A n \in 0 .. RcMod - 1 : (n + 1) % RcMod \in 0 .. RcMod - 1
  <1> TAKE n \in 0 .. RcMod - 1
  <1>1. RcMod \in Nat /\ RcMod > 0 /\ n + 1 \in Int BY RingAssumption
  <1>2. \A i \in Int : i % RcMod \in 0 .. RcMod - 1 BY <1>1, Z3
  <1> QED BY <1>1, <1>2

LEMMA InitType == Init => TypeInv
  <1> SUFFICES ASSUME Init PROVE TypeInv
    OBVIOUS
  <1>1. TypeOK
    BY RingAssumption, NoTopicType
       DEF Init, TypeOK, Pool!Init, MaybeBlock, Seqs, PubPC, StreamPC, Samples
  <1>2. LocalsOK
    BY RingAssumption DEF Init, LocalsOK
  <1> QED BY <1>1, <1>2 DEF TypeInv

LEMMA PubStepType ==
  ASSUME TypeInv, NEW p \in Pubs, PubNext(p)
  PROVE  TypeInv'
  <1> USE RingAssumption, NoTopicType DEF TypeInv, TypeOK, LocalsOK, MaybeBlock, Seqs,
      poolVars, ringVars, pubVars, streamVars, Step, PubPC
  <1>1. CASE Open(p) BY <1>1 DEF Open
  <1>2. ASSUME NEW t \in Topics, LoanRecycled(p, t) PROVE TypeInv'
    <2>1. lastFreed[p] \in Blocks BY <1>2 DEF LoanRecycled
    <2> QED BY <1>2, <2>1 DEF LoanRecycled, Lend
  <1>3. ASSUME NEW t \in Topics, LoanCached(p, t) PROVE TypeInv'
    <2>1. PICK b \in cache[p] : Lend(p, b) /\ cache' = [cache EXCEPT ![p] = @ \ {b}]
      BY <1>3 DEF LoanCached
    <2>2. b \in Blocks OBVIOUS
    <2> QED BY <1>3, <2>1, <2>2 DEF LoanCached, Lend
  <1>4. ASSUME NEW t \in Topics, LoanMiss(p, t) PROVE TypeInv'
    BY <1>4 DEF LoanMiss
  <1>5. CASE Refill(p) BY <1>5 DEF Refill, Pool!Take
  <1>6. CASE RefillDone(p)
    <2>1. PICK b \in cache[p] : Lend(p, b) /\ cache' = [cache EXCEPT ![p] = @ \ {b}]
      BY <1>6 DEF RefillDone
    <2>2. b \in Blocks OBVIOUS
    <2> QED BY <1>6, <2>1, <2>2 DEF RefillDone, Lend
  <1>7. CASE PoolExhausted(p) BY <1>7 DEF PoolExhausted
  <1>8. CASE DropLoan(p) BY <1>8 DEF DropLoan, Pool!Give
  <1>9. CASE ClaimSeq(p) BY <1>9 DEF ClaimSeq
  <1>10. CASE CommitStep(p)
    <2>1. CASE MarkStore(p) BY <2>1 DEF MarkStore, SetMySeq
    <2>2. CASE MarkCas(p) BY <2>2 DEF MarkCas, SetMySeq
    <2>3. CASE ForceClaim(p) BY <2>3 DEF ForceClaim, SetMySeq
    <2>s. CASE SpinOut(p) BY <2>s DEF SpinOut
    <2>4. CASE ReadOld(p) BY <2>4, SlotType DEF ReadOld
    <2>5. CASE SetRefcount(p) BY <2>5 DEF SetRefcount
    <2>6. CASE StoreIdx(p) BY <2>6 DEF StoreIdx
    <2>7. CASE StoreLen(p) BY <2>7 DEF StoreLen
    <2>8. CASE CloseSlot(p)
      <3>1. ringSeq' \in [Topics -> [SlotIdx -> Seqs \cup {SeqWriting}]]
        BY <2>8 DEF CloseSlot, SetMySeq
      <3> QED BY <2>8, <3>1 DEF CloseSlot
    <2>9. CASE ReleaseNone(p) BY <2>9 DEF ReleaseNone
    <2>10. ASSUME pold[p] # NoBlock, Decrement(pold[p])
           PROVE  rc' \in [Blocks -> 0 .. RcMod - 1]
      BY <2>10 DEF Decrement
    <2>11. CASE ReleaseShared(p) BY <2>10, <2>11 DEF ReleaseShared
    <2>12. CASE ReleaseLast(p) BY <2>10, <2>12 DEF ReleaseLast
    <2>13. CASE Recycle(p)
      <3>1. free' \in SUBSET Blocks BY <2>13 DEF Recycle, Pool!Give
      <3> QED BY <2>13, <3>1 DEF Recycle
    <2> QED BY <1>10, <2>1, <2>2, <2>3, <2>s, <2>4, <2>5, <2>6, <2>7, <2>8, <2>9, <2>11, <2>12,
               <2>13 DEF CommitStep
  <1>11. CASE DropPublisher(p) BY <1>11 DEF DropPublisher
  <1>12. CASE DropRecycled(p) BY <1>12 DEF DropRecycled, Pool!Give
  <1>13. CASE DropCached(p) BY <1>13 DEF DropCached, Pool!Give
  <1>14. CASE DropEnd(p) BY <1>14 DEF DropEnd
  <1> QED BY <1>1, <1>2, <1>3, <1>4, <1>5, <1>6, <1>7, <1>8, <1>9, <1>10, <1>11, <1>12,
             <1>13, <1>14 DEF PubNext

LEMMA ScanStartBounds ==
  ASSUME NEW c \in Nat, NEW l \in Nat, l < c
  PROVE  ScanStart(c, l) \in l + 1 .. c
  BY RingAssumption DEF ScanStart

\* What a receive leaves its stream's locals at when a slot had nothing for it.
LEMMA NextSlotType ==
  ASSUME TypeInv, NEW s \in Streams, NextSlot(s)
  PROVE  /\ spc' \in [Streams -> StreamPC]
         /\ cur' \in [Streams -> Seqs]
         /\ rseq' \in [Streams -> Seqs]
         /\ rblk' \in [Streams -> MaybeBlock]
         /\ rlen' \in [Streams -> Seqs]
         /\ spc'[s] \in {"idle", "scan"}
         /\ \A x \in Streams :
              /\ x # s => spc'[x] = spc[x] /\ rblk'[x] = rblk[x]
              /\ rseq'[x] <= cur'[x]
  <1> USE RingAssumption DEF TypeInv, TypeOK, LocalsOK, MaybeBlock, Seqs, StreamStep, StreamPC
  <1>1. CASE rseq[s] = cur[s]
    <2>0. Finish(s) BY <1>1 DEF NextSlot
    <2>1. cur' \in [Streams -> Seqs] /\ rseq' \in [Streams -> Seqs] BY <2>0 DEF Finish
    <2>2. \A x \in Streams : rseq'[x] <= cur'[x] BY <2>0 DEF Finish
    <2>3. spc' = [spc EXCEPT ![s] = "idle"] BY <2>0 DEF Finish
    <2> QED BY <2>0, <2>1, <2>2, <2>3 DEF Finish
  <1>2. CASE rseq[s] # cur[s]
    <2>0. rseq[s] \in Nat /\ cur[s] \in Nat /\ cur[s] <= MaxSeq /\ rseq[s] <= cur[s]
      OBVIOUS
    <2>1. rseq[s] + 1 \in Seqs /\ rseq[s] + 1 <= cur[s]
      <3> DEFINE n == rseq[s]
                 m == cur[s]
      <3>1. n \in Nat /\ m \in Nat /\ m <= MaxSeq /\ n <= m /\ n # m BY <1>2, <2>0
      <3> HIDE DEF n, m
      <3>2. n + 1 \in 0 .. MaxSeq /\ n + 1 <= m BY <3>1
      <3> QED BY <3>2 DEF n, m
    <2>2. /\ spc' = [spc EXCEPT ![s] = "scan"]
          /\ rseq' = [rseq EXCEPT ![s] = rseq[s] + 1]
          /\ rblk' = [rblk EXCEPT ![s] = NoBlock]
          /\ rlen' = [rlen EXCEPT ![s] = 0]
          /\ cur' = cur
      BY <1>2 DEF NextSlot
    <2>3. rseq' \in [Streams -> Seqs] /\ \A x \in Streams : rseq'[x] <= cur'[x]
      BY <2>1, <2>2
    <2> QED BY <2>2, <2>3
  <1> QED BY <1>1, <1>2 DEF NextSlot

LEMMA StreamStepType ==
  ASSUME TypeInv, NEW s \in Streams, StreamNext(s)
  PROVE  TypeInv'
  <1> USE RingAssumption, NoTopicType DEF TypeInv, TypeOK, LocalsOK, MaybeBlock, Seqs,
      ringVars, pubVars, pubSide, StreamStep, StreamPC
  <1>1. ASSUME NEW t \in Topics, Subscribe(s, t) PROVE TypeInv'
    BY <1>1 DEF Subscribe
  <1>2. CASE DropStream(s) BY <1>2 DEF DropStream
  <1>3. CASE TryRecv(s)
    <2>1. ScanStart(writeSeq[stopic[s]], last[s]) \in 0 .. writeSeq[stopic[s]]
      BY <1>3, ScanStartBounds DEF TryRecv
    <2> QED BY <1>3, <2>1 DEF TryRecv
  <1>4. CASE Check1(s)
    <2>1. CASE SlotHolds(s) BY ZenonT(30), <1>4, <2>1 DEF Check1
    <2>2. CASE ~SlotHolds(s) BY <1>4, <2>2, NextSlotType DEF Check1
    <2> QED BY <2>1, <2>2
  <1>5. CASE ReadBlk(s)
    <2>1. ringBlk[stopic[s]][Slot(rseq[s])] \in MaybeBlock BY SlotType
    <2> QED BY <1>5, <2>1 DEF ReadBlk
  <1>6. CASE ReadLen(s)
    <2>1. CASE rblk[s] # NoBlock
      <3>1. ringLen[stopic[s]][Slot(rseq[s])] \in Seqs BY SlotType
      <3> QED BY ZenonT(30), <1>6, <2>1, <3>1 DEF ReadLen
    <2>2. CASE rblk[s] = NoBlock BY <1>6, <2>2, NextSlotType DEF ReadLen
    <2> QED BY <2>1, <2>2
  <1>7. CASE Acquire(s)
    <2>1. CASE rc[rblk[s]] # 0
      <3> DEFINE n == (rc[rblk[s]] + 1) % RcMod
      <3>1. rc' = [rc EXCEPT ![rblk[s]] = n] BY <1>7, <2>1 DEF Acquire
      <3>2. n \in 0 .. RcMod - 1 BY <1>7, IncType DEF Acquire
      <3> HIDE DEF n
      <3>3. rc' \in [Blocks -> 0 .. RcMod - 1] BY <3>1, <3>2
      <3> QED BY ZenonT(30), <1>7, <2>1, <3>3 DEF Acquire
    <2>2. CASE rc[rblk[s]] = 0 BY <1>7, <2>2, NextSlotType DEF Acquire
    <2> QED BY <2>1, <2>2
  <1>8. CASE Check2(s)
    <2>1. CASE SlotHolds(s)
      <3>1. [seq |-> rseq[s], blk |-> rblk[s], len |-> rlen[s]] \in Samples
        BY <1>8 DEF Check2, Samples
      <3>2. /\ Finish(s)
            /\ last' = [last EXCEPT ![s] = rseq[s]]
            /\ held' = [held EXCEPT ![s] =
                  @ \cup {[seq |-> rseq[s], blk |-> rblk[s], len |-> rlen[s]]}]
        BY <1>8, <2>1 DEF Check2
      <3> QED BY <1>8, <3>1, <3>2 DEF Check2, Finish
    <2>2. CASE ~SlotHolds(s) BY ZenonT(30), <1>8, <2>2 DEF Check2
    <2> QED BY <2>1, <2>2
  <1>9. ASSUME NEW b \in Blocks, Decrement(b) PROVE rc' \in [Blocks -> 0 .. RcMod - 1]
    BY <1>9 DEF Decrement
  <1>10. CASE Undo(s)
    <2>1. CASE rc[rblk[s]] = 1 BY ZenonT(30), <1>9, <1>10, <2>1 DEF Undo
    <2>2. CASE rc[rblk[s]] # 1 BY <1>9, <1>10, <2>2, NextSlotType DEF Undo
    <2> QED BY <2>1, <2>2
  <1>11. CASE UndoFree(s) BY ZenonT(30), <1>11, NextSlotType DEF UndoFree, Pool!Give
  <1>12. ASSUME NEW h \in held[s], DropSample(s, h) PROVE TypeInv'
    <2>1. h.blk \in Blocks BY DEF Samples
    <2>2. rc' \in [Blocks -> 0 .. RcMod - 1] BY <1>9, <1>12, <2>1 DEF DropSample
    <2>3. CASE rc[h.blk] = 1 BY ZenonT(30), <1>12, <2>1, <2>2, <2>3 DEF DropSample
    <2>4. CASE rc[h.blk] # 1 BY ZenonT(30), <1>12, <2>1, <2>2, <2>4 DEF DropSample
    <2> QED BY <2>3, <2>4
  <1>13. CASE DropSampleFree(s) BY <1>13 DEF DropSampleFree, Pool!Give
  <1> QED BY <1>1, <1>2, <1>3, <1>4, <1>5, <1>6, <1>7, <1>8, <1>10, <1>11, <1>12, <1>13
          DEF StreamNext, ReceiveStep

LEMMA NextType == TypeInv /\ [Next]_vars => TypeInv'
  <1> SUFFICES ASSUME TypeInv, [Next]_vars PROVE TypeInv'
    OBVIOUS
  <1>1. ASSUME NEW x \in Crashable, Crash(x) PROVE TypeInv'
    <2>1. x \in Pubs \cup Streams BY RingAssumption
    <2> QED BY <1>1, <2>1 DEF Crash, TypeInv, TypeOK, LocalsOK, poolVars, ringVars,
            pubVars, streamVars
  <1>2. CASE UNCHANGED vars
    BY <1>2 DEF vars, TypeInv, TypeOK, LocalsOK, poolVars, ringVars, pubVars, streamVars
  <1> QED BY <1>1, <1>2, PubStepType, StreamStepType DEF Next

\* Type correctness: every index, seq, refcount and block a publisher or a stream
\* holds stays in its range, and the steps of commit_to_ring and
\* try_read_slot_raw never run on NO_BLOCK.
THEOREM TypeCorrect == Spec => []TypeOK
  <1>1. TypeInv => TypeOK BY DEF TypeInv
  <1> QED BY <1>1, InitType, NextType, PTL DEF Spec

-----------------------------------------------------------------------------
(***************************************************************************)
(* Mutual exclusion in a ring slot.  A live publisher inside a slot sees   *)
(* SEQ_WRITING there, so that neither a compare-exchange nor (while no     *)
(* live writer is overtaken) a force-claim lets another one in; an owner   *)
(* does not look, and is kept out by publishing on topics of its own.      *)
(***************************************************************************)
Committing(p) == ppc[p] \in {"claimed", "forcing"} \/ InSlot(p)

SlotMarked ==
  \A p \in Pubs \ crashed : InSlot(p) => MySeq(p) = SeqWriting

HandleHeld ==
  \A p \in Pubs : ppc[p] \in {"refill", "loaned"} \/ Committing(p) => ptopic[p] \in Handles[p]

MutexInv == TypeInv /\ SlotMarked /\ HandleHeld /\ SlotMutex

LEMMA InitMutex == Init => MutexInv
  BY InitType DEF Init, MutexInv, SlotMarked, HandleHeld, SlotMutex, InSlot, Committing

\* A step of a publisher outside the ring slots: no slot is marked or closed and
\* nobody enters one.
LEMMA OutsideSlot ==
  ASSUME MutexInv, NEW p \in Pubs,
         ringSeq' = ringSeq, crashed' = crashed,
         \A q \in Pubs : q # p => /\ ppc'[q] = ppc[q]
                                  /\ ptopic'[q] = ptopic[q]
                                  /\ pseq'[q] = pseq[q],
         InSlot(p)' => InSlot(p) /\ ptopic'[p] = ptopic[p] /\ pseq'[p] = pseq[p]
  PROVE  SlotMarked' /\ SlotMutex'
  <1>1. \A q \in Pubs : InSlot(q)' => /\ InSlot(q)
                                      /\ ptopic'[q] = ptopic[q]
                                      /\ pseq'[q] = pseq[q]
    BY DEF InSlot
  <1>2. SlotMarked' BY <1>1 DEF MutexInv, SlotMarked, MySeq
  <1>3. SlotMutex' BY <1>1 DEF MutexInv, SlotMutex, SameSlot
  <1> QED BY <1>2, <1>3

\* Publisher p enters a slot in which no other live publisher is.
LEMMA EnterSlot ==
  ASSUME MutexInv, NEW p \in Pubs,
         ppc[p] \in {"claimed", "forcing"},
         SetMySeq(p, SeqWriting),
         ppc' = [ppc EXCEPT ![p] = "marked"],
         UNCHANGED <<crashed, ptopic, pseq>>,
         \A q \in Pubs \ crashed : q # p /\ InSlot(q) => ~SameSlot(p, q)
  PROVE  SlotMarked' /\ HandleHeld' /\ SlotMutex'
  <1> USE DEF MutexInv, TypeInv, TypeOK
  <1>1. \A q \in Pubs : q # p => InSlot(q)' = InSlot(q) BY DEF InSlot
  <1>2. /\ Slot(pseq[p]) \in SlotIdx
        /\ \A q \in Pubs : Slot(pseq[q]) \in SlotIdx
    BY SlotType DEF Seqs
  <1>3. SlotMarked'
    BY <1>1, <1>2 DEF SlotMarked, SetMySeq, MySeq
  <1>4. SlotMutex' BY <1>1 DEF SlotMutex, SameSlot
  <1>5. HandleHeld' BY <1>1 DEF HandleHeld, Committing
  <1> QED BY <1>3, <1>4, <1>5

LEMMA CommitMutex ==
  ASSUME OwnerAlone, ~ForceOnLive, MutexInv, NEW p \in Pubs, CommitStep(p)
  PROVE  SlotMarked' /\ HandleHeld' /\ SlotMutex'
  <1> USE DEF Step
  <1>0. /\ ppc \in [Pubs -> PubPC] /\ ptopic \in [Pubs -> Topics]
        /\ pseq \in [Pubs -> Nat] /\ p \notin crashed
    BY DEF CommitStep, MutexInv, TypeInv, TypeOK, Seqs, MarkStore, MarkCas, SpinOut,
           ForceClaim, ReadOld, SetRefcount, StoreIdx, StoreLen, CloseSlot, ReleaseNone, ReleaseShared,
           ReleaseLast, Recycle
  \* Entering: alone on the topic, not marked, or nobody alive inside.
  <1>1. CASE MarkStore(p)
    <2>1. \A q \in Pubs : q # p /\ InSlot(q) => ~SameSlot(p, q)
      BY <1>1, <1>0 DEF MutexInv, HandleHeld, Committing, SameSlot, OwnerAlone, MarkStore
    <2> QED BY <1>1, <2>1, EnterSlot DEF MarkStore
  <1>2. CASE MarkCas(p)
    <2>1. \A q \in Pubs \ crashed : q # p /\ InSlot(q) => ~SameSlot(p, q)
      BY <1>2 DEF MutexInv, SlotMarked, MySeq, SameSlot, MarkCas
    <2> QED BY <1>2, <2>1, EnterSlot DEF MarkCas
  <1>3. CASE ForceClaim(p)
    BY <1>3, EnterSlot DEF ForceClaim
  <1>7. CASE SpinOut(p)
    <2>1. /\ Committing(p) /\ ~InSlot(p)'
          /\ UNCHANGED <<ringSeq, crashed, ptopic, pseq>>
          /\ \A q \in Pubs : q # p => ppc'[q] = ppc[q]
      BY <1>0, <1>7 DEF SpinOut, InSlot, ringVars, Committing
    <2>2. HandleHeld' BY <2>1 DEF MutexInv, HandleHeld, Committing, InSlot
    <2> QED BY <2>1, <2>2, OutsideSlot
  \* Inside: the slot's seq is not touched.
  <1>4. CASE ReadOld(p) \/ SetRefcount(p) \/ StoreIdx(p) \/ StoreLen(p)
    <2>1. /\ InSlot(p) /\ InSlot(p)'
          /\ UNCHANGED <<ringSeq, crashed, ptopic, pseq>>
          /\ \A q \in Pubs : q # p => ppc'[q] = ppc[q]
      BY <1>0, <1>4 DEF ReadOld, SetRefcount, StoreIdx, StoreLen, InSlot, ringVars
    <2>2. HandleHeld' BY <2>1 DEF MutexInv, HandleHeld, Committing, InSlot
    <2> QED BY <2>1, <2>2, OutsideSlot
  \* Leaving: every other live publisher is in another slot.
  <1>5. CASE CloseSlot(p)
    <2>1. /\ ringSeq \in [Topics -> [SlotIdx -> Seqs \cup {SeqWriting}]]
          /\ \A q \in Pubs : Slot(pseq[q]) \in SlotIdx
      BY <1>0, SlotType DEF MutexInv, TypeInv, TypeOK
    <2>2. \A q \in Pubs : q # p => /\ InSlot(q)' = InSlot(q)
                                   /\ ppc'[q] = ppc[q]
                                   /\ ptopic'[q] = ptopic[q]
                                   /\ pseq'[q] = pseq[q]
      BY <1>0, <1>5 DEF CloseSlot, InSlot
    <2>3. InSlot(p) /\ ~InSlot(p)' /\ ppc'[p] = "closed" /\ crashed' = crashed
      BY <1>0, <1>5 DEF CloseSlot, InSlot
    <2>4. \A q \in Pubs \ crashed : q # p /\ InSlot(q) => MySeq(q)' = MySeq(q)
      BY <1>0, <1>5, <2>1, <2>2, <2>3 DEF CloseSlot, SetMySeq, MySeq, MutexInv, SlotMutex, SameSlot
    <2>5. SlotMarked' BY <2>2, <2>3, <2>4 DEF MutexInv, SlotMarked
    <2>6. SlotMutex' BY <2>2, <2>3 DEF MutexInv, SlotMutex, SameSlot
    <2>7. HandleHeld' BY <2>2, <2>3 DEF MutexInv, HandleHeld, Committing
    <2> QED BY <2>5, <2>6, <2>7
  \* Outside.
  <1>6. CASE ReleaseNone(p) \/ ReleaseShared(p) \/ ReleaseLast(p) \/ Recycle(p)
    <2>1. /\ ppc'[p] \in {"idle", "recycle"}
          /\ UNCHANGED <<ringSeq, crashed, ptopic, pseq>>
          /\ \A q \in Pubs : q # p => ppc'[q] = ppc[q]
      BY <1>0, <1>6 DEF ReleaseNone, ReleaseShared, ReleaseLast, Recycle, ringVars
    <2>2. HandleHeld' BY <2>1 DEF MutexInv, HandleHeld, Committing, InSlot
    <2> QED BY <2>1, <2>2, OutsideSlot DEF InSlot
  <1> QED BY <1>1, <1>2, <1>3, <1>4, <1>5, <1>6, <1>7 DEF CommitStep

LEMMA OtherPubMutex ==
  ASSUME MutexInv, NEW p \in Pubs, PubNext(p), ~CommitStep(p)
  PROVE  SlotMarked' /\ HandleHeld' /\ SlotMutex'
  <1>0. /\ ppc \in [Pubs -> PubPC] /\ ptopic \in [Pubs -> Topics]
        /\ pseq \in [Pubs -> Seqs]
    BY DEF MutexInv, TypeInv, TypeOK
  <1>1. /\ UNCHANGED <<ringSeq, crashed>>
        /\ ~InSlot(p)'
        /\ \A q \in Pubs : q # p => /\ ppc'[q] = ppc[q]
                                    /\ ptopic'[q] = ptopic[q]
                                    /\ pseq'[q] = pseq[q]
    <2> USE <1>0 DEF Step, InSlot, ringVars
    <2>1. ASSUME NEW t \in Topics, LoanRecycled(p, t) \/ LoanCached(p, t) \/ LoanMiss(p, t)
          PROVE  <1>1!:
      BY <2>1 DEF LoanRecycled, LoanCached, LoanMiss
    <2>2. CASE Open(p) \/ Refill(p) \/ RefillDone(p) \/ PoolExhausted(p)
      BY <2>2 DEF Open, Refill, RefillDone, PoolExhausted
    <2>3. CASE DropLoan(p) \/ ClaimSeq(p)
      BY <2>3 DEF DropLoan, ClaimSeq
    <2>4. CASE DropPublisher(p) \/ DropRecycled(p) \/ DropCached(p) \/ DropEnd(p)
      BY <2>4 DEF DropPublisher, DropRecycled, DropCached, DropEnd
    <2> QED BY <2>1, <2>2, <2>3, <2>4 DEF PubNext
  <1>2. /\ ppc'[p] # "forcing"
        /\ ppc'[p] \in {"refill", "loaned", "claimed"} => ptopic'[p] \in Handles[p]
    BY <1>0 DEF PubNext, Step, Open, LoanRecycled, LoanCached, LoanMiss, Refill, RefillDone,
       PoolExhausted, DropLoan, ClaimSeq, DropPublisher, DropRecycled, DropCached, DropEnd,
       MutexInv, HandleHeld
  <1>3. HandleHeld' BY <1>1, <1>2 DEF MutexInv, HandleHeld, Committing, InSlot
  <1> QED BY <1>1, <1>3, OutsideSlot

LEMMA NextMutex ==
  ASSUME OwnerAlone, ~ForceOnLive
  PROVE  MutexInv /\ [Next]_vars => MutexInv'
  <1> SUFFICES ASSUME MutexInv, [Next]_vars PROVE MutexInv'
    OBVIOUS
  <1>1. TypeInv' BY NextType DEF MutexInv
  <1>2. ASSUME NEW p \in Pubs, PubNext(p) PROVE SlotMarked' /\ HandleHeld' /\ SlotMutex'
    BY <1>2, CommitMutex, OtherPubMutex
  <1>3. ASSUME UNCHANGED <<ringSeq, ppc, ptopic, pseq>>, crashed \subseteq crashed'
        PROVE  SlotMarked' /\ HandleHeld' /\ SlotMutex'
    BY <1>3 DEF MutexInv, SlotMarked, HandleHeld, SlotMutex, InSlot, MySeq, SameSlot, Committing
  <1>4. ASSUME NEW s \in Streams, StreamNext(s)
        PROVE  UNCHANGED <<ringSeq, ppc, ptopic, pseq, crashed>>
    BY <1>4 DEF StreamNext, ReceiveStep, Subscribe, DropStream, TryRecv, Check1, ReadBlk,
       ReadLen, Acquire, Check2, Undo, UndoFree, DropSample, DropSampleFree,
       pubSide, ringVars, pubVars
  <1>5. ASSUME NEW x \in Crashable, Crash(x)
        PROVE  UNCHANGED <<ringSeq, ppc, ptopic, pseq>> /\ crashed \subseteq crashed'
    BY <1>5 DEF Crash, ringVars, pubVars
  <1>6. CASE UNCHANGED vars BY <1>1, <1>3, <1>6 DEF vars, ringVars, pubVars, MutexInv
  <1> QED BY <1>1, <1>2, <1>3, <1>4, <1>5, <1>6 DEF Next, MutexInv

\* The claim of commit_to_ring that only one publisher wins a ring slot: true
\* for any number of publishers, any ring depth and any crashes, provided that
\* no owner shares a topic with another publisher and no force-claim meets a
\* live publisher in the slot.  (Both provisos are needed; the run ring_force_live is about
\* the second.)
THEOREM MutualExclusion ==
  ASSUME OwnerAlone, ~ForceOnLive
  PROVE  Spec => []SlotMutex
  <1>1. MutexInv => SlotMutex BY DEF MutexInv
  <1> QED BY <1>1, InitMutex, NextMutex, PTL DEF Spec

=============================================================================
