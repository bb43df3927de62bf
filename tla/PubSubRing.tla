------------------------------ MODULE PubSubRing ------------------------------
(***************************************************************************)
(* Zero-copy publish/subscribe: publishers allocate a block, write into    *)
(* it, and put its index into the ring of a topic; streams take a counted  *)
(* reference to the block a ring slot names and read the block in place.   *)
(*                                                                         *)
(* Every access to shared memory is a step of its own: the steps of a      *)
(* commit (Region::commit_to_ring) and of a receive                        *)
(* (Stream::try_read_slot_raw) interleave in every order, and a process    *)
(* may stop for good between any two of them.  Memory is sequentially      *)
(* consistent here.  The pool is the abstract one of module BlockPool.     *)
(*                                                                         *)
(* A payload is named by the message it belongs to, <<topic, seq>>; a      *)
(* block that its publisher may still be writing to holds `Dirty'.  The    *)
(* data_len of a message is named by its seq.                              *)
(***************************************************************************)
EXTENDS Integers, FiniteSets

CONSTANTS Pubs,        \* publisher handles
          Owners,      \* the ones made by Publisher::create (is_owner)
          Streams,     \* subscriptions
          Topics,      \* registered topics
          Handles,     \* Handles[p]: the topics p holds a Topic handle of
          Blocks,      \* blocks of the pool
          Depth,       \* ring_depth
          CacheSize,   \* length of Publisher.block_cache (8)
          RcMod,       \* refcounts count modulo RcMod (2^32)
          NoBlock,     \* NO_BLOCK
          SeqWriting,  \* SEQ_WRITING
          Dirty,       \* content of a block that is not a published message
          Crashable,   \* the publishers and streams that may crash
          ForceOnLive, \* may 1024 spins end with a live publisher in the slot?
          MaxSeq,      \* bound: messages per topic
          MaxHeld      \* bound: samples a stream holds at a time

\* A refcount has room for a reference of every ring slot, of every publisher and of two
\* of every stream (a sample and a receive): 2^32 against what fits in a mapped region.
ASSUME RingAssumption ==
  /\ Owners \subseteq Pubs
  /\ Topics # {}
  /\ IsFiniteSet(Pubs) /\ IsFiniteSet(Streams) /\ IsFiniteSet(Topics)
  /\ Handles \in [Pubs -> SUBSET Topics]
  /\ Depth \in Nat \ {0}
  /\ CacheSize \in Nat \ {0}
  /\ RcMod \in Nat \ {0, 1}
  /\ Cardinality(Topics \X (0 .. Depth - 1)) + Cardinality(Pubs)
       + 2 * Cardinality(Streams) < RcMod
  /\ NoBlock \notin Blocks
  /\ SeqWriting \notin Nat
  /\ Dirty \notin Topics \X Nat
  /\ Crashable \subseteq Pubs \cup Streams
  /\ ForceOnLive \in BOOLEAN
  /\ MaxSeq \in Nat
  /\ MaxHeld \in Nat

VARIABLES free,      \* the pool
          lastFreed, \* Region.last_freed of each publisher's region object
          cache,     \* Publisher.block_cache, as a set
          writeSeq,  \* TE_WRITE_SEQ of each topic
          ringSeq,   \* RE_SEQ of each ring slot
          ringBlk,   \* RE_BLOCK_IDX
          ringLen,   \* RE_DATA_LEN
          rc,        \* BK_REFCOUNT of each block
          data,      \* what each block's data area holds
          subCount,  \* TE_SUBSCRIBER_COUNT
          crashed,   \* processes that stopped for good
          \* locals of each publisher
          ppc, pblk, ptopic, pseq, pold,
          \* state and locals of each stream
          spc, stopic, last, cur, rseq, rblk, rlen,
          held       \* the samples each stream has handed out

poolVars == <<free, lastFreed, cache>>
ringVars == <<writeSeq, ringSeq, ringBlk, ringLen>>
pubVars == <<ppc, pblk, ptopic, pseq, pold>>
streamVars == <<spc, stopic, last, cur, rseq, rblk, rlen, held>>
vars == <<poolVars, ringVars, rc, data, subCount, crashed, pubVars, streamVars>>

Pool == INSTANCE BlockPool

MaybeBlock == Blocks \cup {NoBlock}
Seqs == 0 .. MaxSeq
SlotIdx == 0 .. Depth - 1
Samples == [seq : Seqs, blk : Blocks, len : Seqs]

\* seq & (ring_depth - 1); ring_depth is a power of two.
Slot(n) == n % Depth

PubPC == {"gone", "idle", "refill", "loaned", "claimed", "forcing", "marked", "oldread",
          "rcset", "idxset", "lenset", "closed", "recycle", "dropping"}
StreamPC == {"off", "idle", "scan", "readblk", "readlen", "acquire", "check",
             "undo", "free", "unheld"}

TypeOK ==
  /\ free \in SUBSET Blocks
  /\ lastFreed \in [Pubs -> MaybeBlock]
  /\ cache \in [Pubs -> SUBSET Blocks]
  /\ writeSeq \in [Topics -> Seqs]
  /\ ringSeq \in [Topics -> [SlotIdx -> Seqs \cup {SeqWriting}]]
  /\ ringBlk \in [Topics -> [SlotIdx -> MaybeBlock]]
  /\ ringLen \in [Topics -> [SlotIdx -> Seqs]]
  /\ rc \in [Blocks -> 0 .. RcMod - 1]
  /\ data \in [Blocks -> (Topics \X Seqs) \cup {Dirty}]
  /\ subCount \in [Topics -> Int]
  /\ crashed \in SUBSET (Pubs \cup Streams)
  /\ ppc \in [Pubs -> PubPC]
  /\ pblk \in [Pubs -> MaybeBlock]
  /\ ptopic \in [Pubs -> Topics]
  /\ pseq \in [Pubs -> Seqs]
  /\ pold \in [Pubs -> MaybeBlock]
  /\ spc \in [Streams -> StreamPC]
  /\ stopic \in [Streams -> Topics]
  /\ last \in [Streams -> Seqs]
  /\ cur \in [Streams -> Seqs]
  /\ rseq \in [Streams -> Seqs]
  /\ rblk \in [Streams -> MaybeBlock]
  /\ rlen \in [Streams -> Seqs]
  /\ held \in [Streams -> SUBSET Samples]

(***************************************************************************)
(* The region just created: every block free, no message, and the          *)
(* publishers that open() it later still gone.                             *)
(***************************************************************************)
NoTopic == CHOOSE t \in Topics : TRUE

Init ==
  /\ Pool!Init
  /\ lastFreed = [p \in Pubs |-> NoBlock]
  /\ cache = [p \in Pubs |-> {}]
  /\ writeSeq = [t \in Topics |-> 0]
  /\ ringSeq = [t \in Topics |-> [i \in SlotIdx |-> 0]]
  /\ ringBlk = [t \in Topics |-> [i \in SlotIdx |-> NoBlock]]
  /\ ringLen = [t \in Topics |-> [i \in SlotIdx |-> 0]]
  /\ rc = [b \in Blocks |-> 0]
  /\ data = [b \in Blocks |-> Dirty]
  /\ subCount = [t \in Topics |-> 0]
  /\ crashed = {}
  /\ ppc = [p \in Pubs |-> IF p \in Owners THEN "idle" ELSE "gone"]
  /\ pblk = [p \in Pubs |-> NoBlock]
  /\ ptopic = [p \in Pubs |-> NoTopic]
  /\ pseq = [p \in Pubs |-> 0]
  /\ pold = [p \in Pubs |-> NoBlock]
  /\ spc = [s \in Streams |-> "off"]
  /\ stopic = [s \in Streams |-> NoTopic]
  /\ last = [s \in Streams |-> 0]
  /\ cur = [s \in Streams |-> 0]
  /\ rseq = [s \in Streams |-> 0]
  /\ rblk = [s \in Streams |-> NoBlock]
  /\ rlen = [s \in Streams |-> 0]
  /\ held = [s \in Streams |-> {}]

(***************************************************************************)
(* Publishers: opening, allocating, dropping                               *)
(***************************************************************************)

\* A live publisher p at step `from' goes to step `to'.
Step(p, from, to) ==
  /\ p \notin crashed
  /\ ppc[p] = from
  /\ ppc' = [ppc EXCEPT ![p] = to]

\* Publisher::open: a secondary publisher joins with an empty cache.
Open(p) ==
  /\ p \notin Owners
  /\ Step(p, "gone", "idle")
  /\ UNCHANGED <<poolVars, ringVars, rc, data, subCount, crashed,
                 pblk, ptopic, pseq, pold, streamVars>>

\* alloc_cached hands block b to the loan; from here on the caller writes to it.
Lend(p, b) ==
  /\ pblk' = [pblk EXCEPT ![p] = b]
  /\ data' = [data EXCEPT ![b] = Dirty]

\* loan / loan_typed / publish on topic t of which p has a handle: the recycled
\* block if there is one, ...
LoanRecycled(p, t) ==
  /\ t \in Handles[p]
  /\ lastFreed[p] # NoBlock
  /\ Step(p, "idle", "loaned")
  /\ Lend(p, lastFreed[p])
  /\ lastFreed' = [lastFreed EXCEPT ![p] = NoBlock]
  /\ ptopic' = [ptopic EXCEPT ![p] = t]
  /\ UNCHANGED <<free, cache, ringVars, rc, subCount, crashed, pseq, pold, streamVars>>

\* ... else a cached block, ...
LoanCached(p, t) ==
  /\ t \in Handles[p]
  /\ lastFreed[p] = NoBlock
  /\ Step(p, "idle", "loaned")
  /\ \E b \in cache[p] : Lend(p, b) /\ cache' = [cache EXCEPT ![p] = @ \ {b}]
  /\ ptopic' = [ptopic EXCEPT ![p] = t]
  /\ UNCHANGED <<free, lastFreed, ringVars, rc, subCount, crashed, pseq, pold, streamVars>>

\* ... else the cache has to be refilled first.
LoanMiss(p, t) ==
  /\ t \in Handles[p]
  /\ lastFreed[p] = NoBlock /\ cache[p] = {}
  /\ Step(p, "idle", "refill")
  /\ ptopic' = [ptopic EXCEPT ![p] = t]
  /\ UNCHANGED <<poolVars, ringVars, rc, data, subCount, crashed,
                 pblk, pseq, pold, streamVars>>

\* One alloc_block of the refill loop.
Refill(p) ==
  /\ Step(p, "refill", "refill")
  /\ Cardinality(cache[p]) < CacheSize
  /\ \E b \in Blocks :
       /\ Pool!Take(b)
       /\ cache' = [cache EXCEPT ![p] = @ \cup {b}]
  /\ UNCHANGED <<lastFreed, ringVars, rc, data, subCount, crashed,
                 pblk, ptopic, pseq, pold, streamVars>>

\* The refill loop ends: the loan gets a block, ...
RefillDone(p) ==
  /\ Cardinality(cache[p]) = CacheSize \/ Pool!Exhausted
  /\ Step(p, "refill", "loaned")
  /\ \E b \in cache[p] : Lend(p, b) /\ cache' = [cache EXCEPT ![p] = @ \ {b}]
  /\ UNCHANGED <<free, lastFreed, ringVars, rc, subCount, crashed,
                 ptopic, pseq, pold, streamVars>>

\* ... or the caller Error::PoolExhausted.
PoolExhausted(p) ==
  /\ Pool!Exhausted
  /\ cache[p] = {}
  /\ Step(p, "refill", "idle")
  /\ ptopic' = [ptopic EXCEPT ![p] = NoTopic]
  /\ UNCHANGED <<poolVars, ringVars, rc, data, subCount, crashed,
                 pblk, pseq, pold, streamVars>>

\* Drop of a Loan or TypedLoan that was not published.
DropLoan(p) ==
  /\ Step(p, "loaned", "idle")
  /\ Pool!Give(pblk[p])
  /\ pblk' = [pblk EXCEPT ![p] = NoBlock]
  /\ ptopic' = [ptopic EXCEPT ![p] = NoTopic]
  /\ UNCHANGED <<lastFreed, cache, ringVars, rc, data, subCount, crashed,
                 pseq, pold, streamVars>>

\* Drop of a Publisher: the recycled block, then the cached ones, go back to
\* the pool one free_block at a time.
DropPublisher(p) ==
  /\ Step(p, "idle", "dropping")
  /\ UNCHANGED <<poolVars, ringVars, rc, data, subCount, crashed,
                 pblk, ptopic, pseq, pold, streamVars>>

DropRecycled(p) ==
  /\ lastFreed[p] # NoBlock
  /\ Step(p, "dropping", "dropping")
  /\ Pool!Give(lastFreed[p])
  /\ lastFreed' = [lastFreed EXCEPT ![p] = NoBlock]
  /\ UNCHANGED <<cache, ringVars, rc, data, subCount, crashed,
                 pblk, ptopic, pseq, pold, streamVars>>

DropCached(p) ==
  /\ lastFreed[p] = NoBlock
  /\ Step(p, "dropping", "dropping")
  /\ \E b \in cache[p] : Pool!Give(b) /\ cache' = [cache EXCEPT ![p] = @ \ {b}]
  /\ UNCHANGED <<lastFreed, ringVars, rc, data, subCount, crashed,
                 pblk, ptopic, pseq, pold, streamVars>>

DropEnd(p) ==
  /\ lastFreed[p] = NoBlock /\ cache[p] = {}
  /\ Step(p, "dropping", "gone")
  /\ UNCHANGED <<poolVars, ringVars, rc, data, subCount, crashed,
                 pblk, ptopic, pseq, pold, streamVars>>

(***************************************************************************)
(* Publishers: commit_to_ring                                              *)
(***************************************************************************)

\* 1. fetch_add on write_seq.  The payload is complete and gets its name.
ClaimSeq(p) ==
  /\ Step(p, "loaned", "claimed")
  /\ writeSeq[ptopic[p]] < MaxSeq
  /\ writeSeq' = [writeSeq EXCEPT ![ptopic[p]] = @ + 1]
  /\ pseq' = [pseq EXCEPT ![p] = writeSeq[ptopic[p]] + 1]
  /\ data' = [data EXCEPT ![pblk[p]] = <<ptopic[p], writeSeq[ptopic[p]] + 1>>]
  /\ UNCHANGED <<poolVars, ringSeq, ringBlk, ringLen, rc, subCount, crashed,
                 pblk, ptopic, pold, streamVars>>

\* The slot p has claimed the right, or is waiting, to write.
MySeq(p) == ringSeq[ptopic[p]][Slot(pseq[p])]
InSlot(p) == ppc[p] \in {"marked", "oldread", "rcset", "idxset", "lenset"}
SameSlot(p, q) == ptopic[p] = ptopic[q] /\ Slot(pseq[p]) = Slot(pseq[q])

SetMySeq(p, v) ==
  ringSeq' = [ringSeq EXCEPT ![ptopic[p]] = [@ EXCEPT ![Slot(pseq[p])] = v]]

\* 2. Mark the slot: the region's owner stores unconditionally ...
MarkStore(p) ==
  /\ p \in Owners
  /\ Step(p, "claimed", "marked")
  /\ SetMySeq(p, SeqWriting)
  /\ UNCHANGED <<poolVars, writeSeq, ringBlk, ringLen, rc, data, subCount,
                 crashed, pblk, ptopic, pseq, pold, streamVars>>

\* Mutant of MarkCas: the exchange does not look for SEQ_WRITING.
MarkCas_Blind(p) ==
  /\ p \notin Owners
  /\ Step(p, "claimed", "marked")
  /\ SetMySeq(p, SeqWriting)
  /\ UNCHANGED <<poolVars, writeSeq, ringBlk, ringLen, rc, data, subCount,
                 crashed, pblk, ptopic, pseq, pold, streamVars>>

\* ... every other publisher with a compare-exchange that must not find
\* SEQ_WRITING there ...
MarkCas(p) ==
  /\ p \notin Owners
  /\ Step(p, "claimed", "marked")
  /\ MySeq(p) # SeqWriting
  /\ SetMySeq(p, SeqWriting)
  /\ UNCHANGED <<poolVars, writeSeq, ringBlk, ringLen, rc, data, subCount,
                 crashed, pblk, ptopic, pseq, pold, streamVars>>

\* ... or, once a load has found SEQ_WRITING for the 1025th time, ...
SpinOut(p) ==
  /\ p \notin Owners
  /\ Step(p, "claimed", "forcing")
  /\ MySeq(p) = SeqWriting
  /\ UNCHANGED <<poolVars, ringVars, rc, data, subCount, crashed,
                 pblk, ptopic, pseq, pold, streamVars>>

\* Mutant of ForceClaim: wait for the slot for ever.
ForceClaim_Never(p) == FALSE

\* ... with an unconditional store, whatever the slot holds by then.  The spins are
\* meant to outlast every live writer: with ForceOnLive = FALSE the store waits for
\* live publishers in the slot, another one that has just forced its way in past
\* the same dead writer included.  A preempted writer, or two publishers whose
\* spins end together, outlast them (ForceOnLive = TRUE).
ForceClaim(p) ==
  /\ Step(p, "forcing", "marked")
  /\ ForceOnLive \/ \A q \in Pubs \ crashed : ~(InSlot(q) /\ SameSlot(p, q))
  /\ SetMySeq(p, SeqWriting)
  /\ UNCHANGED <<poolVars, writeSeq, ringBlk, ringLen, rc, data, subCount,
                 crashed, pblk, ptopic, pseq, pold, streamVars>>

\* 3. Read the block index that is about to be overwritten.
ReadOld(p) ==
  /\ Step(p, "marked", "oldread")
  /\ pold' = [pold EXCEPT ![p] = ringBlk[ptopic[p]][Slot(pseq[p])]]
  /\ UNCHANGED <<poolVars, ringVars, rc, data, subCount, crashed,
                 pblk, ptopic, pseq, streamVars>>

\* 4. The new block's refcount: the ring's reference.
SetRefcount(p) ==
  /\ Step(p, "oldread", "rcset")
  /\ rc' = [rc EXCEPT ![pblk[p]] = 1]
  /\ UNCHANGED <<poolVars, ringVars, data, subCount, crashed,
                 pblk, ptopic, pseq, pold, streamVars>>

\* 5. The slot's block index, then its data_len.
StoreIdx(p) ==
  /\ Step(p, "rcset", "idxset")
  /\ ringBlk' = [ringBlk EXCEPT ![ptopic[p]] = [@ EXCEPT ![Slot(pseq[p])] = pblk[p]]]
  /\ pblk' = [pblk EXCEPT ![p] = NoBlock]
  /\ UNCHANGED <<poolVars, writeSeq, ringSeq, ringLen, rc, data, subCount,
                 crashed, ptopic, pseq, pold, streamVars>>

StoreLen(p) ==
  /\ Step(p, "idxset", "lenset")
  /\ ringLen' = [ringLen EXCEPT ![ptopic[p]] = [@ EXCEPT ![Slot(pseq[p])] = pseq[p]]]
  /\ UNCHANGED <<poolVars, writeSeq, ringSeq, ringBlk, rc, data, subCount,
                 crashed, pblk, ptopic, pseq, pold, streamVars>>

\* Mutant of CloseSlot: publish() without mem::forget, so that the drop of the
\* loan frees the block it has just published.
CloseSlot_NoForget(p) ==
  /\ Step(p, "lenset", "closed")
  /\ SetMySeq(p, pseq[p])
  /\ Pool!Give(ringBlk[ptopic[p]][Slot(pseq[p])])
  /\ pseq' = [pseq EXCEPT ![p] = 0]
  /\ ptopic' = [ptopic EXCEPT ![p] = NoTopic]
  /\ UNCHANGED <<lastFreed, cache, writeSeq, ringBlk, ringLen, rc, data, subCount,
                 crashed, pblk, pold, streamVars>>

\* 6. Close the seqlock: the message is visible.  (Locals that are not read
\* again take their initial value, here and below.)
CloseSlot(p) ==
  /\ Step(p, "lenset", "closed")
  /\ SetMySeq(p, pseq[p])
  /\ pseq' = [pseq EXCEPT ![p] = 0]
  /\ ptopic' = [ptopic EXCEPT ![p] = NoTopic]
  /\ UNCHANGED <<poolVars, writeSeq, ringBlk, ringLen, rc, data, subCount,
                 crashed, pblk, pold, streamVars>>

\* fetch_sub(1) on the refcount of b: wraps below zero.
Decrement(b) == rc' = [rc EXCEPT ![b] = IF @ = 0 THEN RcMod - 1 ELSE @ - 1]

\* 7. Drop the ring's reference to the overwritten block: there was none, ...
ReleaseNone(p) ==
  /\ pold[p] = NoBlock
  /\ Step(p, "closed", "idle")
  /\ UNCHANGED <<poolVars, ringVars, rc, data, subCount, crashed,
                 pblk, ptopic, pseq, pold, streamVars>>

\* ... others remain, ...
ReleaseShared(p) ==
  /\ pold[p] # NoBlock /\ rc[pold[p]] # 1
  /\ Step(p, "closed", "idle")
  /\ Decrement(pold[p])
  /\ pold' = [pold EXCEPT ![p] = NoBlock]
  /\ UNCHANGED <<poolVars, ringVars, data, subCount, crashed,
                 pblk, ptopic, pseq, streamVars>>

\* ... or it was the last one.  Waking blocked receivers (8.) touches none of
\* this state.
ReleaseLast(p) ==
  /\ pold[p] # NoBlock /\ rc[pold[p]] = 1
  /\ Step(p, "closed", "recycle")
  /\ Decrement(pold[p])
  /\ UNCHANGED <<poolVars, ringVars, data, subCount, crashed,
                 pblk, ptopic, pseq, pold, streamVars>>

\* After the last reference: keep the block for the next loan, and free the
\* block kept before it, if nobody took that.
Recycle(p) ==
  /\ Step(p, "recycle", "idle")
  /\ lastFreed' = [lastFreed EXCEPT ![p] = pold[p]]
  /\ IF lastFreed[p] = NoBlock THEN UNCHANGED free ELSE Pool!Give(lastFreed[p])
  /\ pold' = [pold EXCEPT ![p] = NoBlock]
  /\ UNCHANGED <<cache, ringVars, rc, data, subCount, crashed,
                 pblk, ptopic, pseq, streamVars>>

(***************************************************************************)
(* Streams                                                                 *)
(***************************************************************************)
pubSide == <<lastFreed, cache, ringVars, data, crashed, pubVars>>

StreamStep(s, from, to) ==
  /\ s \notin crashed
  /\ spc[s] = from
  /\ spc' = [spc EXCEPT ![s] = to]

\* Subscriber::subscribe: the stream starts after the newest message.
Subscribe(s, t) ==
  /\ StreamStep(s, "off", "idle")
  /\ stopic' = [stopic EXCEPT ![s] = t]
  /\ last' = [last EXCEPT ![s] = writeSeq[t]]
  /\ subCount' = [subCount EXCEPT ![t] = @ + 1]
  /\ UNCHANGED <<pubSide, free, rc, cur, rseq, rblk, rlen, held>>

\* Drop of a Stream; its samples borrow it, so they are gone already.
DropStream(s) ==
  /\ StreamStep(s, "idle", "off")
  /\ held[s] = {}
  /\ stopic' = [stopic EXCEPT ![s] = NoTopic]
  /\ last' = [last EXCEPT ![s] = 0]
  /\ subCount' = [subCount EXCEPT ![stopic[s]] = @ - 1]
  /\ UNCHANGED <<pubSide, free, rc, cur, rseq, rblk, rlen, held>>

\* Mutant of ScanStart: always the newest message.
ScanStart_Newest(c, l) == c

\* The first seq try_recv looks at, when write_seq is c and last_seq is l: the
\* next one, or the oldest one the ring still holds.
ScanStart(c, l) == IF c - (l + 1) >= Depth THEN c - Depth + 1 ELSE l + 1

\* Mutant of TryRecv: a single new message is not news.
TryRecv_OffByOne(s) ==
  /\ StreamStep(s, "idle", "scan")
  /\ Cardinality(held[s]) < MaxHeld
  /\ writeSeq[stopic[s]] > last[s] + 1
  /\ cur' = [cur EXCEPT ![s] = writeSeq[stopic[s]]]
  /\ rseq' = [rseq EXCEPT ![s] = ScanStart(writeSeq[stopic[s]], last[s])]
  /\ UNCHANGED <<pubSide, free, rc, subCount, stopic, last, rblk, rlen, held>>

\* try_recv / try_recv_typed begins; nothing new returns None at once.
TryRecv(s) ==
  /\ StreamStep(s, "idle", "scan")
  /\ Cardinality(held[s]) < MaxHeld
  /\ writeSeq[stopic[s]] > last[s]
  /\ cur' = [cur EXCEPT ![s] = writeSeq[stopic[s]]]
  /\ rseq' = [rseq EXCEPT ![s] = ScanStart(writeSeq[stopic[s]], last[s])]
  /\ UNCHANGED <<pubSide, free, rc, subCount, stopic, last, rblk, rlen, held>>

\* try_recv returns to its caller.
Finish(s) ==
  /\ StreamStep(s, spc[s], "idle")
  /\ cur' = [cur EXCEPT ![s] = 0]
  /\ rseq' = [rseq EXCEPT ![s] = 0]
  /\ rblk' = [rblk EXCEPT ![s] = NoBlock]
  /\ rlen' = [rlen EXCEPT ![s] = 0]

\* Mutant of NextSlot: the scan does not stop at write_seq.
NextSlot_Endless(s) ==
  /\ StreamStep(s, spc[s], "scan")
  /\ rseq' = [rseq EXCEPT ![s] = @ + 1]
  /\ rblk' = [rblk EXCEPT ![s] = NoBlock]
  /\ rlen' = [rlen EXCEPT ![s] = 0]
  /\ UNCHANGED cur

\* try_read_slot_raw returned None: go on with the next seq, or return None.
NextSlot(s) ==
  \/ /\ rseq[s] = cur[s]
     /\ Finish(s)
  \/ /\ rseq[s] # cur[s]
     /\ StreamStep(s, spc[s], "scan")
     /\ rseq' = [rseq EXCEPT ![s] = @ + 1]
     /\ rblk' = [rblk EXCEPT ![s] = NoBlock]
     /\ rlen' = [rlen EXCEPT ![s] = 0]
     /\ UNCHANGED cur

SlotHolds(s) == ringSeq[stopic[s]][Slot(rseq[s])] = rseq[s]

\* Seqlock check 1.
Check1(s) ==
  /\ spc[s] = "scan"
  /\ \/ /\ SlotHolds(s)
        /\ StreamStep(s, "scan", "readblk")
        /\ UNCHANGED <<cur, rseq, rblk, rlen>>
     \/ /\ ~SlotHolds(s)
        /\ NextSlot(s)
  /\ UNCHANGED <<pubSide, free, rc, subCount, stopic, last, held>>

\* The block index, then the length.
ReadBlk(s) ==
  /\ StreamStep(s, "readblk", "readlen")
  /\ rblk' = [rblk EXCEPT ![s] = ringBlk[stopic[s]][Slot(rseq[s])]]
  /\ UNCHANGED <<pubSide, free, rc, subCount, stopic, last, cur, rseq, rlen, held>>

ReadLen(s) ==
  /\ spc[s] = "readlen"
  /\ \/ /\ rblk[s] # NoBlock
        /\ StreamStep(s, "readlen", "acquire")
        /\ rlen' = [rlen EXCEPT ![s] = ringLen[stopic[s]][Slot(rseq[s])]]
        /\ UNCHANGED <<cur, rseq, rblk>>
     \/ /\ rblk[s] = NoBlock
        /\ NextSlot(s)
  /\ UNCHANGED <<pubSide, free, rc, subCount, stopic, last, held>>

\* The compare-exchange loop on the refcount, at the load that finds it zero
\* or the exchange that succeeds.
Acquire(s) ==
  /\ spc[s] = "acquire"
  /\ \/ /\ rc[rblk[s]] # 0
        /\ StreamStep(s, "acquire", "check")
        /\ rc' = [rc EXCEPT ![rblk[s]] = (@ + 1) % RcMod]
        /\ UNCHANGED <<cur, rseq, rblk, rlen>>
     \/ /\ rc[rblk[s]] = 0
        /\ NextSlot(s)
        /\ UNCHANGED rc
  /\ UNCHANGED <<pubSide, free, subCount, stopic, last, held>>

\* Mutant of Check2: the sample is handed out unchecked.
Check2_Unchecked(s) ==
  /\ spc[s] = "check"
  /\ Finish(s)
  /\ last' = [last EXCEPT ![s] = rseq[s]]
  /\ held' = [held EXCEPT ![s] =
                @ \cup {[seq |-> rseq[s], blk |-> rblk[s], len |-> rlen[s]]}]
  /\ UNCHANGED <<pubSide, free, rc, subCount, stopic>>

\* Seqlock check 2: the caller gets a sample, or the reference is undone.
Check2(s) ==
  /\ spc[s] = "check"
  /\ \/ /\ SlotHolds(s)
        /\ Finish(s)
        /\ last' = [last EXCEPT ![s] = rseq[s]]
        /\ held' = [held EXCEPT ![s] =
                      @ \cup {[seq |-> rseq[s], blk |-> rblk[s], len |-> rlen[s]]}]
     \/ /\ ~SlotHolds(s)
        /\ StreamStep(s, "check", "undo")
        /\ UNCHANGED <<cur, rseq, rblk, rlen, last, held>>
  /\ UNCHANGED <<pubSide, free, rc, subCount, stopic>>

\* Mutant of Undo: the reference is not given back.
Undo_Forgotten(s) ==
  /\ spc[s] = "undo"
  /\ NextSlot(s)
  /\ UNCHANGED <<pubSide, free, rc, subCount, stopic, last, held>>

\* release_block of the undone reference: fetch_sub, then free_block if it
\* was the last one.
Undo(s) ==
  /\ spc[s] = "undo"
  /\ Decrement(rblk[s])
  /\ \/ /\ rc[rblk[s]] = 1
        /\ StreamStep(s, "undo", "free")
        /\ UNCHANGED <<cur, rseq, rblk, rlen>>
     \/ /\ rc[rblk[s]] # 1
        /\ NextSlot(s)
  /\ UNCHANGED <<pubSide, free, subCount, stopic, last, held>>

UndoFree(s) ==
  /\ spc[s] = "free"
  /\ Pool!Give(rblk[s])
  /\ NextSlot(s)
  /\ UNCHANGED <<pubSide, rc, subCount, stopic, last, held>>

\* release_block in the drop of a Sample or TypedSample.
DropSample(s, h) ==
  /\ h \in held[s]
  /\ held' = [held EXCEPT ![s] = @ \ {h}]
  /\ Decrement(h.blk)
  /\ \/ /\ rc[h.blk] = 1
        /\ StreamStep(s, "idle", "unheld")
        /\ rblk' = [rblk EXCEPT ![s] = h.blk]
     \/ /\ rc[h.blk] # 1
        /\ StreamStep(s, "idle", "idle")
        /\ UNCHANGED rblk
  /\ UNCHANGED <<pubSide, free, subCount, stopic, last, cur, rseq, rlen>>

DropSampleFree(s) ==
  /\ StreamStep(s, "unheld", "idle")
  /\ Pool!Give(rblk[s])
  /\ rblk' = [rblk EXCEPT ![s] = NoBlock]
  /\ UNCHANGED <<pubSide, rc, subCount, stopic, last, cur, rseq, rlen, held>>

(***************************************************************************)
(* A process stops between two steps.  Shared memory stays as it is.       *)
(***************************************************************************)
Crash(x) ==
  /\ x \in Crashable \ crashed
  /\ IF x \in Pubs THEN ppc[x] # "gone" ELSE spc[x] # "off"
  /\ crashed' = crashed \cup {x}
  /\ UNCHANGED <<poolVars, ringVars, rc, data, subCount, pubVars, streamVars>>

CommitStep(p) ==
  \/ MarkStore(p) \/ MarkCas(p) \/ SpinOut(p) \/ ForceClaim(p) \/ ReadOld(p)
  \/ SetRefcount(p) \/ StoreIdx(p) \/ StoreLen(p) \/ CloseSlot(p)
  \/ ReleaseNone(p) \/ ReleaseShared(p) \/ ReleaseLast(p) \/ Recycle(p)

PubNext(p) ==
  \/ Open(p)
  \/ \E t \in Topics : LoanRecycled(p, t) \/ LoanCached(p, t) \/ LoanMiss(p, t)
  \/ Refill(p) \/ RefillDone(p) \/ PoolExhausted(p)
  \/ DropLoan(p) \/ ClaimSeq(p) \/ CommitStep(p)
  \/ DropPublisher(p) \/ DropRecycled(p) \/ DropCached(p) \/ DropEnd(p)

ReceiveStep(s) ==
  \/ TryRecv(s) \/ Check1(s) \/ ReadBlk(s) \/ ReadLen(s) \/ Acquire(s)
  \/ Check2(s) \/ Undo(s) \/ UndoFree(s) \/ DropSampleFree(s)
  \/ \E h \in held[s] : DropSample(s, h)

StreamNext(s) ==
  \/ (\E t \in Topics : Subscribe(s, t)) \/ DropStream(s) \/ ReceiveStep(s)

Next ==
  \/ \E p \in Pubs : PubNext(p)
  \/ \E s \in Streams : StreamNext(s)
  \/ \E x \in Crashable : Crash(x)

Spec == Init /\ [][Next]_vars

(***************************************************************************)
(* Fairness: a commit that has begun runs on, since commit_to_ring never   *)
(* blocks outside its spin; a stream's user keeps polling and dropping the *)
(* samples it was given.  No publisher is assumed to publish.              *)
(***************************************************************************)
Fairness ==
  /\ \A p \in Pubs : WF_vars(CommitStep(p))
  /\ \A s \in Streams : WF_vars(ReceiveStep(s))

FairSpec == Spec /\ Fairness

(***************************************************************************)
(* Properties                                                              *)
(***************************************************************************)

\* The owner's unconditional store is meant for topics it publishes on alone.
OwnerAlone ==
  \A o \in Owners : \A p \in Pubs \ {o} : Handles[o] \cap Handles[p] = {}

\* At most one live publisher is between marking a ring slot SEQ_WRITING and
\* closing it: the claim of region.rs that "the CAS ensures only one wins".
SlotMutex ==
  \A p, q \in Pubs \ crashed :
    p # q /\ InSlot(p) /\ InSlot(q) => ~SameSlot(p, q)

\* A sample is the message it was received as, for as long as it is held: its
\* block still holds that message's payload (nobody reuses or rewrites it) and
\* its length belongs to that message.
SampleIntegrity ==
  \A s \in Streams : \A h \in held[s] :
    /\ data[h.blk] = <<stopic[s], h.seq>>
    /\ h.len = h.seq

\* The weaker claim that makes Sample memory safe: the block of a held sample
\* is neither free nor lent to a publisher again.
HeldBlockUntouched ==
  \A s \in Streams : \A h \in held[s] : h.blk \notin free /\ data[h.blk] # Dirty

\* A refcount is the number of references there are: ring slots, commits that
\* have set it but not stored the index yet, overwritten slots whose commit has
\* not released the old block yet, samples, and receives that are still
\* checking.  References that died with their process are counted too.
RefcountExact ==
  \A b \in Blocks :
    rc[b] = Cardinality({x \in Topics \X SlotIdx : ringBlk[x[1]][x[2]] = b})
          + Cardinality({p \in Pubs : ppc[p] = "rcset" /\ pblk[p] = b})
          + Cardinality({p \in Pubs : /\ ppc[p] \in {"idxset", "lenset", "closed"}
                                      /\ pold[p] = b})
          + Cardinality({x \in Streams \X Samples : x[2] \in held[x[1]] /\ x[2].blk = b})
          + Cardinality({s \in Streams : spc[s] \in {"check", "undo"} /\ rblk[s] = b})

\* Every block is in exactly one place: the pool, one publisher's cache or
\* recycling slot, one loan, one release in progress, or referenced.  No
\* interleaving frees a block twice, hands it out twice or loses it; what a
\* crash leaves behind stays with the crashed process.
Whereabouts(b) ==
       ({"pool"} \X {x \in {"region"} : b \in free})
  \cup ({"referenced"} \X {x \in {"region"} : rc[b] > 0})
  \cup ({"cache"} \X {p \in Pubs : b \in cache[p]})
  \cup ({"recycled"} \X {p \in Pubs : lastFreed[p] = b})
  \cup ({"loan"} \X {p \in Pubs : /\ ppc[p] \in {"loaned", "claimed", "forcing", "marked",
                                                 "oldread"}
                                  /\ pblk[p] = b})
  \cup ({"release"} \X {p \in Pubs : ppc[p] = "recycle" /\ pold[p] = b})
  \cup ({"undone"} \X {s \in Streams : spc[s] \in {"free", "unheld"} /\ rblk[s] = b})
OnePlacePerBlock == \A b \in Blocks : Cardinality(Whereabouts(b)) = 1

\* On a topic with a single publisher a stream skips a message only when the
\* ring has lapped it: when a receive moves last_seq past m without delivering
\* m, the publisher has claimed the seq that overwrites m.
Sole(t) == Cardinality({p \in Pubs : t \in Handles[p]}) = 1
SkipOnlyLapped ==
  [][\A s \in Streams :
       spc[s] = "check" /\ spc'[s] = "idle" /\ Sole(stopic[s]) =>
         \A m \in last[s] + 1 .. rseq[s] - 1 :
           m <= last'[s] => writeSeq[stopic[s]] >= m + Depth]_vars

\* A committed message does not stay unseen: a stream that keeps polling gets
\* it or a newer one.
CommittedIsReceived ==
  \A s \in Streams : \A n \in 1 .. MaxSeq :
    (spc[s] # "off" /\ ringSeq[stopic[s]][Slot(n)] = n)
      ~> (last[s] >= n \/ spc[s] = "off" \/ s \in crashed)

\* A publisher that has claimed a seq completes its commit, whatever step of a
\* commit another publisher crashed in.
CommitCompletes ==
  \A p \in Pubs : ppc[p] = "claimed" ~> (ppc[p] = "idle" \/ p \in crashed)

=============================================================================
