----------------------- MODULE PubSubRingBlocks_proofs -----------------------
(***************************************************************************)
(* Proofs about the blocks and the messages of PubSubRing: refcounts are   *)
(* exact, every block is in one place, samples stay what they were         *)
(* received as, and a single publisher's messages are skipped only when    *)
(* the ring has lapped them.                                               *)
(*                                                                         *)
(* As in MutualExclusion, an owner publishes on topics of its own          *)
(* (OwnerAlone) and the 1024 spins outlast every live writer               *)
(* (~ForceOnLive).                                                         *)
(*                                                                         *)
(* The inductive invariant is RingInv: mutual exclusion in the ring slots  *)
(* (MutexInv), the balance of places and references (BalanceInv), the      *)
(* life of a seq (SeqInv) and what blocks and slots hold (ContentInv);     *)
(* each of them needs the others.  SoloInv comes on top of it.             *)
(***************************************************************************)
EXTENDS PubSubRing_proofs, FiniteSetTheorems

\* 1 or 0: a member of a set counts, or it does not.
One(c) == IF c THEN 1 ELSE 0

\* Two finite sets that differ in x at most.
LEMMA CountChange ==
  ASSUME NEW A, NEW B, NEW x, IsFiniteSet(A), \A y : y # x => (y \in A <=> y \in B)
  PROVE  /\ IsFiniteSet(B)
         /\ Cardinality(A) \in Nat /\ Cardinality(B) \in Nat
         /\ Cardinality(B) = Cardinality(A) + One(x \in B) - One(x \in A)
  <1>1. A \ {x} = B \ {x} OBVIOUS
  <1>2. B \subseteq A \cup {x} OBVIOUS
  <1>3. IsFiniteSet(B)
    <2>1. IsFiniteSet(A \cup {x}) BY FS_AddElement
    <2> QED BY <1>2, <2>1, FS_Subset
  <1>4. Cardinality(A) \in Nat /\ Cardinality(B) \in Nat BY <1>3, FS_CardinalityType
  <1>5. /\ Cardinality(A \ {x}) = IF x \in A THEN Cardinality(A) - 1 ELSE Cardinality(A)
        /\ Cardinality(B \ {x}) = IF x \in B THEN Cardinality(B) - 1 ELSE Cardinality(B)
    BY <1>3, FS_RemoveElement
  <1> QED BY <1>1, <1>3, <1>4, <1>5 DEF One

\* How many members of a finite set there are at least.
LEMMA CountMembers ==
  ASSUME NEW A, IsFiniteSet(A)
  PROVE  /\ Cardinality(A) \in Nat
         /\ Cardinality(A) = 0 <=> A = {}
         /\ \A x, y : x \in A /\ y \in A /\ x # y => Cardinality(A) >= 2
  <1>1. Cardinality(A) \in Nat BY FS_CardinalityType
  <1>2. Cardinality(A) = 0 <=> A = {} BY FS_EmptySet
  <1>3. ASSUME NEW x \in A, NEW y \in A, x # y PROVE Cardinality(A) >= 2
    <2>1. IsFiniteSet(A \ {x}) /\ Cardinality(A \ {x}) = Cardinality(A) - 1
      BY FS_RemoveElement
    <2>2. Cardinality(A \ {x}) # 0 BY <1>3, <2>1, FS_EmptySet
    <2>3. Cardinality(A \ {x}) \in Nat BY <2>1, FS_CardinalityType
    <2> QED BY <1>1, <2>1, <2>2, <2>3
  <1> QED BY <1>1, <1>2, <1>3

-----------------------------------------------------------------------------
(***************************************************************************)
(* The places and the references of a block.  What a process has of a      *)
(* block is read off its locals: at each step it has at most one block of  *)
(* each kind.  BalanceInv counts them: every block is in one place, and    *)
(* its refcount is the number of references to it.  (A stream keeps a      *)
(* finite set of samples of a block; without that there would be nothing   *)
(* to count.)                                                              *)
(***************************************************************************)
Loan(p) == IF ppc[p] \in {"loaned", "claimed", "forcing", "marked", "oldread"} THEN pblk[p] ELSE NoBlock
Releasing(p) == IF ppc[p] = "recycle" THEN pold[p] ELSE NoBlock
NewRef(p) == IF ppc[p] = "rcset" THEN pblk[p] ELSE NoBlock
OldRef(p) == IF ppc[p] \in {"idxset", "lenset", "closed"} THEN pold[p] ELSE NoBlock
Undone(s) == IF spc[s] \in {"free", "unheld"} THEN rblk[s] ELSE NoBlock
Checking(s) == IF spc[s] \in {"check", "undo"} THEN rblk[s] ELSE NoBlock

Cachers(b) == {p \in Pubs : b \in cache[p]}
Keepers(b) == {p \in Pubs : lastFreed[p] = b}
Borrowers(b) == {p \in Pubs : Loan(p) = b}
Releasers(b) == {p \in Pubs : Releasing(p) = b}
Undoers(b) == {s \in Streams : Undone(s) = b}

RingRefs(b) == {x \in Topics \X SlotIdx : ringBlk[x[1]][x[2]] = b}
NewRefs(b) == {p \in Pubs : NewRef(p) = b}
OldRefs(b) == {p \in Pubs : OldRef(p) = b}
HeldRefs(b) == {x \in Streams \X Samples : x[2] \in held[x[1]] /\ x[2].blk = b}
CheckRefs(b) == {s \in Streams : Checking(s) = b}

PubPlaces(b) == Cardinality(Cachers(b)) + Cardinality(Keepers(b))
              + Cardinality(Borrowers(b)) + Cardinality(Releasers(b))
Places(b) == One(b \in free) + One(rc[b] > 0) + PubPlaces(b) + Cardinality(Undoers(b))

PubRefs(b) == Cardinality(NewRefs(b)) + Cardinality(OldRefs(b))
StreamRefs(b) == Cardinality(HeldRefs(b)) + Cardinality(CheckRefs(b))
Refs(b) == Cardinality(RingRefs(b)) + PubRefs(b) + StreamRefs(b)

BalanceInv ==
  \A b \in Blocks : /\ Places(b) = 1
                    /\ rc[b] = Refs(b)
                    /\ IsFiniteSet(HeldRefs(b))

\* What one publisher has of b.
OwnPlaces(p, b) == One(b \in cache[p]) + One(lastFreed[p] = b)
                 + One(Loan(p) = b) + One(Releasing(p) = b)
OwnRefs(p, b) == One(NewRef(p) = b) + One(OldRef(p) = b)

\* The sets that are counted are finite ...
LEMMA FinitePlaces ==
  ASSUME NEW b
  PROVE  /\ IsFiniteSet(Cachers(b)) /\ IsFiniteSet(Keepers(b)) /\ IsFiniteSet(Borrowers(b))
         /\ IsFiniteSet(Releasers(b)) /\ IsFiniteSet(Undoers(b))
         /\ IsFiniteSet(NewRefs(b)) /\ IsFiniteSet(OldRefs(b)) /\ IsFiniteSet(CheckRefs(b))
         /\ IsFiniteSet(RingRefs(b))
         /\ IsFiniteSet(Topics \X SlotIdx)
  <1>1. IsFiniteSet(Pubs) /\ IsFiniteSet(Streams) /\ IsFiniteSet(Topics) BY RingAssumption
  <1>2. IsFiniteSet(SlotIdx) BY RingAssumption, FS_Interval DEF SlotIdx
  <1>3. IsFiniteSet(Topics \X SlotIdx) BY <1>1, <1>2, FS_Product
  <1>4. /\ Cachers(b) \in SUBSET Pubs /\ Keepers(b) \in SUBSET Pubs
        /\ Borrowers(b) \in SUBSET Pubs /\ Releasers(b) \in SUBSET Pubs
        /\ NewRefs(b) \in SUBSET Pubs /\ OldRefs(b) \in SUBSET Pubs
        /\ Undoers(b) \in SUBSET Streams /\ CheckRefs(b) \in SUBSET Streams
        /\ RingRefs(b) \in SUBSET (Topics \X SlotIdx)
    BY DEF Cachers, Keepers, Borrowers, Releasers, NewRefs, OldRefs, Undoers, CheckRefs, RingRefs
  <1> QED BY <1>1, <1>3, <1>4, FS_Subset

\* ... so that their sizes are numbers.
LEMMA PlaceNats ==
  ASSUME NEW b
  PROVE  /\ Cardinality(Cachers(b)) \in Nat /\ Cardinality(Keepers(b)) \in Nat
         /\ Cardinality(Borrowers(b)) \in Nat /\ Cardinality(Releasers(b)) \in Nat
         /\ Cardinality(Undoers(b)) \in Nat /\ Cardinality(NewRefs(b)) \in Nat
         /\ Cardinality(OldRefs(b)) \in Nat /\ Cardinality(CheckRefs(b)) \in Nat
         /\ Cardinality(RingRefs(b)) \in Nat
         /\ PubPlaces(b) \in Nat /\ PubRefs(b) \in Nat
  <1>1. /\ Cardinality(Cachers(b)) \in Nat /\ Cardinality(Keepers(b)) \in Nat
        /\ Cardinality(Borrowers(b)) \in Nat /\ Cardinality(Releasers(b)) \in Nat
    BY FinitePlaces, FS_CardinalityType
  <1>2. /\ Cardinality(Undoers(b)) \in Nat /\ Cardinality(NewRefs(b)) \in Nat
        /\ Cardinality(OldRefs(b)) \in Nat /\ Cardinality(CheckRefs(b)) \in Nat
        /\ Cardinality(RingRefs(b)) \in Nat
    BY FinitePlaces, FS_CardinalityType
  <1> QED BY <1>1, <1>2 DEF PubPlaces, PubRefs

\* What a step of p leaves alone.
PubFrame(p) ==
  /\ \A q \in Pubs : q # p => /\ ppc'[q] = ppc[q] /\ pblk'[q] = pblk[q]
                              /\ ptopic'[q] = ptopic[q] /\ pseq'[q] = pseq[q]
                              /\ pold'[q] = pold[q] /\ cache'[q] = cache[q]
                              /\ lastFreed'[q] = lastFreed[q]
  /\ p \notin crashed
  /\ UNCHANGED <<crashed, spc, stopic, last, cur, rseq, rblk, rlen, held>>

\* A step of p changes what publishers have of b by what p has of it.
LEMMA PubAccount ==
  ASSUME NEW p \in Pubs, PubFrame(p), NEW b
  PROVE  /\ PubPlaces(b)' = PubPlaces(b) + OwnPlaces(p, b)' - OwnPlaces(p, b)
         /\ PubRefs(b)' = PubRefs(b) + OwnRefs(p, b)' - OwnRefs(p, b)
         /\ Undoers(b)' = Undoers(b) /\ CheckRefs(b)' = CheckRefs(b) /\ HeldRefs(b)' = HeldRefs(b)
  <1>0. \A q \in Pubs : q # p =>
          /\ Loan(q)' = Loan(q) /\ Releasing(q)' = Releasing(q)
          /\ NewRef(q)' = NewRef(q) /\ OldRef(q)' = OldRef(q)
          /\ cache'[q] = cache[q] /\ lastFreed'[q] = lastFreed[q]
    BY DEF PubFrame, Loan, Releasing, NewRef, OldRef
  <1>1. /\ Cardinality(Cachers(b))' = Cardinality(Cachers(b)) + One(p \in Cachers(b))' - One(p \in Cachers(b))
        /\ Cardinality(Cachers(b))' \in Nat
    <2>1. \A y : y # p => (y \in Cachers(b) <=> y \in Cachers(b)') BY <1>0 DEF Cachers
    <2> QED BY <2>1, FinitePlaces, CountChange
  <1>2. /\ Cardinality(Keepers(b))' = Cardinality(Keepers(b)) + One(p \in Keepers(b))' - One(p \in Keepers(b))
        /\ Cardinality(Keepers(b))' \in Nat
    <2>1. \A y : y # p => (y \in Keepers(b) <=> y \in Keepers(b)') BY <1>0 DEF Keepers
    <2> QED BY <2>1, FinitePlaces, CountChange
  <1>3. /\ Cardinality(Borrowers(b))' = Cardinality(Borrowers(b)) + One(p \in Borrowers(b))' - One(p \in Borrowers(b))
        /\ Cardinality(Borrowers(b))' \in Nat
    <2>1. \A y : y # p => (y \in Borrowers(b) <=> y \in Borrowers(b)') BY <1>0 DEF Borrowers
    <2> QED BY <2>1, FinitePlaces, CountChange
  <1>4. /\ Cardinality(Releasers(b))' = Cardinality(Releasers(b)) + One(p \in Releasers(b))' - One(p \in Releasers(b))
        /\ Cardinality(Releasers(b))' \in Nat
    <2>1. \A y : y # p => (y \in Releasers(b) <=> y \in Releasers(b)') BY <1>0 DEF Releasers
    <2> QED BY <2>1, FinitePlaces, CountChange
  <1>5. /\ Cardinality(NewRefs(b))' = Cardinality(NewRefs(b)) + One(p \in NewRefs(b))' - One(p \in NewRefs(b))
        /\ Cardinality(NewRefs(b))' \in Nat
    <2>1. \A y : y # p => (y \in NewRefs(b) <=> y \in NewRefs(b)') BY <1>0 DEF NewRefs
    <2> QED BY <2>1, FinitePlaces, CountChange
  <1>6. /\ Cardinality(OldRefs(b))' = Cardinality(OldRefs(b)) + One(p \in OldRefs(b))' - One(p \in OldRefs(b))
        /\ Cardinality(OldRefs(b))' \in Nat
    <2>1. \A y : y # p => (y \in OldRefs(b) <=> y \in OldRefs(b)') BY <1>0 DEF OldRefs
    <2> QED BY <2>1, FinitePlaces, CountChange
  <1>7. /\ (p \in Cachers(b) <=> b \in cache[p]) /\ (p \in Cachers(b)' <=> b \in cache'[p])
        /\ (p \in Keepers(b) <=> lastFreed[p] = b) /\ (p \in Keepers(b)' <=> lastFreed'[p] = b)
        /\ (p \in Borrowers(b) <=> Loan(p) = b) /\ (p \in Borrowers(b)' <=> Loan(p)' = b)
        /\ (p \in Releasers(b) <=> Releasing(p) = b) /\ (p \in Releasers(b)' <=> Releasing(p)' = b)
        /\ (p \in NewRefs(b) <=> NewRef(p) = b) /\ (p \in NewRefs(b)' <=> NewRef(p)' = b)
        /\ (p \in OldRefs(b) <=> OldRef(p) = b) /\ (p \in OldRefs(b)' <=> OldRef(p)' = b)
    BY DEF Cachers, Keepers, Borrowers, Releasers, NewRefs, OldRefs
  <1>8. PubPlaces(b)' = PubPlaces(b) + OwnPlaces(p, b)' - OwnPlaces(p, b)
    BY <1>1, <1>2, <1>3, <1>4, <1>7, PlaceNats DEF PubPlaces, OwnPlaces, One
  <1>9. PubRefs(b)' = PubRefs(b) + OwnRefs(p, b)' - OwnRefs(p, b)
    BY <1>5, <1>6, <1>7, PlaceNats DEF PubRefs, OwnRefs, One
  <1>10. Undoers(b)' = Undoers(b) /\ CheckRefs(b)' = CheckRefs(b) /\ HeldRefs(b)' = HeldRefs(b)
    BY DEF PubFrame, Undoers, CheckRefs, HeldRefs, Undone, Checking
  <1> QED BY <1>8, <1>9, <1>10

-----------------------------------------------------------------------------
(***************************************************************************)
(* The balance under the steps of a publisher.                             *)
(***************************************************************************)

\* Every step of a publisher leaves the other processes alone.
LEMMA PubStepFrame ==
  ASSUME TypeInv, NEW p \in Pubs, PubNext(p)
  PROVE  PubFrame(p)
  <1> USE DEF TypeInv, TypeOK, PubFrame, Step, poolVars, ringVars, pubVars, streamVars
  <1>1. CASE Open(p) BY <1>1 DEF Open
  <1>2. ASSUME NEW t \in Topics, LoanRecycled(p, t) PROVE PubFrame(p)
    BY <1>2 DEF LoanRecycled, Lend
  <1>3. ASSUME NEW t \in Topics, LoanCached(p, t) PROVE PubFrame(p)
    BY <1>3 DEF LoanCached, Lend
  <1>4. ASSUME NEW t \in Topics, LoanMiss(p, t) PROVE PubFrame(p)
    BY <1>4 DEF LoanMiss
  <1>5. CASE Refill(p) BY <1>5 DEF Refill
  <1>6. CASE RefillDone(p) BY <1>6 DEF RefillDone, Lend
  <1>7. CASE PoolExhausted(p) BY <1>7 DEF PoolExhausted
  <1>8. CASE DropLoan(p) BY <1>8 DEF DropLoan
  <1>9. CASE ClaimSeq(p) BY <1>9 DEF ClaimSeq
  <1>10. CASE CommitStep(p)
    <2>1. CASE MarkStore(p) BY <2>1 DEF MarkStore
    <2>2. CASE MarkCas(p) BY <2>2 DEF MarkCas
    <2>3. CASE ForceClaim(p) BY <2>3 DEF ForceClaim
    <2>s. CASE SpinOut(p) BY <2>s DEF SpinOut
    <2>4. CASE ReadOld(p) BY <2>4 DEF ReadOld
    <2>5. CASE SetRefcount(p) BY <2>5 DEF SetRefcount
    <2>6. CASE StoreIdx(p) BY <2>6 DEF StoreIdx
    <2>7. CASE StoreLen(p) BY <2>7 DEF StoreLen
    <2>8. CASE CloseSlot(p) BY <2>8 DEF CloseSlot
    <2>9. CASE ReleaseNone(p) BY <2>9 DEF ReleaseNone
    <2>10. CASE ReleaseShared(p) BY <2>10 DEF ReleaseShared
    <2>11. CASE ReleaseLast(p) BY <2>11 DEF ReleaseLast
    <2>12. CASE Recycle(p) BY <2>12 DEF Recycle
    <2> QED BY <1>10, <2>1, <2>2, <2>3, <2>s, <2>4, <2>5, <2>6, <2>7, <2>8, <2>9, <2>10, <2>11,
               <2>12 DEF CommitStep
  <1>11. CASE DropPublisher(p) BY <1>11 DEF DropPublisher
  <1>12. CASE DropRecycled(p) BY <1>12 DEF DropRecycled
  <1>13. CASE DropCached(p) BY <1>13 DEF DropCached
  <1>14. CASE DropEnd(p) BY <1>14 DEF DropEnd
  <1> QED BY <1>1, <1>2, <1>3, <1>4, <1>5, <1>6, <1>7, <1>8, <1>9, <1>10, <1>11, <1>12,
             <1>13, <1>14 DEF PubNext

\* A publisher's step keeps the balance if p and the shared memory balance.
LEMMA PubBalanced ==
  ASSUME TypeInv, TypeInv', BalanceInv, NEW p \in Pubs, PubFrame(p),
         \A b \in Blocks :
           /\ One(b \in free)' + One(rc[b] > 0)' + OwnPlaces(p, b)'
                = One(b \in free) + One(rc[b] > 0) + OwnPlaces(p, b)
           /\ rc'[b] = rc[b] + Cardinality(RingRefs(b))' - Cardinality(RingRefs(b))
                             + OwnRefs(p, b)' - OwnRefs(p, b)
  PROVE  BalanceInv'
  <1> SUFFICES ASSUME NEW b \in Blocks
               PROVE  /\ Places(b)' = 1
                      /\ rc'[b] = Refs(b)'
                      /\ IsFiniteSet(HeldRefs(b))'
    BY DEF BalanceInv
  <1>1. /\ PubPlaces(b)' = PubPlaces(b) + OwnPlaces(p, b)' - OwnPlaces(p, b)
        /\ PubRefs(b)' = PubRefs(b) + OwnRefs(p, b)' - OwnRefs(p, b)
        /\ Undoers(b)' = Undoers(b) /\ CheckRefs(b)' = CheckRefs(b) /\ HeldRefs(b)' = HeldRefs(b)
    BY PubAccount
  <1>2. Places(b) = 1 /\ rc[b] = Refs(b) /\ IsFiniteSet(HeldRefs(b)) BY DEF BalanceInv
  <1>3. PubPlaces(b) \in Nat /\ PubRefs(b) \in Nat /\ Cardinality(Undoers(b)) \in Nat
        /\ Cardinality(CheckRefs(b)) \in Nat /\ Cardinality(HeldRefs(b)) \in Nat
        /\ Cardinality(RingRefs(b)) \in Nat
    BY <1>2, PlaceNats, FS_CardinalityType
  <1>4. Cardinality(RingRefs(b))' \in Nat
    <2>1. IsFiniteSet(RingRefs(b)') BY FinitePlaces, FS_Subset DEF RingRefs
    <2> QED BY <2>1, FS_CardinalityType
  <1>5. rc[b] \in Nat /\ rc'[b] \in Nat BY RingAssumption DEF TypeInv, TypeOK
  <1>6. Cardinality(Undoers(b))' = Cardinality(Undoers(b)) /\ Cardinality(CheckRefs(b))' = Cardinality(CheckRefs(b))
        /\ Cardinality(HeldRefs(b))' = Cardinality(HeldRefs(b))
    BY <1>1
  <1>7. OwnPlaces(p, b) \in Nat /\ OwnPlaces(p, b)' \in Nat /\ OwnRefs(p, b) \in Nat /\ OwnRefs(p, b)' \in Nat
    BY DEF OwnPlaces, OwnRefs, One
  <1>8. Places(b)' = 1
    <2>1. One(b \in free) \in Nat /\ One(b \in free)' \in Nat /\ One(rc[b] > 0) \in Nat /\ One(rc[b] > 0)' \in Nat
      BY DEF One
    <2> QED BY <1>1, <1>2, <1>3, <1>6, <1>7, <2>1 DEF Places
  <1>9. rc'[b] = Refs(b)'
    BY <1>1, <1>2, <1>3, <1>4, <1>5, <1>6, <1>7 DEF Refs, StreamRefs
  <1> QED BY <1>1, <1>2, <1>8, <1>9

\* Only a store to the ring changes the references the ring has.
LEMMA RingSame == ASSUME ringBlk' = ringBlk, NEW b PROVE RingRefs(b)' = RingRefs(b)
  BY DEF RingRefs

\* The ring has a number of references to every block.
LEMMA RingNat == ASSUME NEW b PROVE Cardinality(RingRefs(b)) \in Nat
  BY PlaceNats

\* A block that a publisher keeps, caches or has lent has no other place.
LEMMA OwnPlace ==
  ASSUME TypeInv, BalanceInv, NEW p \in Pubs, NEW b \in Blocks, OwnPlaces(p, b) # 0
  PROVE  /\ OwnPlaces(p, b) = 1 /\ b \notin free /\ rc[b] = 0 /\ Undoers(b) = {}
         /\ \A q \in Pubs : q # p => /\ b \notin cache[q] /\ lastFreed[q] # b
                                     /\ Loan(q) # b /\ Releasing(q) # b
  <1> USE FinitePlaces, CountMembers
  <1>1. rc[b] \in Nat BY RingAssumption DEF TypeInv, TypeOK
  <1>2. Places(b) = 1 BY DEF BalanceInv
  <1> DEFINE c1 == Cardinality(Cachers(b))
             c2 == Cardinality(Keepers(b))
             c3 == Cardinality(Borrowers(b))
             c4 == Cardinality(Releasers(b))
             c5 == Cardinality(Undoers(b))
  <1>3. c1 \in Nat /\ c2 \in Nat /\ c3 \in Nat /\ c4 \in Nat /\ c5 \in Nat BY PlaceNats
  <1>4. /\ b \in cache[p] => c1 >= 1
        /\ lastFreed[p] = b => c2 >= 1
        /\ Loan(p) = b => c3 >= 1
        /\ Releasing(p) = b => c4 >= 1
    <2>1. /\ b \in cache[p] => Cachers(b) # {}
          /\ lastFreed[p] = b => Keepers(b) # {}
          /\ Loan(p) = b => Borrowers(b) # {}
          /\ Releasing(p) = b => Releasers(b) # {}
      BY DEF Cachers, Keepers, Borrowers, Releasers
    <2>2. (c1 = 0 => Cachers(b) = {}) /\ (c2 = 0 => Keepers(b) = {})
          /\ (c3 = 0 => Borrowers(b) = {}) /\ (c4 = 0 => Releasers(b) = {})
      OBVIOUS
    <2> QED BY <1>3, <2>1, <2>2
  <1>5. One(b \in free) + One(rc[b] > 0) + c1 + c2 + c3 + c4 + c5 = 1
    <2>1. One(b \in free) \in Nat /\ One(rc[b] > 0) \in Nat BY DEF One
    <2> QED BY <1>2, <1>3, <2>1 DEF Places, PubPlaces
  <1>6. /\ One(b \in free) = 0 /\ One(rc[b] > 0) = 0 /\ c5 = 0
        /\ c1 + c2 + c3 + c4 = 1 /\ OwnPlaces(p, b) = 1
    <2> HIDE DEF c1, c2, c3, c4, c5
    <2> QED BY <1>3, <1>4, <1>5 DEF OwnPlaces, One
  <1>7. b \notin free /\ rc[b] = 0 /\ Undoers(b) = {}
    BY <1>1, <1>6 DEF One
  <1>8. ASSUME NEW q \in Pubs, q # p
        PROVE  b \notin cache[q] /\ lastFreed[q] # b /\ Loan(q) # b /\ Releasing(q) # b
    <2>1. /\ b \in cache[q] => c1 >= 1 /\ (b \in cache[p] => c1 >= 2)
          /\ lastFreed[q] = b => c2 >= 1 /\ (lastFreed[p] = b => c2 >= 2)
          /\ Loan(q) = b => c3 >= 1 /\ (Loan(p) = b => c3 >= 2)
          /\ Releasing(q) = b => c4 >= 1 /\ (Releasing(p) = b => c4 >= 2)
      <3>1. /\ b \in cache[q] => q \in Cachers(b) /\ (b \in cache[p] => p \in Cachers(b))
            /\ lastFreed[q] = b => q \in Keepers(b) /\ (lastFreed[p] = b => p \in Keepers(b))
            /\ Loan(q) = b => q \in Borrowers(b) /\ (Loan(p) = b => p \in Borrowers(b))
            /\ Releasing(q) = b => q \in Releasers(b) /\ (Releasing(p) = b => p \in Releasers(b))
        BY DEF Cachers, Keepers, Borrowers, Releasers
      <3>2. /\ q \in Cachers(b) => c1 >= 1 /\ (p \in Cachers(b) => c1 >= 2)
        <4>1. c1 = 0 => Cachers(b) = {} OBVIOUS
        <4>2. q \in Cachers(b) /\ p \in Cachers(b) => c1 >= 2 BY <1>8
        <4> QED BY <1>3, <4>1, <4>2
      <3>3. /\ q \in Keepers(b) => c2 >= 1 /\ (p \in Keepers(b) => c2 >= 2)
        <4>1. c2 = 0 => Keepers(b) = {} OBVIOUS
        <4>2. q \in Keepers(b) /\ p \in Keepers(b) => c2 >= 2 BY <1>8
        <4> QED BY <1>3, <4>1, <4>2
      <3>4. /\ q \in Borrowers(b) => c3 >= 1 /\ (p \in Borrowers(b) => c3 >= 2)
        <4>1. c3 = 0 => Borrowers(b) = {} OBVIOUS
        <4>2. q \in Borrowers(b) /\ p \in Borrowers(b) => c3 >= 2 BY <1>8
        <4> QED BY <1>3, <4>1, <4>2
      <3>5. /\ q \in Releasers(b) => c4 >= 1 /\ (p \in Releasers(b) => c4 >= 2)
        <4>1. c4 = 0 => Releasers(b) = {} OBVIOUS
        <4>2. q \in Releasers(b) /\ p \in Releasers(b) => c4 >= 2 BY <1>8
        <4> QED BY <1>3, <4>1, <4>2
      <3> QED BY <3>1, <3>2, <3>3, <3>4, <3>5
    <2> HIDE DEF c1, c2, c3, c4, c5
    <2> QED BY <1>3, <1>4, <1>6, <2>1 DEF OwnPlaces, One
  <1> QED BY <1>6, <1>7, <1>8

\* A free block has no other place.
LEMMA PoolPlace ==
  ASSUME TypeInv, BalanceInv, NEW b \in free
  PROVE  rc[b] = 0 /\ \A p \in Pubs : OwnPlaces(p, b) = 0
  <1>1. b \in Blocks BY DEF TypeInv, TypeOK
  <1>2. \A p \in Pubs : OwnPlaces(p, b) = 0 BY <1>1, OwnPlace
  <1>3. One(b \in free) + One(rc[b] > 0) + PubPlaces(b) + Cardinality(Undoers(b)) = 1
    BY <1>1 DEF BalanceInv, Places
  <1>4. rc[b] \in Nat BY <1>1, RingAssumption DEF TypeInv, TypeOK
  <1>5. rc[b] = 0 BY <1>3, <1>4, PlaceNats DEF One
  <1> QED BY <1>2, <1>5

\* Nobody refers to a block whose refcount is 0.
LEMMA NoRefs ==
  ASSUME TypeInv, BalanceInv, NEW b \in Blocks, rc[b] = 0
  PROVE  /\ RingRefs(b) = {} /\ NewRefs(b) = {} /\ OldRefs(b) = {}
         /\ HeldRefs(b) = {} /\ CheckRefs(b) = {}
  <1>1. IsFiniteSet(HeldRefs(b)) /\ rc[b] = Refs(b) BY DEF BalanceInv
  <1>2. Cardinality(HeldRefs(b)) \in Nat BY <1>1, FS_CardinalityType
  <1>3. /\ Cardinality(RingRefs(b)) = 0 /\ Cardinality(NewRefs(b)) = 0 /\ Cardinality(OldRefs(b)) = 0
        /\ Cardinality(HeldRefs(b)) = 0 /\ Cardinality(CheckRefs(b)) = 0
    <2>1. /\ Cardinality(RingRefs(b)) \in Nat /\ Cardinality(NewRefs(b)) \in Nat
          /\ Cardinality(OldRefs(b)) \in Nat /\ Cardinality(CheckRefs(b)) \in Nat
      BY PlaceNats
    <2>2. Cardinality(RingRefs(b)) + (Cardinality(NewRefs(b)) + Cardinality(OldRefs(b)))
            + (Cardinality(HeldRefs(b)) + Cardinality(CheckRefs(b))) = 0
      BY <1>1 DEF Refs, PubRefs, StreamRefs
    <2> DEFINE i == Cardinality(RingRefs(b))
               j == Cardinality(NewRefs(b))
               k == Cardinality(OldRefs(b))
               l == Cardinality(HeldRefs(b))
               m == Cardinality(CheckRefs(b))
    <2>3. i \in Nat /\ j \in Nat /\ k \in Nat /\ l \in Nat /\ m \in Nat BY <1>2, <2>1
    <2>4. i + (j + k) + (l + m) = 0 BY <2>2
    <2> HIDE DEF i, j, k, l, m
    <2>5. i = 0 /\ j = 0 /\ k = 0 /\ l = 0 /\ m = 0 BY <2>3, <2>4
    <2> QED BY <2>5 DEF i, j, k, l, m
  <1> QED BY <1>1, <1>3, FinitePlaces, FS_EmptySet

\* A publisher's reference is counted.
LEMMA PubRefCounted ==
  ASSUME TypeInv, BalanceInv, NEW p \in Pubs, NEW b \in Blocks,
         NewRef(p) = b \/ OldRef(p) = b
  PROVE  rc[b] > 0 /\ rc[b] \in Nat /\ b \notin free /\ \A q \in Pubs : OwnPlaces(q, b) = 0
  <1>1. rc[b] \in Nat BY RingAssumption DEF TypeInv, TypeOK
  <1>2. rc[b] # 0 BY NoRefs DEF NewRefs, OldRefs
  <1>3. \A q \in Pubs : OwnPlaces(q, b) = 0 BY <1>2, OwnPlace
  <1>4. b \notin free BY <1>2, PoolPlace
  <1> QED BY <1>1, <1>2, <1>3, <1>4

\* The steps that move no block and change no reference.
LEMMA PubIdleBalance ==
  ASSUME TypeInv, TypeInv', BalanceInv, NEW p \in Pubs, PubFrame(p),
         UNCHANGED <<free, rc, ringBlk, lastFreed, cache>>,
         Loan(p)' = Loan(p), Releasing(p)' = Releasing(p),
         NewRef(p)' = NewRef(p), OldRef(p)' = OldRef(p)
  PROVE  BalanceInv'
  <1>1. \A b \in Blocks : OwnPlaces(p, b)' = OwnPlaces(p, b) /\ OwnRefs(p, b)' = OwnRefs(p, b)
    BY DEF OwnPlaces, OwnRefs
  <1>2. \A b \in Blocks : RingRefs(b)' = RingRefs(b) BY RingSame
  <1>3. \A b \in Blocks : One(b \in free)' = One(b \in free) /\ One(rc[b] > 0)' = One(rc[b] > 0)
    BY DEF One
  <1>4. \A b \in Blocks : rc[b] \in Nat /\ Cardinality(RingRefs(b)) \in Nat /\ OwnRefs(p, b) \in Nat
    BY RingNat, RingAssumption DEF TypeInv, TypeOK, OwnRefs, One
  <1>5. \A b \in Blocks :
          /\ One(b \in free)' + One(rc[b] > 0)' + OwnPlaces(p, b)'
                = One(b \in free) + One(rc[b] > 0) + OwnPlaces(p, b)
           /\ rc'[b] = rc[b] + Cardinality(RingRefs(b))' - Cardinality(RingRefs(b))
                             + OwnRefs(p, b)' - OwnRefs(p, b)
    BY <1>1, <1>2, <1>3, <1>4
  <1> QED BY <1>5, PubBalanced

\* The steps that move blocks without changing a reference.
LEMMA PubMoveBalance ==
  ASSUME TypeInv, TypeInv', BalanceInv, NEW p \in Pubs, PubFrame(p),
         UNCHANGED <<rc, ringBlk>>,
         NewRef(p) = NoBlock, NewRef(p)' = NoBlock, OldRef(p) = NoBlock, OldRef(p)' = NoBlock,
         \A b \in Blocks : One(b \in free)' + OwnPlaces(p, b)' = One(b \in free) + OwnPlaces(p, b)
  PROVE  BalanceInv'
  <1>1. \A b \in Blocks : OwnRefs(p, b)' = 0 /\ OwnRefs(p, b) = 0
    BY RingAssumption DEF OwnRefs, One
  <1>2. \A b \in Blocks : RingRefs(b)' = RingRefs(b) BY RingSame
  <1>3. \A b \in Blocks : One(rc[b] > 0)' = One(rc[b] > 0)
    BY DEF One
  <1>4. \A b \in Blocks : rc[b] \in Nat /\ Cardinality(RingRefs(b)) \in Nat
          /\ One(b \in free)' \in Nat /\ One(b \in free) \in Nat /\ One(rc[b] > 0) \in Nat
          /\ OwnPlaces(p, b) \in Nat /\ OwnPlaces(p, b)' \in Nat
    BY RingNat, RingAssumption DEF TypeInv, TypeOK, OwnPlaces, One
  <1>5. \A b \in Blocks :
          /\ One(b \in free)' + One(rc[b] > 0)' + OwnPlaces(p, b)'
                = One(b \in free) + One(rc[b] > 0) + OwnPlaces(p, b)
          /\ rc'[b] = rc[b] + Cardinality(RingRefs(b))' - Cardinality(RingRefs(b))
                             + OwnRefs(p, b)' - OwnRefs(p, b)
    BY <1>1, <1>2, <1>3, <1>4
  <1> QED BY <1>5, PubBalanced

\* The steps of a publisher outside commit_to_ring keep the balance.
LEMMA LoanBalance ==
  ASSUME TypeInv, TypeInv', BalanceInv, NEW p \in Pubs, PubFrame(p),
         \/ \E t \in Topics : LoanRecycled(p, t) \/ LoanCached(p, t) \/ LoanMiss(p, t)
         \/ Open(p) \/ Refill(p) \/ RefillDone(p) \/ PoolExhausted(p) \/ DropLoan(p) \/ ClaimSeq(p)
         \/ DropPublisher(p) \/ DropRecycled(p) \/ DropCached(p) \/ DropEnd(p)
  PROVE  BalanceInv'
  <1> USE RingAssumption DEF Step, poolVars, ringVars, pubVars
  <1>0. /\ ppc \in [Pubs -> PubPC] /\ pblk \in [Pubs -> MaybeBlock] /\ free \in SUBSET Blocks
        /\ cache \in [Pubs -> SUBSET Blocks] /\ lastFreed \in [Pubs -> MaybeBlock]
        /\ pold \in [Pubs -> MaybeBlock]
    BY DEF TypeInv, TypeOK
  <1>1. ASSUME NEW t \in Topics, LoanRecycled(p, t) PROVE BalanceInv'
    <2>1. \A b \in Blocks : One(b \in free)' + OwnPlaces(p, b)' = One(b \in free) + OwnPlaces(p, b)
      BY <1>0, <1>1 DEF LoanRecycled, Lend, OwnPlaces, Loan, Releasing, One
    <2> QED BY <1>0, <1>1, <2>1, PubMoveBalance DEF LoanRecycled, NewRef, OldRef
  <1>2. ASSUME NEW t \in Topics, LoanCached(p, t) PROVE BalanceInv'
    <2>1. PICK b0 \in cache[p] : Lend(p, b0) /\ cache' = [cache EXCEPT ![p] = @ \ {b0}]
      BY <1>2 DEF LoanCached
    <2>2. \A b \in Blocks : One(b \in free)' + OwnPlaces(p, b)' = One(b \in free) + OwnPlaces(p, b)
      BY <1>0, <1>2, <2>1 DEF LoanCached, Lend, OwnPlaces, Loan, Releasing, One
    <2> QED BY <1>0, <1>2, <2>2, PubMoveBalance DEF LoanCached, NewRef, OldRef
  <1>3. ASSUME NEW t \in Topics, LoanMiss(p, t) PROVE BalanceInv'
    BY <1>0, <1>3, PubIdleBalance DEF LoanMiss, Loan, Releasing, NewRef, OldRef
  <1>4. CASE Open(p)
    BY <1>0, <1>4, PubIdleBalance DEF Open, Loan, Releasing, NewRef, OldRef
  <1>5. CASE Refill(p)
    <2>1. PICK b0 \in Blocks : Pool!Take(b0) /\ cache' = [cache EXCEPT ![p] = @ \cup {b0}]
      BY <1>5 DEF Refill
    <2>2. OwnPlaces(p, b0) = 0 /\ b0 \in free /\ free' = free \ {b0}
      BY <2>1, PoolPlace DEF Pool!Take
    <2>3. \A b \in Blocks : One(b \in free)' + OwnPlaces(p, b)' = One(b \in free) + OwnPlaces(p, b)
      BY <1>0, <1>5, <2>1, <2>2 DEF Refill, OwnPlaces, Loan, Releasing, One
    <2> QED BY <1>0, <1>5, <2>3, PubMoveBalance DEF Refill, NewRef, OldRef
  <1>6. CASE RefillDone(p)
    <2>1. PICK b0 \in cache[p] : Lend(p, b0) /\ cache' = [cache EXCEPT ![p] = @ \ {b0}]
      BY <1>6 DEF RefillDone
    <2>2. \A b \in Blocks : One(b \in free)' + OwnPlaces(p, b)' = One(b \in free) + OwnPlaces(p, b)
      BY <1>0, <1>6, <2>1 DEF RefillDone, Lend, OwnPlaces, Loan, Releasing, One
    <2> QED BY <1>0, <1>6, <2>2, PubMoveBalance DEF RefillDone, NewRef, OldRef
  <1>7. CASE PoolExhausted(p)
    BY <1>0, <1>7, PubIdleBalance DEF PoolExhausted, Loan, Releasing, NewRef, OldRef
  <1>8. CASE DropLoan(p)
    <2>1. pblk[p] \in Blocks /\ Loan(p) = pblk[p]
      BY <1>8 DEF DropLoan, TypeInv, LocalsOK, Loan
    <2>2. pblk[p] \notin free /\ OwnPlaces(p, pblk[p]) = 1
      <3>1. OwnPlaces(p, pblk[p]) # 0 BY <2>1 DEF OwnPlaces, One
      <3> QED BY <2>1, <3>1, OwnPlace
    <2>3. \A b \in Blocks : One(b \in free)' + OwnPlaces(p, b)' = One(b \in free) + OwnPlaces(p, b)
      BY <1>0, <1>8, <2>1, <2>2 DEF DropLoan, Pool!Give, OwnPlaces, Loan, Releasing, One
    <2> QED BY <1>0, <1>8, <2>3, PubMoveBalance DEF DropLoan, NewRef, OldRef
  <1>9. CASE ClaimSeq(p)
    BY <1>0, <1>9, PubIdleBalance DEF ClaimSeq, Loan, Releasing, NewRef, OldRef
  <1>10. CASE DropPublisher(p)
    BY <1>0, <1>10, PubIdleBalance DEF DropPublisher, Loan, Releasing, NewRef, OldRef
  <1>11. CASE DropRecycled(p)
    <2>1. lastFreed[p] \in Blocks BY <1>0, <1>11 DEF DropRecycled, MaybeBlock
    <2>2. lastFreed[p] \notin free /\ OwnPlaces(p, lastFreed[p]) = 1
      <3>1. OwnPlaces(p, lastFreed[p]) # 0 BY <2>1 DEF OwnPlaces, One
      <3> QED BY <2>1, <3>1, OwnPlace
    <2>3. \A b \in Blocks : One(b \in free)' + OwnPlaces(p, b)' = One(b \in free) + OwnPlaces(p, b)
      BY <1>0, <1>11, <2>1, <2>2 DEF DropRecycled, Pool!Give, OwnPlaces, Loan, Releasing, One
    <2> QED BY <1>0, <1>11, <2>3, PubMoveBalance DEF DropRecycled, NewRef, OldRef
  <1>12. CASE DropCached(p)
    <2>1. PICK b0 \in cache[p] : Pool!Give(b0) /\ cache' = [cache EXCEPT ![p] = @ \ {b0}]
      BY <1>12 DEF DropCached
    <2>2. b0 \in Blocks /\ b0 \notin free /\ OwnPlaces(p, b0) = 1
      <3>1. OwnPlaces(p, b0) # 0 /\ b0 \in Blocks BY <1>0, <2>1 DEF OwnPlaces, One
      <3> QED BY <3>1, OwnPlace
    <2>3. \A b \in Blocks : One(b \in free)' + OwnPlaces(p, b)' = One(b \in free) + OwnPlaces(p, b)
      BY <1>0, <1>12, <2>1, <2>2 DEF DropCached, Pool!Give, OwnPlaces, Loan, Releasing, One
    <2> QED BY <1>0, <1>12, <2>3, PubMoveBalance DEF DropCached, NewRef, OldRef
  <1>13. CASE DropEnd(p)
    BY <1>0, <1>13, PubIdleBalance DEF DropEnd, Loan, Releasing, NewRef, OldRef
  <1> QED BY <1>1, <1>2, <1>3, <1>4, <1>5, <1>6, <1>7, <1>8, <1>9, <1>10, <1>11, <1>12, <1>13

MyBlk(p) == ringBlk[ptopic[p]][Slot(pseq[p])]

\* The slot of p after StoreIdx.
LEMMA StoreIdxRing ==
  ASSUME TypeInv, NEW p \in Pubs, StoreIdx(p), NEW b \in Blocks
  PROVE  Cardinality(RingRefs(b))' = Cardinality(RingRefs(b)) + One(pblk[p] = b) - One(MyBlk(p) = b)
  <1>0. /\ ptopic[p] \in Topics /\ Slot(pseq[p]) \in SlotIdx
        /\ ringBlk \in [Topics -> [SlotIdx -> MaybeBlock]]
    BY SlotType DEF TypeInv, TypeOK, Seqs
  <1> DEFINE x == <<ptopic[p], Slot(pseq[p])>>
  <1>1. ringBlk' = [ringBlk EXCEPT ![ptopic[p]] = [ringBlk[ptopic[p]] EXCEPT ![Slot(pseq[p])] = pblk[p]]]
    BY DEF StoreIdx
  <1>2. \A y : y # x => (y \in RingRefs(b) <=> y \in RingRefs(b)')
    BY <1>0, <1>1 DEF RingRefs
  <1>3. (x \in RingRefs(b) <=> MyBlk(p) = b) /\ (x \in RingRefs(b)' <=> pblk[p] = b)
    BY <1>0, <1>1 DEF RingRefs, MyBlk
  <1>4. Cardinality(RingRefs(b)') = Cardinality(RingRefs(b)) + One(x \in RingRefs(b)') - One(x \in RingRefs(b))
    BY <1>2, FinitePlaces, CountChange
  <1> QED BY <1>3, <1>4 DEF One

\* The steps of commit_to_ring keep the balance: the reference a commit takes over
\* from the slot is the one it releases.
LEMMA CommitBalance ==
  ASSUME TypeInv, TypeInv', BalanceInv, NEW p \in Pubs, PubFrame(p), CommitStep(p),
         ppc[p] = "rcset" => pold[p] = MyBlk(p)
  PROVE  BalanceInv'
  <1> USE RingAssumption DEF Step, poolVars, ringVars, pubVars
  <1>0. /\ ppc \in [Pubs -> PubPC] /\ pblk \in [Pubs -> MaybeBlock] /\ free \in SUBSET Blocks
        /\ cache \in [Pubs -> SUBSET Blocks] /\ lastFreed \in [Pubs -> MaybeBlock]
        /\ pold \in [Pubs -> MaybeBlock] /\ rc \in [Blocks -> Nat]
    BY DEF TypeInv, TypeOK
  <1>1. CASE MarkStore(p) \/ MarkCas(p) \/ ForceClaim(p)
    BY <1>0, <1>1, PubIdleBalance DEF MarkStore, MarkCas, ForceClaim, Loan, Releasing, NewRef, OldRef
  <1>s. CASE SpinOut(p)
    BY <1>0, <1>s, PubIdleBalance DEF SpinOut, Loan, Releasing, NewRef, OldRef
  <1>2. CASE ReadOld(p)
    BY <1>0, <1>2, PubIdleBalance DEF ReadOld, Loan, Releasing, NewRef, OldRef
  <1>3. CASE SetRefcount(p)
    <2>1. /\ ppc[p] = "oldread" /\ ppc'[p] = "rcset" /\ pblk' = pblk /\ pold' = pold
          /\ free' = free /\ cache' = cache /\ lastFreed' = lastFreed /\ ringBlk' = ringBlk
          /\ rc' = [rc EXCEPT ![pblk[p]] = 1]
      BY <1>0, <1>3 DEF SetRefcount
    <2>2. pblk[p] \in Blocks /\ Loan(p) = pblk[p] /\ Loan(p)' = NoBlock
          /\ Releasing(p) = NoBlock /\ Releasing(p)' = NoBlock
          /\ NewRef(p) = NoBlock /\ NewRef(p)' = pblk[p] /\ OldRef(p) = NoBlock /\ OldRef(p)' = NoBlock
      BY <2>1 DEF TypeInv, LocalsOK, Loan, Releasing, NewRef, OldRef
    <2>3. rc[pblk[p]] = 0 /\ pblk[p] \notin free /\ OwnPlaces(p, pblk[p]) = 1
      <3>1. OwnPlaces(p, pblk[p]) # 0 BY <2>2 DEF OwnPlaces, One
      <3> QED BY <2>2, <3>1, OwnPlace
    <2>4. ASSUME NEW b \in Blocks
          PROVE  /\ One(b \in free)' + One(rc[b] > 0)' + OwnPlaces(p, b)'
                       = One(b \in free) + One(rc[b] > 0) + OwnPlaces(p, b)
                 /\ rc'[b] = rc[b] + Cardinality(RingRefs(b))' - Cardinality(RingRefs(b))
                               + OwnRefs(p, b)' - OwnRefs(p, b)
      <3>1. RingRefs(b)' = RingRefs(b) /\ Cardinality(RingRefs(b)) \in Nat BY <2>1, RingSame, RingNat
      <3>2. One(b \in free)' + One(rc[b] > 0)' + OwnPlaces(p, b)'
                       = One(b \in free) + One(rc[b] > 0) + OwnPlaces(p, b)
        BY <1>0, <2>1, <2>2, <2>3 DEF OwnPlaces, One
      <3>3. OwnRefs(p, b) = 0 /\ OwnRefs(p, b)' = One(pblk[p] = b)
        BY <2>2 DEF OwnRefs, One
      <3>4. rc'[b] = rc[b] + One(pblk[p] = b)
        BY <1>0, <2>1, <2>2, <2>3 DEF One
      <3> QED BY <1>0, <3>1, <3>2, <3>3, <3>4 DEF One
    <2> QED BY <2>4, PubBalanced
  <1>4. CASE StoreIdx(p)
    <2>1. /\ ppc[p] = "rcset" /\ ppc'[p] = "idxset" /\ pblk'[p] = NoBlock /\ pold' = pold
          /\ free' = free /\ cache' = cache /\ lastFreed' = lastFreed /\ rc' = rc
      BY <1>0, <1>4 DEF StoreIdx
    <2>2. pblk[p] \in Blocks /\ Loan(p) = NoBlock /\ Loan(p)' = NoBlock
          /\ Releasing(p) = NoBlock /\ Releasing(p)' = NoBlock
          /\ NewRef(p) = pblk[p] /\ NewRef(p)' = NoBlock /\ OldRef(p) = NoBlock /\ OldRef(p)' = pold[p]
      BY <2>1 DEF TypeInv, LocalsOK, Loan, Releasing, NewRef, OldRef
    <2>3. ASSUME NEW b \in Blocks
          PROVE  /\ One(b \in free)' + One(rc[b] > 0)' + OwnPlaces(p, b)'
                       = One(b \in free) + One(rc[b] > 0) + OwnPlaces(p, b)
                 /\ rc'[b] = rc[b] + Cardinality(RingRefs(b))' - Cardinality(RingRefs(b))
                               + OwnRefs(p, b)' - OwnRefs(p, b)
      <3>1. Cardinality(RingRefs(b)) \in Nat BY RingNat
      <3>2. Cardinality(RingRefs(b))' = Cardinality(RingRefs(b)) + One(pblk[p] = b) - One(MyBlk(p) = b)
        BY <1>4, StoreIdxRing
      <3>3. One(b \in free)' + One(rc[b] > 0)' + OwnPlaces(p, b)'
                       = One(b \in free) + One(rc[b] > 0) + OwnPlaces(p, b)
        BY <1>0, <2>1, <2>2 DEF OwnPlaces, One
      <3>4. OwnRefs(p, b) = One(pblk[p] = b) /\ OwnRefs(p, b)' = One(MyBlk(p) = b)
        BY <2>1, <2>2 DEF OwnRefs, One
      <3>5. rc'[b] = rc[b] /\ rc[b] \in Nat BY <1>0, <2>1
      <3> QED BY <3>1, <3>2, <3>3, <3>4, <3>5 DEF One
    <2> QED BY <2>3, PubBalanced
  <1>5. CASE StoreLen(p)
    BY <1>0, <1>5, PubIdleBalance DEF StoreLen, Loan, Releasing, NewRef, OldRef
  <1>6. CASE CloseSlot(p)
    BY <1>0, <1>6, PubIdleBalance DEF CloseSlot, Loan, Releasing, NewRef, OldRef
  <1>7. CASE ReleaseNone(p)
    BY <1>0, <1>7, PubIdleBalance DEF ReleaseNone, Loan, Releasing, NewRef, OldRef
  <1>8. CASE ReleaseShared(p) \/ ReleaseLast(p)
    <2>1. /\ ppc[p] = "closed" /\ pold[p] # NoBlock
          /\ free' = free /\ cache' = cache /\ lastFreed' = lastFreed /\ ringBlk' = ringBlk
          /\ Decrement(pold[p])
          /\ IF rc[pold[p]] = 1 THEN ppc'[p] = "recycle" /\ pold' = pold ELSE ppc'[p] = "idle"
      <3>1. CASE ReleaseShared(p) BY <1>0, <3>1 DEF ReleaseShared
      <3>2. CASE ReleaseLast(p) BY <1>0, <3>2 DEF ReleaseLast
      <3> QED BY <1>8, <3>1, <3>2
    <2>2. pold[p] \in Blocks BY <1>0, <2>1 DEF MaybeBlock
    <2>3. /\ Loan(p) = NoBlock /\ Loan(p)' = NoBlock /\ Releasing(p) = NoBlock
          /\ Releasing(p)' = IF rc[pold[p]] = 1 THEN pold[p] ELSE NoBlock
          /\ NewRef(p) = NoBlock /\ NewRef(p)' = NoBlock /\ OldRef(p) = pold[p] /\ OldRef(p)' = NoBlock
      BY <2>1 DEF Loan, Releasing, NewRef, OldRef
    <2>4. rc[pold[p]] > 0 /\ pold[p] \notin free /\ OwnPlaces(p, pold[p]) = 0
      BY <2>2, <2>3, PubRefCounted
    <2>5. rc' = [rc EXCEPT ![pold[p]] = rc[pold[p]] - 1]
      <3>1. rc[pold[p]] # 0 BY <1>0, <2>2, <2>4
      <3>2. (IF rc[pold[p]] = 0 THEN RcMod - 1 ELSE rc[pold[p]] - 1) = rc[pold[p]] - 1 BY <3>1
      <3>3. rc' = [rc EXCEPT ![pold[p]] = IF rc[pold[p]] = 0 THEN RcMod - 1 ELSE rc[pold[p]] - 1]
        BY <2>1 DEF Decrement
      <3> QED BY <3>2, <3>3
    <2>6. ASSUME NEW b \in Blocks
          PROVE  /\ One(b \in free)' + One(rc[b] > 0)' + OwnPlaces(p, b)'
                       = One(b \in free) + One(rc[b] > 0) + OwnPlaces(p, b)
                 /\ rc'[b] = rc[b] + Cardinality(RingRefs(b))' - Cardinality(RingRefs(b))
                               + OwnRefs(p, b)' - OwnRefs(p, b)
      <3>1. RingRefs(b)' = RingRefs(b) /\ Cardinality(RingRefs(b)) \in Nat BY <2>1, RingSame, RingNat
      <3>2. One(b \in free)' + One(rc[b] > 0)' + OwnPlaces(p, b)'
                       = One(b \in free) + One(rc[b] > 0) + OwnPlaces(p, b)
        BY <1>0, <2>1, <2>2, <2>3, <2>4, <2>5 DEF OwnPlaces, One
      <3>3. OwnRefs(p, b)' = 0 /\ OwnRefs(p, b) = One(pold[p] = b)
        BY <2>3 DEF OwnRefs, One
      <3>4. rc'[b] = rc[b] - One(pold[p] = b)
        BY <1>0, <2>2, <2>5 DEF One
      <3> QED BY <1>0, <3>1, <3>2, <3>3, <3>4 DEF One
    <2> QED BY <2>6, PubBalanced
  <1>9. CASE Recycle(p)
    <2>1. /\ ppc[p] = "recycle" /\ ppc'[p] = "idle" /\ lastFreed'[p] = pold[p]
          /\ UNCHANGED <<cache, rc, ringBlk>>
          /\ free' = IF lastFreed[p] = NoBlock THEN free ELSE free \cup {lastFreed[p]}
      BY <1>0, <1>9 DEF Recycle, Pool!Give
    <2>2. pold[p] \in Blocks /\ Releasing(p) = pold[p] /\ Releasing(p)' = NoBlock
          /\ Loan(p) = NoBlock /\ Loan(p)' = NoBlock
      BY <2>1 DEF TypeInv, LocalsOK, Releasing, Loan
    <2>3. OwnPlaces(p, pold[p]) = 1 /\ pold[p] \notin free
      <3>1. OwnPlaces(p, pold[p]) # 0 BY <2>2 DEF OwnPlaces, One
      <3> QED BY <2>2, <3>1, OwnPlace
    <2>4. lastFreed[p] # pold[p] BY <2>2, <2>3 DEF OwnPlaces, One
    <2>5. lastFreed[p] # NoBlock => lastFreed[p] \notin free /\ OwnPlaces(p, lastFreed[p]) = 1
      <3>1. SUFFICES ASSUME lastFreed[p] # NoBlock
                     PROVE  lastFreed[p] \notin free /\ OwnPlaces(p, lastFreed[p]) = 1
        OBVIOUS
      <3>2. lastFreed[p] \in Blocks BY <1>0, <3>1 DEF MaybeBlock
      <3>3. OwnPlaces(p, lastFreed[p]) # 0 BY DEF OwnPlaces, One
      <3> QED BY <3>2, <3>3, OwnPlace
    <2>6. \A b \in Blocks : One(b \in free)' + OwnPlaces(p, b)' = One(b \in free) + OwnPlaces(p, b)
      BY <1>0, <2>1, <2>2, <2>3, <2>4, <2>5 DEF OwnPlaces, One
    <2> QED BY <1>0, <2>1, <2>6, PubMoveBalance DEF NewRef, OldRef
  <1> QED BY <1>1, <1>s, <1>2, <1>3, <1>4, <1>5, <1>6, <1>7, <1>8, <1>9 DEF CommitStep

-----------------------------------------------------------------------------
(***************************************************************************)
(* The balance under the steps of a stream.                                *)
(***************************************************************************)

\* What a step of s leaves alone.
StreamFrame(s) ==
  /\ \A x \in Streams : x # s => /\ spc'[x] = spc[x] /\ stopic'[x] = stopic[x]
                                 /\ last'[x] = last[x] /\ cur'[x] = cur[x]
                                 /\ rseq'[x] = rseq[x] /\ rblk'[x] = rblk[x]
                                 /\ rlen'[x] = rlen[x] /\ held'[x] = held[x]
  /\ s \notin crashed
  /\ UNCHANGED <<lastFreed, cache, writeSeq, ringSeq, ringBlk, ringLen, data, crashed,
                 ppc, pblk, ptopic, pseq, pold>>

\* Every step of a stream leaves the other processes and the ring alone.
LEMMA StreamStepFrame ==
  ASSUME TypeInv, NEW s \in Streams, StreamNext(s)
  PROVE  StreamFrame(s)
  <1> USE DEF TypeInv, TypeOK, StreamFrame, StreamStep, pubSide, ringVars, pubVars, Finish, NextSlot
  <1>1. ASSUME NEW t \in Topics, Subscribe(s, t) PROVE StreamFrame(s) BY <1>1 DEF Subscribe
  <1>2. CASE DropStream(s) BY <1>2 DEF DropStream
  <1>3. CASE TryRecv(s) BY <1>3 DEF TryRecv
  <1>4. CASE Check1(s) BY <1>4 DEF Check1
  <1>5. CASE ReadBlk(s) BY <1>5 DEF ReadBlk
  <1>6. CASE ReadLen(s) BY <1>6 DEF ReadLen
  <1>7. CASE Acquire(s) BY <1>7 DEF Acquire
  <1>8. CASE Check2(s) BY <1>8 DEF Check2
  <1>9. CASE Undo(s) BY <1>9 DEF Undo
  <1>10. CASE UndoFree(s) BY <1>10 DEF UndoFree
  <1>11. CASE DropSampleFree(s) BY <1>11 DEF DropSampleFree
  <1>12. ASSUME NEW h \in held[s], DropSample(s, h) PROVE StreamFrame(s) BY <1>12 DEF DropSample
  <1> QED BY <1>1, <1>2, <1>3, <1>4, <1>5, <1>6, <1>7, <1>8, <1>9, <1>10, <1>11, <1>12
          DEF StreamNext, ReceiveStep

\* A step of s changes what streams have of b by what s has of it.
LEMMA StreamAccount ==
  ASSUME NEW s \in Streams, StreamFrame(s), NEW b
  PROVE  /\ PubPlaces(b)' = PubPlaces(b) /\ PubRefs(b)' = PubRefs(b)
         /\ RingRefs(b)' = RingRefs(b)
         /\ Cardinality(Undoers(b))' = Cardinality(Undoers(b)) + One(Undone(s) = b)' - One(Undone(s) = b)
         /\ Cardinality(CheckRefs(b))' = Cardinality(CheckRefs(b)) + One(Checking(s) = b)' - One(Checking(s) = b)
         /\ Cardinality(Undoers(b))' \in Nat /\ Cardinality(CheckRefs(b))' \in Nat
  <1>0. \A x \in Streams : x # s => Undone(x)' = Undone(x) /\ Checking(x)' = Checking(x)
    BY DEF StreamFrame, Undone, Checking
  <1>1. PubPlaces(b)' = PubPlaces(b)
    BY DEF StreamFrame, PubPlaces, Cachers, Keepers, Borrowers, Releasers, Loan, Releasing
  <1>2. PubRefs(b)' = PubRefs(b)
    BY DEF StreamFrame, PubRefs, NewRefs, OldRefs, NewRef, OldRef
  <1>3. RingRefs(b)' = RingRefs(b) BY DEF StreamFrame, RingRefs
  <1>4. /\ Cardinality(Undoers(b)') = Cardinality(Undoers(b)) + One(s \in Undoers(b)') - One(s \in Undoers(b))
        /\ Cardinality(Undoers(b)') \in Nat
    <2>1. \A y : y # s => (y \in Undoers(b) <=> y \in Undoers(b)') BY <1>0 DEF Undoers
    <2> QED BY <2>1, FinitePlaces, CountChange
  <1>5. /\ Cardinality(CheckRefs(b)') = Cardinality(CheckRefs(b)) + One(s \in CheckRefs(b)') - One(s \in CheckRefs(b))
        /\ Cardinality(CheckRefs(b)') \in Nat
    <2>1. \A y : y # s => (y \in CheckRefs(b) <=> y \in CheckRefs(b)') BY <1>0 DEF CheckRefs
    <2> QED BY <2>1, FinitePlaces, CountChange
  <1>6. /\ (s \in Undoers(b) <=> Undone(s) = b) /\ (s \in Undoers(b)' <=> Undone(s)' = b)
        /\ (s \in CheckRefs(b) <=> Checking(s) = b) /\ (s \in CheckRefs(b)' <=> Checking(s)' = b)
    BY DEF Undoers, CheckRefs
  <1> QED BY <1>1, <1>2, <1>3, <1>4, <1>5, <1>6 DEF One

\* A stream's step keeps the balance if s and the shared memory balance.
LEMMA StreamBalanced ==
  ASSUME TypeInv, TypeInv', BalanceInv, NEW s \in Streams, StreamFrame(s),
         \A b \in Blocks :
           /\ One(b \in free)' + One(rc[b] > 0)' + One(Undone(s) = b)'
                = One(b \in free) + One(rc[b] > 0) + One(Undone(s) = b)
           /\ rc'[b] = rc[b] + Cardinality(HeldRefs(b))' - Cardinality(HeldRefs(b))
                             + One(Checking(s) = b)' - One(Checking(s) = b)
           /\ IsFiniteSet(HeldRefs(b))'
  PROVE  BalanceInv'
  <1> SUFFICES ASSUME NEW b \in Blocks
               PROVE  /\ Places(b)' = 1
                      /\ rc'[b] = Refs(b)'
                      /\ IsFiniteSet(HeldRefs(b))'
    BY DEF BalanceInv
  <1>1. /\ PubPlaces(b)' = PubPlaces(b) /\ PubRefs(b)' = PubRefs(b)
        /\ Cardinality(RingRefs(b))' = Cardinality(RingRefs(b))
        /\ Cardinality(Undoers(b))' = Cardinality(Undoers(b)) + One(Undone(s) = b)' - One(Undone(s) = b)
        /\ Cardinality(CheckRefs(b))' = Cardinality(CheckRefs(b)) + One(Checking(s) = b)' - One(Checking(s) = b)
    BY StreamAccount
  <1>2. Places(b) = 1 /\ rc[b] = Refs(b) /\ IsFiniteSet(HeldRefs(b)) BY DEF BalanceInv
  <1>3. PubPlaces(b) \in Nat /\ PubRefs(b) \in Nat /\ Cardinality(Undoers(b)) \in Nat
        /\ Cardinality(CheckRefs(b)) \in Nat /\ Cardinality(HeldRefs(b)) \in Nat
        /\ Cardinality(RingRefs(b)) \in Nat
    BY <1>2, PlaceNats, FS_CardinalityType
  <1>4. Cardinality(HeldRefs(b))' \in Nat
    BY FS_CardinalityType
  <1>5. rc[b] \in Nat /\ rc'[b] \in Nat BY RingAssumption DEF TypeInv, TypeOK
  <1>6. /\ One(b \in free) \in Nat /\ One(b \in free)' \in Nat /\ One(rc[b] > 0) \in Nat
        /\ One(rc[b] > 0)' \in Nat /\ One(Undone(s) = b) \in Nat /\ One(Undone(s) = b)' \in Nat
        /\ One(Checking(s) = b) \in Nat /\ One(Checking(s) = b)' \in Nat
    BY DEF One
  <1>7. Places(b)' = 1 BY <1>1, <1>2, <1>3, <1>6 DEF Places
  <1>8. rc'[b] = Refs(b)' BY <1>1, <1>2, <1>3, <1>4, <1>5, <1>6 DEF Refs, StreamRefs
  <1> QED BY <1>7, <1>8

\* The steps of a receive or of a drop that take and give no reference.
LEMMA StreamIdleBalance ==
  ASSUME TypeInv, TypeInv', BalanceInv, NEW s \in Streams, StreamFrame(s),
         UNCHANGED <<free, rc, held>>, Undone(s)' = Undone(s), Checking(s)' = Checking(s)
  PROVE  BalanceInv'
  <1>1. \A b \in Blocks : HeldRefs(b)' = HeldRefs(b) BY DEF HeldRefs
  <1>2. \A b \in Blocks : IsFiniteSet(HeldRefs(b)) /\ Cardinality(HeldRefs(b)) \in Nat
    BY FS_CardinalityType DEF BalanceInv
  <1>3. \A b \in Blocks : /\ One(b \in free)' = One(b \in free) /\ One(rc[b] > 0)' = One(rc[b] > 0)
                          /\ One(Undone(s) = b)' = One(Undone(s) = b)
                          /\ One(Checking(s) = b)' = One(Checking(s) = b)
                          /\ One(Checking(s) = b) \in Nat
                          /\ rc[b] \in Nat /\ rc'[b] = rc[b]
    BY RingAssumption DEF One, TypeInv, TypeOK
  <1> QED BY <1>1, <1>2, <1>3, StreamBalanced

\* There is room in the refcount for one more reference of a stream.
LEMMA RcRoom ==
  ASSUME TypeInv, BalanceInv, SampleIntegrity,
         NEW s \in Streams, NEW b \in Blocks, Checking(s) # b
  PROVE  rc[b] + 1 < RcMod
  <1>1. Cardinality(HeldRefs(b)) <= Cardinality(Streams)
    <2> DEFINE f == [x \in HeldRefs(b) |-> x[1]]
    <2>1. f \in [HeldRefs(b) -> Streams] BY DEF HeldRefs
    <2>2. ASSUME NEW x \in HeldRefs(b), NEW y \in HeldRefs(b), f[x] = f[y] PROVE x = y
      <3>1. PICK s1 \in Streams, h1 \in Samples : x = <<s1, h1>> /\ h1 \in held[s1] /\ h1.blk = b
        BY DEF HeldRefs
      <3>2. PICK s2 \in Streams, h2 \in Samples : y = <<s2, h2>> /\ h2 \in held[s2] /\ h2.blk = b
        BY DEF HeldRefs
      <3>3. s1 = s2 BY <2>2, <3>1, <3>2
      <3>4. /\ data[b] = <<stopic[s1], h1.seq>> /\ data[b] = <<stopic[s1], h2.seq>>
            /\ h1.len = h1.seq /\ h2.len = h2.seq
        BY <3>1, <3>2, <3>3 DEF SampleIntegrity
      <3>5. h1.seq = h2.seq BY <3>4
      <3>6. h1 = h2 BY <3>1, <3>2, <3>4, <3>5 DEF Samples
      <3> QED BY <3>1, <3>2, <3>3, <3>6
    <2>3. f \in Injection(HeldRefs(b), Streams) BY <2>1, <2>2 DEF Injection, IsInjective
    <2> QED BY <2>3, FS_Injection, RingAssumption
  <1>2. Cardinality(RingRefs(b)) <= Cardinality(Topics \X SlotIdx)
    BY FinitePlaces, FS_Subset DEF RingRefs
  <1>3. PubRefs(b) <= Cardinality(Pubs)
    <2>1. NewRefs(b) \cap OldRefs(b) = {} BY RingAssumption DEF NewRefs, OldRefs, NewRef, OldRef
    <2>2. Cardinality(NewRefs(b) \cup OldRefs(b)) = Cardinality(NewRefs(b)) + Cardinality(OldRefs(b)) - 0
      BY <2>1, FinitePlaces, FS_Union, FS_EmptySet
    <2>3. NewRefs(b) \cup OldRefs(b) \in SUBSET Pubs BY DEF NewRefs, OldRefs
    <2>4. Cardinality(NewRefs(b) \cup OldRefs(b)) <= Cardinality(Pubs)
      BY <2>3, FS_Subset, RingAssumption
    <2> QED BY <2>2, <2>4, PlaceNats DEF PubRefs
  <1>4. Cardinality(CheckRefs(b)) <= Cardinality(Streams) - 1
    <2>1. CheckRefs(b) \in SUBSET (Streams \ {s}) BY DEF CheckRefs
    <2>2. IsFiniteSet(Streams \ {s}) /\ Cardinality(Streams \ {s}) = Cardinality(Streams) - 1
      BY FS_RemoveElement, RingAssumption
    <2> QED BY <2>1, <2>2, FS_Subset
  <1>5. /\ Cardinality(Topics \X SlotIdx) + Cardinality(Pubs) + 2 * Cardinality(Streams) < RcMod
        /\ Cardinality(Topics \X SlotIdx) \in Nat /\ Cardinality(Pubs) \in Nat /\ Cardinality(Streams) \in Nat
    BY RingAssumption, FinitePlaces, FS_CardinalityType DEF SlotIdx
  <1>6. /\ Cardinality(HeldRefs(b)) \in Nat /\ Cardinality(RingRefs(b)) \in Nat
        /\ PubRefs(b) \in Nat /\ Cardinality(CheckRefs(b)) \in Nat
        /\ rc[b] = Refs(b)
    BY PlaceNats, FS_CardinalityType DEF BalanceInv
  <1> QED
    <2> DEFINE a1 == Cardinality(HeldRefs(b))
               a2 == Cardinality(RingRefs(b))
               a3 == PubRefs(b)
               a4 == Cardinality(CheckRefs(b))
               b1 == Cardinality(Topics \X SlotIdx)
               b2 == Cardinality(Pubs)
               b3 == Cardinality(Streams)
    <2>1. rc[b] = a2 + a3 + (a1 + a4) BY <1>6 DEF Refs, StreamRefs
    <2>2. /\ a1 \in Nat /\ a2 \in Nat /\ a3 \in Nat /\ a4 \in Nat /\ b1 \in Nat /\ b2 \in Nat
          /\ b3 \in Nat /\ RcMod \in Nat
          /\ a1 <= b3 /\ a2 <= b1 /\ a3 <= b2 /\ a4 <= b3 - 1 /\ b1 + b2 + 2 * b3 < RcMod
      BY <1>1, <1>2, <1>3, <1>4, <1>5, <1>6, RingAssumption
    <2> HIDE DEF a1, a2, a3, a4, b1, b2, b3
    <2>3. a2 + a3 + (a1 + a4) + 1 < RcMod BY <2>2
    <2> QED BY <2>1, <2>3

\* A stream's reference is counted.
LEMMA StreamRefCounted ==
  ASSUME TypeInv, BalanceInv, NEW s \in Streams, NEW b \in Blocks,
         Checking(s) = b \/ \E h \in held[s] : h.blk = b
  PROVE  rc[b] > 0 /\ rc[b] \in Nat /\ b \notin free
  <1>1. rc[b] \in Nat BY RingAssumption DEF TypeInv, TypeOK
  <1>2. rc[b] # 0
    <2>1. CASE Checking(s) = b BY <2>1, NoRefs DEF CheckRefs
    <2>2. ASSUME NEW h \in held[s], h.blk = b PROVE rc[b] # 0
      <3>1. <<s, h>> \in HeldRefs(b) BY <2>2 DEF HeldRefs, TypeInv, TypeOK
      <3> QED BY <3>1, NoRefs
    <2> QED BY <2>1, <2>2
  <1>3. b \notin free BY <1>2, PoolPlace
  <1> QED BY <1>1, <1>2, <1>3

\* fetch_sub of a reference that is there.
LEMMA DecrementCounted ==
  ASSUME TypeInv, NEW b \in Blocks, rc[b] > 0, Decrement(b)
  PROVE  /\ rc' = [rc EXCEPT ![b] = rc[b] - 1]
         /\ \A c \in Blocks : rc'[c] = rc[c] - One(c = b)
  <1>1. rc[b] # 0 /\ rc \in [Blocks -> Nat] BY RingAssumption DEF TypeInv, TypeOK
  <1>2. (IF rc[b] = 0 THEN RcMod - 1 ELSE rc[b] - 1) = rc[b] - 1 BY <1>1
  <1>3. rc' = [rc EXCEPT ![b] = IF rc[b] = 0 THEN RcMod - 1 ELSE rc[b] - 1]
    BY DEF Decrement
  <1>4. rc' = [rc EXCEPT ![b] = rc[b] - 1] BY <1>2, <1>3
  <1> QED BY <1>1, <1>4 DEF One

\* A stream that gives back the last reference holds the block until it frees it.
LEMMA LastReference ==
  ASSUME TypeInv, NEW s \in Streams, NEW b \in Blocks, rc[b] > 0,
         \A c \in Blocks : rc'[c] = rc[c] - One(c = b),
         free' = free, Undone(s) = NoBlock,
         Undone(s)' = IF rc[b] = 1 THEN b ELSE NoBlock
  PROVE  \A c \in Blocks : One(c \in free)' + One(rc[c] > 0)' + One(Undone(s) = c)'
                             = One(c \in free) + One(rc[c] > 0) + One(Undone(s) = c)
  <1>1. rc \in [Blocks -> Nat] BY RingAssumption DEF TypeInv, TypeOK
  <1> QED BY <1>1, RingAssumption DEF One

\* Steps that hand out and drop no sample.
LEMMA HeldSame ==
  ASSUME BalanceInv, held' = held
  PROVE  \A b \in Blocks : /\ HeldRefs(b)' = HeldRefs(b)
                           /\ IsFiniteSet(HeldRefs(b))'
                           /\ Cardinality(HeldRefs(b))' = Cardinality(HeldRefs(b))
                           /\ Cardinality(HeldRefs(b)) \in Nat
  <1>1. \A b \in Blocks : HeldRefs(b)' = HeldRefs(b) BY DEF HeldRefs
  <1>2. \A b \in Blocks : IsFiniteSet(HeldRefs(b)) BY DEF BalanceInv
  <1> QED BY <1>1, <1>2, FS_CardinalityType

\* The samples after one of stream s was handed out or dropped.
LEMMA HeldChange ==
  ASSUME TypeInv, BalanceInv, NEW s \in Streams, NEW h \in Samples, StreamFrame(s),
         \A g \in Samples : g # h => (g \in held'[s] <=> g \in held[s])
  PROVE  \A b \in Blocks :
           /\ IsFiniteSet(HeldRefs(b))'
           /\ Cardinality(HeldRefs(b)) \in Nat
           /\ Cardinality(HeldRefs(b))' = Cardinality(HeldRefs(b))
                + One(h \in held'[s] /\ h.blk = b) - One(h \in held[s] /\ h.blk = b)
  <1> TAKE b \in Blocks
  <1> DEFINE x == <<s, h>>
  <1>1. \A y : y # x => (y \in HeldRefs(b) <=> y \in HeldRefs(b)')
    <2>1. ASSUME NEW r \in Streams, NEW g \in Samples, <<r, g>> # x
          PROVE  g \in held'[r] <=> g \in held[r]
      BY <2>1 DEF StreamFrame
    <2> QED BY <2>1 DEF HeldRefs
  <1>2. IsFiniteSet(HeldRefs(b)) BY DEF BalanceInv
  <1>3. /\ (x \in HeldRefs(b) <=> h \in held[s] /\ h.blk = b)
        /\ (x \in HeldRefs(b)' <=> h \in held'[s] /\ h.blk = b)
    BY DEF HeldRefs
  <1>4. /\ IsFiniteSet(HeldRefs(b)') /\ Cardinality(HeldRefs(b)) \in Nat
        /\ Cardinality(HeldRefs(b)') = Cardinality(HeldRefs(b)) + One(x \in HeldRefs(b)') - One(x \in HeldRefs(b))
    BY <1>1, <1>2, CountChange
  <1> QED BY <1>3, <1>4 DEF One

\* Every step of a stream keeps the balance.
LEMMA StreamBalance ==
  ASSUME TypeInv, TypeInv', BalanceInv, SampleIntegrity, NEW s \in Streams, StreamNext(s),
         spc[s] = "check" => \A h \in held[s] : h.seq < rseq[s]
  PROVE  BalanceInv'
  <1> USE RingAssumption DEF StreamStep
  <1>0. /\ spc \in [Streams -> StreamPC] /\ rblk \in [Streams -> MaybeBlock] /\ free \in SUBSET Blocks
        /\ held \in [Streams -> SUBSET Samples] /\ rc \in [Blocks -> Nat]
        /\ rseq \in [Streams -> Seqs] /\ rlen \in [Streams -> Seqs]
    BY DEF TypeInv, TypeOK
  <1>f. StreamFrame(s) BY StreamStepFrame
  <1>n. NextSlot(s) => spc'[s] \in {"idle", "scan"} BY NextSlotType
  <1>l. spc[s] \in {"acquire", "check", "undo", "free", "unheld"} => rblk[s] \in Blocks
    BY DEF TypeInv, LocalsOK
  <1> DEFINE Idle == UNCHANGED <<free, rc, held>> /\ Undone(s)' = Undone(s) /\ Checking(s)' = Checking(s)
  <1>i. Idle => BalanceInv' BY <1>f, StreamIdleBalance
  <1>1. ASSUME NEW t \in Topics, Subscribe(s, t) PROVE BalanceInv'
    <2>1. Idle BY <1>0, <1>1 DEF Subscribe, Undone, Checking
    <2> QED BY <2>1, <1>i
  <1>2. CASE DropStream(s)
    <2>1. Idle BY <1>0, <1>2 DEF DropStream, Undone, Checking
    <2> QED BY <2>1, <1>i
  <1>3. CASE TryRecv(s)
    <2>1. Idle BY <1>0, <1>3 DEF TryRecv, Undone, Checking
    <2> QED BY <2>1, <1>i
  <1>4. CASE Check1(s)
    <2>1. Idle BY <1>0, <1>4, <1>n DEF Check1, Undone, Checking
    <2> QED BY <2>1, <1>i
  <1>5. CASE ReadBlk(s)
    <2>1. Idle BY <1>0, <1>5 DEF ReadBlk, Undone, Checking
    <2> QED BY <2>1, <1>i
  <1>6. CASE ReadLen(s)
    <2>1. Idle BY <1>0, <1>6, <1>n DEF ReadLen, Undone, Checking
    <2> QED BY <2>1, <1>i
  <1>7. CASE Acquire(s)
    <2>1. CASE rc[rblk[s]] = 0
      <3>1. Idle BY <1>0, <1>7, <1>n, <2>1 DEF Acquire, Undone, Checking
      <3> QED BY <3>1, <1>i
    <2>2. CASE rc[rblk[s]] # 0
      <3>1. /\ spc[s] = "acquire" /\ spc'[s] = "check" /\ rblk' = rblk
            /\ rc' = [rc EXCEPT ![rblk[s]] = (rc[rblk[s]] + 1) % RcMod]
            /\ free' = free /\ held' = held
        BY <1>0, <1>7, <2>2 DEF Acquire
      <3>2. /\ rblk[s] \in Blocks /\ Checking(s) = NoBlock /\ Checking(s)' = rblk[s]
            /\ Undone(s) = NoBlock /\ Undone(s)' = NoBlock
        BY <1>l, <3>1 DEF Checking, Undone
      <3>3. rc[rblk[s]] + 1 < RcMod BY <3>2, RcRoom
      <3>4. rc'[rblk[s]] = rc[rblk[s]] + 1
        <4> DEFINE n == rc[rblk[s]]
        <4>1. n \in Nat /\ n + 1 < RcMod BY <1>0, <3>2, <3>3
        <4>2. rc'[rblk[s]] = (n + 1) % RcMod BY <1>0, <3>1, <3>2
        <4> HIDE DEF n
        <4>3. (n + 1) % RcMod = n + 1 BY <4>1
        <4> QED BY <4>2, <4>3 DEF n
      <3>5. \A b \in Blocks : rc'[b] = rc[b] + One(Checking(s) = b)' - One(Checking(s) = b)
        BY <1>0, <3>1, <3>2, <3>4 DEF One
      <3>6. \A b \in Blocks : One(b \in free)' + One(rc[b] > 0)' + One(Undone(s) = b)'
                = One(b \in free) + One(rc[b] > 0) + One(Undone(s) = b)
        BY <1>0, <2>2, <3>1, <3>2, <3>4 DEF One
      <3>7. \A b \in Blocks : One(Checking(s) = b)' \in Nat /\ One(Checking(s) = b) \in Nat
        BY DEF One
      <3>8. \A b \in Blocks :
              rc'[b] = rc[b] + Cardinality(HeldRefs(b))' - Cardinality(HeldRefs(b))
                             + One(Checking(s) = b)' - One(Checking(s) = b)
        BY <1>0, <3>1, <3>5, <3>7, HeldSame
      <3> QED BY <1>f, <3>1, <3>6, <3>8, HeldSame, StreamBalanced
    <2> QED BY <2>1, <2>2
  <1>8. CASE Check2(s)
    <2>1. CASE ~SlotHolds(s)
      <3>1. Idle BY <1>0, <1>8, <2>1 DEF Check2, Undone, Checking
      <3> QED BY <3>1, <1>i
    <2>2. CASE SlotHolds(s)
      <3> DEFINE h == [seq |-> rseq[s], blk |-> rblk[s], len |-> rlen[s]]
      <3>1. /\ spc[s] = "check" /\ spc'[s] = "idle" /\ rc' = rc /\ free' = free
            /\ held' = [held EXCEPT ![s] = held[s] \cup {h}]
        BY <1>0, <1>8, <2>2 DEF Check2, Finish
      <3>2. rblk[s] \in Blocks /\ h \in Samples /\ h.blk = rblk[s] /\ h.seq = rseq[s]
        BY <1>0, <1>l, <3>1 DEF Samples
      <3>3. h \notin held[s] /\ h \in held'[s]
        <4>1. rseq[s] \in Nat BY <1>0 DEF Seqs
        <4> QED BY <1>0, <3>1, <3>2, <4>1
      <3>4. \A g \in Samples : g # h => (g \in held'[s] <=> g \in held[s]) BY <1>0, <3>1
      <3>5. \A b \in Blocks :
              /\ IsFiniteSet(HeldRefs(b))'
              /\ Cardinality(HeldRefs(b)) \in Nat
              /\ Cardinality(HeldRefs(b))' = Cardinality(HeldRefs(b))
                   + One(h \in held'[s] /\ h.blk = b) - One(h \in held[s] /\ h.blk = b)
        BY <1>f, <3>2, <3>4, HeldChange
      <3>6. /\ Checking(s) = rblk[s] /\ Checking(s)' = NoBlock /\ Undone(s) = NoBlock /\ Undone(s)' = NoBlock
        BY <3>1 DEF Checking, Undone
      <3>7. \A b \in Blocks : One(b \in free)' + One(rc[b] > 0)' + One(Undone(s) = b)'
                = One(b \in free) + One(rc[b] > 0) + One(Undone(s) = b)
        BY <3>1, <3>6 DEF One
      <3>8. ASSUME NEW b \in Blocks
            PROVE  rc'[b] = rc[b] + Cardinality(HeldRefs(b))' - Cardinality(HeldRefs(b))
                               + One(Checking(s) = b)' - One(Checking(s) = b)
        <4>1. One(h \in held'[s] /\ h.blk = b) = One(rblk[s] = b) /\ One(h \in held[s] /\ h.blk = b) = 0
          BY <3>2, <3>3 DEF One
        <4>2. One(Checking(s) = b)' = 0 /\ One(Checking(s) = b) = One(rblk[s] = b)
          BY <3>6 DEF One
        <4>3. Cardinality(HeldRefs(b)) \in Nat
              /\ Cardinality(HeldRefs(b))' = Cardinality(HeldRefs(b)) + One(rblk[s] = b) - 0
          BY <3>5, <4>1
        <4>4. rc'[b] = rc[b] /\ rc[b] \in Nat /\ One(rblk[s] = b) \in Nat BY <1>0, <3>1 DEF One
        <4> QED BY <4>2, <4>3, <4>4
      <3> QED BY <1>f, <3>5, <3>7, <3>8, StreamBalanced
    <2> QED BY <2>1, <2>2
  <1>9. CASE Undo(s)
    <2>1. /\ spc[s] = "undo" /\ Decrement(rblk[s]) /\ free' = free /\ held' = held
          /\ IF rc[rblk[s]] = 1 THEN spc'[s] = "free" /\ rblk' = rblk ELSE spc'[s] \in {"idle", "scan"}
      BY <1>0, <1>9, <1>n DEF Undo
    <2>2. /\ rblk[s] \in Blocks /\ Checking(s) = rblk[s] /\ Checking(s)' = NoBlock
          /\ Undone(s) = NoBlock /\ Undone(s)' = IF rc[rblk[s]] = 1 THEN rblk[s] ELSE NoBlock
      BY <1>l, <2>1 DEF Checking, Undone
    <2>3. rc[rblk[s]] > 0 BY <2>2, StreamRefCounted
    <2>4. \A c \in Blocks : rc'[c] = rc[c] - One(c = rblk[s]) BY <2>1, <2>2, <2>3, DecrementCounted
    <2>5. \A b \in Blocks : One(b \in free)' + One(rc[b] > 0)' + One(Undone(s) = b)'
                = One(b \in free) + One(rc[b] > 0) + One(Undone(s) = b)
      BY <2>1, <2>2, <2>3, <2>4, LastReference
    <2>6. ASSUME NEW b \in Blocks
          PROVE  rc'[b] = rc[b] + Cardinality(HeldRefs(b))' - Cardinality(HeldRefs(b))
                               + One(Checking(s) = b)' - One(Checking(s) = b)
      <3>1. One(Checking(s) = b)' = 0 /\ One(Checking(s) = b) = One(b = rblk[s]) /\ One(b = rblk[s]) \in Nat
        BY <2>2 DEF One
      <3>2. Cardinality(HeldRefs(b))' = Cardinality(HeldRefs(b)) /\ Cardinality(HeldRefs(b)) \in Nat
        BY <2>1, HeldSame
      <3> QED BY <1>0, <2>4, <3>1, <3>2
    <2> QED BY <1>f, <2>1, <2>5, <2>6, HeldSame, StreamBalanced
  <1>10. ASSUME UndoFree(s) \/ DropSampleFree(s) PROVE BalanceInv'
    <2>1. /\ spc[s] \in {"free", "unheld"} /\ free' = free \cup {rblk[s]} /\ held' = held /\ rc' = rc
          /\ spc'[s] \in {"idle", "scan"}
      BY <1>0, <1>10, <1>n DEF UndoFree, DropSampleFree, Pool!Give
    <2>2. /\ rblk[s] \in Blocks /\ Checking(s) = NoBlock /\ Checking(s)' = NoBlock
          /\ Undone(s) = rblk[s] /\ Undone(s)' = NoBlock
      BY <1>l, <2>1 DEF Checking, Undone
    <2>3. rblk[s] \notin free
      <3>1. Undoers(rblk[s]) # {} BY <2>2 DEF Undoers
      <3>2. Cardinality(Undoers(rblk[s])) # 0 BY <3>1, FinitePlaces, FS_EmptySet
      <3>3. /\ One(rblk[s] \in free) + One(rc[rblk[s]] > 0) + PubPlaces(rblk[s]) + Cardinality(Undoers(rblk[s])) = 1
            /\ PubPlaces(rblk[s]) \in Nat /\ Cardinality(Undoers(rblk[s])) \in Nat
        BY <2>2, PlaceNats DEF BalanceInv, Places
      <3> QED BY <3>2, <3>3 DEF One
    <2>4. \A b \in Blocks : One(b \in free)' + One(rc[b] > 0)' + One(Undone(s) = b)'
                = One(b \in free) + One(rc[b] > 0) + One(Undone(s) = b)
      BY <1>0, <2>1, <2>2, <2>3 DEF One
    <2>5. ASSUME NEW b \in Blocks
          PROVE  rc'[b] = rc[b] + Cardinality(HeldRefs(b))' - Cardinality(HeldRefs(b))
                               + One(Checking(s) = b)' - One(Checking(s) = b)
      <3>1. One(Checking(s) = b)' = 0 /\ One(Checking(s) = b) = 0 BY <2>2 DEF One
      <3>2. Cardinality(HeldRefs(b))' = Cardinality(HeldRefs(b)) /\ Cardinality(HeldRefs(b)) \in Nat
        BY <2>1, HeldSame
      <3> QED BY <1>0, <2>1, <3>1, <3>2
    <2> QED BY <1>f, <2>1, <2>4, <2>5, HeldSame, StreamBalanced
  <1>11. ASSUME NEW h \in held[s], DropSample(s, h) PROVE BalanceInv'
    <2>1. /\ spc[s] = "idle" /\ Decrement(h.blk) /\ free' = free
          /\ held' = [held EXCEPT ![s] = held[s] \ {h}]
          /\ IF rc[h.blk] = 1 THEN spc'[s] = "unheld" /\ rblk'[s] = h.blk ELSE spc'[s] = "idle"
      BY <1>0, <1>11 DEF DropSample
    <2>2. h \in Samples /\ h.blk \in Blocks BY <1>0 DEF Samples
    <2>3. /\ Checking(s) = NoBlock /\ Checking(s)' = NoBlock
          /\ Undone(s) = NoBlock /\ Undone(s)' = IF rc[h.blk] = 1 THEN h.blk ELSE NoBlock
      BY <2>1 DEF Checking, Undone
    <2>4. rc[h.blk] > 0 BY <2>2, StreamRefCounted
    <2>5. \A c \in Blocks : rc'[c] = rc[c] - One(c = h.blk) BY <2>1, <2>2, <2>4, DecrementCounted
    <2>6. \A b \in Blocks : One(b \in free)' + One(rc[b] > 0)' + One(Undone(s) = b)'
                = One(b \in free) + One(rc[b] > 0) + One(Undone(s) = b)
      BY <2>1, <2>2, <2>3, <2>4, <2>5, LastReference
    <2>7. h \notin held'[s] /\ \A g \in Samples : g # h => (g \in held'[s] <=> g \in held[s])
      BY <1>0, <2>1
    <2>8. \A b \in Blocks :
              /\ IsFiniteSet(HeldRefs(b))'
              /\ Cardinality(HeldRefs(b)) \in Nat
              /\ Cardinality(HeldRefs(b))' = Cardinality(HeldRefs(b))
                   + One(h \in held'[s] /\ h.blk = b) - One(h \in held[s] /\ h.blk = b)
      BY <1>f, <2>2, <2>7, HeldChange
    <2>9. ASSUME NEW b \in Blocks
          PROVE  rc'[b] = rc[b] + Cardinality(HeldRefs(b))' - Cardinality(HeldRefs(b))
                               + One(Checking(s) = b)' - One(Checking(s) = b)
      <3>1. /\ One(Checking(s) = b)' = 0 /\ One(Checking(s) = b) = 0 BY <2>3 DEF One
      <3>2. /\ One(h \in held'[s] /\ h.blk = b) = 0
            /\ One(h \in held[s] /\ h.blk = b) = One(b = h.blk) /\ One(b = h.blk) \in Nat
        BY <2>7 DEF One
      <3>3. Cardinality(HeldRefs(b)) \in Nat
            /\ Cardinality(HeldRefs(b))' = Cardinality(HeldRefs(b)) + 0 - One(b = h.blk)
        BY <2>8, <3>2
      <3> QED BY <1>0, <2>5, <3>1, <3>2, <3>3
    <2> QED BY <1>f, <2>6, <2>8, <2>9, StreamBalanced
  <1> QED BY <1>1, <1>2, <1>3, <1>4, <1>5, <1>6, <1>7, <1>8, <1>9, <1>10, <1>11
          DEF StreamNext, ReceiveStep

-----------------------------------------------------------------------------
(***************************************************************************)
(* Seqs.  A seq is committed by one publisher, once; a slot that has been  *)
(* closed with it is never closed with it again.  Hence a slot that a      *)
(* receive finds changed stays changed, and seqlock check 2 sees every     *)
(* overwrite.                                                              *)
(***************************************************************************)
PendingOn(p, t, n) == Committing(p) /\ ptopic[p] = t /\ pseq[p] = n
Scanning(s) ==
  spc[s] \in {"scan", "readblk", "readlen", "acquire", "check", "undo", "free"}
Published(t, i) == ringSeq[t][i] # SeqWriting /\ ringSeq[t][i] # 0

SeqsUnique ==
  /\ \A p \in Pubs : Committing(p) => pseq[p] > 0 /\ pseq[p] <= writeSeq[ptopic[p]]
  /\ \A p, q \in Pubs :
       p # q /\ Committing(p) /\ Committing(q) /\ ptopic[p] = ptopic[q] => pseq[p] # pseq[q]

NeverAgain ==
  \A t \in Topics, i \in SlotIdx :
    Published(t, i) => /\ ringSeq[t][i] <= writeSeq[t]
                       /\ \A p \in Pubs : ~PendingOn(p, t, ringSeq[t][i])

ScanOK(s) ==
  /\ Scanning(s) => last[s] < rseq[s] /\ cur[s] <= writeSeq[stopic[s]]
  /\ Scanning(s) /\ spc[s] # "scan" => \A p \in Pubs : ~PendingOn(p, stopic[s], rseq[s])
  /\ spc[s] \in {"undo", "free"} => ~SlotHolds(s)
  /\ \A h \in held[s] : h.seq <= last[s]
  /\ spc[s] = "off" => held[s] = {}

SeqInv == SeqsUnique /\ NeverAgain /\ \A s \in Streams : ScanOK(s)

\* The seqs of the initial state.
LEMMA InitSeq == Init => SeqInv
  BY RingAssumption DEF Init, SeqInv, SeqsUnique, NeverAgain, ScanOK, Published, Committing, InSlot, Scanning

\* A step of a publisher that claims no seq and writes none.
LEMMA QuietSeq ==
  ASSUME TypeInv, SeqInv, NEW p \in Pubs, PubFrame(p), writeSeq' = writeSeq, ringSeq' = ringSeq,
         Committing(p)' => Committing(p) /\ ptopic'[p] = ptopic[p] /\ pseq'[p] = pseq[p]
  PROVE  SeqInv'
  <1>1. \A q \in Pubs : Committing(q)' => /\ Committing(q) /\ ptopic'[q] = ptopic[q]
                                          /\ pseq'[q] = pseq[q]
    BY DEF PubFrame, Committing, InSlot
  <1>2. \A q \in Pubs : \A t, n : PendingOn(q, t, n)' => PendingOn(q, t, n) BY <1>1 DEF PendingOn
  <1>3. SeqsUnique' BY <1>1 DEF SeqInv, SeqsUnique
  <1>4. NeverAgain' BY <1>2 DEF SeqInv, NeverAgain, Published
  <1>5. ASSUME NEW s \in Streams PROVE ScanOK(s)'
    BY <1>2 DEF SeqInv, ScanOK, PubFrame, Scanning, SlotHolds
  <1> QED BY <1>3, <1>4, <1>5 DEF SeqInv

\* A seq is claimed: it is larger than every seq seen before.
LEMMA ClaimSeqs ==
  ASSUME TypeInv, SeqInv, NEW p \in Pubs, PubFrame(p), ClaimSeq(p)
  PROVE  SeqInv'
  <1>0. /\ ppc \in [Pubs -> PubPC] /\ ptopic \in [Pubs -> Topics] /\ pseq \in [Pubs -> Seqs]
        /\ writeSeq \in [Topics -> Seqs] /\ ringSeq \in [Topics -> [SlotIdx -> Seqs \cup {SeqWriting}]]
        /\ stopic \in [Streams -> Topics] /\ cur \in [Streams -> Seqs] /\ rseq \in [Streams -> Seqs]
        /\ ptopic[p] \in Topics /\ Seqs \subseteq Nat
        /\ \A s \in Streams : rseq[s] <= cur[s]
    BY DEF TypeInv, TypeOK, LocalsOK, Seqs
  <1> DEFINE t == ptopic[p]
             w == writeSeq[t]
  <1>1. /\ ppc[p] = "loaned" /\ ppc' = [ppc EXCEPT ![p] = "claimed"] /\ ptopic' = ptopic
        /\ pseq' = [pseq EXCEPT ![p] = w + 1] /\ writeSeq' = [writeSeq EXCEPT ![t] = w + 1]
        /\ ringSeq' = ringSeq /\ w \in Nat
    BY <1>0 DEF ClaimSeq, Step
  <1>2. \A q \in Pubs : q # p => Committing(q)' = Committing(q) /\ pseq'[q] = pseq[q]
    BY <1>0, <1>1 DEF Committing, InSlot
  <1>3. ~Committing(p) /\ pseq'[p] = w + 1 /\ ptopic'[p] = t BY <1>0, <1>1 DEF Committing, InSlot
  <1>4. \A u \in Topics : writeSeq[u] \in Nat /\ writeSeq'[u] \in Nat /\ writeSeq[u] <= writeSeq'[u]
    <2>1. writeSeq'[t] = w + 1 /\ w + 1 \in Nat /\ w <= w + 1 BY <1>0, <1>1
    <2>2. \A u \in Topics : u # t => writeSeq'[u] = writeSeq[u] BY <1>0, <1>1
    <2>3. \A u \in Topics : writeSeq[u] \in Nat BY <1>0
    <2> QED BY <2>1, <2>2, <2>3
  <1>5. writeSeq'[t] = w + 1 BY <1>0, <1>1
  <1>6. SeqsUnique'
    <2>1. \A q \in Pubs : Committing(q)' => pseq'[q] > 0 /\ pseq'[q] <= writeSeq'[ptopic'[q]]
      <3>1. \A q \in Pubs : q # p /\ Committing(q) => pseq[q] > 0 /\ pseq[q] <= writeSeq[ptopic[q]]
        BY DEF SeqInv, SeqsUnique
      <3>2. \A q \in Pubs : pseq[q] \in Nat /\ ptopic[q] \in Topics BY <1>0
      <3>3. \A q \in Pubs : q # p /\ Committing(q)' => pseq'[q] > 0 /\ pseq'[q] <= writeSeq'[ptopic'[q]]
        BY <1>1, <1>2, <1>4, <3>1, <3>2
      <3> QED BY <1>1, <1>3, <1>5, <3>3
    <2>2. \A q \in Pubs : q # p /\ Committing(q)' /\ ptopic'[q] = t => pseq'[q] # w + 1
      <3>1. \A q \in Pubs : q # p /\ Committing(q) /\ ptopic[q] = t => pseq[q] <= w
        BY DEF SeqInv, SeqsUnique
      <3>2. \A q \in Pubs : pseq[q] \in Nat BY <1>0
      <3> QED BY <1>1, <1>2, <3>1, <3>2
    <2>3. \A q, r \in Pubs : q # r /\ q # p /\ r # p /\ Committing(q)' /\ Committing(r)'
                              /\ ptopic'[q] = ptopic'[r] => pseq'[q] # pseq'[r]
      BY <1>1, <1>2 DEF SeqInv, SeqsUnique
    <2> QED BY <1>3, <2>1, <2>2, <2>3 DEF SeqsUnique
  <1>7. \A q \in Pubs, u \in Topics, n \in Nat :
          n <= writeSeq[u] /\ PendingOn(q, u, n)' => PendingOn(q, u, n)
    <2>1. \A u \in Topics, n \in Nat : n <= writeSeq[u] => ~PendingOn(p, u, n)'
      BY <1>0, <1>1, <1>3 DEF PendingOn
    <2> QED BY <1>1, <1>2, <2>1 DEF PendingOn
  <1>8. NeverAgain'
    <2> SUFFICES ASSUME NEW u \in Topics, NEW i \in SlotIdx, Published(u, i)
                 PROVE  ringSeq[u][i] <= writeSeq'[u] /\ \A q \in Pubs : ~PendingOn(q, u, ringSeq[u][i])'
      BY <1>1 DEF NeverAgain, Published, PendingOn
    <2>t. ringSeq[u][i] \in Seqs \cup {SeqWriting} BY <1>0
    <2>1. ringSeq[u][i] \in Nat BY <1>0, <2>t DEF Published
    <2>2. ringSeq[u][i] <= writeSeq[u] /\ \A q \in Pubs : ~PendingOn(q, u, ringSeq[u][i])
      BY DEF SeqInv, NeverAgain
    <2>3. ringSeq[u][i] <= writeSeq'[u] BY <1>4, <2>1, <2>2
    <2>4. \A q \in Pubs : ~PendingOn(q, u, ringSeq[u][i])'
      <3>1. \A q \in Pubs, n \in Nat : PendingOn(q, u, n)' /\ n <= writeSeq[u] => PendingOn(q, u, n)
        BY <1>7
      <3> QED BY <1>1, <2>1, <2>2, <3>1 DEF PendingOn
    <2> QED BY <2>3, <2>4
  <1>9. ASSUME NEW s \in Streams PROVE ScanOK(s)'
    <2>1. UNCHANGED <<spc, stopic, last, cur, rseq, held, ringSeq>> BY <1>1 DEF PubFrame
    <2>2. stopic[s] \in Topics /\ cur[s] \in Nat /\ rseq[s] \in Nat BY <1>0
    <2>3. ScanOK(s) BY DEF SeqInv
    <2>4. Scanning(s) => cur[s] <= writeSeq'[stopic[s]] BY <1>4, <2>2, <2>3 DEF ScanOK
    <2>5. Scanning(s) /\ spc[s] # "scan" => \A q \in Pubs : ~PendingOn(q, stopic[s], rseq[s])'
      <3>1. Scanning(s) => rseq[s] <= writeSeq[stopic[s]] BY <1>0, <1>4, <2>2, <2>3 DEF ScanOK
      <3>2. \A q \in Pubs : PendingOn(q, stopic[s], rseq[s])' /\ rseq[s] <= writeSeq[stopic[s]]
                            => PendingOn(q, stopic[s], rseq[s])
        <4>1. \A q \in Pubs, n \in Nat : PendingOn(q, stopic[s], n)' /\ n <= writeSeq[stopic[s]]
                                           => PendingOn(q, stopic[s], n)
          BY <1>7, <2>1, <2>2 DEF PendingOn
        <4> QED BY <2>1, <2>2, <4>1 DEF PendingOn
      <3> QED BY <2>3, <3>1, <3>2 DEF ScanOK
    <2>6. Scanning(s)' = Scanning(s) /\ SlotHolds(s)' = SlotHolds(s) BY <2>1 DEF Scanning, SlotHolds
    <2> QED BY <2>1, <2>3, <2>4, <2>5, <2>6 DEF ScanOK, PendingOn
  <1> QED BY <1>6, <1>8, <1>9 DEF SeqInv

\* A slot is marked.
LEMMA MarkSeqs ==
  ASSUME TypeInv, SeqInv, NEW p \in Pubs, PubFrame(p), MarkStore(p) \/ MarkCas(p) \/ ForceClaim(p)
  PROVE  SeqInv'
  <1>0. /\ ppc \in [Pubs -> PubPC] /\ ptopic[p] \in Topics /\ Slot(pseq[p]) \in SlotIdx
        /\ ringSeq \in [Topics -> [SlotIdx -> Seqs \cup {SeqWriting}]]
        /\ \A s \in Streams : rseq[s] \in Nat /\ stopic[s] \in Topics /\ Slot(rseq[s]) \in SlotIdx
    BY SlotType DEF TypeInv, TypeOK, Seqs
  <1>1. /\ ppc[p] \in {"claimed", "forcing"} /\ ppc' = [ppc EXCEPT ![p] = "marked"] /\ UNCHANGED <<ptopic, pseq, writeSeq>>
        /\ ringSeq' = [ringSeq EXCEPT ![ptopic[p]] = [ringSeq[ptopic[p]] EXCEPT ![Slot(pseq[p])] = SeqWriting]]
    BY DEF MarkStore, MarkCas, ForceClaim, Step, SetMySeq
  <1>2. \A q \in Pubs : Committing(q)' = Committing(q)
    BY <1>0, <1>1 DEF Committing, InSlot
  <1>3. \A q \in Pubs : \A t, n : PendingOn(q, t, n)' = PendingOn(q, t, n) BY <1>1, <1>2 DEF PendingOn
  <1>4. \A t \in Topics, i \in SlotIdx : ringSeq'[t][i] = ringSeq[t][i] \/ ringSeq'[t][i] = SeqWriting
    BY <1>0, <1>1
  <1>5. SeqsUnique' BY <1>1, <1>2 DEF SeqInv, SeqsUnique
  <1>6. NeverAgain' BY <1>1, <1>3, <1>4 DEF SeqInv, NeverAgain, Published
  <1>7. ASSUME NEW s \in Streams PROVE ScanOK(s)'
    <2>1. UNCHANGED <<spc, stopic, last, cur, rseq, held>> BY DEF PubFrame
    <2>2. SlotHolds(s)' => SlotHolds(s) BY <1>0, <1>4, <2>1, RingAssumption DEF SlotHolds
    <2> QED BY <1>1, <1>3, <2>1, <2>2 DEF SeqInv, ScanOK, Scanning
  <1> QED BY <1>5, <1>6, <1>7 DEF SeqInv

\* A slot is closed: with a seq that no stream has seen in a slot before.
LEMMA CloseSeqs ==
  ASSUME TypeInv, SeqInv, NEW p \in Pubs, PubFrame(p), CloseSlot(p)
  PROVE  SeqInv'
  <1>0. /\ ppc \in [Pubs -> PubPC] /\ ptopic \in [Pubs -> Topics] /\ pseq \in [Pubs -> Seqs]
        /\ ptopic[p] \in Topics /\ Slot(pseq[p]) \in SlotIdx
        /\ ringSeq \in [Topics -> [SlotIdx -> Seqs \cup {SeqWriting}]]
        /\ \A s \in Streams : rseq[s] \in Nat /\ stopic[s] \in Topics /\ Slot(rseq[s]) \in SlotIdx
    BY SlotType DEF TypeInv, TypeOK, Seqs
  <1>1. /\ ppc[p] = "lenset" /\ ppc' = [ppc EXCEPT ![p] = "closed"] /\ writeSeq' = writeSeq
        /\ ringSeq' = [ringSeq EXCEPT ![ptopic[p]] = [ringSeq[ptopic[p]] EXCEPT ![Slot(pseq[p])] = pseq[p]]]
    BY DEF CloseSlot, Step, SetMySeq
  <1>2. Committing(p) /\ ~Committing(p)' BY <1>0, <1>1 DEF Committing, InSlot
  <1>3. \A q \in Pubs : Committing(q)' => q # p /\ Committing(q) /\ ptopic'[q] = ptopic[q] /\ pseq'[q] = pseq[q]
    BY <1>2 DEF PubFrame, Committing, InSlot
  <1>4. \A q \in Pubs : \A t, n : PendingOn(q, t, n)' => q # p /\ PendingOn(q, t, n) BY <1>3 DEF PendingOn
  <1>5. \A t \in Topics, i \in SlotIdx :
          \/ ringSeq'[t][i] = ringSeq[t][i]
          \/ t = ptopic[p] /\ i = Slot(pseq[p]) /\ ringSeq'[t][i] = pseq[p]
    BY <1>0, <1>1
  <1>6. SeqsUnique' BY <1>1, <1>3 DEF SeqInv, SeqsUnique
  <1>7. NeverAgain'
    <2>1. pseq[p] <= writeSeq[ptopic[p]] BY <1>2 DEF SeqInv, SeqsUnique
    <2> SUFFICES ASSUME NEW t \in Topics, NEW i \in SlotIdx, Published(t, i)'
                 PROVE  ringSeq'[t][i] <= writeSeq[t] /\ \A q \in Pubs : ~PendingOn(q, t, ringSeq[t][i])'
      BY <1>1 DEF NeverAgain
    <2>3. CASE ringSeq'[t][i] = ringSeq[t][i]
      <3>1. Published(t, i) BY <2>3 DEF Published
      <3>2. ringSeq[t][i] <= writeSeq[t] /\ \A q \in Pubs : ~PendingOn(q, t, ringSeq[t][i])
        BY <3>1 DEF SeqInv, NeverAgain
      <3>3. \A q \in Pubs : ~PendingOn(q, t, ringSeq[t][i])'
        BY <1>3, <2>3, <3>2 DEF PendingOn
      <3> QED BY <2>3, <3>2, <3>3
    <2>4. CASE t = ptopic[p] /\ i = Slot(pseq[p]) /\ ringSeq'[t][i] = pseq[p]
      <3>1. \A q \in Pubs : ~PendingOn(q, t, ringSeq[t][i])'
        BY <1>2, <1>3, <2>4 DEF SeqInv, SeqsUnique, PendingOn
      <3> QED BY <2>1, <2>4, <3>1
    <2> QED BY <1>5, <2>3, <2>4
  <1>8. ASSUME NEW s \in Streams PROVE ScanOK(s)'
    <2>1. UNCHANGED <<spc, stopic, last, cur, rseq, held>> BY DEF PubFrame
    <2>2. ScanOK(s) BY DEF SeqInv
    <2>3. Scanning(s) /\ spc[s] # "scan" => \A q \in Pubs : ~PendingOn(q, stopic[s], rseq[s])'
      BY <1>3, <2>1, <2>2 DEF ScanOK, PendingOn
    <2>4. Scanning(s) /\ spc[s] # "scan" => ~(ptopic[p] = stopic[s] /\ pseq[p] = rseq[s])
      BY <1>2, <2>2 DEF ScanOK, PendingOn
    <2>5. spc[s] \in {"undo", "free"} => ~SlotHolds(s)'
      <3>1. spc[s] \in {"undo", "free"} => ~SlotHolds(s) BY <2>2 DEF ScanOK
      <3>2. SlotHolds(s)' => SlotHolds(s) \/ (ptopic[p] = stopic[s] /\ pseq[p] = rseq[s])
        BY <1>0, <1>5, <2>1 DEF SlotHolds
      <3> QED BY <2>4, <3>1, <3>2 DEF Scanning
    <2> QED BY <1>1, <2>1, <2>2, <2>3, <2>5 DEF ScanOK, Scanning
  <1> QED BY <1>6, <1>7, <1>8 DEF SeqInv

\* NextSlot in terms of the stream's own locals.
LEMMA NextSlotCases ==
  ASSUME TypeInv, NEW s \in Streams, NextSlot(s)
  PROVE  \/ rseq[s] = cur[s] /\ spc'[s] = "idle"
         \/ rseq[s] < cur[s] /\ spc'[s] = "scan" /\ rseq'[s] = rseq[s] + 1 /\ cur'[s] = cur[s]
  <1>1. rseq[s] \in Nat /\ cur[s] \in Nat /\ rseq[s] <= cur[s]
        /\ spc \in [Streams -> StreamPC] /\ rseq \in [Streams -> Seqs]
    BY DEF TypeInv, TypeOK, LocalsOK, Seqs
  <1>2. CASE rseq[s] = cur[s]
    BY <1>1, <1>2 DEF NextSlot, Finish, StreamStep
  <1>3. CASE rseq[s] # cur[s]
    <2>1. spc'[s] = "scan" /\ rseq'[s] = rseq[s] + 1 /\ cur'[s] = cur[s]
      BY <1>1, <1>3 DEF NextSlot, StreamStep
    <2>2. rseq[s] < cur[s] BY <1>1, <1>3
    <2> QED BY <2>1, <2>2
  <1> QED BY <1>2, <1>3

\* The steps of a stream keep the invariant on seqs.
LEMMA StreamSeqs ==
  ASSUME TypeInv, SeqInv, NEW s \in Streams, StreamNext(s)
  PROVE  SeqInv'
  <1>f. StreamFrame(s) BY StreamStepFrame
  <1>g. UNCHANGED <<writeSeq, ringSeq, ppc, ptopic, pseq>> BY <1>f DEF StreamFrame
  <1>p. \A q \in Pubs : \A t, n : PendingOn(q, t, n)' <=> PendingOn(q, t, n)
    BY <1>g DEF PendingOn, Committing, InSlot
  <1>u. SeqsUnique' BY <1>g DEF SeqInv, SeqsUnique, Committing, InSlot
  <1>a. NeverAgain' BY <1>g DEF SeqInv, NeverAgain, Published, PendingOn, Committing, InSlot
  <1>x. ASSUME NEW x \in Streams, x # s PROVE ScanOK(x)'
    <2>1. /\ spc'[x] = spc[x] /\ stopic'[x] = stopic[x] /\ last'[x] = last[x] /\ cur'[x] = cur[x]
          /\ rseq'[x] = rseq[x] /\ held'[x] = held[x]
      BY <1>f, <1>x DEF StreamFrame
    <2>2. SlotHolds(x)' = SlotHolds(x) /\ Scanning(x)' = Scanning(x) BY <1>g, <2>1 DEF SlotHolds, Scanning
    <2>3. \A q \in Pubs : PendingOn(q, stopic[x], rseq[x])' = PendingOn(q, stopic[x], rseq[x])
      BY <1>g, <2>1 DEF PendingOn, Committing, InSlot
    <2> QED BY <1>g, <2>1, <2>2, <2>3 DEF SeqInv, ScanOK
  <1> SUFFICES ScanOK(s)' BY <1>u, <1>a, <1>x DEF SeqInv
  <1>0. /\ spc \in [Streams -> StreamPC] /\ stopic \in [Streams -> Topics] /\ last \in [Streams -> Seqs]
        /\ cur \in [Streams -> Seqs] /\ rseq \in [Streams -> Seqs] /\ held \in [Streams -> SUBSET Samples]
        /\ writeSeq \in [Topics -> Seqs] /\ Seqs \subseteq Nat
        /\ ringSeq \in [Topics -> [SlotIdx -> Seqs \cup {SeqWriting}]]
    BY DEF TypeInv, TypeOK, Seqs
  <1>s. ScanOK(s) BY DEF SeqInv
  <1>q. \A q \in Pubs : /\ stopic'[s] = stopic[s] /\ rseq'[s] = rseq[s]
                           => (PendingOn(q, stopic[s], rseq[s])' <=> PendingOn(q, stopic[s], rseq[s]))
    BY <1>g DEF PendingOn, Committing, InSlot
  <1>h. stopic'[s] = stopic[s] /\ rseq'[s] = rseq[s] => SlotHolds(s)' = SlotHolds(s)
    BY <1>g DEF SlotHolds
  <1>n. ASSUME Scanning(s), NextSlot(s), stopic'[s] = stopic[s], last'[s] = last[s], held'[s] = held[s]
        PROVE  ScanOK(s)'
    <2>1. /\ rseq[s] \in Nat /\ last[s] \in Nat BY <1>0
    <2>2. last[s] < rseq[s] /\ cur[s] <= writeSeq[stopic[s]] /\ \A h \in held[s] : h.seq <= last[s]
      BY <1>n, <1>s DEF ScanOK
    <2>3. spc'[s] = "idle" \/ (spc'[s] = "scan" /\ rseq'[s] = rseq[s] + 1 /\ cur'[s] = cur[s])
      BY <1>n, NextSlotCases
    <2>4. rseq'[s] = rseq[s] + 1 => last[s] < rseq'[s] BY <2>1, <2>2
    <2> QED BY <1>g, <1>n, <2>2, <2>3, <2>4 DEF ScanOK, Scanning
  <1>k. \* the slot looked at stays the same
        ASSUME Scanning(s), Scanning(s)', UNCHANGED <<stopic, last, held, cur, rseq>>,
               spc[s] = "scan" => SlotHolds(s),
               spc'[s] \in {"undo", "free"} => ~SlotHolds(s)
        PROVE  ScanOK(s)'
    <2>1. \A q \in Pubs : ~PendingOn(q, stopic[s], rseq[s])
      <3>1. CASE spc[s] # "scan" BY <1>k, <1>s, <3>1 DEF ScanOK
      <3>2. CASE spc[s] = "scan"
        <4>1. stopic[s] \in Topics /\ rseq[s] \in Nat /\ Slot(rseq[s]) \in SlotIdx /\ last[s] \in Nat
          BY <1>0, SlotType
        <4>2. rseq[s] # 0 /\ rseq[s] # SeqWriting
          BY <1>k, <1>s, <4>1, RingAssumption DEF ScanOK
        <4>3. Published(stopic[s], Slot(rseq[s])) /\ ringSeq[stopic[s]][Slot(rseq[s])] = rseq[s]
          BY <1>k, <3>2, <4>2 DEF Published, SlotHolds
        <4> QED BY <4>1, <4>3 DEF SeqInv, NeverAgain
      <3> QED BY <3>1, <3>2
    <2>2. \A q \in Pubs : ~PendingOn(q, stopic[s], rseq[s])' BY <1>k, <1>q, <2>1
    <2>3. SlotHolds(s)' = SlotHolds(s) BY <1>k, <1>h
    <2>4. /\ last[s] < rseq[s] /\ cur[s] <= writeSeq[stopic[s]] /\ \A h \in held[s] : h.seq <= last[s]
          /\ Scanning(s)' => spc'[s] # "off"
      BY <1>k, <1>s DEF ScanOK, Scanning
    <2> QED BY <1>g, <1>k, <2>2, <2>3, <2>4 DEF ScanOK
  <1>1. ASSUME NEW t \in Topics, Subscribe(s, t) PROVE ScanOK(s)'
    <2>1. /\ spc[s] = "off" /\ spc'[s] = "idle" /\ held' = held BY <1>0, <1>1 DEF Subscribe, StreamStep
    <2>2. held[s] = {} BY <1>s, <2>1 DEF ScanOK
    <2> QED BY <2>1, <2>2 DEF ScanOK, Scanning
  <1>2. CASE DropStream(s)
    <2>1. spc'[s] = "off" /\ held'[s] = {} BY <1>0, <1>2 DEF DropStream, StreamStep
    <2> QED BY <2>1 DEF ScanOK, Scanning
  <1>3. CASE TryRecv(s)
    <2>1. /\ spc[s] = "idle" /\ spc'[s] = "scan" /\ UNCHANGED <<stopic, last, held>>
          /\ cur'[s] = writeSeq[stopic[s]] /\ rseq'[s] = ScanStart(writeSeq[stopic[s]], last[s])
          /\ writeSeq[stopic[s]] > last[s]
      BY <1>0, <1>3 DEF TryRecv, StreamStep
    <2>2. last[s] \in Nat /\ writeSeq[stopic[s]] \in Nat BY <1>0
    <2>3. rseq'[s] \in last[s] + 1 .. writeSeq[stopic[s]] BY <2>1, <2>2, ScanStartBounds
    <2>4. last[s] < rseq'[s] BY <2>2, <2>3
    <2>5. cur'[s] <= writeSeq[stopic[s]] BY <2>1, <2>2
    <2>6. \A h \in held[s] : h.seq <= last[s] BY <1>s DEF ScanOK
    <2> QED BY <1>g, <2>1, <2>4, <2>5, <2>6 DEF ScanOK
  <1>4. CASE Check1(s)
    <2>1. CASE SlotHolds(s)
      <3>1. /\ spc[s] = "scan" /\ spc'[s] = "readblk" /\ UNCHANGED <<stopic, last, held, cur, rseq>>
        BY <1>0, <1>4, <2>1 DEF Check1, StreamStep
      <3> QED BY <1>k, <2>1, <3>1 DEF Scanning
    <2>2. CASE ~SlotHolds(s)
      BY <1>4, <1>n, <2>2 DEF Check1, Scanning
    <2> QED BY <2>1, <2>2
  <1>5. CASE ReadBlk(s)
    <2>1. /\ spc[s] = "readblk" /\ spc'[s] = "readlen" /\ UNCHANGED <<stopic, last, held, cur, rseq>>
      BY <1>0, <1>5 DEF ReadBlk, StreamStep
    <2> QED BY <1>k, <2>1 DEF Scanning
  <1>6. CASE ReadLen(s)
    <2>1. CASE rblk[s] # NoBlock
      <3>1. /\ spc[s] = "readlen" /\ spc'[s] = "acquire" /\ UNCHANGED <<stopic, last, held, cur, rseq>>
        BY <1>0, <1>6, <2>1 DEF ReadLen, StreamStep
      <3> QED BY <1>k, <3>1 DEF Scanning
    <2>2. CASE rblk[s] = NoBlock
      BY <1>6, <1>n, <2>2 DEF ReadLen, Scanning
    <2> QED BY <2>1, <2>2
  <1>7. CASE Acquire(s)
    <2>1. CASE rc[rblk[s]] # 0
      <3>1. /\ spc[s] = "acquire" /\ spc'[s] = "check" /\ UNCHANGED <<stopic, last, held, cur, rseq>>
        BY <1>0, <1>7, <2>1 DEF Acquire, StreamStep
      <3> QED BY <1>k, <3>1 DEF Scanning
    <2>2. CASE rc[rblk[s]] = 0
      BY <1>7, <1>n, <2>2 DEF Acquire, Scanning
    <2> QED BY <2>1, <2>2
  <1>8. CASE Check2(s)
    <2>1. CASE SlotHolds(s)
      <3>1. /\ spc[s] = "check" /\ spc'[s] = "idle" /\ last'[s] = rseq[s]
            /\ held'[s] = held[s] \cup {[seq |-> rseq[s], blk |-> rblk[s], len |-> rlen[s]]}
        BY <1>0, <1>8, <2>1 DEF Check2, Finish, StreamStep
      <3>2. /\ last[s] < rseq[s] /\ last[s] \in Nat /\ rseq[s] \in Nat
            /\ \A h \in held[s] : h.seq <= last[s] /\ h.seq \in Nat
        <4>1. last[s] < rseq[s] /\ \A h \in held[s] : h.seq <= last[s]
          BY <1>s, <3>1 DEF ScanOK, Scanning
        <4>2. held[s] \subseteq Samples BY <1>0
        <4>3. \A h \in Samples : h.seq \in Nat BY <1>0 DEF Samples
        <4> QED BY <1>0, <4>1, <4>2, <4>3
      <3>3. \A h \in held[s] : h.seq <= rseq[s] BY <3>2
      <3>4. \A h \in held'[s] : h.seq <= rseq[s] BY <3>1, <3>2, <3>3
      <3> QED BY <3>1, <3>4 DEF ScanOK, Scanning
    <2>2. CASE ~SlotHolds(s)
      <3>1. /\ spc[s] = "check" /\ spc'[s] = "undo" /\ UNCHANGED <<stopic, last, held, cur, rseq>>
        BY <1>0, <1>8, <2>2 DEF Check2, StreamStep
      <3> QED BY <1>k, <2>2, <3>1 DEF Scanning
    <2> QED BY <2>1, <2>2
  <1>9. CASE Undo(s)
    <2>1. CASE rc[rblk[s]] = 1
      <3>1. /\ spc[s] = "undo" /\ spc'[s] = "free" /\ UNCHANGED <<stopic, last, held, cur, rseq>>
        BY <1>0, <1>9, <2>1 DEF Undo, StreamStep
      <3>2. ~SlotHolds(s) BY <1>s, <3>1 DEF ScanOK
      <3> QED BY <1>k, <3>1, <3>2 DEF Scanning
    <2>2. CASE rc[rblk[s]] # 1
      BY <1>9, <1>n, <2>2 DEF Undo, Scanning
    <2> QED BY <2>1, <2>2
  <1>10. CASE UndoFree(s)
    BY <1>10, <1>n DEF UndoFree, Scanning
  <1>11. CASE DropSampleFree(s)
    <2>1. spc'[s] = "idle" /\ held' = held /\ last' = last BY <1>0, <1>11 DEF DropSampleFree, StreamStep
    <2> QED BY <1>s, <2>1 DEF ScanOK, Scanning
  <1>12. ASSUME NEW g \in held[s], DropSample(s, g) PROVE ScanOK(s)'
    <2>1. /\ spc'[s] \in {"idle", "unheld"} /\ held'[s] = held[s] \ {g} /\ last' = last
      BY <1>0, <1>12 DEF DropSample, StreamStep
    <2> QED BY <1>s, <2>1 DEF ScanOK, Scanning
  <1> QED BY <1>1, <1>2, <1>3, <1>4, <1>5, <1>6, <1>7, <1>8, <1>9, <1>10, <1>11, <1>12
          DEF StreamNext, ReceiveStep

-----------------------------------------------------------------------------
(***************************************************************************)
(* Contents.  A closed slot names a block that holds the message of its    *)
(* seq and the length of it; so does the block of a commit in progress and *)
(* of a sample.  A process that crashed inside a slot promises nothing of  *)
(* the slot, which the next publisher may have claimed by force.           *)
(***************************************************************************)
MyLen(p) == ringLen[ptopic[p]][Slot(pseq[p])]

RingContent(t, i) ==
  Published(t, i) => /\ ringBlk[t][i] \in Blocks
                     /\ ringLen[t][i] = ringSeq[t][i]
                     /\ data[ringBlk[t][i]] = <<t, ringSeq[t][i]>>

PubContent(p) ==
  /\ ppc[p] \in {"claimed", "forcing", "marked", "oldread", "rcset"} =>
       data[pblk[p]] = <<ptopic[p], pseq[p]>>
  /\ p \notin crashed =>
       /\ ppc[p] \in {"oldread", "rcset"} => pold[p] = MyBlk(p)
       /\ ppc[p] \in {"idxset", "lenset"} =>
            MyBlk(p) \in Blocks /\ data[MyBlk(p)] = <<ptopic[p], pseq[p]>>
       /\ ppc[p] = "lenset" => MyLen(p) = pseq[p]

ReadContent(s) ==
  /\ spc[s] = "readblk" => ringBlk[stopic[s]][Slot(rseq[s])] \in Blocks
  /\ spc[s] = "readlen" => rblk[s] \in Blocks
  /\ spc[s] \in {"readlen", "acquire", "check"} /\ SlotHolds(s) =>
       rblk[s] = ringBlk[stopic[s]][Slot(rseq[s])]
  /\ spc[s] \in {"acquire", "check"} /\ SlotHolds(s) =>
       rlen[s] = ringLen[stopic[s]][Slot(rseq[s])]

ContentInv ==
  /\ \A t \in Topics, i \in SlotIdx : RingContent(t, i)
  /\ \A p \in Pubs : PubContent(p)
  /\ \A s \in Streams : ReadContent(s)
  /\ SampleIntegrity

RingInv == MutexInv /\ BalanceInv /\ SeqInv /\ ContentInv

\* The initial state: no message.
LEMMA InitContent == Init => ContentInv
  BY RingAssumption DEF Init, ContentInv, RingContent, PubContent, ReadContent, SampleIntegrity, Published

\* Nobody refers to a block that a publisher keeps, caches or has lent.
LEMMA PrivateBlock ==
  ASSUME TypeInv, BalanceInv, NEW p \in Pubs, NEW b \in Blocks, OwnPlaces(p, b) # 0
  PROVE  /\ \A t \in Topics, i \in SlotIdx : ringBlk[t][i] # b
         /\ \A s \in Streams : \A h \in held[s] : h.blk # b
         /\ \A q \in Pubs : q # p /\ ppc[q] \in {"claimed", "forcing", "marked", "oldread", "rcset"} => pblk[q] # b
  <1>1. rc[b] = 0 /\ \A q \in Pubs : q # p => Loan(q) # b BY OwnPlace
  <1>2. RingRefs(b) = {} /\ NewRefs(b) = {} /\ HeldRefs(b) = {} BY <1>1, NoRefs
  <1>3. ASSUME NEW t \in Topics, NEW i \in SlotIdx PROVE ringBlk[t][i] # b
    <2>1. <<t, i>> \notin RingRefs(b) BY <1>2
    <2> QED BY <2>1 DEF RingRefs
  <1>4. ASSUME NEW s \in Streams, NEW h \in held[s] PROVE h.blk # b
    <2>1. <<s, h>> \notin HeldRefs(b) BY <1>2
    <2> QED BY <2>1 DEF HeldRefs, TypeInv, TypeOK
  <1>5. \A q \in Pubs : NewRef(q) # b BY <1>2 DEF NewRefs
  <1>6. \A q \in Pubs : q # p /\ ppc[q] \in {"claimed", "forcing", "marked", "oldread", "rcset"} => pblk[q] # b
    BY <1>1, <1>5 DEF Loan, NewRef
  <1> QED BY <1>3, <1>4, <1>6

\* A step of p outside the slots: it may write to a block that is its own.
LEMMA OutsideContent ==
  ASSUME TypeInv, BalanceInv, ContentInv, NEW p \in Pubs, PubFrame(p),
         UNCHANGED <<ringSeq, ringBlk, ringLen>>,
         \A c \in Blocks : data'[c] = data[c] \/ OwnPlaces(p, c) # 0,
         PubContent(p)'
  PROVE  ContentInv'
  <1>0. /\ pblk \in [Pubs -> MaybeBlock] /\ held \in [Streams -> SUBSET Samples]
        /\ \A q \in Pubs : ppc[q] \in {"claimed", "forcing", "marked", "oldread", "rcset"} => pblk[q] \in Blocks
        /\ \A q \in Pubs : ptopic[q] \in Topics /\ Slot(pseq[q]) \in SlotIdx
    BY SlotType DEF TypeInv, TypeOK, LocalsOK, Seqs
  <1>1. ASSUME NEW t \in Topics, NEW i \in SlotIdx, ringBlk[t][i] \in Blocks
        PROVE  data'[ringBlk[t][i]] = data[ringBlk[t][i]]
    BY <1>1, PrivateBlock
  <1>2. ASSUME NEW s \in Streams, NEW h \in held[s] PROVE data'[h.blk] = data[h.blk]
    <2>1. h.blk \in Blocks BY <1>0 DEF Samples
    <2> QED BY <2>1, PrivateBlock
  <1>3. ASSUME NEW q \in Pubs, q # p, ppc[q] \in {"claimed", "forcing", "marked", "oldread", "rcset"}
        PROVE  data'[pblk[q]] = data[pblk[q]]
    BY <1>0, <1>3, PrivateBlock
  <1>4. ASSUME NEW t \in Topics, NEW i \in SlotIdx PROVE RingContent(t, i)'
    BY <1>1 DEF ContentInv, RingContent, Published
  <1>5. ASSUME NEW q \in Pubs PROVE PubContent(q)'
    <2>1. CASE q # p
      <3>1. PubContent(q) BY DEF ContentInv
      <3>2. /\ ppc'[q] = ppc[q] /\ pblk'[q] = pblk[q] /\ ptopic'[q] = ptopic[q] /\ pseq'[q] = pseq[q]
            /\ pold'[q] = pold[q] /\ crashed' = crashed
        BY <2>1 DEF PubFrame
      <3>3. MyBlk(q)' = MyBlk(q) /\ MyLen(q)' = MyLen(q) BY <3>2 DEF MyBlk, MyLen
      <3>4. MyBlk(q) \in Blocks => data'[MyBlk(q)] = data[MyBlk(q)] BY <1>0, <1>1 DEF MyBlk
      <3> QED BY <1>3, <2>1, <3>1, <3>2, <3>3, <3>4 DEF PubContent
    <2> QED BY <2>1
  <1>6. ASSUME NEW s \in Streams PROVE ReadContent(s)'
    BY DEF ContentInv, ReadContent, PubFrame, SlotHolds
  <1>7. SampleIntegrity' BY <1>2 DEF ContentInv, SampleIntegrity, PubFrame
  <1> QED BY <1>4, <1>5, <1>6, <1>7 DEF ContentInv

\* The steps of a publisher outside commit_to_ring write to the publisher's own block
\* only.
LEMMA LoanContent ==
  ASSUME TypeInv, BalanceInv, ContentInv, NEW p \in Pubs, PubFrame(p),
         \/ \E t \in Topics : LoanRecycled(p, t) \/ LoanCached(p, t) \/ LoanMiss(p, t)
         \/ Open(p) \/ Refill(p) \/ RefillDone(p) \/ PoolExhausted(p) \/ DropLoan(p) \/ ClaimSeq(p)
         \/ DropPublisher(p) \/ DropRecycled(p) \/ DropCached(p) \/ DropEnd(p)
  PROVE  ContentInv'
  <1> USE DEF Step, ringVars, pubVars, poolVars
  <1>0. /\ ppc \in [Pubs -> PubPC] /\ data \in [Blocks -> (Topics \X Seqs) \cup {Dirty}]
        /\ pblk \in [Pubs -> MaybeBlock] /\ pseq \in [Pubs -> Seqs]
        /\ cache \in [Pubs -> SUBSET Blocks] /\ lastFreed \in [Pubs -> MaybeBlock]
    BY DEF TypeInv, TypeOK
  <1>1. ASSUME NEW b \in Blocks, Lend(p, b), OwnPlaces(p, b) # 0, ppc'[p] = "loaned",
               UNCHANGED <<ringSeq, ringBlk, ringLen>>
        PROVE  ContentInv'
    <2>1. \A c \in Blocks : data'[c] = data[c] \/ OwnPlaces(p, c) # 0 BY <1>0, <1>1 DEF Lend
    <2>2. PubContent(p)' BY <1>1 DEF PubContent
    <2> QED BY <1>1, <2>1, <2>2, OutsideContent
  <1>2. ASSUME data' = data, UNCHANGED <<ringSeq, ringBlk, ringLen>>,
               ppc'[p] \in {"gone", "idle", "refill", "dropping"}
        PROVE  ContentInv'
    <2>1. PubContent(p)' BY <1>2 DEF PubContent
    <2> QED BY <1>2, <2>1, OutsideContent
  <1>3. ASSUME NEW t \in Topics, LoanRecycled(p, t) PROVE ContentInv'
    <2>1. lastFreed[p] \in Blocks /\ OwnPlaces(p, lastFreed[p]) # 0
      BY <1>0, <1>3 DEF LoanRecycled, MaybeBlock, OwnPlaces, One
    <2>2. Lend(p, lastFreed[p]) /\ ppc'[p] = "loaned" /\ UNCHANGED <<ringSeq, ringBlk, ringLen>>
      BY <1>0, <1>3 DEF LoanRecycled
    <2> QED BY <1>1, <2>1, <2>2
  <1>4. ASSUME (\E t \in Topics : LoanCached(p, t)) \/ RefillDone(p) PROVE ContentInv'
    <2>1. PICK b \in cache[p] : Lend(p, b) BY <1>4 DEF LoanCached, RefillDone
    <2>2. b \in Blocks /\ OwnPlaces(p, b) # 0 BY <1>0 DEF OwnPlaces, One
    <2>3. ppc'[p] = "loaned" /\ UNCHANGED <<ringSeq, ringBlk, ringLen>>
      BY <1>0, <1>4 DEF LoanCached, RefillDone
    <2> QED BY <1>1, <2>1, <2>2, <2>3
  <1>5. ASSUME \/ \E t \in Topics : LoanMiss(p, t)
               \/ Open(p) \/ Refill(p) \/ PoolExhausted(p) \/ DropLoan(p)
        PROVE  ContentInv'
    BY <1>0, <1>2, <1>5 DEF LoanMiss, Open, Refill, PoolExhausted, DropLoan
  <1>6. ASSUME DropPublisher(p) \/ DropRecycled(p) \/ DropCached(p) \/ DropEnd(p)
        PROVE  ContentInv'
    BY <1>0, <1>2, <1>6 DEF DropPublisher, DropRecycled, DropCached, DropEnd
  <1>7. CASE ClaimSeq(p)
    <2>1. /\ ppc[p] = "loaned" /\ ppc'[p] = "claimed" /\ pblk' = pblk /\ ptopic' = ptopic
          /\ pseq'[p] = writeSeq[ptopic[p]] + 1
          /\ data' = [data EXCEPT ![pblk[p]] = <<ptopic[p], writeSeq[ptopic[p]] + 1>>]
          /\ UNCHANGED <<ringSeq, ringBlk, ringLen>>
      BY <1>0, <1>7 DEF ClaimSeq
    <2>2. pblk[p] \in Blocks BY <2>1 DEF TypeInv, LocalsOK
    <2>3. OwnPlaces(p, pblk[p]) # 0 BY <2>1 DEF OwnPlaces, Loan, One
    <2>4. \A c \in Blocks : data'[c] = data[c] \/ OwnPlaces(p, c) # 0 BY <1>0, <2>1, <2>3
    <2>5. PubContent(p)' BY <1>0, <2>1, <2>2 DEF PubContent
    <2> QED BY <2>1, <2>4, <2>5, OutsideContent
  <1> QED BY <1>3, <1>4, <1>5, <1>6, <1>7

\* A live publisher inside a slot has it for itself.
LEMMA InsideAlone ==
  ASSUME MutexInv, NEW p \in Pubs, p \notin crashed, InSlot(p)
  PROVE  /\ MySeq(p) = SeqWriting
         /\ \A q \in Pubs : q # p /\ q \notin crashed /\ InSlot(q) => ~SameSlot(p, q)
  BY DEF MutexInv, SlotMarked, SlotMutex

\* A step of p inside its slot that writes the slot's block index or length.
LEMMA InsideContent ==
  ASSUME MutexInv, ContentInv, NEW p \in Pubs, PubFrame(p), InSlot(p),
         UNCHANGED <<ringSeq, data, ptopic, pseq>>,
         \A t \in Topics, i \in SlotIdx :
           \/ t = ptopic[p] /\ i = Slot(pseq[p])
           \/ ringBlk'[t][i] = ringBlk[t][i] /\ ringLen'[t][i] = ringLen[t][i],
         MyBlk(p) \in Blocks => MyBlk(p)' \in Blocks,
         PubContent(p)'
  PROVE  ContentInv'
  <1>0. /\ \A q \in Pubs : ptopic[q] \in Topics /\ Slot(pseq[q]) \in SlotIdx
        /\ \A s \in Streams : stopic[s] \in Topics /\ rseq[s] \in Nat /\ Slot(rseq[s]) \in SlotIdx
    BY SlotType DEF MutexInv, TypeInv, TypeOK, Seqs
  <1>a. p \notin crashed BY DEF PubFrame
  <1>1. ASSUME NEW t \in Topics, NEW i \in SlotIdx PROVE RingContent(t, i)'
    <2>1. CASE t = ptopic[p] /\ i = Slot(pseq[p])
      BY <1>a, <2>1, InsideAlone DEF RingContent, Published, MySeq
    <2>2. CASE ringBlk'[t][i] = ringBlk[t][i] /\ ringLen'[t][i] = ringLen[t][i]
      BY <2>2 DEF ContentInv, RingContent, Published
    <2> QED BY <2>1, <2>2
  <1>2. ASSUME NEW q \in Pubs PROVE PubContent(q)'
    <2>1. CASE q # p
      <3>1. PubContent(q) BY DEF ContentInv
      <3>2. /\ ppc'[q] = ppc[q] /\ pblk'[q] = pblk[q] /\ pold'[q] = pold[q] /\ crashed' = crashed
        BY <2>1 DEF PubFrame
      <3>3. q \notin crashed /\ InSlot(q) => MyBlk(q)' = MyBlk(q) /\ MyLen(q)' = MyLen(q)
        BY <1>0, <1>a, <2>1, InsideAlone DEF MyBlk, MyLen, SameSlot
      <3> QED BY <3>1, <3>2, <3>3 DEF PubContent, InSlot
    <2> QED BY <2>1
  <1>3. ASSUME NEW s \in Streams PROVE ReadContent(s)'
    <2>0. ReadContent(s) BY DEF ContentInv
    <2>1. UNCHANGED <<spc, stopic, rseq, rblk, rlen>> BY DEF PubFrame
    <2>2. SlotHolds(s)' = SlotHolds(s) BY <2>1 DEF SlotHolds
    <2>3. SlotHolds(s) => /\ ringBlk'[stopic[s]][Slot(rseq[s])] = ringBlk[stopic[s]][Slot(rseq[s])]
                          /\ ringLen'[stopic[s]][Slot(rseq[s])] = ringLen[stopic[s]][Slot(rseq[s])]
      <3>1. SlotHolds(s) => ~(stopic[s] = ptopic[p] /\ Slot(rseq[s]) = Slot(pseq[p]))
        BY <1>0, <1>a, InsideAlone, RingAssumption DEF SlotHolds, MySeq
      <3> QED BY <1>0, <3>1
    <2>4. ringBlk[stopic[s]][Slot(rseq[s])] \in Blocks => ringBlk'[stopic[s]][Slot(rseq[s])] \in Blocks
      BY <1>0 DEF MyBlk
    <2> QED BY <2>0, <2>1, <2>2, <2>3, <2>4 DEF ReadContent
  <1>4. SampleIntegrity' BY DEF ContentInv, SampleIntegrity, PubFrame
  <1> QED BY <1>1, <1>2, <1>3, <1>4 DEF ContentInv

\* A slot is marked: from then on it promises nothing.
LEMMA MarkContent ==
  ASSUME TypeInv, ContentInv, NEW p \in Pubs, PubFrame(p), MarkStore(p) \/ MarkCas(p) \/ ForceClaim(p)
  PROVE  ContentInv'
  <1>0. /\ ppc \in [Pubs -> PubPC] /\ ptopic[p] \in Topics /\ Slot(pseq[p]) \in SlotIdx
        /\ ringSeq \in [Topics -> [SlotIdx -> Seqs \cup {SeqWriting}]]
        /\ \A s \in Streams : rseq[s] \in Nat /\ stopic[s] \in Topics /\ Slot(rseq[s]) \in SlotIdx
    BY SlotType DEF TypeInv, TypeOK, Seqs
  <1>1. /\ ppc[p] \in {"claimed", "forcing"} /\ ppc' = [ppc EXCEPT ![p] = "marked"]
        /\ UNCHANGED <<ptopic, pseq, pblk, pold, ringBlk, ringLen, data>>
        /\ ringSeq' = [ringSeq EXCEPT ![ptopic[p]] = [ringSeq[ptopic[p]] EXCEPT ![Slot(pseq[p])] = SeqWriting]]
    BY DEF MarkStore, MarkCas, ForceClaim, Step, SetMySeq
  <1>2. \A t \in Topics, i \in SlotIdx : ringSeq'[t][i] = ringSeq[t][i] \/ ringSeq'[t][i] = SeqWriting
    BY <1>0, <1>1
  <1>3. ASSUME NEW t \in Topics, NEW i \in SlotIdx PROVE RingContent(t, i)'
    <2>1. RingContent(t, i) BY DEF ContentInv
    <2>2. CASE ringSeq'[t][i] = SeqWriting
      BY <2>2 DEF RingContent, Published
    <2>3. CASE ringSeq'[t][i] = ringSeq[t][i]
      BY <1>1, <2>1, <2>3 DEF RingContent, Published
    <2> QED BY <1>2, <2>2, <2>3
  <1>4. ASSUME NEW q \in Pubs PROVE PubContent(q)'
    <2>1. PubContent(q) BY DEF ContentInv
    <2>2. ppc'[q] = ppc[q] \/ (ppc[q] \in {"claimed", "forcing"} /\ ppc'[q] = "marked") BY <1>0, <1>1
    <2>3. MyBlk(q)' = MyBlk(q) /\ MyLen(q)' = MyLen(q) /\ crashed' = crashed
      BY <1>1 DEF MyBlk, MyLen, PubFrame
    <2> QED BY <1>1, <2>1, <2>2, <2>3 DEF PubContent
  <1>5. ASSUME NEW s \in Streams PROVE ReadContent(s)'
    <2>0. ReadContent(s) BY DEF ContentInv
    <2>1. UNCHANGED <<spc, stopic, rseq, rblk, rlen>> BY DEF PubFrame
    <2>2. SlotHolds(s)' => SlotHolds(s) BY <1>0, <1>2, <2>1, RingAssumption DEF SlotHolds
    <2> QED BY <1>1, <2>0, <2>1, <2>2 DEF ReadContent
  <1>6. SampleIntegrity' BY <1>1 DEF ContentInv, SampleIntegrity, PubFrame
  <1> QED BY <1>3, <1>4, <1>5, <1>6 DEF ContentInv

\* A slot is closed: block, length and payload are those of the seq it is closed with.
LEMMA CloseContent ==
  ASSUME TypeInv, SeqInv, ContentInv, NEW p \in Pubs, PubFrame(p), CloseSlot(p)
  PROVE  ContentInv'
  <1>0. /\ ppc \in [Pubs -> PubPC] /\ ptopic[p] \in Topics /\ Slot(pseq[p]) \in SlotIdx
        /\ ringSeq \in [Topics -> [SlotIdx -> Seqs \cup {SeqWriting}]]
        /\ \A s \in Streams : rseq[s] \in Nat /\ stopic[s] \in Topics /\ Slot(rseq[s]) \in SlotIdx
    BY SlotType DEF TypeInv, TypeOK, Seqs
  <1>1. /\ ppc[p] = "lenset" /\ ppc' = [ppc EXCEPT ![p] = "closed"]
        /\ UNCHANGED <<pblk, pold, ringBlk, ringLen, data>>
        /\ ringSeq' = [ringSeq EXCEPT ![ptopic[p]] = [ringSeq[ptopic[p]] EXCEPT ![Slot(pseq[p])] = pseq[p]]]
    BY DEF CloseSlot, Step, SetMySeq
  <1>2. \A t \in Topics, i \in SlotIdx :
          \/ ringSeq'[t][i] = ringSeq[t][i]
          \/ t = ptopic[p] /\ i = Slot(pseq[p]) /\ ringSeq'[t][i] = pseq[p]
    BY <1>0, <1>1
  <1>3. ASSUME NEW t \in Topics, NEW i \in SlotIdx PROVE RingContent(t, i)'
    <2>1. CASE ringSeq'[t][i] = ringSeq[t][i]
      BY <1>1, <2>1 DEF ContentInv, RingContent, Published
    <2>2. CASE t = ptopic[p] /\ i = Slot(pseq[p]) /\ ringSeq'[t][i] = pseq[p]
      <3>1. MyBlk(p) \in Blocks /\ data[MyBlk(p)] = <<ptopic[p], pseq[p]>> /\ MyLen(p) = pseq[p]
        BY <1>1 DEF ContentInv, PubContent, PubFrame
      <3> QED BY <1>1, <2>2, <3>1 DEF RingContent, MyBlk, MyLen
    <2> QED BY <1>2, <2>1, <2>2
  <1>4. ASSUME NEW q \in Pubs PROVE PubContent(q)'
    <2>1. CASE q = p
      <3>1. ppc'[q] = "closed" BY <1>0, <1>1, <2>1
      <3> QED BY <3>1 DEF PubContent
    <2>2. CASE q # p
      <3>1. PubContent(q) BY DEF ContentInv
      <3>2. /\ ppc'[q] = ppc[q] /\ pblk'[q] = pblk[q] /\ ptopic'[q] = ptopic[q] /\ pseq'[q] = pseq[q]
            /\ pold'[q] = pold[q] /\ crashed' = crashed
        BY <2>2 DEF PubFrame
      <3>3. MyBlk(q)' = MyBlk(q) /\ MyLen(q)' = MyLen(q) BY <1>1, <3>2 DEF MyBlk, MyLen
      <3> QED BY <1>1, <3>1, <3>2, <3>3 DEF PubContent
    <2> QED BY <2>1, <2>2
  <1>5. ASSUME NEW s \in Streams PROVE ReadContent(s)'
    <2>0. ReadContent(s) /\ ScanOK(s) BY DEF ContentInv, SeqInv
    <2>1. UNCHANGED <<spc, stopic, rseq, rblk, rlen>> BY DEF PubFrame
    <2>2. spc[s] \in {"readlen", "acquire", "check"} /\ SlotHolds(s)' => SlotHolds(s)
      <3>1. Committing(p) BY <1>1 DEF Committing, InSlot
      <3>2. spc[s] \in {"readlen", "acquire", "check"} => ~(ptopic[p] = stopic[s] /\ pseq[p] = rseq[s])
        BY <2>0, <3>1 DEF ScanOK, Scanning, PendingOn
      <3> QED BY <1>0, <1>2, <2>1, <3>2 DEF SlotHolds
    <2> QED BY <1>1, <2>0, <2>1, <2>2 DEF ReadContent
  <1>6. SampleIntegrity' BY <1>1 DEF ContentInv, SampleIntegrity, PubFrame
  <1> QED BY <1>3, <1>4, <1>5, <1>6 DEF ContentInv

\* The steps of commit_to_ring keep the invariant on contents.
LEMMA CommitContent ==
  ASSUME RingInv, NEW p \in Pubs, PubFrame(p), CommitStep(p)
  PROVE  ContentInv'
  <1> USE DEF Step, ringVars, pubVars, poolVars
  <1>0. /\ ppc \in [Pubs -> PubPC] /\ pblk \in [Pubs -> MaybeBlock] /\ pold \in [Pubs -> MaybeBlock]
        /\ ptopic[p] \in Topics /\ Slot(pseq[p]) \in SlotIdx
        /\ ringBlk \in [Topics -> [SlotIdx -> MaybeBlock]] /\ ringLen \in [Topics -> [SlotIdx -> Seqs]]
    BY SlotType DEF RingInv, MutexInv, TypeInv, TypeOK, Seqs
  <1>i. TypeInv /\ MutexInv /\ BalanceInv /\ SeqInv /\ ContentInv /\ PubContent(p) /\ p \notin crashed
    BY DEF RingInv, MutexInv, ContentInv, PubFrame
  <1>1. CASE MarkStore(p) \/ MarkCas(p) \/ ForceClaim(p) BY <1>i, <1>1, MarkContent
  <1>s. CASE SpinOut(p)
    <2>1. /\ ppc[p] = "claimed" /\ ppc'[p] = "forcing" /\ crashed' = crashed
          /\ UNCHANGED <<ringSeq, ringBlk, ringLen, data, pblk, ptopic, pseq, pold>>
      BY <1>0, <1>s DEF SpinOut
    <2>2. PubContent(p)' BY <1>i, <2>1 DEF PubContent, MyBlk
    <2> QED BY <1>i, <2>1, <2>2, OutsideContent
  <1>2. CASE ReadOld(p)
    <2>1. /\ ppc[p] = "marked" /\ ppc'[p] = "oldread" /\ pold'[p] = MyBlk(p)
          /\ UNCHANGED <<ringSeq, ringBlk, ringLen, data, pblk, ptopic, pseq>>
      BY <1>0, <1>2 DEF ReadOld, MyBlk
    <2>2. PubContent(p)' BY <1>i, <2>1 DEF PubContent, MyBlk
    <2> QED BY <1>i, <2>1, <2>2, OutsideContent
  <1>3. CASE SetRefcount(p)
    <2>1. /\ ppc[p] = "oldread" /\ ppc'[p] = "rcset" /\ crashed' = crashed
          /\ UNCHANGED <<ringSeq, ringBlk, ringLen, data, pblk, ptopic, pseq, pold>>
      BY <1>0, <1>3 DEF SetRefcount
    <2>2. PubContent(p)' BY <1>i, <2>1 DEF PubContent, MyBlk
    <2> QED BY <1>i, <2>1, <2>2, OutsideContent
  <1>4. CASE StoreIdx(p)
    <2>1. /\ ppc[p] = "rcset" /\ ppc'[p] = "idxset" /\ UNCHANGED <<ringSeq, ringLen, data, ptopic, pseq, pold>>
          /\ ringBlk' = [ringBlk EXCEPT ![ptopic[p]] = [ringBlk[ptopic[p]] EXCEPT ![Slot(pseq[p])] = pblk[p]]]
      BY <1>0, <1>4 DEF StoreIdx
    <2>2. MyBlk(p)' = pblk[p] /\ pblk[p] \in Blocks
      BY <1>0, <1>i, <2>1 DEF MyBlk, TypeInv, LocalsOK
    <2>3. PubContent(p)' BY <1>i, <2>1, <2>2 DEF PubContent
    <2>4. InSlot(p) BY <2>1 DEF InSlot
    <2>5. \A t \in Topics, i \in SlotIdx :
           \/ t = ptopic[p] /\ i = Slot(pseq[p])
           \/ ringBlk'[t][i] = ringBlk[t][i] /\ ringLen'[t][i] = ringLen[t][i]
      BY <1>0, <2>1
    <2> QED BY <1>i, <2>1, <2>2, <2>3, <2>4, <2>5, InsideContent
  <1>5. CASE StoreLen(p)
    <2>1. /\ ppc[p] = "idxset" /\ ppc'[p] = "lenset" /\ UNCHANGED <<ringSeq, ringBlk, data, ptopic, pseq, pold>>
          /\ ringLen' = [ringLen EXCEPT ![ptopic[p]] = [ringLen[ptopic[p]] EXCEPT ![Slot(pseq[p])] = pseq[p]]]
      BY <1>0, <1>5 DEF StoreLen
    <2>2. MyBlk(p)' = MyBlk(p) /\ MyLen(p)' = pseq[p]
      BY <1>0, <2>1 DEF MyBlk, MyLen
    <2>3. PubContent(p)' BY <1>i, <2>1, <2>2 DEF PubContent
    <2>4. InSlot(p) BY <2>1 DEF InSlot
    <2>5. \A t \in Topics, i \in SlotIdx :
           \/ t = ptopic[p] /\ i = Slot(pseq[p])
           \/ ringBlk'[t][i] = ringBlk[t][i] /\ ringLen'[t][i] = ringLen[t][i]
      <3>1. \A t \in Topics, i \in SlotIdx :
              (t = ptopic[p] /\ i = Slot(pseq[p])) \/ ringLen'[t][i] = ringLen[t][i]
        BY <1>0, <2>1
      <3> QED BY <2>1, <3>1
    <2> QED BY <1>i, <2>1, <2>2, <2>3, <2>4, <2>5, InsideContent
  <1>6. CASE CloseSlot(p) BY <1>i, <1>6, CloseContent
  <1>7. CASE ReleaseNone(p) \/ ReleaseShared(p) \/ ReleaseLast(p) \/ Recycle(p)
    <2>1. ppc'[p] \in {"idle", "recycle"} /\ UNCHANGED <<ringSeq, ringBlk, ringLen, data>>
      BY <1>0, <1>7 DEF ReleaseNone, ReleaseShared, ReleaseLast, Recycle
    <2>2. PubContent(p)' BY <2>1 DEF PubContent
    <2> QED BY <1>i, <2>1, <2>2, OutsideContent
  <1> QED BY <1>1, <1>s, <1>2, <1>3, <1>4, <1>5, <1>6, <1>7 DEF CommitStep

\* The steps of a stream: a sample that passes seqlock check 2 is the message of its seq.
LEMMA StreamContent ==
  ASSUME RingInv, NEW s \in Streams, StreamNext(s)
  PROVE  ContentInv'
  <1>i. TypeInv /\ SeqInv /\ ContentInv /\ ScanOK(s) /\ ReadContent(s)
    BY DEF RingInv, MutexInv, SeqInv, ContentInv
  <1>f. StreamFrame(s) BY <1>i, StreamStepFrame
  <1>g. UNCHANGED <<ringSeq, ringBlk, ringLen, data, crashed, ppc, pblk, ptopic, pseq, pold>>
    BY <1>f DEF StreamFrame
  <1>r. \A t \in Topics, i \in SlotIdx : RingContent(t, i)'
    BY <1>g, <1>i DEF ContentInv, RingContent, Published
  <1>p. \A p \in Pubs : PubContent(p)'
    BY <1>g, <1>i DEF ContentInv, PubContent, MyBlk, MyLen
  <1>x. ASSUME NEW x \in Streams, x # s
        PROVE  /\ ReadContent(x)'
               /\ \A h \in held'[x] : data'[h.blk] = <<stopic'[x], h.seq>> /\ h.len = h.seq
    <2>1. /\ spc'[x] = spc[x] /\ stopic'[x] = stopic[x] /\ rseq'[x] = rseq[x] /\ rblk'[x] = rblk[x]
          /\ rlen'[x] = rlen[x] /\ held'[x] = held[x]
      BY <1>f, <1>x DEF StreamFrame
    <2>2. ReadContent(x) /\ \A h \in held[x] : data[h.blk] = <<stopic[x], h.seq>> /\ h.len = h.seq
      BY <1>i DEF ContentInv, SampleIntegrity
    <2>3. SlotHolds(x)' = SlotHolds(x) BY <1>g, <2>1 DEF SlotHolds
    <2> QED BY <1>g, <2>1, <2>2, <2>3 DEF ReadContent
  <1> DEFINE Kept == \A h \in held'[s] : data'[h.blk] = <<stopic'[s], h.seq>> /\ h.len = h.seq
  <1> SUFFICES ReadContent(s)' /\ Kept
    BY <1>r, <1>p, <1>x DEF ContentInv, SampleIntegrity
  <1>0. /\ spc \in [Streams -> StreamPC] /\ rblk \in [Streams -> MaybeBlock]
        /\ held \in [Streams -> SUBSET Samples] /\ rlen \in [Streams -> Seqs]
        /\ stopic[s] \in Topics /\ rseq[s] \in Nat /\ Slot(rseq[s]) \in SlotIdx /\ last[s] \in Nat
    BY <1>i, SlotType DEF TypeInv, TypeOK, Seqs
  <1>k. \A h \in held[s] : data[h.blk] = <<stopic[s], h.seq>> /\ h.len = h.seq
    BY <1>i DEF ContentInv, SampleIntegrity
  <1>m. stopic'[s] = stopic[s] /\ held'[s] \subseteq held[s] => Kept BY <1>g, <1>k
  \* What the slot holds when it holds the message the stream looks for.
  <1>h. Scanning(s) /\ SlotHolds(s) =>
          /\ ringBlk[stopic[s]][Slot(rseq[s])] \in Blocks
          /\ ringLen[stopic[s]][Slot(rseq[s])] = rseq[s]
          /\ data[ringBlk[stopic[s]][Slot(rseq[s])]] = <<stopic[s], rseq[s]>>
    <2>1. SUFFICES ASSUME Scanning(s), SlotHolds(s) PROVE <1>h!2
      OBVIOUS
    <2>2. rseq[s] # 0 /\ rseq[s] # SeqWriting
      BY <1>0, <1>i, <2>1, RingAssumption DEF ScanOK
    <2>3. Published(stopic[s], Slot(rseq[s])) /\ ringSeq[stopic[s]][Slot(rseq[s])] = rseq[s]
      BY <2>1, <2>2 DEF Published, SlotHolds
    <2> QED BY <1>0, <1>i, <2>3 DEF ContentInv, RingContent
  <1>n. spc'[s] \in {"off", "idle", "scan", "undo", "free", "unheld"} => ReadContent(s)'
    BY DEF ReadContent
  <1>o. NextSlot(s) => spc'[s] \in {"idle", "scan"} BY <1>i, NextSlotCases
  <1>1. ASSUME (\E t \in Topics : Subscribe(s, t)) \/ DropStream(s) PROVE ReadContent(s)' /\ Kept
    <2>1. held'[s] = {} /\ spc'[s] \in {"off", "idle"}
      BY <1>0, <1>1, <1>i DEF Subscribe, DropStream, StreamStep, ScanOK
    <2> QED BY <1>n, <2>1
  <1>2. ASSUME TryRecv(s) \/ UndoFree(s) \/ DropSampleFree(s) \/ (\E h \in held[s] : DropSample(s, h))
        PROVE  ReadContent(s)' /\ Kept
    <2>1. stopic' = stopic /\ held'[s] \subseteq held[s] /\ spc'[s] \in {"scan", "idle", "unheld"}
      <3>1. CASE TryRecv(s) BY <1>0, <3>1 DEF TryRecv, StreamStep
      <3>2. CASE UndoFree(s) BY <1>0, <1>o, <3>2 DEF UndoFree
      <3>3. CASE DropSampleFree(s) BY <1>0, <3>3 DEF DropSampleFree, StreamStep
      <3>4. ASSUME NEW h \in held[s], DropSample(s, h) PROVE <2>1!:
        BY <1>0, <3>4 DEF DropSample, StreamStep
      <3> QED BY <1>2, <3>1, <3>2, <3>3, <3>4
    <2> QED BY <1>n, <1>m, <2>1
  <1>3. CASE Check1(s)
    <2>1. stopic' = stopic /\ held' = held /\ spc[s] = "scan" BY <1>3 DEF Check1
    <2>2. CASE SlotHolds(s)
      <3>1. spc'[s] = "readblk" /\ rseq' = rseq BY <1>0, <1>3, <2>2 DEF Check1, StreamStep
      <3>2. ringBlk[stopic[s]][Slot(rseq[s])] \in Blocks BY <1>h, <2>1, <2>2 DEF Scanning
      <3>3. ReadContent(s)' BY <1>g, <2>1, <3>1, <3>2 DEF ReadContent
      <3> QED BY <1>m, <2>1, <3>3
    <2>3. CASE ~SlotHolds(s) BY <1>3, <1>m, <1>n, <1>o, <2>1, <2>3 DEF Check1
    <2> QED BY <2>2, <2>3
  <1>4. CASE ReadBlk(s)
    <2>1. /\ stopic' = stopic /\ held' = held /\ rseq' = rseq
          /\ spc[s] = "readblk" /\ spc'[s] = "readlen" /\ rblk'[s] = ringBlk[stopic[s]][Slot(rseq[s])]
      BY <1>0, <1>4 DEF ReadBlk, StreamStep
    <2>2. ringBlk[stopic[s]][Slot(rseq[s])] \in Blocks BY <1>i, <2>1 DEF ReadContent
    <2>3. ReadContent(s)' BY <1>g, <2>1, <2>2 DEF ReadContent
    <2> QED BY <1>m, <2>1, <2>3
  <1>5. CASE ReadLen(s)
    <2>1. stopic' = stopic /\ held' = held /\ spc[s] = "readlen" BY <1>5 DEF ReadLen
    <2>2. rblk[s] # NoBlock BY <1>i, <2>1, RingAssumption DEF ReadContent
    <2>3. /\ spc'[s] = "acquire" /\ rseq' = rseq /\ rblk' = rblk
          /\ rlen'[s] = ringLen[stopic[s]][Slot(rseq[s])]
      BY <1>0, <1>5, <2>2 DEF ReadLen, StreamStep
    <2>4. SlotHolds(s)' = SlotHolds(s) BY <1>g, <2>1, <2>3 DEF SlotHolds
    <2>5. ReadContent(s)' BY <1>g, <1>i, <2>1, <2>3, <2>4 DEF ReadContent
    <2> QED BY <1>m, <2>1, <2>5
  <1>6. CASE Acquire(s)
    <2>1. stopic' = stopic /\ held' = held /\ spc[s] = "acquire" BY <1>6 DEF Acquire
    <2>2. CASE rc[rblk[s]] # 0
      <3>1. spc'[s] = "check" /\ UNCHANGED <<rseq, rblk, rlen>> BY <1>0, <1>6, <2>2 DEF Acquire, StreamStep
      <3>2. SlotHolds(s)' = SlotHolds(s) BY <1>g, <2>1, <3>1 DEF SlotHolds
      <3>3. ReadContent(s)' BY <1>g, <1>i, <2>1, <3>1, <3>2 DEF ReadContent
      <3> QED BY <1>m, <2>1, <3>3
    <2>3. CASE rc[rblk[s]] = 0 BY <1>6, <1>m, <1>n, <1>o, <2>1, <2>3 DEF Acquire
    <2> QED BY <2>2, <2>3
  <1>7. CASE Check2(s)
    <2>1. CASE ~SlotHolds(s)
      <3>1. stopic' = stopic /\ held' = held /\ spc'[s] = "undo"
        BY <1>0, <1>7, <2>1 DEF Check2, StreamStep
      <3> QED BY <1>m, <1>n, <3>1
    <2>2. CASE SlotHolds(s)
      <3> DEFINE g == [seq |-> rseq[s], blk |-> rblk[s], len |-> rlen[s]]
      <3>1. /\ stopic' = stopic /\ spc[s] = "check" /\ spc'[s] = "idle"
            /\ held'[s] = held[s] \cup {g}
        BY <1>0, <1>7, <2>2 DEF Check2, Finish, StreamStep
      <3>2. /\ rblk[s] = ringBlk[stopic[s]][Slot(rseq[s])] /\ rlen[s] = ringLen[stopic[s]][Slot(rseq[s])]
        BY <1>i, <2>2, <3>1 DEF ReadContent
      <3>3. rlen[s] = rseq[s] /\ data[rblk[s]] = <<stopic[s], rseq[s]>>
        BY <1>h, <2>2, <3>1, <3>2 DEF Scanning
      <3>4. g.seq = rseq[s] /\ g.blk = rblk[s] /\ g.len = rlen[s] OBVIOUS
      <3>5. data[g.blk] = <<stopic[s], g.seq>> /\ g.len = g.seq BY <3>3, <3>4
      <3> HIDE DEF g
      <3>6. Kept BY <1>g, <1>k, <3>1, <3>5
      <3> QED BY <1>n, <3>1, <3>6
    <2> QED BY <2>1, <2>2
  <1>8. CASE Undo(s)
    <2>1. stopic' = stopic /\ held' = held /\ spc'[s] \in {"free", "idle", "scan"}
      BY <1>0, <1>8, <1>o DEF Undo, StreamStep
    <2> QED BY <1>m, <1>n, <2>1
  <1> QED BY <1>1, <1>2, <1>3, <1>4, <1>5, <1>6, <1>7, <1>8 DEF StreamNext, ReceiveStep

\* The initial state: every block is in the pool.
LEMMA InitBalance == Init => BalanceInv
  <1> SUFFICES ASSUME Init, NEW b \in Blocks
               PROVE  Places(b) = 1 /\ rc[b] = Refs(b) /\ IsFiniteSet(HeldRefs(b))
    BY DEF BalanceInv
  <1>1. /\ Cachers(b) = {} /\ Keepers(b) = {} /\ Borrowers(b) = {} /\ Releasers(b) = {} /\ Undoers(b) = {}
        /\ RingRefs(b) = {} /\ NewRefs(b) = {} /\ OldRefs(b) = {} /\ HeldRefs(b) = {} /\ CheckRefs(b) = {}
    BY RingAssumption DEF Init, Cachers, Keepers, Borrowers, Releasers, Undoers, RingRefs, NewRefs, OldRefs,
       HeldRefs, CheckRefs, Loan, Releasing, NewRef, OldRef, Undone, Checking
  <1>2. b \in free /\ rc[b] = 0 BY DEF Init, Pool!Init
  <1>3. Places(b) = 1 BY <1>1, <1>2, FS_EmptySet DEF Places, PubPlaces, One
  <1>4. Refs(b) = 0 BY <1>1, FS_EmptySet DEF Refs, PubRefs, StreamRefs
  <1> QED BY <1>1, <1>2, <1>3, <1>4, FS_EmptySet

\* The ring invariant holds initially ...
LEMMA InitRing == Init => RingInv
  BY InitMutex, InitBalance, InitSeq, InitContent DEF RingInv

\* ... a publisher keeps it ...
LEMMA PubRing ==
  ASSUME RingInv, TypeInv', NEW p \in Pubs, PubNext(p)
  PROVE  BalanceInv' /\ SeqInv' /\ ContentInv'
  <1>i. TypeInv /\ BalanceInv /\ SeqInv /\ ContentInv BY DEF RingInv, MutexInv
  <1>f. PubFrame(p) BY <1>i, PubStepFrame
  <1>1. CASE CommitStep(p)
    <2>1. ppc[p] = "rcset" => pold[p] = MyBlk(p) BY <1>f, <1>i DEF ContentInv, PubContent, PubFrame
    <2>2. BalanceInv' BY <1>f, <1>i, <1>1, <2>1, CommitBalance
    <2>3. ContentInv' BY <1>f, <1>1, CommitContent
    <2>4. SeqInv'
      <3>0. ppc \in [Pubs -> PubPC] BY <1>i DEF TypeInv, TypeOK
      <3>1. CASE MarkStore(p) \/ MarkCas(p) \/ ForceClaim(p) BY <1>f, <1>i, <3>1, MarkSeqs
      <3>2. CASE CloseSlot(p) BY <1>f, <1>i, <3>2, CloseSeqs
      <3>3. CASE SpinOut(p) \/ ReadOld(p) \/ SetRefcount(p) \/ StoreIdx(p) \/ StoreLen(p)
        <4>1. /\ UNCHANGED <<writeSeq, ringSeq, ptopic, pseq>> /\ Committing(p)
          BY <3>0, <3>3 DEF SpinOut, ReadOld, SetRefcount, StoreIdx, StoreLen, Step, Committing, InSlot, ringVars
        <4> QED BY <1>f, <1>i, <4>1, QuietSeq
      <3>4. CASE ReleaseNone(p) \/ ReleaseShared(p) \/ ReleaseLast(p) \/ Recycle(p)
        <4>1. /\ UNCHANGED <<writeSeq, ringSeq>> /\ ~Committing(p)'
          BY <3>0, <3>4 DEF ReleaseNone, ReleaseShared, ReleaseLast, Recycle, Step, Committing, InSlot, ringVars
        <4> QED BY <1>f, <1>i, <4>1, QuietSeq
      <3> QED BY <1>1, <3>1, <3>2, <3>3, <3>4 DEF CommitStep
    <2> QED BY <2>2, <2>3, <2>4
  <1>2. CASE ~CommitStep(p)
    <2>1. \/ \E t \in Topics : LoanRecycled(p, t) \/ LoanCached(p, t) \/ LoanMiss(p, t)
          \/ Open(p) \/ Refill(p) \/ RefillDone(p) \/ PoolExhausted(p) \/ DropLoan(p) \/ ClaimSeq(p)
          \/ DropPublisher(p) \/ DropRecycled(p) \/ DropCached(p) \/ DropEnd(p)
      BY <1>2 DEF PubNext
    <2>2. BalanceInv' BY <1>f, <1>i, <2>1, LoanBalance
    <2>3. ContentInv' BY <1>f, <1>i, <2>1, LoanContent
    <2>4. SeqInv'
      <3>0. ppc \in [Pubs -> PubPC] BY <1>i DEF TypeInv, TypeOK
      <3>1. CASE ClaimSeq(p) BY <1>f, <1>i, <3>1, ClaimSeqs
      <3>2. CASE ~ClaimSeq(p)
        <4>1. /\ UNCHANGED <<writeSeq, ringSeq>> /\ ~Committing(p)'
          <5> USE <3>0 DEF Step, Committing, InSlot, ringVars
          <5>1. ASSUME NEW t \in Topics, LoanRecycled(p, t) \/ LoanCached(p, t) \/ LoanMiss(p, t)
                PROVE  <4>1!:
            BY <5>1 DEF LoanRecycled, LoanCached, LoanMiss
          <5>2. CASE Open(p) \/ Refill(p) \/ RefillDone(p) \/ PoolExhausted(p) \/ DropLoan(p)
            BY <5>2 DEF Open, Refill, RefillDone, PoolExhausted, DropLoan
          <5>3. CASE DropPublisher(p) \/ DropRecycled(p) \/ DropCached(p) \/ DropEnd(p)
            BY <5>3 DEF DropPublisher, DropRecycled, DropCached, DropEnd
          <5> QED BY <2>1, <3>2, <5>1, <5>2, <5>3
        <4> QED BY <1>f, <1>i, <4>1, QuietSeq
      <3> QED BY <3>1, <3>2
    <2> QED BY <2>2, <2>3, <2>4
  <1> QED BY <1>1, <1>2

\* ... and every step does.
LEMMA NextRing ==
  ASSUME OwnerAlone, ~ForceOnLive
  PROVE  RingInv /\ [Next]_vars => RingInv'
  <1> SUFFICES ASSUME RingInv, [Next]_vars PROVE RingInv'
    OBVIOUS
  <1>1. MutexInv' BY NextMutex DEF RingInv
  <1>i. TypeInv /\ TypeInv' /\ BalanceInv /\ SeqInv /\ ContentInv BY <1>1 DEF RingInv, MutexInv
  <1>2. ASSUME NEW p \in Pubs, PubNext(p) PROVE RingInv'
    BY <1>1, <1>2, <1>i, PubRing DEF RingInv
  <1>3. ASSUME NEW s \in Streams, StreamNext(s) PROVE RingInv'
    <2>1. SampleIntegrity BY <1>i DEF ContentInv
    <2>2. spc[s] = "check" => \A h \in held[s] : h.seq < rseq[s]
      <3>1. last[s] \in Nat /\ rseq[s] \in Nat /\ \A h \in held[s] : h.seq \in Nat
        <4>1. held[s] \subseteq Samples /\ last[s] \in Nat /\ rseq[s] \in Nat
          BY <1>i DEF TypeInv, TypeOK, Seqs
        <4>2. \A h \in Samples : h.seq \in Nat BY DEF Samples, Seqs
        <4> QED BY <4>1, <4>2
      <3>2. spc[s] = "check" => last[s] < rseq[s] BY <1>i DEF SeqInv, ScanOK, Scanning
      <3>3. \A h \in held[s] : h.seq <= last[s] BY <1>i DEF SeqInv, ScanOK
      <3> QED BY <3>1, <3>2, <3>3
    <2>3. BalanceInv' BY <1>3, <1>i, <2>1, <2>2, StreamBalance
    <2>4. SeqInv' BY <1>3, <1>i, StreamSeqs
    <2>5. ContentInv' BY <1>3, StreamContent
    <2> QED BY <1>1, <2>3, <2>4, <2>5 DEF RingInv
  <1>4. ASSUME crashed \subseteq crashed',
               UNCHANGED <<poolVars, ringVars, rc, data, pubVars, streamVars>>
        PROVE  RingInv'
    <2> USE <1>4 DEF poolVars, ringVars, pubVars, streamVars
    <2>1. BalanceInv'
      <3>1. \A b : /\ Cachers(b)' = Cachers(b) /\ Keepers(b)' = Keepers(b)
                   /\ RingRefs(b)' = RingRefs(b) /\ HeldRefs(b)' = HeldRefs(b)
        BY DEF Cachers, Keepers, RingRefs, HeldRefs
      <3>2. \A b : /\ Borrowers(b)' = Borrowers(b) /\ Releasers(b)' = Releasers(b)
                   /\ NewRefs(b)' = NewRefs(b) /\ OldRefs(b)' = OldRefs(b)
        BY DEF Borrowers, Releasers, NewRefs, OldRefs, Loan, Releasing, NewRef, OldRef
      <3>3. \A b : Undoers(b)' = Undoers(b) /\ CheckRefs(b)' = CheckRefs(b)
        BY DEF Undoers, CheckRefs, Undone, Checking
      <3>4. \A b \in Blocks : Places(b)' = Places(b) /\ Refs(b)' = Refs(b)
        BY <3>1, <3>2, <3>3 DEF Places, Refs, PubPlaces, PubRefs, StreamRefs, One
      <3> QED BY <1>i, <3>1, <3>4 DEF BalanceInv
    <2>2. SeqInv'
      BY <1>i DEF SeqInv, SeqsUnique, NeverAgain, ScanOK, Published, PendingOn, Committing, InSlot,
         Scanning, SlotHolds
    <2>3. ContentInv'
      BY <1>i DEF ContentInv, RingContent, PubContent, ReadContent, SampleIntegrity, Published, MyBlk,
         MyLen, SlotHolds
    <2> QED BY <1>1, <2>1, <2>2, <2>3 DEF RingInv
  <1>5. ASSUME NEW x \in Crashable, Crash(x) PROVE RingInv'
    <2>1. crashed \subseteq crashed' /\ UNCHANGED <<poolVars, ringVars, rc, data, pubVars, streamVars>>
      BY <1>5 DEF Crash
    <2> QED BY <1>4, <2>1
  <1>6. CASE UNCHANGED vars
    <2>1. crashed \subseteq crashed' /\ UNCHANGED <<poolVars, ringVars, rc, data, pubVars, streamVars>>
      BY <1>6 DEF vars
    <2> QED BY <1>4, <2>1
  <1> QED BY <1>2, <1>3, <1>5, <1>6 DEF Next

-----------------------------------------------------------------------------
(***************************************************************************)
(* What follows for every reachable state.                                 *)
(***************************************************************************)

\* The balance is what RefcountExact says ...
LEMMA RefcountFromBalance == TypeInv /\ BalanceInv => RefcountExact
  <1> SUFFICES ASSUME TypeInv, BalanceInv, NEW b \in Blocks
      PROVE  rc[b] = Cardinality({x \in Topics \X SlotIdx : ringBlk[x[1]][x[2]] = b})
          + Cardinality({p \in Pubs : ppc[p] = "rcset" /\ pblk[p] = b})
          + Cardinality({p \in Pubs : /\ ppc[p] \in {"idxset", "lenset", "closed"}
                                      /\ pold[p] = b})
          + Cardinality({x \in Streams \X Samples : x[2] \in held[x[1]] /\ x[2].blk = b})
          + Cardinality({s \in Streams : spc[s] \in {"check", "undo"} /\ rblk[s] = b})
    BY DEF RefcountExact
  <1>0. b # NoBlock BY RingAssumption
  <1>1. NewRefs(b) = {p \in Pubs : ppc[p] = "rcset" /\ pblk[p] = b}
    BY <1>0 DEF NewRefs, NewRef
  <1>2. OldRefs(b) = {p \in Pubs : ppc[p] \in {"idxset", "lenset", "closed"} /\ pold[p] = b}
    BY <1>0 DEF OldRefs, OldRef
  <1>3. CheckRefs(b) = {s \in Streams : spc[s] \in {"check", "undo"} /\ rblk[s] = b}
    BY <1>0 DEF CheckRefs, Checking
  <1>4. rc[b] = Refs(b) /\ IsFiniteSet(HeldRefs(b)) BY DEF BalanceInv
  <1> DEFINE i == Cardinality(RingRefs(b))
             j == Cardinality(NewRefs(b))
             k == Cardinality(OldRefs(b))
             l == Cardinality(HeldRefs(b))
             m == Cardinality(CheckRefs(b))
  <1>5. i \in Nat /\ j \in Nat /\ k \in Nat /\ l \in Nat /\ m \in Nat
    BY <1>4, PlaceNats, FS_CardinalityType
  <1>6. rc[b] = i + (j + k) + (l + m) BY <1>4 DEF Refs, PubRefs, StreamRefs
  <1>7. i + (j + k) + (l + m) = i + j + k + l + m
    <2> HIDE DEF i, j, k, l, m
    <2> QED BY <1>5
  <1> QED BY <1>1, <1>2, <1>3, <1>6, <1>7 DEF RingRefs, HeldRefs

\* ... and what OnePlacePerBlock says.
LEMMA PlaceFromBalance == TypeInv /\ BalanceInv => OnePlacePerBlock
  <1> SUFFICES ASSUME TypeInv, BalanceInv, NEW b \in Blocks PROVE Cardinality(Whereabouts(b)) = 1
    BY DEF OnePlacePerBlock
  <1>0. b # NoBlock /\ rc[b] \in Nat BY RingAssumption DEF TypeInv, TypeOK
  <1> DEFINE F == {x \in {"region"} : b \in free}
             R == {x \in {"region"} : rc[b] > 0}
             W == ({"pool"} \X F) \cup ({"referenced"} \X R) \cup ({"cache"} \X Cachers(b))
                  \cup ({"recycled"} \X Keepers(b)) \cup ({"loan"} \X Borrowers(b))
                  \cup ({"release"} \X Releasers(b)) \cup ({"undone"} \X Undoers(b))
  <1>1. Whereabouts(b) = W
    <2>1. Borrowers(b) = {p \in Pubs : /\ ppc[p] \in {"loaned", "claimed", "forcing", "marked", "oldread"}
                                       /\ pblk[p] = b}
      BY <1>0 DEF Borrowers, Loan
    <2>2. Releasers(b) = {p \in Pubs : ppc[p] = "recycle" /\ pold[p] = b}
      BY <1>0 DEF Releasers, Releasing
    <2>3. Undoers(b) = {s \in Streams : spc[s] \in {"free", "unheld"} /\ rblk[s] = b}
      BY <1>0 DEF Undoers, Undone
    <2> QED BY <2>1, <2>2, <2>3 DEF Whereabouts, Cachers, Keepers
  <1> DEFINE a == One(b \in free)
             c == One(rc[b] > 0)
             d == Cardinality(Cachers(b))
             e == Cardinality(Keepers(b))
             f == Cardinality(Borrowers(b))
             g == Cardinality(Releasers(b))
             h == Cardinality(Undoers(b))
  <1>2. /\ a \in Nat /\ c \in Nat /\ d \in Nat /\ e \in Nat /\ f \in Nat /\ g \in Nat /\ h \in Nat
        /\ a + c + (d + e + f + g) + h = 1
    <2>1. a \in Nat /\ c \in Nat BY DEF One
    <2> QED BY <2>1, PlaceNats DEF BalanceInv, Places, PubPlaces
  <1>3. /\ a = 0 => F = {}
        /\ a = 1 => F = {"region"}
        /\ c = 0 => R = {}
        /\ c = 1 => R = {"region"}
    BY DEF One
  <1>4. /\ d = 0 => Cachers(b) = {}
        /\ d = 1 => \E x : Cachers(b) = {x}
        /\ e = 0 => Keepers(b) = {}
        /\ e = 1 => \E x : Keepers(b) = {x}
        /\ f = 0 => Borrowers(b) = {}
        /\ f = 1 => \E x : Borrowers(b) = {x}
        /\ g = 0 => Releasers(b) = {}
        /\ g = 1 => \E x : Releasers(b) = {x}
        /\ h = 0 => Undoers(b) = {}
        /\ h = 1 => \E x : Undoers(b) = {x}
    BY FinitePlaces, FS_EmptySet, FS_Singleton
  <1>5. \/ a = 1 /\ c = 0 /\ d = 0 /\ e = 0 /\ f = 0 /\ g = 0 /\ h = 0
        \/ a = 0 /\ c = 1 /\ d = 0 /\ e = 0 /\ f = 0 /\ g = 0 /\ h = 0
        \/ a = 0 /\ c = 0 /\ d = 1 /\ e = 0 /\ f = 0 /\ g = 0 /\ h = 0
        \/ a = 0 /\ c = 0 /\ d = 0 /\ e = 1 /\ f = 0 /\ g = 0 /\ h = 0
        \/ a = 0 /\ c = 0 /\ d = 0 /\ e = 0 /\ f = 1 /\ g = 0 /\ h = 0
        \/ a = 0 /\ c = 0 /\ d = 0 /\ e = 0 /\ f = 0 /\ g = 1 /\ h = 0
        \/ a = 0 /\ c = 0 /\ d = 0 /\ e = 0 /\ f = 0 /\ g = 0 /\ h = 1
    <2> HIDE DEF a, c, d, e, f, g, h
    <2> QED BY <1>2
  <1> HIDE DEF a, c, d, e, f, g, h, F, R
  <1>6. \E z : W = {z}
    <2>1. CASE a = 1
      <3>1. W = {<<"pool", "region">>} BY <1>3, <1>4, <1>5, <2>1
      <3> QED BY <3>1
    <2>2. CASE c = 1
      <3>1. W = {<<"referenced", "region">>} BY <1>3, <1>4, <1>5, <2>2
      <3> QED BY <3>1
    <2>3. CASE d = 1
      <3>1. PICK x : Cachers(b) = {x} BY <1>4, <2>3
      <3>2. W = {<<"cache", x>>} BY <1>3, <1>4, <1>5, <2>3, <3>1
      <3> QED BY <3>2
    <2>4. CASE e = 1
      <3>1. PICK x : Keepers(b) = {x} BY <1>4, <2>4
      <3>2. W = {<<"recycled", x>>} BY <1>3, <1>4, <1>5, <2>4, <3>1
      <3> QED BY <3>2
    <2>5. CASE f = 1
      <3>1. PICK x : Borrowers(b) = {x} BY <1>4, <2>5
      <3>2. W = {<<"loan", x>>} BY <1>3, <1>4, <1>5, <2>5, <3>1
      <3> QED BY <3>2
    <2>6. CASE g = 1
      <3>1. PICK x : Releasers(b) = {x} BY <1>4, <2>6
      <3>2. W = {<<"release", x>>} BY <1>3, <1>4, <1>5, <2>6, <3>1
      <3> QED BY <3>2
    <2>7. CASE h = 1
      <3>1. PICK x : Undoers(b) = {x} BY <1>4, <2>7
      <3>2. W = {<<"undone", x>>} BY <1>3, <1>4, <1>5, <2>7, <3>1
      <3> QED BY <3>2
    <2> QED BY <1>5, <2>1, <2>2, <2>3, <2>4, <2>5, <2>6, <2>7
  <1> QED BY <1>1, <1>6, FS_Singleton

\* In every reachable state the refcount of a block (BK_REFCOUNT) is the number of references
\* that exist: ring slots, commits between setting the refcount and storing the index, old
\* blocks not released yet, samples, and receives between acquiring and seqlock check 2.  No
\* interleaving of commit_to_ring and try_read_slot_raw, and no crash, loses or invents one.
THEOREM Refcounts ==
  ASSUME OwnerAlone, ~ForceOnLive
  PROVE  Spec => []RefcountExact
  <1>1. RingInv => RefcountExact BY RefcountFromBalance DEF RingInv, MutexInv
  <1> QED BY <1>1, InitRing, NextRing, PTL DEF Spec

\* In every reachable state a block is in exactly one place: free, in one publisher's cache,
\* recycling slot, loan or release, in one stream's release, or referenced.  It is never freed
\* twice, lent twice or lost.
THEOREM OnePlace ==
  ASSUME OwnerAlone, ~ForceOnLive
  PROVE  Spec => []OnePlacePerBlock
  <1>1. RingInv => OnePlacePerBlock BY PlaceFromBalance DEF RingInv, MutexInv
  <1> QED BY <1>1, InitRing, NextRing, PTL DEF Spec

\* A sample handed out by try_recv stays the message of its seq, payload and length, until it
\* is dropped, whatever publishers do to the slot it was read from.
THEOREM SamplesIntact ==
  ASSUME OwnerAlone, ~ForceOnLive
  PROVE  Spec => []SampleIntegrity
  <1>1. RingInv => SampleIntegrity BY DEF RingInv, ContentInv
  <1> QED BY <1>1, InitRing, NextRing, PTL DEF Spec

-----------------------------------------------------------------------------
(***************************************************************************)
(* Topics with one publisher.  The publisher commits the newest seq, and   *)
(* each other seq of the last lap is in its slot; so a receive that gives  *)
(* up on a slot was lapped.                                                *)
(***************************************************************************)

\* Division with remainder.
LEMMA DivMod ==
  ASSUME NEW a \in Nat, NEW R \in Nat \ {0}
  PROVE  a = R * (a \div R) + (a % R) /\ a \div R \in Nat /\ a % R \in Nat
  OBVIOUS

\* Two seqs that share a slot are at least a whole ring apart.
LEMMA SlotsApart ==
  ASSUME NEW a \in Nat, NEW b \in Nat, a < b, b < a + Depth
  PROVE  Slot(a) # Slot(b)
  <1>0. Depth \in Nat \ {0} BY RingAssumption
  <1> SUFFICES ASSUME a % Depth = b % Depth PROVE FALSE BY DEF Slot
  <1> DEFINE i == a \div Depth
             j == b \div Depth
             r == a % Depth
  <1>1. a = Depth * i + r /\ b = Depth * j + r /\ i \in Nat /\ j \in Nat /\ r \in Nat
    BY <1>0, DivMod
  <1> HIDE DEF i, j, r
  <1>2. b - a = Depth * (j - i) BY <1>0, <1>1
  <1>3. j - i >= 1 BY <1>0, <1>1, <1>2
  <1>4. Depth * (j - i) >= Depth BY <1>0, <1>1, <1>3
  <1> QED BY <1>0, <1>1, <1>2, <1>4

\* SoloSlots: what the ring of such a topic holds; LappedBefore: what a scan has passed.
SoloSlots(t) ==
  Sole(t) =>
    /\ \A p \in Pubs : Committing(p) /\ ptopic[p] = t => pseq[p] = writeSeq[t]
    /\ \A n \in 1 .. writeSeq[t] :
         n + Depth > writeSeq[t] /\ (\A p \in Pubs : ~PendingOn(p, t, n)) =>
           ringSeq[t][Slot(n)] = n
LappedBefore(s) ==
  Scanning(s) /\ Sole(stopic[s]) =>
    \A m \in last[s] + 1 .. rseq[s] - 1 : writeSeq[stopic[s]] >= m + Depth
SoloInv == (\A t \in Topics : SoloSlots(t)) /\ (\A s \in Streams : LappedBefore(s))

\* The initial state: nothing was claimed.
LEMMA InitSolo == Init => SoloInv
  BY DEF Init, SoloInv, SoloSlots, LappedBefore, Scanning, Committing, InSlot

\* A topic with one publisher has one publisher that can hold a handle of it.
LEMMA SoleUnique ==
  ASSUME NEW t \in Topics, Sole(t), NEW p \in Pubs, NEW q \in Pubs, t \in Handles[p], t \in Handles[q]
  PROVE  p = q
  <1> DEFINE A == {x \in Pubs : t \in Handles[x]}
  <1>1. IsFiniteSet(A) BY RingAssumption, FS_Subset
  <1>2. Cardinality(A) = 1 BY DEF Sole
  <1>3. p \in A /\ q \in A OBVIOUS
  <1> HIDE DEF A
  <1> QED BY <1>1, <1>2, <1>3, CountMembers

\* A step of a publisher that claims no seq and writes none.
LEMMA QuietSolo ==
  ASSUME SoloInv, NEW p \in Pubs, PubFrame(p), writeSeq' = writeSeq, ringSeq' = ringSeq,
         Committing(p)' <=> Committing(p),
         Committing(p) => ptopic'[p] = ptopic[p] /\ pseq'[p] = pseq[p]
  PROVE  SoloInv'
  <1>1. \A q \in Pubs : /\ Committing(q)' <=> Committing(q)
                        /\ Committing(q) => ptopic'[q] = ptopic[q] /\ pseq'[q] = pseq[q]
    BY DEF PubFrame, Committing, InSlot
  <1>2. ASSUME NEW t \in Topics PROVE SoloSlots(t)'
    <2>1. \A q \in Pubs, n \in 1 .. writeSeq[t] : PendingOn(q, t, n)' <=> PendingOn(q, t, n)
      BY <1>1 DEF PendingOn
    <2> QED BY <1>1, <2>1 DEF SoloInv, SoloSlots, Sole
  <1>3. ASSUME NEW s \in Streams PROVE LappedBefore(s)'
    BY DEF SoloInv, LappedBefore, PubFrame, Scanning, Sole
  <1> QED BY <1>2, <1>3 DEF SoloInv

\* A seq is claimed: the one before it is in its slot by then.
LEMMA ClaimSolo ==
  ASSUME MutexInv, SoloInv, NEW p \in Pubs, PubFrame(p), ClaimSeq(p)
  PROVE  SoloInv'
  <1>0. /\ ppc \in [Pubs -> PubPC] /\ ptopic \in [Pubs -> Topics] /\ pseq \in [Pubs -> Seqs]
        /\ writeSeq \in [Topics -> Seqs] /\ Seqs \subseteq Nat
        /\ ptopic[p] \in Topics /\ Depth \in Nat
    BY RingAssumption DEF MutexInv, TypeInv, TypeOK, Seqs
  <1> DEFINE u == ptopic[p]
             w == writeSeq[u]
  <1>1. /\ ppc[p] = "loaned" /\ ppc' = [ppc EXCEPT ![p] = "claimed"] /\ ptopic' = ptopic
        /\ pseq' = [pseq EXCEPT ![p] = w + 1] /\ writeSeq' = [writeSeq EXCEPT ![u] = w + 1]
        /\ ringSeq' = ringSeq /\ w \in Nat
    BY <1>0 DEF ClaimSeq, Step
  <1>2. \A q \in Pubs : q # p => Committing(q)' = Committing(q) /\ pseq'[q] = pseq[q]
    BY <1>0, <1>1 DEF Committing, InSlot
  <1>3. ~Committing(p) /\ Committing(p)' /\ pseq'[p] = w + 1 /\ writeSeq'[u] = w + 1
    BY <1>0, <1>1 DEF Committing, InSlot
  <1>4. ASSUME NEW t \in Topics PROVE SoloSlots(t)'
    <2>1. CASE t # u
      <3>1. writeSeq'[t] = writeSeq[t] BY <1>0, <1>1, <2>1
      <3>2. \A q \in Pubs, n \in 1 .. writeSeq[t] : PendingOn(q, t, n)' <=> PendingOn(q, t, n)
        BY <1>1, <1>2, <2>1 DEF PendingOn
      <3>3. \A q \in Pubs : Committing(q)' /\ ptopic'[q] = t => Committing(q) /\ pseq'[q] = pseq[q]
        BY <1>1, <1>2, <2>1
      <3> QED BY <1>1, <3>1, <3>2, <3>3 DEF SoloInv, SoloSlots, Sole
    <2>2. CASE t = u
      <3> SUFFICES ASSUME Sole(u)
          PROVE  /\ \A q \in Pubs : Committing(q)' /\ ptopic'[q] = u => pseq'[q] = w + 1
                 /\ \A n \in 1 .. w + 1 :
                      n + Depth > w + 1 /\ (\A q \in Pubs : ~PendingOn(q, t, n)') =>
                        ringSeq[u][Slot(n)] = n
        BY <1>1, <1>3, <2>2 DEF SoloSlots, Sole
      <3>1. \A q \in Pubs : Committing(q) /\ ptopic[q] = u => q = p
        BY <1>0, <1>1, SoleUnique DEF MutexInv, HandleHeld
      <3>2. \A q \in Pubs : ~(Committing(q) /\ ptopic[q] = u) BY <1>3, <3>1
      <3>3. \A q \in Pubs : Committing(q)' /\ ptopic'[q] = u => pseq'[q] = w + 1
        BY <1>1, <1>2, <1>3, <3>2
      <3>4. ASSUME NEW n \in 1 .. w + 1, n + Depth > w + 1, \A q \in Pubs : ~PendingOn(q, t, n)'
            PROVE  ringSeq[u][Slot(n)] = n
        <4>1. n # w + 1 BY <1>1, <1>3, <2>2, <3>4 DEF PendingOn
        <4>2. n \in 1 .. w /\ n + Depth > w BY <1>0, <1>1, <3>4, <4>1
        <4>3. \A q \in Pubs : ~PendingOn(q, u, n) BY <3>2 DEF PendingOn
        <4>4. SoloSlots(u) BY <1>0 DEF SoloInv
        <4> QED BY <4>2, <4>3, <4>4 DEF SoloSlots
      <3> QED BY <3>3, <3>4
    <2> QED BY <2>1, <2>2
  <1>5. ASSUME NEW s \in Streams PROVE LappedBefore(s)'
    <2>1. UNCHANGED <<spc, stopic, last, rseq>> BY DEF PubFrame
    <2>2. stopic[s] \in Topics /\ last[s] \in Nat /\ rseq[s] \in Nat
      BY <1>0 DEF MutexInv, TypeInv, TypeOK
    <2>3. writeSeq[stopic[s]] \in Nat /\ writeSeq'[stopic[s]] \in Nat
          /\ writeSeq[stopic[s]] <= writeSeq'[stopic[s]]
      <3>1. CASE stopic[s] = u BY <1>1, <1>3, <3>1
      <3>2. CASE stopic[s] # u
        <4>1. writeSeq'[stopic[s]] = writeSeq[stopic[s]] BY <1>0, <1>1, <2>2, <3>2
        <4>2. writeSeq[stopic[s]] \in Nat BY <1>0, <2>2
        <4> QED BY <4>1, <4>2
      <3> QED BY <3>1, <3>2
    <2>4. ASSUME Scanning(s), Sole(stopic[s]), NEW m \in last[s] + 1 .. rseq[s] - 1
          PROVE  writeSeq'[stopic[s]] >= m + Depth
      <3>1. writeSeq[stopic[s]] >= m + Depth BY <2>4 DEF SoloInv, LappedBefore
      <3>2. m \in Int BY <2>2
      <3> QED BY <1>0, <2>3, <3>1, <3>2
    <2> QED BY <2>1, <2>4 DEF LappedBefore, Scanning, Sole
  <1> QED BY <1>4, <1>5 DEF SoloInv

\* A slot is marked or closed: only the slot of the newest seq changes, and while that seq is pending
\* nothing is said of it.
LEMMA SlotSolo ==
  ASSUME MutexInv, SoloInv, SeqInv, NEW p \in Pubs, PubFrame(p),
         MarkStore(p) \/ MarkCas(p) \/ ForceClaim(p) \/ CloseSlot(p)
  PROVE  SoloInv'
  <1>0. /\ ppc \in [Pubs -> PubPC] /\ ptopic \in [Pubs -> Topics] /\ pseq \in [Pubs -> Seqs]
        /\ writeSeq \in [Topics -> Seqs] /\ Seqs \subseteq Nat
        /\ ptopic[p] \in Topics /\ pseq[p] \in Nat /\ Depth \in Nat /\ Slot(pseq[p]) \in SlotIdx
        /\ ringSeq \in [Topics -> [SlotIdx -> Seqs \cup {SeqWriting}]]
    BY RingAssumption, SlotType DEF MutexInv, TypeInv, TypeOK, Seqs
  <1> DEFINE u == ptopic[p]
             w == pseq[p]
             Closes == ppc[p] = "lenset"
             v == IF Closes THEN w ELSE SeqWriting
  <1>1. /\ Committing(p) /\ writeSeq' = writeSeq
        /\ ringSeq' = [ringSeq EXCEPT ![u] = [ringSeq[u] EXCEPT ![Slot(w)] = v]]
        /\ Closes => ~Committing(p)'
        /\ ~Closes => Committing(p)' /\ ptopic'[p] = u /\ pseq'[p] = w
    <2>1. CASE MarkStore(p) \/ MarkCas(p) \/ ForceClaim(p)
      BY <1>0, <2>1 DEF MarkStore, MarkCas, ForceClaim, Step, SetMySeq, Committing, InSlot
    <2>2. CASE CloseSlot(p)
      BY <1>0, <2>2 DEF CloseSlot, Step, SetMySeq, Committing, InSlot
    <2> QED BY <2>1, <2>2
  <1>2. \A q \in Pubs : q # p => /\ Committing(q)' = Committing(q)
                                 /\ pseq'[q] = pseq[q] /\ ptopic'[q] = ptopic[q]
    BY DEF PubFrame, Committing, InSlot
  <1>3. \A t \in Topics, i \in SlotIdx : t # u \/ i # Slot(w) => ringSeq'[t][i] = ringSeq[t][i]
    BY <1>0, <1>1
  <1>4. ringSeq'[u][Slot(w)] = v BY <1>0, <1>1
  <1> HIDE DEF v
  <1>5. ASSUME NEW t \in Topics, Sole(t) PROVE SoloSlots(t)'
    <2>0. /\ \A q \in Pubs : Committing(q) /\ ptopic[q] = t => pseq[q] = writeSeq[t]
          /\ \A n \in 1 .. writeSeq[t] :
               n + Depth > writeSeq[t] /\ (\A q \in Pubs : ~PendingOn(q, t, n)) => ringSeq[t][Slot(n)] = n
      BY <1>5 DEF SoloInv, SoloSlots
    <2>1. \A q \in Pubs : Committing(q)' => Committing(q) /\ ptopic'[q] = ptopic[q] /\ pseq'[q] = pseq[q]
      BY <1>1, <1>2
    <2>2. \A q \in Pubs : Committing(q)' /\ ptopic'[q] = t => pseq'[q] = writeSeq[t] BY <2>0, <2>1
    <2>3. ASSUME NEW n \in 1 .. writeSeq[t], n + Depth > writeSeq[t], \A q \in Pubs : ~PendingOn(q, t, n)'
          PROVE  ringSeq'[t][Slot(n)] = n
      <3>w. writeSeq[t] \in Nat BY <1>0
      <3>m. n \in Nat /\ n <= writeSeq[t] BY <3>w
      <3>0. n \in Nat /\ writeSeq[t] \in Nat /\ n <= writeSeq[t] /\ Slot(n) \in SlotIdx
        BY <3>w, <3>m, SlotType
      <3>n. \A q \in Pubs : ~(Committing(q)' /\ ptopic'[q] = t /\ pseq'[q] = n)
        BY <2>3 DEF PendingOn
      <3>1. CASE t = u /\ n = w
        <4>1. Closes BY <1>1, <3>1, <3>n
        <4> QED BY <1>4, <3>1, <4>1 DEF v
      <3>2. CASE ~(t = u /\ n = w)
        <4>1. \A q \in Pubs : ~PendingOn(q, t, n)
          <5>1. ASSUME NEW q \in Pubs, Committing(q), ptopic[q] = t, pseq[q] = n PROVE FALSE
            <6>1. q # p BY <3>2, <5>1
            <6> QED BY <1>2, <3>n, <5>1, <6>1
          <5> QED BY <5>1 DEF PendingOn
        <4>2. ringSeq[t][Slot(n)] = n BY <2>0, <2>3, <4>1
        <4>3. t # u \/ Slot(n) # Slot(w)
          <5>1. SUFFICES ASSUME t = u PROVE Slot(n) # Slot(w) OBVIOUS
          <5>2. w = writeSeq[t] BY <1>1, <2>0, <5>1
          <5>3. n < w BY <3>0, <3>2, <5>1, <5>2
          <5>4. w < n + Depth BY <1>0, <2>3, <3>0, <5>2
          <5> HIDE DEF w
          <5> QED BY <1>0, <3>0, <5>3, <5>4, SlotsApart DEF w
        <4> QED BY <1>3, <3>0, <4>2, <4>3
      <3> QED BY <3>1, <3>2
    <2> QED BY <1>1, <2>2, <2>3 DEF SoloSlots
  <1>6. ASSUME NEW s \in Streams PROVE LappedBefore(s)'
    BY <1>1 DEF SoloInv, LappedBefore, PubFrame, Scanning, Sole
  <1>7. \A t \in Topics : SoloSlots(t)' BY <1>5 DEF SoloSlots, Sole
  <1> QED BY <1>6, <1>7 DEF SoloInv

\* A scan that leaves a slot for the next one did not find the message there, although nobody was
\* still committing it: the ring has lapped it.
LEMMA PassedIsLapped ==
  ASSUME TypeInv, SeqInv, SoloInv, NEW s \in Streams, Scanning(s), ~SlotHolds(s), rseq[s] < cur[s],
         Sole(stopic[s])
  PROVE  writeSeq[stopic[s]] >= rseq[s] + Depth
  <1>0. /\ stopic[s] \in Topics /\ rseq[s] \in Nat /\ cur[s] \in Nat /\ last[s] \in Nat
        /\ writeSeq[stopic[s]] \in Nat /\ Depth \in Nat
    BY RingAssumption DEF TypeInv, TypeOK, Seqs
  <1>1. last[s] < rseq[s] /\ cur[s] <= writeSeq[stopic[s]] BY DEF SeqInv, ScanOK
  <1>2. SoloSlots(stopic[s]) BY <1>0 DEF SoloInv
  <1>3. SUFFICES ASSUME rseq[s] + Depth > writeSeq[stopic[s]] PROVE FALSE BY <1>0
  <1>4. rseq[s] \in 1 .. writeSeq[stopic[s]] /\ rseq[s] # writeSeq[stopic[s]] BY <1>0, <1>1
  <1>5. \A q \in Pubs : ~PendingOn(q, stopic[s], rseq[s]) BY <1>2, <1>4 DEF SoloSlots, PendingOn
  <1> QED BY <1>2, <1>3, <1>4, <1>5 DEF SoloSlots, SlotHolds

\* Where a receive begins its scan, what it leaves out has been lapped.
LEMMA StartIsLapped ==
  ASSUME NEW c \in Nat, NEW l \in Nat, NEW m \in l + 1 .. ScanStart(c, l) - 1
  PROVE  c >= m + Depth
  <1>0. Depth \in Nat BY RingAssumption
  <1>1. CASE c - (l + 1) >= Depth BY <1>0, <1>1 DEF ScanStart
  <1>2. CASE ~(c - (l + 1) >= Depth) BY <1>0, <1>2 DEF ScanStart
  <1> QED BY <1>1, <1>2

\* The steps of a stream: whatever makes a receive give up on a slot (check 1, a refcount
\* of zero, check 2), the message was not there any more.
LEMMA StreamSolo ==
  ASSUME RingInv, SoloInv, NEW s \in Streams, StreamNext(s)
  PROVE  SoloInv'
  <1>i. TypeInv /\ BalanceInv /\ SeqInv /\ ContentInv /\ ScanOK(s) /\ ReadContent(s) /\ LappedBefore(s)
    BY DEF RingInv, MutexInv, SeqInv, ContentInv, SoloInv
  <1>f. StreamFrame(s) BY <1>i, StreamStepFrame
  <1>g. UNCHANGED <<writeSeq, ringSeq, ppc, ptopic, pseq>> BY <1>f DEF StreamFrame
  <1>t. ASSUME NEW t \in Topics PROVE SoloSlots(t)'
    BY <1>g DEF SoloInv, SoloSlots, Sole, PendingOn, Committing, InSlot
  <1>x. ASSUME NEW x \in Streams, x # s PROVE LappedBefore(x)'
    BY <1>f, <1>g, <1>x DEF SoloInv, LappedBefore, Sole, StreamFrame, Scanning
  <1> SUFFICES LappedBefore(s)' BY <1>t, <1>x DEF SoloInv
  <1>0. /\ spc \in [Streams -> StreamPC] /\ rblk \in [Streams -> MaybeBlock]
        /\ stopic[s] \in Topics /\ rseq[s] \in Nat /\ cur[s] \in Nat /\ last[s] \in Nat
        /\ Slot(rseq[s]) \in SlotIdx /\ writeSeq[stopic[s]] \in Nat /\ cur \in [Streams -> Seqs]
        /\ rseq \in [Streams -> Seqs]
    BY <1>i, SlotType DEF TypeInv, TypeOK, Seqs
  <1>n. ASSUME Scanning(s), NextSlot(s), ~SlotHolds(s), UNCHANGED <<stopic, last>> PROVE LappedBefore(s)'
    <2>1. CASE spc'[s] = "idle" BY <2>1 DEF LappedBefore, Scanning
    <2>2. CASE rseq[s] < cur[s] /\ rseq'[s] = rseq[s] + 1
      <3>1. ASSUME Sole(stopic[s]), NEW m \in last[s] + 1 .. rseq[s] PROVE writeSeq[stopic[s]] >= m + Depth
        <4>1. CASE m = rseq[s] BY <1>i, <1>n, <2>2, <3>1, <4>1, PassedIsLapped
        <4>2. CASE m # rseq[s]
          <5>1. m \in last[s] + 1 .. rseq[s] - 1 BY <1>0, <4>2
          <5> QED BY <1>i, <1>n, <3>1, <5>1 DEF LappedBefore
        <4> QED BY <4>1, <4>2
      <3>2. rseq'[s] - 1 = rseq[s] BY <1>0, <2>2
      <3> QED BY <1>g, <1>n, <3>1, <3>2 DEF LappedBefore, Sole
    <2> QED BY <1>i, <1>n, <2>1, <2>2, NextSlotCases
  <1>k. ASSUME Scanning(s), UNCHANGED <<stopic, last, rseq>> PROVE LappedBefore(s)'
    BY <1>g, <1>i, <1>k DEF LappedBefore, Sole
  <1>o. spc'[s] \in {"off", "idle", "unheld"} => LappedBefore(s)' BY DEF LappedBefore, Scanning
  <1>1. ASSUME \/ (\E t \in Topics : Subscribe(s, t)) \/ DropStream(s) \/ DropSampleFree(s)
               \/ (\E h \in held[s] : DropSample(s, h))
        PROVE  LappedBefore(s)'
    <2>1. spc'[s] \in {"off", "idle", "unheld"}
      BY <1>0, <1>1 DEF Subscribe, DropStream, DropSampleFree, DropSample, StreamStep
    <2> QED BY <1>o, <2>1
  <1>2. CASE TryRecv(s)
    <2>1. UNCHANGED <<stopic, last>> /\ rseq'[s] = ScanStart(writeSeq[stopic[s]], last[s])
      BY <1>0, <1>2 DEF TryRecv
    <2>2. \A m \in last[s] + 1 .. rseq'[s] - 1 : writeSeq[stopic[s]] >= m + Depth
      BY <1>0, <2>1, StartIsLapped
    <2> QED BY <1>g, <2>1, <2>2 DEF LappedBefore
  <1>3. CASE Check1(s)
    <2>1. spc[s] = "scan" /\ UNCHANGED <<stopic, last>> BY <1>3 DEF Check1
    <2>2. CASE SlotHolds(s) BY <1>3, <1>k, <2>1, <2>2 DEF Check1, Scanning
    <2>3. CASE ~SlotHolds(s) BY <1>3, <1>n, <2>1, <2>3 DEF Check1, Scanning
    <2> QED BY <2>2, <2>3
  <1>4. CASE ReadBlk(s) BY <1>4, <1>k DEF ReadBlk, StreamStep, Scanning
  <1>5. CASE ReadLen(s)
    <2>1. spc[s] = "readlen" /\ UNCHANGED <<stopic, last>> BY <1>5 DEF ReadLen
    <2>2. rblk[s] # NoBlock BY <1>i, <2>1, RingAssumption DEF ReadContent
    <2> QED BY <1>5, <1>k, <2>1, <2>2 DEF ReadLen, Scanning
  <1>6. CASE Acquire(s)
    <2>1. spc[s] = "acquire" /\ UNCHANGED <<stopic, last>> BY <1>6 DEF Acquire
    <2>2. CASE rc[rblk[s]] # 0 BY <1>6, <1>k, <2>1, <2>2 DEF Acquire, Scanning
    <2>3. CASE rc[rblk[s]] = 0
      <3>1. rblk[s] \in Blocks BY <1>i, <2>1 DEF TypeInv, LocalsOK
      <3>2. RingRefs(rblk[s]) = {} BY <1>i, <2>3, <3>1, NoRefs
      <3>3. <<stopic[s], Slot(rseq[s])>> \notin RingRefs(rblk[s]) BY <3>2
      <3>4. ringBlk[stopic[s]][Slot(rseq[s])] # rblk[s] BY <1>0, <3>3 DEF RingRefs
      <3>5. ~SlotHolds(s) BY <1>i, <2>1, <3>4 DEF ReadContent
      <3> QED BY <1>6, <1>n, <2>1, <2>3, <3>5 DEF Acquire, Scanning
    <2> QED BY <2>2, <2>3
  <1>7. CASE Check2(s)
    <2>1. CASE SlotHolds(s)
      <3>1. spc'[s] = "idle" BY <1>0, <1>7, <2>1 DEF Check2, Finish, StreamStep
      <3> QED BY <1>o, <3>1
    <2>2. CASE ~SlotHolds(s) BY <1>7, <1>k, <2>2 DEF Check2, Scanning
    <2> QED BY <2>1, <2>2
  <1>8. CASE Undo(s)
    <2>1. spc[s] = "undo" /\ UNCHANGED <<stopic, last>> BY <1>8 DEF Undo
    <2>2. ~SlotHolds(s) BY <1>i, <2>1 DEF ScanOK
    <2>3. CASE rc[rblk[s]] = 1 BY <1>8, <1>k, <2>1, <2>3 DEF Undo, Scanning
    <2>4. CASE rc[rblk[s]] # 1 BY <1>8, <1>n, <2>1, <2>2, <2>4 DEF Undo, Scanning
    <2> QED BY <2>3, <2>4
  <1>9. CASE UndoFree(s)
    <2>1. spc[s] = "free" /\ UNCHANGED <<stopic, last>> /\ NextSlot(s) BY <1>9 DEF UndoFree
    <2>2. ~SlotHolds(s) BY <1>i, <2>1 DEF ScanOK
    <2> QED BY <1>n, <2>1, <2>2 DEF Scanning
  <1> QED BY <1>1, <1>2, <1>3, <1>4, <1>5, <1>6, <1>7, <1>8, <1>9 DEF StreamNext, ReceiveStep

\* The steps of a publisher.
LEMMA PubSolo ==
  ASSUME RingInv, SoloInv, NEW p \in Pubs, PubNext(p)
  PROVE  SoloInv'
  <1>i. TypeInv /\ MutexInv /\ SeqInv BY DEF RingInv, MutexInv
  <1>f. PubFrame(p) BY <1>i, PubStepFrame
  <1>0. ppc \in [Pubs -> PubPC] BY <1>i DEF TypeInv, TypeOK
  <1> USE <1>0 DEF Step, Committing, InSlot, ringVars
  <1> DEFINE Quiet == /\ UNCHANGED <<writeSeq, ringSeq>>
                      /\ Committing(p)' <=> Committing(p)
                      /\ Committing(p) => ptopic'[p] = ptopic[p] /\ pseq'[p] = pseq[p]
  <1>1. CASE MarkStore(p) \/ MarkCas(p) \/ ForceClaim(p) \/ CloseSlot(p) BY <1>1, <1>f, <1>i, SlotSolo
  <1>2. CASE ClaimSeq(p) BY <1>2, <1>f, <1>i, ClaimSolo
  <1>3. ASSUME Quiet PROVE SoloInv' BY <1>3, <1>f, QuietSolo
  <1>4. CASE SpinOut(p) \/ ReadOld(p) \/ SetRefcount(p) \/ StoreIdx(p) \/ StoreLen(p)
    <2>1. Quiet BY <1>4 DEF SpinOut, ReadOld, SetRefcount, StoreIdx, StoreLen
    <2> QED BY <1>3, <2>1
  <1>5. CASE ReleaseNone(p) \/ ReleaseShared(p) \/ ReleaseLast(p) \/ Recycle(p)
    <2>1. Quiet BY <1>5 DEF ReleaseNone, ReleaseShared, ReleaseLast, Recycle
    <2> QED BY <1>3, <2>1
  <1>6. ASSUME NEW t \in Topics, LoanRecycled(p, t) \/ LoanCached(p, t) \/ LoanMiss(p, t) PROVE SoloInv'
    <2>1. Quiet BY <1>6 DEF LoanRecycled, LoanCached, LoanMiss
    <2> QED BY <1>3, <2>1
  <1>7. CASE Open(p) \/ Refill(p) \/ RefillDone(p) \/ PoolExhausted(p) \/ DropLoan(p)
    <2>1. Quiet BY <1>7 DEF Open, Refill, RefillDone, PoolExhausted, DropLoan
    <2> QED BY <1>3, <2>1
  <1>8. CASE DropPublisher(p) \/ DropRecycled(p) \/ DropCached(p) \/ DropEnd(p)
    <2>1. Quiet BY <1>8 DEF DropPublisher, DropRecycled, DropCached, DropEnd
    <2> QED BY <1>3, <2>1
  <1> QED BY <1>1, <1>2, <1>4, <1>5, <1>6, <1>7, <1>8 DEF PubNext, CommitStep

\* Every step keeps the invariant on topics with one publisher.
LEMMA NextSolo == RingInv /\ SoloInv /\ [Next]_vars => SoloInv'
  <1> SUFFICES ASSUME RingInv, SoloInv, [Next]_vars PROVE SoloInv'
    OBVIOUS
  <1>1. ASSUME UNCHANGED <<ringVars, pubVars, streamVars>> PROVE SoloInv'
    BY <1>1 DEF SoloInv, SoloSlots, LappedBefore, Sole, PendingOn, Committing, InSlot, Scanning,
       ringVars, pubVars, streamVars
  <1>2. ASSUME NEW x \in Crashable, Crash(x) PROVE SoloInv' BY <1>1, <1>2 DEF Crash
  <1>3. CASE UNCHANGED vars BY <1>1, <1>3 DEF vars
  <1> QED BY <1>2, <1>3, PubSolo, StreamSolo DEF Next

\* On a topic with one publisher a receive moves last_seq past a message it does not deliver
\* only when the publisher has claimed the seq that overwrites it: neither the scan's start
\* nor any early exit of try_read_slot_raw drops a message that is still in the ring.
THEOREM SkipsAreLapped ==
  ASSUME OwnerAlone, ~ForceOnLive
  PROVE  Spec => SkipOnlyLapped
  <1> DEFINE Skip == \A s \in Streams :
               spc[s] = "check" /\ spc'[s] = "idle" /\ Sole(stopic[s]) =>
                 \A m \in last[s] + 1 .. rseq[s] - 1 :
                   m <= last'[s] => writeSeq[stopic[s]] >= m + Depth
  <1>1. SoloInv => Skip BY DEF SoloInv, LappedBefore, Scanning
  <1>2. RingInv /\ SoloInv /\ [Next]_vars => RingInv' /\ SoloInv' BY NextRing, NextSolo
  <1>3. Init => RingInv /\ SoloInv BY InitRing, InitSolo
  <1>4. SoloInv /\ [Next]_vars => [Skip]_vars BY <1>1
  <1> HIDE DEF Skip
  <1>5. Spec => [][Skip]_vars BY <1>2, <1>3, <1>4, PTL DEF Spec
  <1> QED BY <1>5 DEF SkipOnlyLapped, Skip

==============================================================================
