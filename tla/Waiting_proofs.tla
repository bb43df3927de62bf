---------------------------- MODULE Waiting_proofs ----------------------------
(***************************************************************************)
(* Proofs about the blocking receive of module Waiting, for any number of  *)
(* publishers and streams, any ring depth, spin budget and word width:     *)
(* the state is well typed, and whoever sleeps is counted in TE_WAITERS.   *)
(*                                                                         *)
(* What is inductive is not SleepersCounted, an inequality between the     *)
(* counter and some of the program counters, but the exact account:        *)
(* TE_WAITERS is the number of streams between Enlist and Delist.          *)
(***************************************************************************)
EXTENDS Waiting, FiniteSetTheorems, TLAPS

\* Between the fetch_add and the fetch_sub on TE_WAITERS.
Counted == {s \in Streams : spc[s] \in {"wait", "asleep", "ok", "timeout"}}

CountExact == waiters = Cardinality(Counted)

\* TypeOK but for the counter, whose range follows from the count.
PubType ==
  /\ mode \in Modes
  /\ writeSeq \in Seqs
  /\ shown \in SUBSET Seqs
  /\ sentinel \in BOOLEAN
  /\ fresh \in BOOLEAN
  /\ crashed \in SUBSET Pubs
  /\ ppc \in [Pubs -> PubPC]
  /\ pseq \in [Pubs -> Seqs]
  /\ pwake \in [Pubs -> BOOLEAN]

StreamType ==
  /\ spc \in [Streams -> StreamPC]
  /\ strat \in [Streams -> {"adaptive", "spin"}]
  /\ iter \in [Streams -> 0 .. IterMax]
  /\ cur \in [Streams -> 0 .. WordMod - 1]
  /\ last \in [Streams -> Seqs]

WaitInv == PubType /\ StreamType /\ CountExact

LEMMA Consts ==
  /\ Crashable \subseteq Pubs /\ IsFiniteSet(Streams)
  /\ \A s \in Streams : Strategies[s] \subseteq {"adaptive", "spin"}
  /\ Depth \in Nat \ {0} /\ WordMod \in Nat \ {0} /\ CheckEvery \in Nat \ {0}
  /\ SpinBudget \in Nat /\ IterMax \in Nat /\ MaxSeq \in Nat
  BY WaitingAssumption

\* The count is a number of streams, and covers whoever is about to sleep.
LEMMA CountFacts ==
  /\ IsFiniteSet(Counted) /\ Cardinality(Counted) \in Nat
  /\ Cardinality(Counted) <= Cardinality(Streams)
  /\ Cardinality({s \in Streams : spc[s] \in {"wait", "asleep"}}) <= Cardinality(Counted)
  <1> DEFINE Sleepers == {s \in Streams : spc[s] \in {"wait", "asleep"}}
  <1>1. Counted \subseteq Streams /\ Sleepers \subseteq Counted
    BY DEF Counted
  <1>2. IsFiniteSet(Counted) /\ Cardinality(Counted) <= Cardinality(Streams)
    BY <1>1, Consts, FS_Subset
  <1>3. Cardinality(Sleepers) <= Cardinality(Counted)
    BY <1>1, <1>2, FS_Subset
  <1>4. Cardinality(Counted) \in Nat
    BY <1>2, FS_CardinalityType
  <1> QED
    BY <1>2, <1>3, <1>4

(***************************************************************************)
(* Who is counted                                                          *)
(***************************************************************************)
LEMMA CountStays ==
  ASSUME StreamType, NEW s \in Streams, NEW to, StreamStep(s, spc[s], to),
         (spc[s] \in {"wait", "asleep", "ok", "timeout"})
           <=> (to \in {"wait", "asleep", "ok", "timeout"})
  PROVE  Counted' = Counted
  BY DEF StreamType, StreamStep, Counted

LEMMA CountJoins ==
  ASSUME StreamType, NEW s \in Streams, StreamStep(s, "enlist", "wait")
  PROVE  Cardinality(Counted') = Cardinality(Counted) + 1
  <1>1. Counted' = Counted \cup {s} /\ s \notin Counted
    BY DEF StreamType, StreamStep, Counted
  <1> QED
    BY <1>1, CountFacts, FS_AddElement

LEMMA CountLeaves ==
  ASSUME StreamType, NEW s \in Streams, Delist(s)
  PROVE  Cardinality(Counted') = Cardinality(Counted) - 1
  <1>1. Counted' = Counted \ {s} /\ s \in Counted
    BY DEF StreamType, Delist, Counted
  <1> QED
    BY <1>1, CountFacts, FS_RemoveElement

LEMMA CountFrame == ASSUME UNCHANGED spc PROVE Counted' = Counted
  BY DEF Counted

LEMMA InitHolds == Init => WaitInv
  <1> SUFFICES ASSUME Init PROVE WaitInv
    OBVIOUS
  <1>0. 0 \in 0 .. WordMod - 1 /\ 0 \in 0 .. IterMax /\ 0 \in Seqs
    BY Consts DEF Seqs
  <1>1. PubType /\ StreamType
    BY <1>0 DEF Init, PubType, StreamType, PubPC, StreamPC
  <1>2. Counted = {}
    BY DEF Init, Counted
  <1> QED
    BY <1>1, <1>2, FS_EmptySet DEF Init, WaitInv, CountExact

(***************************************************************************)
(* Steps of a publisher                                                    *)
(***************************************************************************)
LEMMA PublisherStep ==
  ASSUME WaitInv, NEW p \in Pubs,
         \/ ClaimSeq(p) \/ LoanPinned(p) \/ DropPinnedLoan(p) \/ BumpPinned(p)
         \/ CommitStep(p) \/ Heartbeat(p) \/ Crash(p)
  PROVE  WaitInv'
  <1>0. PubType /\ StreamType /\ CountExact
    BY DEF WaitInv
  <1>1. PubType'
    <2> USE <1>0, Consts DEF PubType, PubStep, PubPC, shared, pubVars
    <2>1. CASE ClaimSeq(p)
      BY <2>1 DEF ClaimSeq, Bump, Seqs
    <2>2. CASE LoanPinned(p) \/ DropPinnedLoan(p) \/ Heartbeat(p) \/ Crash(p)
      BY <2>2 DEF LoanPinned, DropPinnedLoan, Heartbeat, Crash
    <2>3. CASE BumpPinned(p)
      BY <2>3 DEF BumpPinned, Bump, Seqs
    <2>4. CASE Mark(p) \/ Close(p) \/ StorePinned(p)
      BY <2>4 DEF Mark, Close, StorePinned
    <2>5. CASE CheckWaiters(p) \/ WakeAll(p) \/ LeaveWriter(p)
      BY <2>5 DEF CheckWaiters, WakeAll, LeaveWriter, AfterWake
    <2> QED
      BY <2>1, <2>2, <2>3, <2>4, <2>5 DEF CommitStep
  <1>2. UNCHANGED waiters
    BY DEF ClaimSeq, LoanPinned, DropPinnedLoan, BumpPinned, CommitStep, Heartbeat, Crash,
         Mark, Close, StorePinned, CheckWaiters, WakeAll, LeaveWriter, shared
  <1>3. CASE WakeAll(p)
    <2>1. StreamType'
      BY <1>0, <1>3 DEF WakeAll, StreamType, StreamPC
    <2>2. Counted' = Counted
      BY <1>0, <1>3 DEF WakeAll, StreamType, Counted
    <2> QED
      BY <1>0, <1>1, <1>2, <2>1, <2>2 DEF WaitInv, CountExact
  <1>4. CASE ~WakeAll(p)
    <2>1. UNCHANGED streamVars
      BY <1>4 DEF ClaimSeq, LoanPinned, DropPinnedLoan, BumpPinned, CommitStep, Heartbeat,
           Crash, Mark, Close, StorePinned, CheckWaiters, LeaveWriter
    <2>2. Counted' = Counted /\ StreamType'
      BY <1>0, <2>1, CountFrame DEF streamVars, StreamType
    <2> QED
      BY <1>0, <1>1, <1>2, <2>2 DEF WaitInv, CountExact
  <1> QED
    BY <1>3, <1>4

(***************************************************************************)
(* Steps of a stream                                                       *)
(***************************************************************************)
\* A stream leaves the publishers alone.
LEMMA StreamFrame ==
  ASSUME NEW s \in Streams, Waits(s) \/ \E w \in Strategies[s] : Recv(s, w)
  PROVE  UNCHANGED <<mode, writeSeq, shown, sentinel, fresh, crashed, pubVars>>
  BY DEF Waits, Recv, TrySucceeds, TryFails, Spin, LoadWord, RetryFails, Enlist, WordChanged,
       FutexWait, SleepEnds, Deadline, Delist, Alive, PublisherDead, shared

LEMMA StreamTyped ==
  ASSUME WaitInv, NEW s \in Streams, Waits(s) \/ \E w \in Strategies[s] : Recv(s, w)
  PROVE  StreamType'
  <1> USE Consts DEF StreamType, StreamStep, StreamPC
  <1>0. PubType /\ StreamType
    BY DEF WaitInv
  <1>1. CASE \E w \in Strategies[s] : Recv(s, w)
    BY <1>0, <1>1 DEF Recv
  <1>2. CASE TrySucceeds(s)
    <2>1. PICK n \in Readable(s) : last' = [last EXCEPT ![s] = n]
      BY <1>2 DEF TrySucceeds
    <2>2. n \in Seqs
      BY <1>0, <2>1 DEF Readable, PubType
    <2>3. 0 \in 0 .. WordMod - 1 /\ 0 \in 0 .. IterMax
      OBVIOUS
    <2> QED
      BY <1>0, <1>2, <2>1, <2>2, <2>3 DEF TrySucceeds, Return
  <1>3. CASE TryFails(s) \/ RetryFails(s) \/ Enlist(s) \/ WordChanged(s) \/ FutexWait(s)
             \/ SleepEnds(s) \/ Deadline(s) \/ Delist(s) \/ Alive(s)
    BY <1>0, <1>3 DEF TryFails, RetryFails, Enlist, WordChanged, FutexWait, SleepEnds,
         Deadline, Delist, Alive
  <1>4. CASE Spin(s)
    <2>1. iter[s] \in 0 .. IterMax
      BY <1>0
    <2>2. (IF iter[s] = IterMax THEN iter[s] ELSE iter[s] + 1) \in 0 .. IterMax
      BY <2>1
    <2> QED
      BY <1>0, <1>4, <2>2 DEF Spin
  <1>5. CASE LoadWord(s)
    <2>1. Word \in 0 .. WordMod - 1
      BY <1>0 DEF PubType, Word, Seqs
    <2> QED
      BY <1>0, <1>5, <2>1 DEF LoadWord
  <1>6. CASE PublisherDead(s)
    <2>1. 0 \in 0 .. WordMod - 1 /\ 0 \in 0 .. IterMax
      OBVIOUS
    <2> QED
      BY <1>0, <1>6, <2>1 DEF PublisherDead, Return
  <1> QED
    BY <1>1, <1>2, <1>3, <1>4, <1>5, <1>6 DEF Waits

LEMMA StreamCounts ==
  ASSUME WaitInv, NEW s \in Streams, Waits(s) \/ \E w \in Strategies[s] : Recv(s, w)
  PROVE  CountExact'
  <1>0. StreamType /\ CountExact
    BY DEF WaitInv
  <1>1. CASE Enlist(s)
    BY <1>0, <1>1, CountJoins DEF Enlist, CountExact
  <1>2. CASE Delist(s)
    BY <1>0, <1>2, CountLeaves DEF Delist, CountExact
  <1>3. CASE ~Enlist(s) /\ ~Delist(s)
    <2>1. UNCHANGED waiters
      BY <1>3 DEF Waits, Recv, TrySucceeds, TryFails, Spin, LoadWord, RetryFails, WordChanged,
           FutexWait, SleepEnds, Deadline, Alive, PublisherDead, shared
    <2>2. \E to : /\ StreamStep(s, spc[s], to)
                  /\ (spc[s] \in {"wait", "asleep", "ok", "timeout"})
                       <=> (to \in {"wait", "asleep", "ok", "timeout"})
      <3>1. CASE TrySucceeds(s) \/ PublisherDead(s)
        BY <3>1 DEF TrySucceeds, PublisherDead, Return, StreamStep
      <3>2. CASE (\E w \in Strategies[s] : Recv(s, w)) \/ LoadWord(s) \/ RetryFails(s)
                 \/ WordChanged(s) \/ FutexWait(s) \/ SleepEnds(s) \/ Deadline(s) \/ Alive(s)
        BY <3>2 DEF Recv, LoadWord, RetryFails, WordChanged, FutexWait, SleepEnds, Deadline,
             Alive, StreamStep
      <3>3. CASE TryFails(s)
        <4>1. StreamStep(s, spc[s], "load") \/ StreamStep(s, spc[s], "spin")
          BY <3>3 DEF TryFails, StreamStep
        <4> QED
          BY <3>3, <4>1 DEF TryFails, StreamStep
      <3>4. CASE Spin(s)
        <4>1. StreamStep(s, spc[s], "beat") \/ StreamStep(s, spc[s], "try")
          BY <3>4 DEF Spin, StreamStep
        <4> QED
          BY <3>4, <4>1 DEF Spin, StreamStep
      <3> QED
        BY <1>3, <3>1, <3>2, <3>3, <3>4 DEF Waits
    <2>3. Counted' = Counted
      BY <1>0, <2>2, CountStays
    <2> QED
      BY <1>0, <2>1, <2>3 DEF CountExact
  <1> QED
    BY <1>1, <1>2, <1>3

LEMMA StepHolds == WaitInv /\ [Next]_vars => WaitInv'
  <1> SUFFICES ASSUME WaitInv, [Next]_vars PROVE WaitInv'
    OBVIOUS
  <1>1. ASSUME NEW s \in Streams, Waits(s) \/ \E w \in Strategies[s] : Recv(s, w)
        PROVE  WaitInv'
    <2>1. PubType'
      BY <1>1, StreamFrame DEF WaitInv, PubType, pubVars
    <2> QED
      BY <1>1, <2>1, StreamTyped, StreamCounts DEF WaitInv
  <1>2. CASE Stale \/ UNCHANGED vars
    <2>1. PubType' /\ StreamType'
      BY <1>2 DEF WaitInv, Stale, vars, shared, pubVars, streamVars, PubType, StreamType
    <2>2. CountExact'
      BY <1>2, CountFrame DEF WaitInv, CountExact, Stale, vars, shared, streamVars
    <2> QED
      BY <2>1, <2>2 DEF WaitInv
  <1> QED
    BY <1>1, <1>2, PublisherStep DEF Next

LEMMA Invariant == Spec => []WaitInv
  BY InitHolds, StepHolds, PTL DEF Spec

(***************************************************************************)
(* The theorems                                                            *)
(***************************************************************************)
\* Every reachable state of the blocking receive is well typed; in particular
\* TE_WAITERS, a fetch_add and a fetch_sub apart, stays between 0 and the number
\* of streams and never wraps below zero.
THEOREM TypeCorrect == Spec => []TypeOK
  <1>1. WaitInv => TypeOK
    BY CountFacts DEF WaitInv, PubType, StreamType, CountExact, TypeOK
  <1> QED
    BY <1>1, Invariant, PTL

\* Whoever sleeps on the futex word, or has compared it and is about to, is counted in
\* TE_WAITERS: a commit that reads zero there may skip the wake (the smart wake).
THEOREM Counting == Spec => []SleepersCounted
  <1>1. WaitInv => SleepersCounted
    BY CountFacts DEF WaitInv, CountExact, SleepersCounted
  <1> QED
    BY <1>1, Invariant, PTL

=============================================================================
