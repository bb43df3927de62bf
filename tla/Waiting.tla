------------------------------- MODULE Waiting -------------------------------
(***************************************************************************)
(* Blocking receive: recv, recv_typed and recv_pinned spin, then sleep on  *)
(* the low half of TE_WRITE_SEQ, and a commit wakes the sleepers if it     *)
(* finds any counted in TE_WAITERS.                                        *)
(*                                                                         *)
(* One topic, published to either through the ring or pinned (`mode').     *)
(* Every access to TE_WRITE_SEQ, TE_WAITERS and to what makes a message    *)
(* readable is a step.  try_recv and try_recv_pinned, which PubSubRing and *)
(* PinnedTopic split further, are one step here: they find a readable      *)
(* message that is newer than last_seq, or nothing.  A ring commit under   *)
(* way may hide a message from a scan that it overlaps.                    *)
(*                                                                         *)
(* Time is left out: a sleep may end at any moment, a deadline or the      *)
(* heartbeat's stale_timeout may pass at any moment.                       *)
(***************************************************************************)
EXTENDS Naturals, FiniteSets

CONSTANTS Pubs,        \* publishers of the topic
          Crashable,   \* those that may die
          Streams,     \* its subscribers
          Modes,       \* ways to publish: "ring", "pinned"
          Strategies,  \* of each stream's receives: "adaptive", "spin"
          Depth,       \* ring_depth
          WordMod,     \* the futex word is write_seq modulo WordMod (2^32)
          SpinBudget,  \* spin_iters + yield_iters of WaitStrategy::Adaptive
          CheckEvery,  \* iterations between heartbeat checks (1024)
          IterMax,     \* u32::MAX, where the iteration counter saturates
          MaxSeq       \* bound: messages

ASSUME WaitingAssumption ==
  /\ Crashable \subseteq Pubs
  /\ IsFiniteSet(Streams)
  /\ Modes \subseteq {"ring", "pinned"}
  /\ Strategies \in [Streams -> SUBSET {"adaptive", "spin"}]
  /\ {Depth, WordMod, CheckEvery} \subseteq Nat \ {0}
  /\ {SpinBudget, IterMax, MaxSeq} \subseteq Nat
  /\ SpinBudget <= IterMax

VARIABLES mode,
          writeSeq,   \* TE_WRITE_SEQ
          shown,      \* seqs of the ring's closed slots, or the one pinned
          sentinel,   \* PINNED_WRITER_ACTIVE is set
          waiters,    \* TE_WAITERS
          fresh,      \* the heartbeat is younger than stale_timeout
          crashed,    \* publishers that died
          ppc, pseq, pwake,               \* publishers
          spc, strat, iter, cur, last     \* streams

shared == <<writeSeq, shown, sentinel, waiters>>
pubVars == <<ppc, pseq, pwake>>
streamVars == <<spc, strat, iter, cur, last>>
vars == <<mode, shared, fresh, crashed, pubVars, streamVars>>

Seqs == 0 .. MaxSeq
Word == writeSeq % WordMod
PubPC == {"idle", "claimed", "marked", "loaned", "bumped", "check", "wake", "leave"}
StreamPC == {"idle", "try", "spin", "load", "retry", "enlist", "wait", "asleep",
             "ok", "timeout", "beat"}

TypeOK ==
  /\ mode \in Modes
  /\ writeSeq \in Seqs
  /\ shown \in SUBSET Seqs
  /\ sentinel \in BOOLEAN
  /\ waiters \in 0 .. Cardinality(Streams)
  /\ fresh \in BOOLEAN
  /\ crashed \in SUBSET Pubs
  /\ ppc \in [Pubs -> PubPC]
  /\ pseq \in [Pubs -> Seqs]
  /\ pwake \in [Pubs -> BOOLEAN]
  /\ spc \in [Streams -> StreamPC]
  /\ strat \in [Streams -> {"adaptive", "spin"}]
  /\ iter \in [Streams -> 0 .. IterMax]
  /\ cur \in [Streams -> 0 .. WordMod - 1]
  /\ last \in [Streams -> Seqs]

\* A topic just registered, its streams subscribed.
Init ==
  /\ mode \in Modes
  /\ writeSeq = 0 /\ shown = {} /\ sentinel = FALSE /\ waiters = 0
  /\ fresh = TRUE /\ crashed = {}
  /\ ppc = [p \in Pubs |-> "idle"]
  /\ pseq = [p \in Pubs |-> 0]
  /\ pwake = [p \in Pubs |-> FALSE]
  /\ spc = [s \in Streams |-> "idle"]
  /\ strat = [s \in Streams |-> "adaptive"]
  /\ iter = [s \in Streams |-> 0]
  /\ cur = [s \in Streams |-> 0]
  /\ last = [s \in Streams |-> 0]

(***************************************************************************)
(* Publishing                                                              *)
(***************************************************************************)
PubStep(p, from, to) ==
  /\ p \notin crashed
  /\ ppc[p] = from
  /\ ppc' = [ppc EXCEPT ![p] = to]

\* fetch_add on write_seq: the futex word changes before the message shows.
Bump(p) ==
  /\ writeSeq < MaxSeq
  /\ writeSeq' = writeSeq + 1
  /\ pseq' = [pseq EXCEPT ![p] = writeSeq + 1]

\* Loan::publish or publish_silent.
ClaimSeq(p) ==
  /\ mode = "ring"
  /\ PubStep(p, "idle", "claimed")
  /\ Bump(p)
  /\ pwake' \in {[pwake EXCEPT ![p] = w] : w \in BOOLEAN}
  /\ UNCHANGED <<mode, shown, sentinel, waiters, fresh, crashed, streamVars>>

\* The slot is marked, and what it showed is gone; a marked slot is waited
\* for, or taken from a publisher that died.
Mark(p) ==
  /\ PubStep(p, "claimed", "marked")
  /\ \A q \in Pubs \ crashed :
       ppc[q] = "marked" => pseq[q] % Depth # pseq[p] % Depth
  /\ shown' = {n \in shown : n % Depth # pseq[p] % Depth}
  /\ UNCHANGED <<mode, writeSeq, sentinel, waiters, fresh, crashed, pseq, pwake,
                 streamVars>>

Close(p) ==
  /\ PubStep(p, "marked", IF pwake[p] THEN "check" ELSE "idle")
  /\ shown' = shown \cup {pseq[p]}
  /\ UNCHANGED <<mode, writeSeq, sentinel, waiters, fresh, crashed, pseq, pwake,
                 streamVars>>

\* loan_pinned; it fails while another publisher has the sentinel set.
LoanPinned(p) ==
  /\ mode = "pinned"
  /\ ~sentinel
  /\ PubStep(p, "idle", "loaned")
  /\ sentinel' = TRUE
  /\ UNCHANGED <<mode, writeSeq, shown, waiters, fresh, crashed, pseq, pwake, streamVars>>

\* Drop of the PinnedLoan.
DropPinnedLoan(p) ==
  /\ PubStep(p, "loaned", "idle")
  /\ sentinel' = FALSE
  /\ UNCHANGED <<mode, writeSeq, shown, waiters, fresh, crashed, pseq, pwake, streamVars>>

\* commit_pinned: claim the seq ...
BumpPinned(p) ==
  /\ PubStep(p, "loaned", "bumped")
  /\ Bump(p)
  /\ UNCHANGED <<mode, shown, sentinel, waiters, fresh, crashed, pwake, streamVars>>

\* ... and store it.  The sentinel, still set, hides the message.
StorePinned(p) ==
  /\ PubStep(p, "bumped", "check")
  /\ shown' = {pseq[p]}
  /\ UNCHANGED <<mode, writeSeq, sentinel, waiters, fresh, crashed, pseq, pwake,
                 streamVars>>

AfterWake == IF mode = "pinned" THEN "leave" ELSE "idle"

\* The smart wake: waiters is read ...
CheckWaiters(p) ==
  /\ PubStep(p, "check", IF waiters > 0 THEN "wake" ELSE AfterWake)
  /\ UNCHANGED <<mode, shared, fresh, crashed, pseq, pwake, streamVars>>

\* ... and wake_all called only if it was not zero.
WakeAll(p) ==
  /\ PubStep(p, "wake", AfterWake)
  /\ spc' = [s \in Streams |-> IF spc[s] = "asleep" THEN "wait" ELSE spc[s]]
  /\ UNCHANGED <<mode, shared, fresh, crashed, pseq, pwake, strat, iter, cur, last>>

\* PinnedLoan::publish clears the sentinel last.
LeaveWriter(p) ==
  /\ PubStep(p, "leave", "idle")
  /\ sentinel' = FALSE
  /\ UNCHANGED <<mode, writeSeq, shown, waiters, fresh, crashed, pseq, pwake, streamVars>>

\* Publisher::heartbeat, or the one in a loan.
Heartbeat(p) ==
  /\ PubStep(p, "idle", "idle")
  /\ fresh' = TRUE
  /\ UNCHANGED <<mode, shared, crashed, pseq, pwake, streamVars>>

Crash(p) ==
  /\ p \in Crashable \ crashed
  /\ crashed' = crashed \cup {p}
  /\ UNCHANGED <<mode, shared, fresh, pubVars, streamVars>>

\* stale_timeout passes without a heartbeat.
Stale ==
  /\ fresh
  /\ fresh' = FALSE
  /\ UNCHANGED <<mode, shared, crashed, pubVars, streamVars>>

(***************************************************************************)
(* blocking_recv                                                           *)
(***************************************************************************)
StreamStep(s, from, to) ==
  /\ spc[s] = from
  /\ spc' = [spc EXCEPT ![s] = to]

\* What a receive by s would find, now: newer than last_seq, within the window.
Readable(s) ==
  IF sentinel THEN {} ELSE {n \in shown : n > last[s] /\ n + Depth > writeSeq}

\* A ring commit under way: it may hide a message from a scan it overlaps.
Overlapped == \E p \in Pubs \ crashed : ppc[p] \in {"claimed", "marked"}

\* The call returns; its locals are gone.
Return(s) ==
  /\ spc' = [spc EXCEPT ![s] = "idle"]
  /\ strat' = [strat EXCEPT ![s] = "adaptive"]
  /\ iter' = [iter EXCEPT ![s] = 0]
  /\ cur' = [cur EXCEPT ![s] = 0]

Recv(s, w) ==
  /\ StreamStep(s, "idle", "try")
  /\ strat' = [strat EXCEPT ![s] = w]
  /\ UNCHANGED <<mode, shared, fresh, crashed, pubVars, iter, cur, last>>

TrySucceeds(s) ==
  /\ spc[s] \in {"try", "retry"}
  /\ \E n \in Readable(s) : last' = [last EXCEPT ![s] = n]
  /\ Return(s)
  /\ UNCHANGED <<mode, shared, fresh, crashed, pubVars>>

\* Nothing to receive: wait as the strategy says.
Sleeps(s) == strat[s] = "adaptive" /\ iter[s] >= SpinBudget
TryFails(s) ==
  /\ Readable(s) = {} \/ Overlapped
  /\ StreamStep(s, "try", IF Sleeps(s) THEN "load" ELSE "spin")
  /\ UNCHANGED <<mode, shared, fresh, crashed, pubVars, strat, iter, cur, last>>

\* One iteration of spinning; every CheckEvery of them look at the heartbeat.
Spin(s) ==
  /\ iter' = [iter EXCEPT ![s] = IF @ = IterMax THEN @ ELSE @ + 1]
  /\ StreamStep(s, "spin", IF iter'[s] % CheckEvery = 0 THEN "beat" ELSE "try")
  /\ UNCHANGED <<mode, shared, fresh, crashed, pubVars, strat, cur, last>>

\* Load the futex word, try once more, count as a waiter.
LoadWord(s) ==
  /\ StreamStep(s, "load", "retry")
  /\ cur' = [cur EXCEPT ![s] = Word]
  /\ UNCHANGED <<mode, shared, fresh, crashed, pubVars, strat, iter, last>>

RetryFails(s) ==
  /\ Readable(s) = {} \/ Overlapped
  /\ StreamStep(s, "retry", "enlist")
  /\ UNCHANGED <<mode, shared, fresh, crashed, pubVars, strat, iter, cur, last>>

Enlist(s) ==
  /\ StreamStep(s, "enlist", "wait")
  /\ waiters' = waiters + 1
  /\ UNCHANGED <<mode, writeSeq, shown, sentinel, fresh, crashed, pubVars, strat, iter,
                 cur, last>>

\* wait_until_not sees another value, ...
WordChanged(s) ==
  /\ Word # cur[s]
  /\ StreamStep(s, "wait", "ok")
  /\ UNCHANGED <<mode, shared, fresh, crashed, pubVars, strat, iter, cur, last>>

\* ... or sleeps, the kernel having compared the word itself, ...
FutexWait(s) ==
  /\ Word = cur[s]
  /\ StreamStep(s, "wait", "asleep")
  /\ UNCHANGED <<mode, shared, fresh, crashed, pubVars, strat, iter, cur, last>>

\* Mutant: the sleep has no time limit.
SleepEnds_Never(s) == FALSE /\ UNCHANGED vars

\* ... for at most 10 ms, or until woken for no reason, ...
SleepEnds(s) ==
  /\ StreamStep(s, "asleep", "wait")
  /\ UNCHANGED <<mode, shared, fresh, crashed, pubVars, strat, iter, cur, last>>

\* Mutant: a timeout is taken for a change of the word.
Deadline_Ok(s) ==
  /\ Word = cur[s]
  /\ StreamStep(s, "wait", "ok")
  /\ UNCHANGED <<mode, shared, fresh, crashed, pubVars, strat, iter, cur, last>>

\* ... or gives up at its deadline.
Deadline(s) ==
  /\ Word = cur[s]
  /\ StreamStep(s, "wait", "timeout")
  /\ UNCHANGED <<mode, shared, fresh, crashed, pubVars, strat, iter, cur, last>>

\* Mutants: the counter is not decremented; it is reset.
Delist_Forgotten(s) ==
  /\ spc[s] \in {"ok", "timeout"}
  /\ spc' = [spc EXCEPT ![s] = IF spc[s] = "timeout" THEN "beat" ELSE "try"]
  /\ UNCHANGED <<mode, shared, fresh, crashed, pubVars, strat, iter, cur, last>>

Delist_Reset(s) ==
  /\ spc[s] \in {"ok", "timeout"}
  /\ spc' = [spc EXCEPT ![s] = IF spc[s] = "timeout" THEN "beat" ELSE "try"]
  /\ waiters' = 0
  /\ UNCHANGED <<mode, writeSeq, shown, sentinel, fresh, crashed, pubVars, strat, iter,
                 cur, last>>

\* No longer a waiter; after a timeout the heartbeat is looked at.
Delist(s) ==
  /\ spc[s] \in {"ok", "timeout"}
  /\ spc' = [spc EXCEPT ![s] = IF spc[s] = "timeout" THEN "beat" ELSE "try"]
  /\ waiters' = waiters - 1
  /\ UNCHANGED <<mode, writeSeq, shown, sentinel, fresh, crashed, pubVars, strat, iter,
                 cur, last>>

\* check_heartbeat passes, or recv returns PublisherDead.
Alive(s) ==
  /\ fresh
  /\ StreamStep(s, "beat", "try")
  /\ UNCHANGED <<mode, shared, fresh, crashed, pubVars, strat, iter, cur, last>>

PublisherDead(s) ==
  /\ spc[s] = "beat"
  /\ ~fresh
  /\ Return(s)
  /\ UNCHANGED <<mode, shared, fresh, crashed, pubVars, last>>

CommitStep(p) ==
  \/ Mark(p) \/ Close(p) \/ StorePinned(p)
  \/ CheckWaiters(p) \/ WakeAll(p) \/ LeaveWriter(p)

Waits(s) ==
  \/ TrySucceeds(s) \/ TryFails(s) \/ Spin(s)
  \/ LoadWord(s) \/ RetryFails(s) \/ Enlist(s)
  \/ WordChanged(s) \/ FutexWait(s) \/ SleepEnds(s) \/ Deadline(s) \/ Delist(s)
  \/ Alive(s) \/ PublisherDead(s)

Next ==
  \/ \E p \in Pubs :
       \/ ClaimSeq(p) \/ LoanPinned(p) \/ DropPinnedLoan(p) \/ BumpPinned(p)
       \/ CommitStep(p) \/ Heartbeat(p) \/ Crash(p)
  \/ \E s \in Streams : Waits(s) \/ \E w \in Strategies[s] : Recv(s, w)
  \/ Stale

Spec == Init /\ [][Next]_vars

(***************************************************************************)
(* Fairness: a commit that has begun and a receive that has begun run on   *)
(* in their threads.  Time passes: a deadline that is looked at again and  *)
(* again has passed at last (each sleep lasts 10 ms at most), and once no  *)
(* publisher is left the heartbeat grows stale.                            *)
(***************************************************************************)
FairSpec ==
  /\ Spec
  /\ \A p \in Pubs : WF_vars(CommitStep(p))
  /\ \A s \in Streams : WF_vars(Waits(s)) /\ SF_vars(Deadline(s))
  /\ WF_vars(crashed = Pubs /\ Stale)

(***************************************************************************)
(* Properties                                                              *)
(***************************************************************************)
InRecv(s) == spc[s] # "idle"

\* What lets a publisher that reads no waiters skip the wake: whoever sleeps,
\* or is about to, is counted.
SleepersCounted ==
  Cardinality({s \in Streams : spc[s] \in {"wait", "asleep"}}) <= waiters

\* No receive waits for good beside a message it could return, whichever way
\* the publisher's bump, its check of waiters and its wake fall among the
\* receiver's load, second try, count and sleep.
RecvReturns == \A s \in Streams : []<>~(InRecv(s) /\ Readable(s) # {})

\* Blocking receive (subscription.rs): "Returns [`Error::PublisherDead`] if
\* the publisher heartbeat goes stale" -- unless the iteration counter of a
\* spinning receive has saturated, at a number the check is not due at.
DeathReported ==
  \A s \in Streams : InRecv(s) /\ crashed = Pubs ~> ~InRecv(s) \/ iter[s] = IterMax
=============================================================================
