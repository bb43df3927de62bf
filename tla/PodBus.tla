------------------------------- MODULE PodBus -------------------------------
(***************************************************************************)
(* The SPMC broadcast ring of pod_bus.rs: one publisher, any number of     *)
(* subscribers with a cursor of their own, and in bounded mode an array of *)
(* subscriber slots through which the publisher learns how far they are.   *)
(*                                                                         *)
(* Every access to shared memory is a step.  A value is the seq it is      *)
(* published with; while it is written the slot's data are `Torn'.         *)
(*                                                                         *)
(* PodBus::subscriber borrows the publisher, so that a Local subscriber    *)
(* connects while no publish is under way; the others call                 *)
(* BusSubscriber::connect in another process, at any time.                 *)
(***************************************************************************)
EXTENDS Integers, FiniteSets, FiniteSetsExt

CONSTANTS Subs,        \* subscribers
          Local,       \* those connected with PodBus::subscriber
          Crashable,   \* those whose process may crash
          RingSize,    \* a power of two
          Watermarks,  \* of create_bounded
          Unbounded,   \* the mode of create
          SlotCounts,  \* sizes of the slot table (MAX_SUBSCRIBER_SLOTS)
          Torn,        \* data of a slot that is being written
          NoPid,       \* pid 0
          MaxSeq       \* bound: values published

ASSUME PodBusAssumption ==
  /\ Local \subseteq Subs
  /\ Crashable \subseteq Subs \ Local
  /\ RingSize \in Nat \ {0}
  /\ Watermarks \subseteq 0 .. RingSize - 1
  /\ Unbounded \notin Nat
  /\ SlotCounts \subseteq Nat \ {0}
  /\ Torn \notin Nat
  /\ NoPid \notin Subs
  /\ MaxSeq \in Nat

VARIABLES watermark,   \* the publisher's mode, fixed when it is created
          writeSeq,    \* PH_WRITE_SEQ
          ring,        \* slots: stamp and data
          state,       \* SS_STATE_CURSOR of each subscriber slot
          pid,         \* SS_PID of each; a subscriber stands for its process
          crashed,     \* subscribers whose process is gone
          robbed,      \* history: the publisher has freed a slot under a living
                       \* subscriber of another process
          ppc, cachedSlowest, scan, min,   \* the publisher; `min' is a set
          cpc, cursor, lagged, slot,       \* the subscribers
          stamp, val,                      \* try_recv's locals
          start, got   \* history: first seq wanted, values received

shared == <<watermark, writeSeq, ring, state, pid>>
fate == <<crashed, robbed>>
pubVars == <<ppc, cachedSlowest, scan, min>>
history == <<start, got>>
subVars == <<cpc, cursor, lagged, slot, stamp, val, history>>
vars == <<shared, fate, pubVars, subVars>>

Slots == DOMAIN state
TableEnd == Cardinality(Slots) + 1
Seqs == 0 .. MaxSeq
Free == [st |-> "free", at |-> 0]
Claiming == [st |-> "claiming", at |-> 0]   \* the claim's time is left out
Active(c) == [st |-> "active", at |-> c]

Connecting == {"claim", "pid", "activate"}
Owning == {"pid", "activate", "idle", "stamp", "data", "check", "update"}

Bounded == watermark # Unbounded

TypeOK ==
  /\ watermark \in Watermarks \cup {Unbounded}
  /\ writeSeq \in Seqs
  /\ ring \in [0 .. RingSize - 1 -> [stamp : 0 .. 2 * MaxSeq, data : Seqs \cup {Torn}]]
  /\ \E n \in SlotCounts : Slots = 1 .. n
  /\ state \in [Slots -> {Free, Claiming} \cup {Active(c) : c \in Seqs}]
  /\ pid \in [Slots -> Subs \cup {NoPid}]
  /\ crashed \in SUBSET Crashable
  /\ robbed \in BOOLEAN
  /\ ppc \in {"idle", "check", "scan", "scanpid", "prune", "prunepid",
              "mark", "write", "finish", "commit", "advance", "gone"}
  /\ cachedSlowest \in Seqs
  /\ scan \in [idx : 1 .. TableEnd, at : Seqs]
  /\ min \in SUBSET Seqs
  /\ cpc \in [Subs -> {"off", "claim", "unpid"} \cup Owning]
  /\ cursor \in [Subs -> Seqs]
  /\ lagged \in [Subs -> Seqs]
  /\ slot \in [Subs -> 0 .. TableEnd]
  /\ stamp \in [Subs -> 0 .. 2 * MaxSeq]
  /\ val \in [Subs -> Seqs \cup {Torn}]
  /\ start \in [Subs -> Seqs]
  /\ got \in [Subs -> SUBSET (Seqs \cup {Torn})]

\* create_inner: zeroed stamps and subscriber slots.
Init ==
  /\ watermark \in Watermarks \cup {Unbounded}
  /\ writeSeq = 0
  /\ ring = [i \in 0 .. RingSize - 1 |-> [stamp |-> 0, data |-> Torn]]
  /\ \E n \in SlotCounts :
       /\ state = [i \in 1 .. n |-> Free]
       /\ pid = [i \in 1 .. n |-> NoPid]
  /\ crashed = {}
  /\ robbed = FALSE
  /\ ppc = "idle"
  /\ cachedSlowest = 0
  /\ scan = [idx |-> 1, at |-> 0]
  /\ min = {}
  /\ cpc = [s \in Subs |-> "off"]
  /\ cursor = [s \in Subs |-> 0]
  /\ lagged = [s \in Subs |-> 0]
  /\ slot = [s \in Subs |-> 0]
  /\ stamp = [s \in Subs |-> 0]
  /\ val = [s \in Subs |-> 0]
  /\ start = [s \in Subs |-> 0]
  /\ got = [s \in Subs |-> {}]

(***************************************************************************)
(* The publisher                                                           *)
(***************************************************************************)
Step(from, to) == ppc = from /\ ppc' = to

\* Mutant: one value more than there are slots before the watermark.
Effective_TooMany == RingSize + 1 - watermark

\* How many values the publisher may be ahead of the slowest subscriber.
Effective == RingSize - watermark

\* publish or try_publish is called; both take the publisher for themselves.
Publish ==
  /\ Step("idle", IF Bounded THEN "check" ELSE "mark")
  /\ writeSeq < MaxSeq
  /\ \A s \in Local : cpc[s] \notin Connecting
  /\ UNCHANGED <<shared, fate, cachedSlowest, scan, min, subVars>>

\* The fast path of try_publish: room enough by the cached cursor ...
CheckCached ==
  /\ Step("check", "mark")
  /\ writeSeq < cachedSlowest + Effective
  /\ UNCHANGED <<shared, fate, cachedSlowest, scan, min, subVars>>

\* ... or else slowest_subscriber_cursor looks at every slot in turn.
StartScan ==
  /\ Step("check", "scan")
  /\ writeSeq >= cachedSlowest + Effective
  /\ UNCHANGED <<shared, fate, cachedSlowest, scan, min, subVars>>

NextScan == scan' = [idx |-> scan.idx + 1, at |-> 0]

\* A free slot, or a claim that is younger than 5 s.
ScanSkip ==
  /\ Step("scan", "scan")
  /\ scan.idx \in Slots
  /\ state[scan.idx].st # "active"
  /\ NextScan
  /\ UNCHANGED <<shared, fate, cachedSlowest, min, subVars>>

\* The slot is freed, whoever thinks that it is his.
FreeSlot ==
  /\ state' = [state EXCEPT ![scan.idx] = Free]
  /\ robbed' = (\/ robbed
                 \/ \E s \in Subs \ (Local \cup crashed) :
                      cpc[s] \in Owning /\ slot[s] = scan.idx)

\* A claim older than 5 s is freed by compare-exchange: the claimant is dead,
\* or so slow that it will go on to activate what is no longer its slot.
ScanStaleClaim ==
  /\ Step("scan", "prunepid")
  /\ scan.idx \in Slots
  /\ state[scan.idx] = Claiming
  /\ FreeSlot
  /\ UNCHANGED <<watermark, writeSeq, ring, pid, crashed, cachedSlowest, scan, min,
                 subVars>>

\* An active slot: its cursor is read, then its pid, ...
ScanActive ==
  /\ Step("scan", "scanpid")
  /\ scan.idx \in Slots
  /\ state[scan.idx].st = "active"
  /\ scan' = [scan EXCEPT !.at = state[scan.idx].at]
  /\ UNCHANGED <<shared, fate, cachedSlowest, min, subVars>>

ScanAlive ==
  /\ Step("scanpid", "scan")
  /\ pid[scan.idx] \notin crashed
  /\ min' = {Min(min \cup {scan.at})}
  /\ NextScan
  /\ UNCHANGED <<shared, fate, cachedSlowest, subVars>>

\* Mutant: a slot with a pid is taken for dead.
ScanDead_Any ==
  /\ Step("scanpid", "prune")
  /\ pid[scan.idx] # NoPid
  /\ UNCHANGED <<shared, fate, cachedSlowest, scan, min, subVars>>

ScanDead ==
  /\ Step("scanpid", "prune")
  /\ pid[scan.idx] \in crashed
  /\ UNCHANGED <<shared, fate, cachedSlowest, scan, min, subVars>>

\* ... and the slot of a dead process is freed by a plain store.
Prune ==
  /\ Step("prune", "prunepid")
  /\ FreeSlot
  /\ UNCHANGED <<watermark, writeSeq, ring, pid, crashed, cachedSlowest, scan, min,
                 subVars>>

PrunePid ==
  /\ Step("prunepid", "scan")
  /\ pid' = [pid EXCEPT ![scan.idx] = NoPid]
  /\ NextScan
  /\ UNCHANGED <<watermark, writeSeq, ring, state, fate, cachedSlowest, min, subVars>>

\* slowest_subscriber_cursor returns; its locals are gone.
ScanOver ==
  /\ scan.idx = TableEnd
  /\ scan' = [idx |-> 1, at |-> 0]
  /\ min' = {}

\* The scan is over: there is room, ...
ScanRoom ==
  /\ Step("scan", "mark")
  /\ ScanOver
  /\ \A m \in min : writeSeq < m + Effective
  /\ cachedSlowest' = IF min = {} THEN cachedSlowest ELSE Min(min)
  /\ UNCHANGED <<shared, fate, subVars>>

\* ... or not: try_publish returns Error::Full, publish tries again.
ScanFull ==
  /\ \/ Step("scan", "idle")
     \/ Step("scan", "check")
  /\ ScanOver
  /\ \E m \in min : writeSeq >= m + Effective /\ cachedSlowest' = m
  /\ UNCHANGED <<shared, fate, subVars>>

Mine == writeSeq % RingSize

\* publish_unchecked: the odd stamp, ...
MarkSlot ==
  /\ Step("mark", "write")
  /\ ring' = [ring EXCEPT ![Mine].stamp = writeSeq * 2 + 1]
  /\ UNCHANGED <<watermark, writeSeq, state, pid, fate, cachedSlowest, scan, min,
                 subVars>>

\* ... the value, which is not written at once, ...
WriteData ==
  /\ \/ /\ Step("write", "finish")
        /\ ring' = [ring EXCEPT ![Mine].data = Torn]
     \/ /\ Step("finish", "commit")
        /\ ring' = [ring EXCEPT ![Mine].data = writeSeq]
  /\ UNCHANGED <<watermark, writeSeq, state, pid, fate, cachedSlowest, scan, min,
                 subVars>>

\* ... the even stamp, ...
CommitSlot ==
  /\ Step("commit", "advance")
  /\ ring' = [ring EXCEPT ![Mine].stamp = writeSeq * 2 + 2]
  /\ UNCHANGED <<watermark, writeSeq, state, pid, fate, cachedSlowest, scan, min,
                 subVars>>

\* ... and the new sequence.
Advance ==
  /\ Step("advance", "idle")
  /\ writeSeq' = writeSeq + 1
  /\ UNCHANGED <<watermark, ring, state, pid, fate, cachedSlowest, scan, min, subVars>>

\* Drop of the PodBus: the file is removed; subscribers keep their mapping.
DropBus ==
  /\ Step("idle", "gone")
  /\ \A s \in Local : cpc[s] \notin Connecting
  /\ UNCHANGED <<shared, fate, cachedSlowest, scan, min, subVars>>

(***************************************************************************)
(* Subscribers                                                             *)
(***************************************************************************)
SubStep(s, from, to) ==
  /\ s \notin crashed
  /\ cpc[s] = from
  /\ cpc' = [cpc EXCEPT ![s] = to]

\* connect: the cursor starts at the current position.
Connect(s) ==
  /\ SubStep(s, "off", IF Bounded THEN "claim" ELSE "idle")
  /\ IF s \in Local THEN ppc = "idle" ELSE ppc # "gone"
  /\ cursor' = [cursor EXCEPT ![s] = writeSeq]
  /\ slot' = [slot EXCEPT ![s] = 1]
  /\ start' = [start EXCEPT ![s] = writeSeq]
  /\ UNCHANGED <<shared, fate, pubVars, lagged, stamp, val, got>>

\* claim_subscriber_slot: slot after slot is tried; a free one becomes
\* CLAIMING, ...
ClaimSlot(s) ==
  /\ SubStep(s, "claim", "pid")
  /\ slot[s] \in Slots
  /\ state[slot[s]] = Free
  /\ state' = [state EXCEPT ![slot[s]] = Claiming]
  /\ UNCHANGED <<watermark, writeSeq, ring, pid, fate, pubVars, cursor, lagged,
                 slot, stamp, val, history>>

\* Mutant: the loop over the slots has no end.
ClaimNext_Endless(s) ==
  /\ SubStep(s, "claim", "claim")
  /\ (slot[s] \in Slots) => (state[slot[s]] # Free)
  /\ slot' = [slot EXCEPT ![s] = @ + 1]
  /\ UNCHANGED <<shared, fate, pubVars, cursor, lagged, stamp, val, history>>

ClaimNext(s) ==
  /\ SubStep(s, "claim", "claim")
  /\ slot[s] \in Slots
  /\ state[slot[s]] # Free
  /\ slot' = [slot EXCEPT ![s] = @ + 1]
  /\ UNCHANGED <<shared, fate, pubVars, cursor, lagged, stamp, val, history>>

\* What is left of a subscriber that is gone.
Forget(s) ==
  /\ cursor' = [cursor EXCEPT ![s] = 0]
  /\ lagged' = [lagged EXCEPT ![s] = 0]
  /\ slot' = [slot EXCEPT ![s] = 0]
  /\ start' = [start EXCEPT ![s] = 0]
  /\ got' = [got EXCEPT ![s] = {}]

\* ... no slot is left, ...
ClaimFails(s) ==
  /\ SubStep(s, "claim", "off")
  /\ slot[s] \notin Slots
  /\ Forget(s)
  /\ UNCHANGED <<shared, fate, pubVars, stamp, val>>

\* ... the pid is written, ...
WritePid(s) ==
  /\ SubStep(s, "pid", "activate")
  /\ pid' = [pid EXCEPT ![slot[s]] = s]
  /\ UNCHANGED <<watermark, writeSeq, ring, state, fate, pubVars, cursor, lagged,
                 slot, stamp, val, history>>

\* ... and the slot becomes ACTIVE with the cursor read at the start.
Activate(s) ==
  /\ SubStep(s, "activate", "idle")
  /\ state' = [state EXCEPT ![slot[s]] = Active(cursor[s])]
  /\ UNCHANGED <<watermark, writeSeq, ring, pid, fate, pubVars, cursor, lagged,
                 slot, stamp, val, history>>

\* try_recv: with something new, a subscriber more than a ring behind skips
\* to the oldest value of the ring (with nothing new: None, no change).
TryRecv(s) ==
  /\ SubStep(s, "idle", "stamp")
  /\ cursor[s] < writeSeq
  /\ LET skipped == Max({0, writeSeq - RingSize - cursor[s]})
     IN /\ lagged' = [lagged EXCEPT ![s] = @ + skipped]
        /\ cursor' = [cursor EXCEPT ![s] = @ + skipped]
  /\ UNCHANGED <<shared, fate, pubVars, slot, stamp, val, history>>

His(s) == cursor[s] % RingSize

\* The stamp is read; None when a write is in progress ...
ReadStamp(s) ==
  /\ LET now == ring[His(s)].stamp
     IN \/ /\ now % 2 = 1 \/ now = 0
           /\ SubStep(s, "stamp", "idle")
           /\ UNCHANGED stamp
        \/ /\ now % 2 = 0 /\ now # 0
           /\ SubStep(s, "stamp", "data")
           /\ stamp' = [stamp EXCEPT ![s] = now]
  /\ UNCHANGED <<shared, fate, pubVars, cursor, lagged, slot, val, history>>

\* ... then the data, ...
ReadData(s) ==
  /\ SubStep(s, "data", "check")
  /\ val' = [val EXCEPT ![s] = ring[His(s)].data]
  /\ UNCHANGED <<shared, fate, pubVars, cursor, lagged, slot, stamp, history>>

ForgetRead(s) ==
  /\ stamp' = [stamp EXCEPT ![s] = 0]
  /\ val' = [val EXCEPT ![s] = 0]

\* ... and the stamp again.  None when it changed.
StampChanged(s) ==
  /\ SubStep(s, "check", "idle")
  /\ ring[His(s)].stamp # stamp[s]
  /\ ForgetRead(s)
  /\ UNCHANGED <<shared, fate, pubVars, cursor, lagged, slot, history>>

\* Mutant: the cursor stops at the value that was found, the count does not.
Overwritten_OffByOne(s) ==
  /\ SubStep(s, "check", "idle")
  /\ ring[His(s)].stamp = stamp[s]
  /\ stamp[s] # cursor[s] * 2 + 2
  /\ cursor' = [cursor EXCEPT ![s] = stamp[s] \div 2 - 1]
  /\ lagged' = [lagged EXCEPT ![s] = @ + stamp[s] \div 2 - cursor[s]]
  /\ ForgetRead(s)
  /\ UNCHANGED <<shared, fate, pubVars, slot, history>>

\* None also when it is the stamp of a later value: the cursor goes past
\* that one, and the subscriber slot is not told.
Overwritten(s) ==
  /\ SubStep(s, "check", "idle")
  /\ ring[His(s)].stamp = stamp[s]
  /\ stamp[s] # cursor[s] * 2 + 2
  /\ cursor' = [cursor EXCEPT ![s] = stamp[s] \div 2]
  /\ lagged' = [lagged EXCEPT ![s] = @ + stamp[s] \div 2 - cursor[s]]
  /\ ForgetRead(s)
  /\ UNCHANGED <<shared, fate, pubVars, slot, history>>

\* The value is the one at the cursor.
Receive(s) ==
  /\ SubStep(s, "check", IF Bounded THEN "update" ELSE "idle")
  /\ ring[His(s)].stamp = stamp[s]
  /\ stamp[s] = cursor[s] * 2 + 2
  /\ cursor' = [cursor EXCEPT ![s] = @ + 1]
  /\ got' = [got EXCEPT ![s] = @ \cup {val[s]}]
  /\ ForgetRead(s)
  /\ UNCHANGED <<shared, fate, pubVars, lagged, slot, start>>

\* Mutant: the subscriber slot is not told of the new cursor.
UpdateCursor_Forgotten(s) ==
  /\ SubStep(s, "update", "idle")
  /\ UNCHANGED <<shared, fate, pubVars, cursor, lagged, slot, stamp, val, history>>

\* update_shm_cursor, before try_recv returns the value.
UpdateCursor(s) ==
  /\ SubStep(s, "update", "idle")
  /\ state' = [state EXCEPT ![slot[s]] = Active(cursor[s])]
  /\ UNCHANGED <<watermark, writeSeq, ring, pid, fate, pubVars, cursor, lagged,
                 slot, stamp, val, history>>

\* Drop of a BusSubscriber: the slot is freed, then its pid cleared.
DropSub(s) ==
  /\ SubStep(s, "idle", IF Bounded THEN "unpid" ELSE "off")
  /\ IF Bounded
       THEN /\ state' = [state EXCEPT ![slot[s]] = Free]
            /\ UNCHANGED <<cursor, lagged, slot, history>>
       ELSE Forget(s) /\ UNCHANGED state
  /\ UNCHANGED <<watermark, writeSeq, ring, pid, fate, pubVars, stamp, val>>

ClearPid(s) ==
  /\ SubStep(s, "unpid", "off")
  /\ pid' = [pid EXCEPT ![slot[s]] = NoPid]
  /\ Forget(s)
  /\ UNCHANGED <<watermark, writeSeq, ring, state, fate, pubVars, stamp, val>>

\* A subscriber's process dies; shared memory keeps what it wrote.
Crash(s) ==
  /\ s \in Crashable \ crashed
  /\ cpc[s] # "off"
  /\ crashed' = crashed \cup {s}
  /\ UNCHANGED <<shared, robbed, pubVars, subVars>>

PubStep ==
  \/ CheckCached \/ StartScan \/ ScanSkip \/ ScanStaleClaim
  \/ ScanActive \/ ScanAlive \/ ScanDead \/ Prune \/ PrunePid
  \/ ScanRoom \/ ScanFull
  \/ MarkSlot \/ WriteData \/ CommitSlot \/ Advance

SubGo(s) ==
  \/ ClaimSlot(s) \/ ClaimNext(s) \/ ClaimFails(s) \/ WritePid(s) \/ Activate(s)
  \/ TryRecv(s) \/ ReadStamp(s) \/ ReadData(s)
  \/ StampChanged(s) \/ Overwritten(s) \/ Receive(s) \/ UpdateCursor(s)
  \/ ClearPid(s)

Next ==
  \/ Publish \/ DropBus \/ PubStep
  \/ \E s \in Subs : Connect(s) \/ SubGo(s) \/ DropSub(s) \/ Crash(s)

Spec == Init /\ [][Next]_vars

\* publish spins until it is done, and a subscriber that lives goes on
\* receiving: try_recv is called again and again.
FairSpec ==
  /\ Spec
  /\ WF_vars(PubStep)
  /\ \A s \in Subs : WF_vars(SubGo(s))

(***************************************************************************)
(* Properties                                                              *)
(***************************************************************************)

\* What the log of the bus is: a value is there once its slot has the even stamp.
\* A subscriber is in from its read of the position until it gives up its slot.
Published == writeSeq + (IF ppc = "advance" THEN 1 ELSE 0)

View(s) ==
  IF cpc[s] \in {"off", "unpid"}
  THEN [in |-> FALSE, from |-> 0, pos |-> 0, got |-> {}, missed |-> 0]
  ELSE [in |-> TRUE, from |-> start[s], pos |-> cursor[s], got |-> got[s], missed |-> lagged[s]]

B == INSTANCE Broadcast WITH
       Lossy <- Unbounded,
       room <- IF Bounded /\ ~robbed THEN Effective ELSE Unbounded,
       log <- Published,
       sub <- [s \in Subs |-> View(s)]

\* The seqlock ring, the slot table and the watermark implement the broadcast: each
\* value is received whole and once, in order, or is skipped and then counted in
\* total_lagged.  A subscriber skips only when the value it wants has been
\* overwritten, and then either to the oldest value of the ring or just past the
\* value it found instead, which leaves out values the ring still holds (see
\* SkipsToOldest).  A bounded bus makes none of its own process's subscribers skip,
\* as long as no subscriber of another process has been robbed of its slot; torn
\* and overwritten slots are told apart.
ImplementsBroadcast == B!Spec

\* What try_recv says of a subscriber that has fallen behind: it "advances its cursor
\* to the oldest still-available data", so that no value it skips is in the ring.
SkipsToOldest ==
  [][\A s \in Subs : lagged'[s] > lagged[s] =>
       \A n \in cursor[s] .. cursor'[s] - 1, i \in DOMAIN ring : ring[i].stamp # n * 2 + 2]_vars

\* Lossless mode: the publisher never writes over a value that a subscriber
\* connected through PodBus::subscriber has yet to read, so none ever lags.
\* Void once a slot was freed under a living subscriber of another process: that
\* one goes on to store its cursor in a slot that may be another's by then.
LosslessLocal ==
  Bounded /\ ~robbed => \A s \in Local :
    cpc[s] \notin {"off", "unpid"} =>
      /\ lagged[s] = 0
      /\ writeSeq <= cursor[s] + RingSize - watermark

\* The slot of a subscriber that may receive is ACTIVE, at no later a value
\* than the one it reads next, and is no other living subscriber's.
OwnsSlot(s) ==
  cpc[s] \in Owning \ {"pid", "activate"} =>
    /\ state[slot[s]].st = "active"
    /\ state[slot[s]].at <= cursor[s]
    /\ \A t \in Subs \ (crashed \cup {s}) : cpc[t] \in Owning => slot[t] # slot[s]

\* Neither the publisher's prunes nor the others' claims, drops and crashes
\* take its slot from a subscriber connected through PodBus::subscriber, unless
\* one of another process has been robbed first.
LocalSlotKept == Bounded /\ ~robbed => \A s \in Local : OwnsSlot(s)

\* publish returns: a full ring does not stay full while the subscribers go
\* on receiving.
PublishCompletes == ppc = "check" ~> ppc \in {"idle", "gone"}

\* The same, where no subscriber of another process holds a slot for good, or has
\* been robbed of one.
PublishCompletesLocal ==
  <>[](~robbed /\ \A s \in Subs \ Local : cpc[s] = "off") =>
    (ppc = "check" ~> ppc \in {"idle", "gone"})
=============================================================================
