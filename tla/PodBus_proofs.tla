---------------------------- MODULE PodBus_proofs ----------------------------
(***************************************************************************)
(* Proofs about PodBus, for any number of subscribers, ring size, slot     *)
(* table and watermark.                                                    *)
(*                                                                         *)
(* The inductive invariant BusInv adds to the type invariant what each     *)
(* side knows of the other: which value every ring slot holds (RingOK),    *)
(* what the publisher knows of its own progress (PubOK), what a subscriber *)
(* has read (SubOK), who has which subscriber slot while nobody has been   *)
(* robbed (SlotOK), and how the backpressure scan keeps the publisher      *)
(* behind its own process's subscribers (LocalOK).                         *)
(***************************************************************************)
EXTENDS PodBus, FiniteSetTheorems, TLAPS

Scanning == {"scan", "scanpid", "prune", "prunepid"}
Writing == {"mark", "write", "finish", "commit", "advance"}

\* Each slot of the ring holds the last value published in it, with the stamp
\* of that value, except the one being written.
RingOK ==
  \A i \in 0 .. RingSize - 1 :
    IF i = Mine /\ ppc \in {"write", "finish", "commit"}
    THEN /\ ring[i].stamp = writeSeq * 2 + 1
         /\ ppc = "commit" => ring[i].data = writeSeq
    ELSE \/ ring[i].stamp = 0 /\ Published <= i
         \/ \E n \in Seqs : /\ n < Published /\ Published <= n + RingSize
                           /\ n % RingSize = i
                           /\ ring[i].stamp = n * 2 + 2 /\ ring[i].data = n

\* No cursor that the publisher reads or keeps is ahead of it.
PubOK ==
  /\ ppc \notin {"idle", "gone"} => writeSeq < MaxSeq
  /\ ppc \in Scanning \ {"scan"} => scan.idx \in Slots
  /\ ppc \notin Scanning => scan.idx = 1 /\ min = {}
  /\ cachedSlowest <= writeSeq
  /\ scan.at <= writeSeq
  /\ \A i \in Slots : state[i].at <= writeSeq
  /\ \A m \in min : m <= writeSeq /\ min = {m}

\* The stamp a subscriber has read is that of value n, which is at its cursor or
\* a whole number of rings later; if it is still there, so is what was read.
ReadOK(s) ==
  \E n \in Seqs :
    /\ stamp[s] = n * 2 + 2
    /\ cursor[s] <= n /\ n < Published
    /\ n % RingSize = His(s)
    /\ cpc[s] = "check" /\ ring[His(s)].stamp = stamp[s] => val[s] = n

SubOK ==
  \A s \in Subs :
    /\ cursor[s] <= Published
    /\ lagged[s] <= cursor[s]
    /\ cpc[s] \in Connecting \cup {"update"} => cursor[s] <= writeSeq
    /\ cpc[s] = "off" => lagged[s] = 0 /\ got[s] = {}
    /\ cpc[s] \in Owning \cup {"unpid"} => slot[s] \in Slots
    /\ cpc[s] = "claim" => slot[s] # 0
    /\ cpc[s] \in {"stamp", "data", "check"} => cursor[s] < writeSeq
    /\ cpc[s] \in {"data", "check"} => ReadOK(s)

\* While nobody has been robbed, a living owner has its slot to itself.
Marked(s) ==
  IF cpc[s] \in {"pid", "activate"}
  THEN state[slot[s]] = Claiming
  ELSE state[slot[s]].st = "active" /\ state[slot[s]].at <= cursor[s]

SlotOK ==
  \A s \in Subs \ crashed :
    cpc[s] \in Owning =>
      /\ Marked(s)
      /\ \A t \in Subs \ crashed : t # s /\ cpc[t] \in Owning => slot[t] # slot[s]

\* Where the publisher is ahead of, and what its scan has seen of, a subscriber
\* of its own process.
Within(s) ==
  /\ lagged[s] = 0
  /\ cachedSlowest <= cursor[s]
  /\ writeSeq <= cursor[s] + Effective
  /\ ppc \in Writing => writeSeq < cursor[s] + Effective

Scanned(s) ==
  ppc \in Scanning =>
    /\ slot[s] < scan.idx => \E m \in min : m <= cursor[s]
    /\ ppc = "scanpid" /\ slot[s] = scan.idx => scan.at <= cursor[s]
    /\ ppc \in {"prune", "prunepid"} => slot[s] # scan.idx

LocalOK ==
  \A s \in Local :
    /\ cpc[s] \in Connecting => ppc = "idle" /\ cursor[s] = writeSeq
    /\ cpc[s] \in Owning \ {"pid"} => pid[slot[s]] \in {s, NoPid}
    /\ cpc[s] \notin {"off", "unpid"} => Within(s)
    /\ cpc[s] \in Owning => Scanned(s)

BusInv ==
  /\ TypeOK /\ RingOK /\ PubOK /\ SubOK
  /\ Bounded /\ ~robbed => SlotOK /\ LocalOK

(***************************************************************************)
(* Arithmetic                                                              *)
(***************************************************************************)

\* A seq belongs to one slot of the ring.
LEMMA ModRange ==
  ASSUME NEW a \in Nat, NEW R \in Nat \ {0}
  PROVE  a % R \in 0 .. R - 1
  OBVIOUS

\* The first lap: seq a goes to slot a.
LEMMA ModSmall ==
  ASSUME NEW R \in Nat \ {0}, NEW a \in 0 .. R - 1
  PROVE  a % R = a
  OBVIOUS

LEMMA DivMod ==
  ASSUME NEW a \in Nat, NEW R \in Nat \ {0}
  PROVE  a = R * (a \div R) + (a % R) /\ a \div R \in Nat
  OBVIOUS

\* Two seqs that share a slot are at least a whole ring apart.
LEMMA ModApart ==
  ASSUME NEW a \in Nat, NEW b \in Nat, NEW R \in Nat \ {0}, a % R = b % R, a < b
  PROVE  a + R <= b
  <1> DEFINE p == a \div R
             q == b \div R
             r == a % R
  <1>1. a = R * p + r /\ b = R * q + r /\ p \in Nat /\ q \in Nat /\ r \in Nat
    BY DivMod
  <1> HIDE DEF p, q, r
  <1>2. b - a = R * (q - p)
    BY <1>1
  <1>3. q - p >= 1
    BY <1>1, <1>2
  <1>4. R * (q - p) >= R
    BY <1>1, <1>3
  <1> QED
    BY <1>1, <1>2, <1>4

\* A ring later the same slot comes up again.
LEMMA ModLap ==
  ASSUME NEW a \in Nat, NEW R \in Nat \ {0}
  PROVE  (a + R) % R = a % R
  <1> DEFINE p == a \div R
             r == a % R
  <1>1. a = R * p + r /\ p \in Nat /\ r \in 0 .. R - 1
    BY DivMod
  <1> HIDE DEF p, r
  <1>2. a + R = R * (p + 1) + r
    BY <1>1
  <1>3. (R * (p + 1) + r) % R = r
    BY <1>1
  <1> QED
    BY <1>2, <1>3 DEF r

\* What the scan takes the minimum of.
LEMMA MinPair ==
  ASSUME NEW a \in Nat, NEW S \in SUBSET Nat, \A m \in S : S = {m}
  PROVE  /\ Min(S \cup {a}) \in S \cup {a}
         /\ \A m \in S \cup {a} : Min(S \cup {a}) <= m
  <1>1. \E x \in S \cup {a} : \A y \in S \cup {a} : x <= y
    <2>1. CASE S = {}
      BY <2>1
    <2>2. CASE S # {}
      <3>1. PICK m \in S : TRUE
        BY <2>2
      <3>2. S = {m} /\ m \in Nat
        BY <3>1
      <3>3. m <= a \/ a <= m
        BY <3>2
      <3> QED
        BY <3>2, <3>3
    <2> QED
      BY <2>1, <2>2
  <1> QED
    BY <1>1 DEF Min























(***************************************************************************)
(* Types                                                                   *)
(***************************************************************************)
LEMMA Consts ==
  /\ RingSize \in Nat \ {0} /\ MaxSeq \in Nat
  /\ Watermarks \subseteq 0 .. RingSize - 1 /\ Unbounded \notin Nat
  /\ Torn \notin Nat /\ NoPid \notin Subs
  /\ Local \subseteq Subs /\ Crashable \subseteq Subs \ Local
  BY PodBusAssumption

LEMMA Table ==
  ASSUME TypeOK
  PROVE  Slots = 1 .. TableEnd - 1 /\ TableEnd \in Nat \ {0, 1}
  <1>1. PICK n \in SlotCounts : Slots = 1 .. n
    BY DEF TypeOK
  <1>2. n \in Nat \ {0}
    BY PodBusAssumption
  <1>3. Cardinality(1 .. n) = n
    BY <1>2, FS_Interval
  <1> QED
    BY <1>1, <1>2, <1>3 DEF TableEnd

\* The slot table neither grows nor shrinks.
LEMMA TableKept ==
  ASSUME TypeOK, Next
  PROVE  Slots' = Slots /\ TableEnd' = TableEnd
  <1>1. DOMAIN state' = DOMAIN state
    <2>1. CASE FreeSlot
      BY <2>1 DEF FreeSlot, TypeOK
    <2>2. ASSUME NEW s \in Subs, ClaimSlot(s) \/ Activate(s) \/ UpdateCursor(s) \/ DropSub(s)
          PROVE  DOMAIN state' = DOMAIN state
      BY <2>2 DEF ClaimSlot, Activate, UpdateCursor, DropSub, TypeOK
    <2>3. CASE Publish \/ DropBus
      BY <2>3 DEF Publish, DropBus, shared
    <2>4. CASE PubStep
      BY <2>1, <2>4 DEF PubStep, shared, CheckCached, StartScan, ScanSkip, ScanStaleClaim,
           ScanActive, ScanAlive, ScanDead, Prune, PrunePid, ScanRoom, ScanFull,
           MarkSlot, WriteData, CommitSlot, Advance
    <2>5. ASSUME NEW s \in Subs, Connect(s) \/ SubGo(s) \/ DropSub(s) \/ Crash(s)
          PROVE  DOMAIN state' = DOMAIN state
      BY <2>2, <2>5 DEF SubGo, shared, Connect, ClaimNext, ClaimFails, WritePid, TryRecv,
           ReadStamp, ReadData, StampChanged, Overwritten, Receive, ClearPid, Crash
    <2> QED
      BY <2>3, <2>4, <2>5 DEF Next
  <1> QED
    BY <1>1 DEF Slots, TableEnd

\* The type invariant in three parts: what is shared, the publisher's, the
\* subscribers'.
SharedType ==
  /\ watermark \in Watermarks \cup {Unbounded}
  /\ writeSeq \in Seqs
  /\ ring \in [0 .. RingSize - 1 -> [stamp : 0 .. 2 * MaxSeq, data : Seqs \cup {Torn}]]
  /\ \E n \in SlotCounts : Slots = 1 .. n
  /\ state \in [Slots -> {Free, Claiming} \cup {Active(c) : c \in Seqs}]
  /\ pid \in [Slots -> Subs \cup {NoPid}]
  /\ crashed \in SUBSET Crashable
  /\ robbed \in BOOLEAN

PubType ==
  /\ ppc \in {"idle", "check", "gone"} \cup Scanning \cup Writing
  /\ cachedSlowest \in Seqs
  /\ scan \in [idx : 1 .. TableEnd, at : Seqs]
  /\ min \in SUBSET Seqs

SubType ==
  /\ cpc \in [Subs -> {"off", "claim", "unpid"} \cup Owning]
  /\ cursor \in [Subs -> Seqs]
  /\ lagged \in [Subs -> Seqs]
  /\ slot \in [Subs -> 0 .. TableEnd]
  /\ stamp \in [Subs -> 0 .. 2 * MaxSeq]
  /\ val \in [Subs -> Seqs \cup {Torn}]
  /\ start \in [Subs -> Seqs]
  /\ got \in [Subs -> SUBSET (Seqs \cup {Torn})]

LEMMA TypeParts == TypeOK <=> SharedType /\ PubType /\ SubType
  BY DEF TypeOK, SharedType, PubType, SubType, Scanning, Writing

LEMMA TypePartsNext == TypeOK' <=> SharedType' /\ PubType' /\ SubType'
  BY DEF TypeOK, SharedType, PubType, SubType, Scanning, Writing

\* The publisher leaves alone what is the subscribers', and the other way round.
LEMMA PubFrame ==
  ASSUME Publish \/ DropBus \/ PubStep
  PROVE  UNCHANGED <<watermark, crashed, subVars>>
  BY DEF Publish, DropBus, PubStep, fate, shared, CheckCached, StartScan, ScanSkip,
     ScanStaleClaim, ScanActive, ScanAlive, ScanDead, Prune, PrunePid, ScanRoom,
     ScanFull, MarkSlot, WriteData, CommitSlot, Advance

LEMMA SubFrame ==
  ASSUME NEW s \in Subs, Connect(s) \/ SubGo(s) \/ DropSub(s) \/ Crash(s)
  PROVE  UNCHANGED <<watermark, writeSeq, ring, robbed, pubVars>>
  BY DEF SubGo, fate, shared, Connect, ClaimSlot, ClaimNext, ClaimFails, WritePid,
     Activate, TryRecv, ReadStamp, ReadData, StampChanged, Overwritten, Receive,
     UpdateCursor, DropSub, ClearPid, Crash

LEMMA MaxZero ==
  ASSUME NEW x \in Int
  PROVE  Max({0, x}) = IF x > 0 THEN x ELSE 0
  <1>1. \E y \in {0, x} : \A z \in {0, x} : y >= z
    <2>1. 0 >= x \/ x >= 0
      OBVIOUS
    <2> QED
      BY <2>1
  <1>2. Max({0, x}) \in {0, x} /\ Max({0, x}) >= 0 /\ Max({0, x}) >= x
    BY <1>1 DEF Max
  <1> QED
    BY <1>2

LEMMA PublishedFacts ==
  ASSUME BusInv
  PROVE  /\ Published \in Nat /\ writeSeq \in Nat /\ Published <= MaxSeq
         /\ Published = IF ppc = "advance" THEN writeSeq + 1 ELSE writeSeq
  BY Consts, TypeParts DEF BusInv, PubOK, Published, SharedType, Seqs

\* Ring slots exist.
LEMMA RingSlots ==
  ASSUME TypeOK
  PROVE  Mine \in 0 .. RingSize - 1 /\ \A s \in Subs : His(s) \in 0 .. RingSize - 1
  <1>1. writeSeq \in Nat /\ \A s \in Subs : cursor[s] \in Nat
    BY Consts, TypeParts DEF SharedType, SubType, Seqs
  <1> QED
    BY <1>1, Consts, ModRange DEF Mine, His

LEMMA SingleMin ==
  ASSUME NEW S \in SUBSET Nat, S # {}, \A m \in S : S = {m}
  PROVE  Min(S) \in S /\ S = {Min(S)}
  <1>1. PICK m \in S : S = {m}
    OBVIOUS
  <1>2. \A y \in S : m <= y
    BY <1>1
  <1> QED
    BY <1>1, <1>2 DEF Min

LEMMA PubTypeStep ==
  ASSUME BusInv, Next
  PROVE  PubType'
  <1> USE DEF PubType, Seqs
  <1>0. /\ PubType /\ TableEnd' = TableEnd /\ TableEnd \in Nat \ {0, 1}
        /\ Slots = 1 .. TableEnd - 1 /\ MaxSeq \in Nat
    BY TypeParts, TableKept, Table, Consts DEF BusInv
  <1>1. CASE Publish
    BY <1>1, <1>0 DEF Publish, Step, Scanning, Writing
  <1>2. CASE DropBus
    BY <1>2, <1>0 DEF DropBus, Step, Scanning, Writing
  <1>3. CASE CheckCached
    BY <1>3, <1>0 DEF CheckCached, Step, Scanning, Writing
  <1>4. CASE StartScan
    BY <1>4, <1>0 DEF StartScan, Step, Scanning, Writing
  <1>5. CASE ScanSkip
    BY <1>5, <1>0 DEF ScanSkip, NextScan, Step, Scanning, Writing
  <1>6. CASE ScanStaleClaim
    BY <1>6, <1>0 DEF ScanStaleClaim, FreeSlot, Step, Scanning, Writing
  <1>7. CASE ScanActive
    BY <1>7, <1>0, TypeParts DEF ScanActive, Step, SharedType, BusInv, Free, Claiming, Active, Scanning, Writing
  <1>8. CASE ScanAlive
    <2>1. scan.at \in Seqs /\ min \subseteq Nat /\ \A m \in min : min = {m}
      BY <1>0 DEF BusInv, PubOK
    <2>2. Min(min \cup {scan.at}) \in min \cup {scan.at}
      BY <2>1, MinPair
    <2>3. scan.idx \in Slots
      BY <1>8 DEF ScanAlive, Step, BusInv, PubOK, Scanning
    <2>4. min' \in SUBSET Seqs
      BY <1>0, <1>8, <2>1, <2>2 DEF ScanAlive
    <2> QED
      BY <1>0, <1>8, <2>3, <2>4 DEF ScanAlive, NextScan, Step, Scanning
  <1>9. CASE ScanDead
    BY <1>9, <1>0 DEF ScanDead, Step, Scanning, Writing
  <1>10. CASE Prune
    BY <1>10, <1>0 DEF Prune, FreeSlot, Step, Scanning, Writing
  <1>11. CASE PrunePid
    <2>1. scan.idx \in Slots
      BY <1>11 DEF PrunePid, Step, BusInv, PubOK, Scanning
    <2> QED
      BY <1>0, <1>11, <2>1 DEF PrunePid, NextScan, Step, Scanning
  <1>12. CASE ScanRoom
    <2>1. min # {} => Min(min) \in Seqs
      <3>1. min \in SUBSET Nat /\ \A m \in min : min = {m}
        BY <1>0 DEF BusInv, PubOK
      <3>2. min # {} => Min(min) \in min
        BY <3>1, SingleMin
      <3> QED
        BY <1>0, <3>2
    <2> QED
      BY <1>0, <1>12, <2>1 DEF ScanRoom, ScanOver, Step, Scanning, Writing
  <1>13. CASE ScanFull
    BY <1>13, <1>0 DEF ScanFull, ScanOver, Step, Scanning, Writing
  <1>14. CASE MarkSlot
    BY <1>14, <1>0 DEF MarkSlot, Mine, Step, Scanning, Writing
  <1>15. CASE WriteData
    BY <1>15, <1>0 DEF WriteData, Mine, Step, Scanning, Writing
  <1>16. CASE CommitSlot
    BY <1>16, <1>0 DEF CommitSlot, Mine, Step, Scanning, Writing
  <1>17. CASE Advance
    BY <1>17, <1>0 DEF Advance, Step, Scanning, Writing
  <1>18. ASSUME NEW s \in Subs, Connect(s) \/ SubGo(s) \/ DropSub(s) \/ Crash(s)
        PROVE  PubType'
    BY <1>18, <1>0, SubFrame DEF pubVars
  <1> QED
    BY <1>1, <1>2, <1>3, <1>4, <1>5, <1>6, <1>7, <1>8, <1>9, <1>10, <1>11, <1>12, <1>13, <1>14, <1>15, <1>16, <1>17, <1>18 DEF Next, PubStep

LEMMA SubTypeStep ==
  ASSUME BusInv, Next
  PROVE  SubType'
  <1> USE DEF SubType, Seqs
  <1>0. /\ SubType /\ TableEnd' = TableEnd /\ TableEnd \in Nat \ {0, 1}
        /\ Slots = 1 .. TableEnd - 1 /\ MaxSeq \in Nat /\ writeSeq \in Seqs
    BY TypeParts, TableKept, Table, Consts DEF BusInv, SharedType
  <1>a. 0 \in Seqs /\ 0 \in 0 .. 2 * MaxSeq /\ 0 \in 0 .. TableEnd
    BY <1>0
  <1>1. ASSUME NEW s \in Subs, Connect(s)
        PROVE  SubType'
    BY <1>1, <1>0 DEF Connect, SubStep, history, Owning
  <1>2. ASSUME NEW s \in Subs, ClaimSlot(s)
        PROVE  SubType'
    BY <1>2, <1>0 DEF ClaimSlot, SubStep, history, Owning
  <1>3. ASSUME NEW s \in Subs, ClaimNext(s)
        PROVE  SubType'
    BY SMTT(30), <1>3, <1>0 DEF ClaimNext, SubStep, history, Owning
  <1>4. ASSUME NEW s \in Subs, ClaimFails(s)
        PROVE  SubType'
    BY <1>4, <1>0 DEF ClaimFails, Forget, SubStep, history, Owning
  <1>5. ASSUME NEW s \in Subs, WritePid(s)
        PROVE  SubType'
    BY <1>5, <1>0 DEF WritePid, SubStep, history, Owning
  <1>6. ASSUME NEW s \in Subs, Activate(s)
        PROVE  SubType'
    BY <1>6, <1>0 DEF Activate, SubStep, history, Owning
  <1>7. ASSUME NEW s \in Subs, TryRecv(s)
        PROVE  SubType'
    <2> DEFINE k == Max({0, writeSeq - RingSize - cursor[s]})
    <2>1. k \in Nat /\ cursor[s] + k \in Seqs /\ lagged[s] + k \in Seqs
      <3>1. lagged[s] <= cursor[s]
        BY DEF BusInv, SubOK
      <3>2. cursor[s] \in 0 .. MaxSeq /\ lagged[s] \in 0 .. MaxSeq /\ writeSeq \in 0 .. MaxSeq
        BY <1>0
      <3>3. RingSize \in Nat
        BY Consts
      <3> DEFINE d == writeSeq - RingSize - cursor[s]
      <3>4. d \in Int /\ d + cursor[s] <= MaxSeq
        BY <1>0, <3>2, <3>3
      <3>5. k = IF d > 0 THEN d ELSE 0
        BY <3>4, MaxZero
      <3> HIDE DEF k, d
      <3> QED
        BY <1>0, <3>1, <3>2, <3>4, <3>5
    <2> HIDE DEF k
    <2>2. lagged' = [lagged EXCEPT ![s] = @ + k] /\ cursor' = [cursor EXCEPT ![s] = @ + k]
      BY <1>7 DEF TryRecv, k
    <2> QED
      BY SMTT(30), <1>0, <1>7, <2>1, <2>2 DEF TryRecv, SubStep, history, Owning
  <1>8. ASSUME NEW s \in Subs, ReadStamp(s)
        PROVE  SubType'
    <2>1. ring[His(s)].stamp \in 0 .. 2 * MaxSeq
      BY RingSlots, TypeParts DEF BusInv, SharedType
    <2> HIDE DEF Seqs
    <2> QED
      BY <1>0, <1>8, <2>1 DEF ReadStamp, SubStep, history, Owning
  <1>9. ASSUME NEW s \in Subs, ReadData(s)
        PROVE  SubType'
    <2>1. ring[His(s)].data \in Seqs \cup {Torn}
      BY RingSlots, TypeParts DEF BusInv, SharedType
    <2> HIDE DEF Seqs
    <2> QED
      BY <1>0, <1>9, <2>1 DEF ReadData, SubStep, history, Owning
  <1>10. ASSUME NEW s \in Subs, StampChanged(s)
        PROVE  SubType'
    BY <1>10, <1>0 DEF StampChanged, ForgetRead, SubStep, history, Owning
  <1>11. ASSUME NEW s \in Subs, Overwritten(s)
        PROVE  SubType'
    <2>1. ReadOK(s) /\ lagged[s] <= cursor[s]
      BY <1>11 DEF Overwritten, SubStep, BusInv, SubOK
    <2>2. PICK n \in Seqs : stamp[s] = n * 2 + 2 /\ cursor[s] <= n /\ n < Published
      BY <2>1 DEF ReadOK
    <2>3. stamp[s] \div 2 = n + 1
      BY <1>0, <2>2
    <2>4. n + 1 \in Seqs
      BY <1>0, <2>2, PublishedFacts
    <2>5. lagged[s] + (n + 1) - cursor[s] \in Seqs
      BY SMTT(30), <1>0, <2>1, <2>2, <2>4
    <2>6. /\ cursor' = [cursor EXCEPT ![s] = n + 1]
          /\ lagged' = [lagged EXCEPT ![s] = lagged[s] + (n + 1) - cursor[s]]
      BY <1>11, <2>3 DEF Overwritten
    <2> HIDE DEF Seqs
    <2> QED
      BY <1>0, <1>a, <1>11, <2>4, <2>5, <2>6 DEF Overwritten, ForgetRead, SubStep, history, Owning
  <1>12. ASSUME NEW s \in Subs, Receive(s)
        PROVE  SubType'
    <2>1. cursor[s] + 1 \in Seqs
      <3>1. cpc[s] = "check"
        BY <1>12 DEF Receive, SubStep
      <3>2. cursor[s] < writeSeq
        BY <3>1 DEF BusInv, SubOK
      <3>3. cursor[s] \in Nat /\ writeSeq \in Nat /\ writeSeq <= MaxSeq
        BY <1>0
      <3> QED BY <1>0, <3>2, <3>3
    <2> HIDE DEF Seqs
    <2>3. got' \in [Subs -> SUBSET (Seqs \cup {Torn})]
      BY <1>0, <1>12 DEF Receive
    <2> QED
      BY <1>0, <1>a, <1>12, <2>1, <2>3 DEF Receive, ForgetRead, SubStep, history, Owning
  <1>13. ASSUME NEW s \in Subs, UpdateCursor(s)
        PROVE  SubType'
    BY <1>13, <1>0 DEF UpdateCursor, SubStep, history, Owning
  <1>14. ASSUME NEW s \in Subs, DropSub(s)
        PROVE  SubType'
    <2>1. CASE Bounded
      BY <1>0, <1>14, <2>1 DEF DropSub, SubStep, history
    <2>2. CASE ~Bounded
      <3>1. cpc' = [cpc EXCEPT ![s] = "off"] /\ Forget(s) /\ UNCHANGED <<stamp, val>>
        BY <1>14, <2>2 DEF DropSub, SubStep
      <3> QED
        BY <1>0, <1>a, <3>1 DEF Forget
    <2> QED
      BY <2>1, <2>2
  <1>15. ASSUME NEW s \in Subs, ClearPid(s)
        PROVE  SubType'
    BY <1>15, <1>0 DEF ClearPid, Forget, SubStep, history, Owning
  <1>16. ASSUME NEW s \in Subs, Crash(s)
        PROVE  SubType'
    BY <1>16, <1>0 DEF Crash, SubStep, history, Owning, subVars
  <1>17. CASE Publish \/ DropBus \/ PubStep
    BY <1>17, <1>0, PubFrame DEF subVars, history
  <1> QED
    BY <1>1, <1>2, <1>3, <1>4, <1>5, <1>6, <1>7, <1>8, <1>9, <1>10, <1>11, <1>12, <1>13, <1>14, <1>15, <1>16, <1>17 DEF Next, SubGo

LEMMA RingWrite ==
  ASSUME NEW D, NEW S, NEW V, NEW f \in [D -> [stamp : S, data : V]], NEW d \in D,
         NEW x, NEW g, g = [f EXCEPT ![d].stamp = x] \/ g = [f EXCEPT ![d].data = x]
  PROVE  /\ \A e \in D : e # d => g[e] = f[e]
         /\ g = [f EXCEPT ![d].stamp = x] =>
              /\ g[d].stamp = x /\ g[d].data = f[d].data
              /\ x \in S => g \in [D -> [stamp : S, data : V]]
         /\ g = [f EXCEPT ![d].data = x] =>
              /\ g[d].data = x /\ g[d].stamp = f[d].stamp
              /\ x \in V => g \in [D -> [stamp : S, data : V]]
  OBVIOUS

LEMMA SharedTypeStep ==
  ASSUME BusInv, Next
  PROVE  SharedType'
  <1>0. /\ SharedType /\ PubType /\ SubType /\ Slots' = Slots
    BY TypeParts, TableKept DEF BusInv
  <1>a. /\ 0 \in Seqs /\ Mine \in 0 .. RingSize - 1
        /\ ppc \notin {"idle", "gone"} =>
             /\ writeSeq + 1 \in Seqs
             /\ writeSeq * 2 + 1 \in 0 .. 2 * MaxSeq /\ writeSeq * 2 + 2 \in 0 .. 2 * MaxSeq
    BY <1>0, RingSlots, Consts DEF BusInv, PubOK, SharedType, Seqs
  <1> DEFINE RingSet == [0 .. RingSize - 1 -> [stamp : 0 .. 2 * MaxSeq, data : Seqs \cup {Torn}]]
  <1> USE <1>0, <1>a DEF SharedType
  <1>1. CASE UNCHANGED <<shared, fate>>
    BY <1>1 DEF shared, fate
  <1>2. CASE UNCHANGED <<watermark, writeSeq, ring, pid, crashed>> /\ FreeSlot
    BY <1>2 DEF FreeSlot
  <1>3. CASE PrunePid
    BY <1>3 DEF PrunePid, fate
  <1>4. CASE MarkSlot
    <2>1. ring' \in RingSet
      BY <1>4, RingWrite DEF MarkSlot, Step
    <2> QED
      BY <1>4, <2>1 DEF MarkSlot, fate
  <1>5. CASE WriteData
    BY <1>5 DEF WriteData, Step, fate
  <1>6. CASE CommitSlot
    <2>1. ring' \in RingSet
      BY <1>6, RingWrite DEF CommitSlot, Step
    <2> QED
      BY <1>6, <2>1 DEF CommitSlot, fate
  <1>7. CASE Advance
    <2>1. writeSeq + 1 \in Seqs
      BY <1>7 DEF Advance, Step
    <2> QED
      BY <1>7, <2>1 DEF Advance, fate
  <1>8. ASSUME NEW s \in Subs, ClaimSlot(s) \/ Activate(s) \/ UpdateCursor(s) \/ DropSub(s)
        PROVE  SharedType'
    <2>1. cursor[s] \in Seqs
      BY DEF SubType
    <2>2. UNCHANGED <<watermark, writeSeq, ring, pid, fate>>
      BY <1>8 DEF ClaimSlot, Activate, UpdateCursor, DropSub
    <2>3. state' \in [Slots -> {Free, Claiming} \cup {Active(c) : c \in Seqs}]
      BY <1>8, <2>1 DEF ClaimSlot, Activate, UpdateCursor, DropSub
    <2> QED
      BY <2>2, <2>3 DEF fate
  <1>9. ASSUME NEW s \in Subs, WritePid(s) \/ ClearPid(s)
        PROVE  SharedType'
    <2>1. UNCHANGED <<watermark, writeSeq, ring, state, fate>>
      BY <1>9 DEF WritePid, ClearPid
    <2>2. pid' \in [Slots -> Subs \cup {NoPid}]
      BY <1>9 DEF WritePid, ClearPid
    <2> QED
      BY <2>1, <2>2 DEF fate
  <1>10. ASSUME NEW s \in Subs, Crash(s)
        PROVE  SharedType'
    BY <1>10 DEF Crash, shared
  <1>11. CASE Publish \/ DropBus \/ PubStep
    BY <1>1, <1>2, <1>3, <1>4, <1>5, <1>6, <1>7, <1>11
       DEF Publish, DropBus, PubStep, CheckCached, StartScan, ScanSkip, ScanStaleClaim,
           ScanActive, ScanAlive, ScanDead, Prune, ScanRoom, ScanFull
  <1>12. ASSUME NEW s \in Subs, Connect(s) \/ SubGo(s) \/ DropSub(s) \/ Crash(s)
        PROVE  SharedType'
    BY <1>1, <1>8, <1>9, <1>10, <1>12
       DEF Connect, SubGo, ClaimNext, ClaimFails, TryRecv, ReadStamp, ReadData,
           StampChanged, Overwritten, Receive
  <1> QED
    BY <1>11, <1>12 DEF Next

LEMMA StepType ==
  ASSUME BusInv, Next
  PROVE  TypeOK'
  BY PubTypeStep, SubTypeStep, SharedTypeStep, TypePartsNext

(***************************************************************************)
(* The ring                                                                *)
(***************************************************************************)

\* Apart from its own four steps nothing in a publish touches the ring.
LEMMA RingFrame ==
  ASSUME BusInv, Next, ~MarkSlot, ~WriteData, ~CommitSlot, ~Advance
  PROVE  /\ UNCHANGED <<ring, writeSeq>>
         /\ Published' = Published /\ Mine' = Mine
         /\ ppc \notin {"write", "finish", "commit", "advance"} =>
              ppc' \notin {"write", "finish", "commit", "advance"}
         /\ ppc \in {"write", "finish", "commit", "advance"} => ppc' = ppc
  <1>1. CASE Publish \/ DropBus \/ PubStep
    BY <1>1 DEF Publish, DropBus, PubStep, CheckCached, StartScan, ScanSkip,
         ScanStaleClaim, ScanActive, ScanAlive, ScanDead, Prune, PrunePid, ScanRoom,
         ScanFull, Step, shared, Published, Mine
  <1>2. ASSUME NEW s \in Subs, Connect(s) \/ SubGo(s) \/ DropSub(s) \/ Crash(s)
        PROVE  UNCHANGED <<ring, writeSeq, ppc>> /\ Published' = Published /\ Mine' = Mine
    BY <1>2, SubFrame DEF pubVars, Published, Mine
  <1> QED
    BY <1>1, <1>2 DEF Next

LEMMA StepRing ==
  ASSUME BusInv, Next
  PROVE  RingOK'
  <1>0. /\ RingSize \in Nat \ {0} /\ writeSeq \in Nat /\ MaxSeq \in Nat
        /\ Published \in Nat /\ Published <= MaxSeq
        /\ Published = IF ppc = "advance" THEN writeSeq + 1 ELSE writeSeq
        /\ Mine \in 0 .. RingSize - 1
        /\ ring \in [0 .. RingSize - 1 -> [stamp : 0 .. 2 * MaxSeq, data : Seqs \cup {Torn}]]
        /\ ppc \notin {"idle", "gone"} => writeSeq < MaxSeq
    BY Consts, PublishedFacts, RingSlots, TypeParts DEF BusInv, SharedType, PubOK
  <1>1. CASE ~MarkSlot /\ ~WriteData /\ ~CommitSlot /\ ~Advance
    BY <1>1, RingFrame DEF BusInv, RingOK
  <1>2. CASE MarkSlot
    <2>1. /\ ppc = "mark" /\ ppc' = "write" /\ writeSeq' = writeSeq /\ Mine' = Mine
          /\ Published' = Published
          /\ ring' = [ring EXCEPT ![Mine].stamp = writeSeq * 2 + 1]
      BY <1>0, <1>2 DEF MarkSlot, Step, Published, Mine
    <2> QED
      BY <1>0, <2>1 DEF BusInv, RingOK
  <1>3. CASE WriteData
    <2>1. /\ ppc \in {"write", "finish"} /\ ppc' \in {"finish", "commit"}
          /\ writeSeq' = writeSeq /\ Mine' = Mine /\ Published' = Published
          /\ ppc' = "commit" => ring' = [ring EXCEPT ![Mine].data = writeSeq]
          /\ \E x : ring' = [ring EXCEPT ![Mine].data = x]
      BY <1>3 DEF WriteData, Step, Published, Mine
    <2>2. \A i \in 0 .. RingSize - 1 : ring'[i].stamp = ring[i].stamp /\ (i # Mine => ring'[i] = ring[i])
      BY <1>0, <2>1
    <2>3. ppc' = "commit" => ring'[Mine].data = writeSeq
      BY <1>0, <2>1
    <2> QED
      BY <1>0, <2>1, <2>2, <2>3 DEF BusInv, RingOK
  <1>4. CASE CommitSlot
    <2>1. /\ ppc = "commit" /\ ppc' = "advance" /\ writeSeq' = writeSeq /\ Mine' = Mine
          /\ Published = writeSeq /\ Published' = writeSeq + 1
          /\ ring' = [ring EXCEPT ![Mine].stamp = writeSeq * 2 + 2]
      BY <1>0, <1>4 DEF CommitSlot, Step, Published, Mine
    <2>2. ring'[Mine].stamp = writeSeq * 2 + 2 /\ ring'[Mine].data = writeSeq
      BY <1>0, <2>1 DEF BusInv, RingOK
    <2>3. writeSeq % RingSize = Mine /\ writeSeq \in Seqs /\ writeSeq + 1 <= writeSeq + RingSize
      BY <1>0, <2>1 DEF Mine, Seqs
    <2>4. ASSUME NEW i \in 0 .. RingSize - 1, i # Mine
          PROVE  \/ ring[i].stamp = 0 /\ Published' <= i
                 \/ \E n \in Seqs : /\ n < Published' /\ Published' <= n + RingSize
                                    /\ n % RingSize = i
                                    /\ ring[i].stamp = n * 2 + 2 /\ ring[i].data = n
      <3>1. CASE ring[i].stamp = 0 /\ Published <= i
        <4>1. writeSeq # i
          BY <1>0, <2>3, <2>4, ModSmall
        <4> QED
          BY <1>0, <2>1, <3>1, <4>1
      <3>2. ASSUME NEW n \in Seqs, n < Published, Published <= n + RingSize, n % RingSize = i
            PROVE  n < Published' /\ Published' <= n + RingSize
        <4>1. n \in Nat
          BY DEF Seqs
        <4>2. writeSeq # n + RingSize
          BY <1>0, <2>3, <2>4, <3>2, <4>1, ModLap
        <4> QED
          <5>1. Published = writeSeq /\ Published' = writeSeq + 1 /\ writeSeq \in Nat /\ RingSize \in Nat
            BY <1>0, <2>1
          <5>2. n < writeSeq /\ writeSeq <= n + RingSize
            BY <3>2, <5>1
          <5>3. n < writeSeq + 1 /\ writeSeq + 1 <= n + RingSize
            BY <4>1, <4>2, <5>1, <5>2
          <5> QED
            BY <5>1, <5>3
      <3> QED
        BY <2>1, <2>4, <3>1, <3>2 DEF BusInv, RingOK
    <2>5. \A i \in 0 .. RingSize - 1 : i # Mine => ring'[i] = ring[i]
      BY <1>0, <2>1
    <2>6. writeSeq < Published' /\ Published' <= writeSeq + RingSize
      BY <1>0, <2>1, <2>3
    <2> QED
      BY <2>1, <2>2, <2>3, <2>4, <2>5, <2>6 DEF RingOK
  <1>5. CASE Advance
    <2>1. ppc = "advance" /\ ppc' = "idle" /\ ring' = ring /\ Published' = Published
      BY <1>0, <1>5 DEF Advance, Step, Published
    <2> QED
      BY <2>1 DEF BusInv, RingOK
  <1> QED
    BY <1>1, <1>2, <1>3, <1>4, <1>5

(***************************************************************************)
(* What the publisher knows                                                *)
(***************************************************************************)
LEMMA StepPub ==
  ASSUME BusInv, Next
  PROVE  PubOK'
  <1>0. /\ writeSeq \in Nat /\ MaxSeq \in Nat /\ cachedSlowest \in Nat
        /\ scan \in [idx : 1 .. TableEnd, at : Seqs] /\ scan.at \in Nat
        /\ min \in SUBSET Nat
        /\ state \in [Slots -> {Free, Claiming} \cup {Active(c) : c \in Seqs}]
        /\ \A s \in Subs : cursor[s] \in Nat
        /\ Slots' = Slots
    BY Consts, TypeParts, TableKept DEF BusInv, SharedType, PubType, SubType, Seqs
  <1>a. \A i \in Slots : state[i].at \in Nat
    BY <1>0 DEF Seqs, Free, Claiming, Active
  <1> USE <1>0, <1>a DEF BusInv, PubOK
  <1>1. CASE Publish
    BY <1>1 DEF Publish, Step, shared, Scanning
  <1>2. CASE DropBus
    BY <1>2 DEF DropBus, Step, shared, Scanning
  <1>3. CASE CheckCached \/ StartScan
    BY <1>3 DEF CheckCached, StartScan, Step, shared, Scanning
  <1>4. CASE ScanSkip
    BY <1>4 DEF ScanSkip, NextScan, Step, shared, Scanning
  <1>5. ASSUME FreeSlot
        PROVE  \A i \in Slots : state'[i].at <= writeSeq
    BY <1>5 DEF FreeSlot, Free
  <1>6. CASE ScanStaleClaim
    BY <1>5, <1>6 DEF ScanStaleClaim, Step, Scanning
  <1>7. CASE Prune
    BY <1>5, <1>7 DEF Prune, Step, Scanning
  <1>8. CASE ScanActive
    BY <1>8 DEF ScanActive, Step, shared, Scanning
  <1>9. CASE ScanDead
    BY <1>9 DEF ScanDead, Step, shared, Scanning
  <1>10. CASE ScanAlive
    <2>1. Min(min \cup {scan.at}) \in min \cup {scan.at}
      BY MinPair
    <2>2. Min(min \cup {scan.at}) <= writeSeq
      BY <2>1
    <2>3. \A m \in min' : m <= writeSeq /\ min' = {m}
      BY <1>10, <2>2 DEF ScanAlive
    <2> QED
      BY <1>10, <2>3 DEF ScanAlive, NextScan, Step, shared, Scanning
  <1>11. CASE PrunePid
    BY <1>11 DEF PrunePid, NextScan, Step, Scanning
  <1>12. CASE ScanRoom
    <2>1. min # {} => Min(min) \in min
      BY SingleMin
    <2>2. cachedSlowest' <= writeSeq
      BY <1>12, <2>1 DEF ScanRoom
    <2> QED
      BY <1>12, <2>2 DEF ScanRoom, ScanOver, Step, shared, Scanning
  <1>13. CASE ScanFull
    BY <1>13 DEF ScanFull, ScanOver, Step, shared, Scanning
  <1>14. CASE MarkSlot \/ WriteData \/ CommitSlot
    BY <1>14 DEF MarkSlot, WriteData, CommitSlot, Step, Scanning
  <1>15. CASE Advance
    BY <1>15 DEF Advance, Step, Scanning
  <1>16. ASSUME NEW s \in Subs, Connect(s) \/ SubGo(s) \/ DropSub(s) \/ Crash(s)
         PROVE  PubOK'
    <2>1. UNCHANGED <<writeSeq, ppc, cachedSlowest, scan, min>>
      BY <1>16, SubFrame DEF pubVars
    <2>2. ASSUME NEW i \in Slots
          PROVE  state'[i].at <= writeSeq
      <3>1. CASE Activate(s) \/ UpdateCursor(s)
        <4>1. cursor[s] <= writeSeq
          BY <3>1 DEF Activate, UpdateCursor, SubStep, SubOK, Connecting
        <4> QED
          BY <2>2, <3>1, <4>1 DEF Activate, UpdateCursor, Active
      <3>2. CASE ClaimSlot(s) \/ DropSub(s)
        BY <2>2, <3>2 DEF ClaimSlot, DropSub, Free, Claiming
      <3>3. CASE state' = state
        BY <2>2, <3>3
      <3> QED
        BY <1>16, <3>1, <3>2, <3>3
           DEF Connect, SubGo, ClaimNext, ClaimFails, WritePid, TryRecv, ReadStamp,
               ReadData, StampChanged, Overwritten, Receive, ClearPid, Crash, shared
    <2> QED
      BY <2>1, <2>2
  <1> QED
    BY <1>1, <1>2, <1>3, <1>4, <1>6, <1>7, <1>8, <1>9, <1>10, <1>11, <1>12, <1>13,
       <1>14, <1>15, <1>16 DEF Next, PubStep

(***************************************************************************)
(* What a subscriber has read                                              *)
(***************************************************************************)

\* One subscriber's part of SubOK.
SubOKFor(s) ==
  /\ cursor[s] <= Published
  /\ lagged[s] <= cursor[s]
  /\ cpc[s] \in Connecting \cup {"update"} => cursor[s] <= writeSeq
  /\ cpc[s] = "off" => lagged[s] = 0 /\ got[s] = {}
  /\ cpc[s] \in Owning \cup {"unpid"} => slot[s] \in Slots
  /\ cpc[s] = "claim" => slot[s] # 0
  /\ cpc[s] \in {"stamp", "data", "check"} => cursor[s] < writeSeq
  /\ cpc[s] \in {"data", "check"} => ReadOK(s)

\* A stamp that was read is not brought back by the publisher: it writes only
\* later ones, and the data only under an odd one.
LEMMA PubReads ==
  ASSUME BusInv, Publish \/ DropBus \/ PubStep, NEW s \in Subs
  PROVE  SubOKFor(s)'
  <1>0. /\ UNCHANGED subVars /\ Slots' = Slots /\ SubOKFor(s)
        /\ RingSize \in Nat \ {0} /\ writeSeq \in Nat /\ Published \in Nat /\ Published <= MaxSeq
        /\ Published = IF ppc = "advance" THEN writeSeq + 1 ELSE writeSeq
        /\ cursor[s] \in Nat /\ MaxSeq \in Nat
        /\ His(s) \in 0 .. RingSize - 1 /\ Mine \in 0 .. RingSize - 1
        /\ ring \in [0 .. RingSize - 1 -> [stamp : 0 .. 2 * MaxSeq, data : Seqs \cup {Torn}]]
    BY SMTT(30), PubFrame, TableKept, Consts, PublishedFacts, RingSlots, TypeParts
       DEF BusInv, SubOK, SubOKFor, Next, SharedType, SubType, Seqs
  <1>1. UNCHANGED <<cpc, cursor, lagged, slot, stamp, val, got>> /\ His(s)' = His(s)
    BY <1>0 DEF subVars, history, His
  <1>2. writeSeq <= writeSeq' /\ Published <= Published' /\ writeSeq' \in Nat /\ Published' \in Nat
    <2>1. CASE CommitSlot
      BY <1>0, <2>1 DEF CommitSlot, Step, Published
    <2>2. CASE Advance
      BY <1>0, <2>2 DEF Advance, Step, Published
    <2>3. CASE MarkSlot \/ WriteData
      BY <1>0, <2>3 DEF MarkSlot, WriteData, Step, Published
    <2>4. CASE ~MarkSlot /\ ~WriteData /\ ~CommitSlot /\ ~Advance
      BY <1>0, <2>4, RingFrame DEF Next
    <2> QED
      BY <2>1, <2>2, <2>3, <2>4
  <1>3. ASSUME cpc[s] \in {"data", "check"}
        PROVE  ReadOK(s)'
    <2>1. PICK n \in Seqs : /\ stamp[s] = n * 2 + 2
                            /\ cursor[s] <= n /\ n < Published
                            /\ n % RingSize = His(s)
                            /\ cpc[s] = "check" /\ ring[His(s)].stamp = stamp[s] => val[s] = n
      BY <1>0, <1>3 DEF SubOKFor, ReadOK
    <2>2. n \in Nat
      BY DEF Seqs
    <2>3. ring'[His(s)].stamp = stamp[s] => ring[His(s)].stamp = stamp[s]
      <3>1. CASE MarkSlot
        <4>1. ring'[Mine].stamp = writeSeq * 2 + 1 /\ \A i \in 0 .. RingSize - 1 : i # Mine => ring'[i] = ring[i]
          BY <1>0, <3>1, RingWrite DEF MarkSlot
        <4>2. writeSeq * 2 + 1 # stamp[s]
          BY <1>0, <2>1, <2>2
        <4> QED
          BY <1>0, <4>1, <4>2
      <3>2. CASE CommitSlot
        <4>1. ring'[Mine].stamp = writeSeq * 2 + 2 /\ \A i \in 0 .. RingSize - 1 : i # Mine => ring'[i] = ring[i]
          BY <1>0, <3>2, RingWrite DEF CommitSlot
        <4>2. n < writeSeq
          BY <1>0, <2>1, <3>2 DEF CommitSlot, Step
        <4>3. writeSeq * 2 + 2 # stamp[s]
          BY <1>0, <2>1, <2>2, <4>2
        <4> QED
          BY <1>0, <4>1, <4>3
      <3>3. CASE WriteData
        BY SMTT(30), <1>0, <3>3, RingWrite DEF WriteData
      <3>4. CASE Advance
        BY <3>4 DEF Advance
      <3>5. CASE ~MarkSlot /\ ~WriteData /\ ~CommitSlot /\ ~Advance
        BY <3>5, RingFrame DEF Next
      <3> QED
        BY <3>1, <3>2, <3>3, <3>4, <3>5
    <2>4. n < Published'
      BY <1>0, <1>2, <2>1, <2>2
    <2> QED
      BY <1>1, <2>1, <2>3, <2>4 DEF ReadOK, Seqs
  <1> QED
    BY <1>0, <1>1, <1>2, <1>3 DEF SubOKFor

\* What a subscriber finds in the ring: with something to read at its cursor, an
\* even stamp is that of the value there or of a later one, and the data are that
\* value's.
LEMMA SlotRead ==
  ASSUME BusInv, NEW s \in Subs, cursor[s] < writeSeq,
         ring[His(s)].stamp % 2 = 0, ring[His(s)].stamp # 0
  PROVE  \E n \in Seqs : /\ ring[His(s)].stamp = n * 2 + 2 /\ ring[His(s)].data = n
                         /\ cursor[s] <= n /\ n < Published
                         /\ n % RingSize = His(s)
  <1>0. /\ RingSize \in Nat \ {0} /\ writeSeq \in Nat /\ Published \in Nat
        /\ Published = IF ppc = "advance" THEN writeSeq + 1 ELSE writeSeq
        /\ cursor[s] \in Nat /\ His(s) \in 0 .. RingSize - 1
    BY Consts, PublishedFacts, RingSlots, TypeParts DEF BusInv, SubType, Seqs
  <1>1. ring[His(s)].stamp # writeSeq * 2 + 1
    BY <1>0
  <1>2. PICK n \in Seqs : /\ n < Published /\ Published <= n + RingSize
                          /\ n % RingSize = His(s)
                          /\ ring[His(s)].stamp = n * 2 + 2 /\ ring[His(s)].data = n
    BY <1>0, <1>1 DEF BusInv, RingOK
  <1>3. n \in Nat /\ cursor[s] % RingSize = n % RingSize
    BY <1>2 DEF Seqs, His
  <1>4. ~(n < cursor[s])
    <2>1. SUFFICES ASSUME n < cursor[s] PROVE FALSE
      OBVIOUS
    <2>2. n + RingSize <= cursor[s]
      BY <1>0, <1>3, <2>1, ModApart
    <2> QED
      BY <1>0, <1>2, <1>3, <2>2
  <1>5. cursor[s] <= n
    BY <1>0, <1>3, <1>4
  <1> QED
    BY <1>2, <1>5

LEMMA SubReads ==
  ASSUME BusInv, NEW s \in Subs, Connect(s) \/ SubGo(s) \/ DropSub(s) \/ Crash(s),
         NEW t \in Subs
  PROVE  SubOKFor(t)'
  <1>a. SubType
    BY TypeParts DEF BusInv
  <1>b. Slots = 1 .. TableEnd - 1 /\ TableEnd \in Nat \ {0, 1}
    BY Table DEF BusInv
  <1>c. UNCHANGED <<writeSeq, ring, ppc>> /\ Published' = Published /\ Slots' = Slots
    BY SubFrame, TableKept DEF BusInv, Next, pubVars, Published
  <1>d. /\ writeSeq \in Nat /\ Published \in Nat /\ writeSeq <= Published
        /\ RingSize \in Nat \ {0}
    BY PublishedFacts, Consts
  <1>e. cursor[s] \in Nat /\ lagged[s] \in Nat /\ slot[s] \in Nat
    BY <1>a, <1>b DEF SubType, Seqs
  <1>f. SubOKFor(t) /\ SubOKFor(s)
    BY DEF BusInv, SubOK, SubOKFor
  <1>1. CASE t # s
    <2>1. /\ cpc'[t] = cpc[t] /\ cursor'[t] = cursor[t] /\ lagged'[t] = lagged[t]
          /\ slot'[t] = slot[t] /\ stamp'[t] = stamp[t] /\ val'[t] = val[t]
          /\ got'[t] = got[t]
      BY <1>a, <1>1 DEF SubType, SubStep, Connect, SubGo, DropSub, Crash, ClaimSlot,
           ClaimNext, ClaimFails, WritePid, Activate, TryRecv, ReadStamp, ReadData,
           StampChanged, Overwritten, Receive, UpdateCursor, ClearPid, Forget,
           ForgetRead, subVars, history
    <2>2. ReadOK(t) => ReadOK(t)'
      BY <1>c, <2>1 DEF ReadOK, His
    <2> QED
      BY <1>c, <1>f, <2>1, <2>2 DEF SubOKFor
  <1>2. CASE t = s
    <2> USE <1>a, <1>b, <1>c, <1>d, <1>e, <1>f, <1>2 DEF SubType, SubStep, SubOKFor, history, Connecting, Owning
    <2>1. CASE Connect(s)
      BY <2>1 DEF Connect
    <2>2. CASE ClaimSlot(s)
      BY <2>2 DEF ClaimSlot
    <2>3. CASE ClaimNext(s)
      BY <2>3 DEF ClaimNext
    <2>4. CASE ClaimFails(s)
      BY <2>4 DEF ClaimFails, Forget
    <2>5. CASE WritePid(s) \/ Activate(s) \/ UpdateCursor(s)
      BY <2>5 DEF WritePid, Activate, UpdateCursor
    <2>6. CASE TryRecv(s)
      <3> DEFINE d == writeSeq - RingSize - cursor[s]
                 k == Max({0, d})
      <3>1. d \in Int
        OBVIOUS
      <3>2. k = IF d > 0 THEN d ELSE 0
        BY <3>1, MaxZero
      <3>3. cursor[s] < writeSeq
        BY <2>6 DEF TryRecv
      <3>4. k \in Nat /\ cursor[s] + k < writeSeq
        BY <3>2, <3>3
      <3> HIDE DEF k
      <3>5. lagged' = [lagged EXCEPT ![s] = @ + k] /\ cursor' = [cursor EXCEPT ![s] = @ + k]
        BY <2>6 DEF TryRecv, k
      <3>6. lagged'[s] = lagged[s] + k /\ cursor'[s] = cursor[s] + k
        BY <3>5
      <3>7. cursor'[s] < writeSeq /\ cursor'[s] <= Published /\ lagged'[s] <= cursor'[s]
        BY <3>4, <3>6
      <3>8. cpc[s] = "idle" /\ cpc'[s] = "stamp" /\ slot' = slot
        BY <2>6 DEF TryRecv
      <3> QED
        BY <3>7, <3>8
    <2>7. CASE ReadStamp(s)
      <3>1. cpc[s] = "stamp" /\ UNCHANGED <<cursor, lagged, slot, got>> /\ His(s)' = His(s)
        BY <2>7 DEF ReadStamp, His
      <3>2. CASE cpc'[s] = "idle"
        BY <3>1, <3>2
      <3>3. CASE cpc'[s] = "data" /\ stamp'[s] = ring[His(s)].stamp
                 /\ ring[His(s)].stamp % 2 = 0 /\ ring[His(s)].stamp # 0
        <4>1. \E n \in Seqs : /\ stamp'[s] = n * 2 + 2
                              /\ cursor[s] <= n /\ n < Published
                              /\ n % RingSize = His(s)
          BY <3>1, <3>3, SlotRead
        <4>2. ReadOK(s)'
          BY <3>1, <3>3, <4>1 DEF ReadOK, Seqs
        <4> QED
          BY <3>1, <3>3, <4>2
      <3> QED
        BY <2>7, <3>2, <3>3 DEF ReadStamp
    <2>8. CASE ReadData(s)
      <3>1. /\ cpc[s] = "data" /\ cpc'[s] = "check" /\ UNCHANGED <<cursor, lagged, slot, got, stamp>>
            /\ His(s)' = His(s) /\ val'[s] = ring[His(s)].data
        BY <2>8 DEF ReadData, His
      <3>2. PICK n \in Seqs : /\ stamp[s] = n * 2 + 2
                              /\ cursor[s] <= n /\ n < Published
                              /\ n % RingSize = His(s)
        BY <3>1 DEF ReadOK
      <3>3. ASSUME ring[His(s)].stamp = stamp[s]
            PROVE  val'[s] = n
        <4>1. n \in Nat
          BY DEF Seqs
        <4>2. ring[His(s)].stamp % 2 = 0 /\ ring[His(s)].stamp # 0
          BY <3>2, <3>3, <4>1
        <4>3. PICK m \in Seqs : ring[His(s)].stamp = m * 2 + 2 /\ ring[His(s)].data = m
          BY <3>1, <4>2, SlotRead
        <4>4. m = n
          BY SMTT(30), <3>2, <3>3, <4>1, <4>3 DEF Seqs
        <4> QED
          BY <3>1, <4>3, <4>4
      <3>4. ReadOK(s)'
        BY <3>1, <3>2, <3>3 DEF ReadOK, Seqs
      <3> QED
        BY <3>1, <3>4
    <2>9. CASE StampChanged(s)
      BY <2>9 DEF StampChanged
    <2>10. CASE Overwritten(s)
      <3>1. cpc[s] = "check" /\ cpc'[s] = "idle" /\ UNCHANGED <<slot, got>>
        BY <2>10 DEF Overwritten
      <3>2. PICK n \in Seqs : stamp[s] = n * 2 + 2 /\ cursor[s] <= n /\ n < Published
        BY <3>1 DEF ReadOK
      <3>3. n \in Nat /\ stamp[s] \div 2 = n + 1
        BY <3>2 DEF Seqs
      <3>4. cursor'[s] = n + 1 /\ lagged'[s] = lagged[s] + (n + 1) - cursor[s]
        BY <2>10, <3>3 DEF Overwritten
      <3>5. cursor'[s] <= Published /\ lagged'[s] <= cursor'[s]
        BY <3>2, <3>3, <3>4
      <3> QED
        BY <3>1, <3>5
    <2>11. CASE Receive(s)
      <3>1. /\ cpc[s] = "check" /\ cpc'[s] \in {"idle", "update"} /\ UNCHANGED <<slot, lagged>>
            /\ cursor'[s] = cursor[s] + 1
        BY <2>11 DEF Receive
      <3>2. cursor'[s] <= writeSeq /\ lagged'[s] <= cursor'[s] /\ cursor'[s] <= Published
        BY <3>1
      <3> QED
        BY <3>1, <3>2
    <2>12. CASE DropSub(s)
      <3>1. CASE Bounded
        BY <2>12, <3>1 DEF DropSub
      <3>2. CASE ~Bounded
        <4>1. cpc'[s] = "off" /\ Forget(s)
          BY <2>12, <3>2 DEF DropSub
        <4> QED
          BY <4>1 DEF Forget
      <3> QED
        BY <3>1, <3>2
    <2>13. CASE ClearPid(s)
      BY <2>13 DEF ClearPid, Forget
    <2>14. CASE Crash(s)
      BY <2>14 DEF Crash, subVars, ReadOK, His
    <2> QED
      BY <2>1, <2>2, <2>3, <2>4, <2>5, <2>6, <2>7, <2>8, <2>9, <2>10, <2>11, <2>12,
         <2>13, <2>14 DEF SubGo
  <1> QED
    BY <1>1, <1>2

LEMMA StepSub ==
  ASSUME BusInv, Next
  PROVE  SubOK'
  <1>1. \A t \in Subs : SubOKFor(t)'
    BY PubReads, SubReads DEF Next
  <1> QED
    BY <1>1 DEF SubOK, SubOKFor

\* Receiving never moves a cursor back.
LEMMA CursorGrows ==
  ASSUME BusInv, NEW s \in Subs,
         TryRecv(s) \/ ReadStamp(s) \/ ReadData(s) \/ StampChanged(s) \/ Overwritten(s) \/ Receive(s)
  PROVE  /\ cursor[s] \in Nat /\ cursor'[s] \in Nat /\ cursor[s] <= cursor'[s]
         /\ \A t \in Subs \ {s} : cursor'[t] = cursor[t]
  <1>0. SubType /\ cursor[s] \in Nat /\ writeSeq \in Nat /\ RingSize \in Nat
    BY SMTT(30), TypeParts, Consts DEF BusInv, SubType, SharedType, Seqs
  <1>1. CASE TryRecv(s)
    <2> DEFINE d == writeSeq - RingSize - cursor[s]
               k == Max({0, d})
    <2>1. d \in Int
      BY <1>0
    <2>2. k = IF d > 0 THEN d ELSE 0
      BY <2>1, MaxZero
    <2>3. k \in Nat
      BY <2>1, <2>2
    <2> HIDE DEF k
    <2>4. cursor' = [cursor EXCEPT ![s] = @ + k]
      BY <1>1 DEF TryRecv, k
    <2> QED
      BY <1>0, <2>3, <2>4 DEF SubType
  <1>2. CASE Overwritten(s)
    <2>1. PICK n \in Seqs : stamp[s] = n * 2 + 2 /\ cursor[s] <= n
      BY <1>2 DEF Overwritten, SubStep, BusInv, SubOK, ReadOK
    <2>2. n \in Nat /\ stamp[s] \div 2 = n + 1
      BY <2>1 DEF Seqs
    <2>3. cursor' = [cursor EXCEPT ![s] = n + 1]
      BY <1>2, <2>2 DEF Overwritten
    <2> QED
      BY <1>0, <2>1, <2>2, <2>3 DEF SubType
  <1>3. CASE Receive(s)
    BY <1>0, <1>3 DEF Receive, SubType
  <1>4. CASE ReadStamp(s) \/ ReadData(s) \/ StampChanged(s)
    BY <1>0, <1>4 DEF ReadStamp, ReadData, StampChanged
  <1> QED
    BY <1>1, <1>2, <1>3, <1>4

(***************************************************************************)
(* Who has which subscriber slot                                           *)
(***************************************************************************)
LEMMA Mode ==
  ASSUME Next
  PROVE  watermark' = watermark /\ Bounded' = Bounded /\ Effective' = Effective
  <1>1. watermark' = watermark
    BY PubFrame, SubFrame DEF Next
  <1> QED
    BY <1>1 DEF Bounded, Effective

LEMMA StateKinds ==
  ASSUME TypeOK, NEW i \in Slots
  PROVE  /\ state[i] \in {Free, Claiming} \/ \E c \in Seqs : state[i] = Active(c)
         /\ state[i].st \in {"free", "claiming", "active"}
         /\ state[i] = Free <=> state[i].st = "free"
         /\ state[i] = Claiming <=> state[i].st = "claiming"
  BY TypeParts DEF SharedType, Free, Claiming, Active

LEMMA StateAt ==
  ASSUME TypeOK, NEW i \in Slots
  PROVE  state[i].at \in Nat
  BY TypeParts, Consts DEF SharedType, Free, Claiming, Active, Seqs

\* While nobody has been robbed, what the publisher frees is no living owner's:
\* of a remote one the ghost would take note, a local one is seen to be alive.
LEMMA FreeSpares ==
  ASSUME BusInv, Bounded, ~robbed, ScanStaleClaim \/ Prune, ~robbed',
         NEW s \in Subs \ crashed, cpc[s] \in Owning
  PROVE  slot[s] # scan.idx
  <1>1. FreeSlot /\ (ScanStaleClaim => ppc = "scan" /\ state[scan.idx] = Claiming)
        /\ (Prune => ppc = "prune")
    BY DEF ScanStaleClaim, Prune, Step
  <1>2. CASE s \notin Local
    BY <1>1, <1>2 DEF FreeSlot
  <1>3. CASE s \in Local
    <2>1. SlotOK /\ LocalOK
      BY DEF BusInv
    <2>2. CASE Prune
      BY <1>1, <1>3, <2>1, <2>2 DEF LocalOK, Scanned, Scanning
    <2>3. CASE ScanStaleClaim
      <3>1. cpc[s] \notin {"pid", "activate"}
        BY <1>1, <1>3, <2>1, <2>3 DEF LocalOK, Connecting
      <3>2. state[slot[s]].st = "active"
        BY <2>1, <3>1 DEF SlotOK, Marked
      <3> QED
        BY <1>1, <2>3, <3>2 DEF Claiming
    <2> QED
      BY <2>2, <2>3
  <1> QED
    BY <1>2, <1>3

LEMMA StepSlot ==
  ASSUME BusInv, Next, Bounded, ~robbed, ~robbed'
  PROVE  SlotOK'
  <1>0. /\ SlotOK /\ SubType /\ SharedType /\ crashed \subseteq Subs
        /\ \A s \in Subs : cpc[s] \in Owning => slot[s] \in Slots
    BY TypeParts, Consts DEF BusInv, SubOK, SharedType
  <1>1. CASE Publish \/ DropBus \/ PubStep
    <2>1. UNCHANGED <<crashed, cpc, slot, cursor>>
      BY <1>1, PubFrame DEF subVars
    <2>2. ASSUME NEW s \in Subs \ crashed, cpc[s] \in Owning
          PROVE  state'[slot[s]] = state[slot[s]]
      <3>1. CASE ScanStaleClaim \/ Prune
        <4>1. slot[s] # scan.idx
          BY <2>2, <3>1, FreeSpares
        <4>2. state' = [state EXCEPT ![scan.idx] = Free]
          BY <3>1 DEF ScanStaleClaim, Prune, FreeSlot
        <4> QED
          BY <1>0, <2>2, <4>1, <4>2 DEF SharedType
      <3>2. CASE ~ScanStaleClaim /\ ~Prune
        BY <1>1, <3>2 DEF Publish, DropBus, PubStep, CheckCached, StartScan, ScanSkip,
             ScanActive, ScanAlive, ScanDead, PrunePid, ScanRoom, ScanFull, MarkSlot,
             WriteData, CommitSlot, Advance, shared
      <3> QED
        BY <3>1, <3>2
    <2> QED
      BY <1>0, <2>1, <2>2 DEF SlotOK, Marked
  <1>2. ASSUME NEW s \in Subs, Connect(s) \/ SubGo(s) \/ DropSub(s) \/ Crash(s)
        PROVE  SlotOK'
    <2>1. \A t \in Subs \ {s} : cpc'[t] = cpc[t] /\ cursor'[t] = cursor[t] /\ slot'[t] = slot[t]
      BY <1>0, <1>2 DEF SubType, SubStep, Connect, SubGo, DropSub, Crash, ClaimSlot,
           ClaimNext, ClaimFails, WritePid, Activate, TryRecv, ReadStamp, ReadData,
           StampChanged, Overwritten, Receive, UpdateCursor, ClearPid, Forget, subVars
    <2>2. crashed \subseteq crashed'
      BY <1>2 DEF SubStep, Connect, SubGo, DropSub, Crash, ClaimSlot,
           ClaimNext, ClaimFails, WritePid, Activate, TryRecv, ReadStamp, ReadData,
           StampChanged, Overwritten, Receive, UpdateCursor, ClearPid, fate
    <2>3. CASE Crash(s)
      <3>1. UNCHANGED <<state, cpc, cursor, slot>>
        BY <2>3 DEF Crash, shared, subVars
      <3> QED
        BY <1>0, <2>2, <3>1 DEF SlotOK, Marked
    <2>4. CASE ~Crash(s)
      <3>1. s \notin crashed
        BY <1>2, <2>4 DEF SubStep, Connect, SubGo, DropSub, ClaimSlot,
             ClaimNext, ClaimFails, WritePid, Activate, TryRecv, ReadStamp, ReadData,
             StampChanged, Overwritten, Receive, UpdateCursor, ClearPid
      <3>2. \A t \in Subs \ {s} :
              t \notin crashed /\ cpc[t] \in Owning => state'[slot[t]] = state[slot[t]]
        <4>1. CASE ClaimSlot(s)
          <5>1. slot[s] \in Slots /\ state[slot[s]] = Free
                /\ state' = [state EXCEPT ![slot[s]] = Claiming]
            BY <4>1 DEF ClaimSlot
          <5>2. ASSUME NEW t \in Subs \ {s}, t \notin crashed, cpc[t] \in Owning
                PROVE  slot[t] # slot[s]
            BY <1>0, <5>1, <5>2 DEF SlotOK, Marked, Free, Claiming
          <5> QED
            BY <1>0, <5>1, <5>2 DEF SharedType
        <4>2. CASE Activate(s) \/ UpdateCursor(s) \/ DropSub(s)
          <5>1. cpc[s] \in Owning /\ \E x : state' = [state EXCEPT ![slot[s]] = x]
            BY <4>2 DEF Activate, UpdateCursor, DropSub, SubStep, Owning
          <5>2. ASSUME NEW t \in Subs \ {s}, t \notin crashed, cpc[t] \in Owning
                PROVE  slot[t] # slot[s]
            BY <1>0, <3>1, <5>1, <5>2 DEF SlotOK
          <5> QED
            BY <1>0, <5>1, <5>2 DEF SharedType
        <4>3. CASE UNCHANGED state
          BY <4>3
        <4> QED
          BY <1>2, <2>4, <4>1, <4>2, <4>3
             DEF Connect, SubGo, ClaimNext, ClaimFails, WritePid, TryRecv, ReadStamp,
                 ReadData, StampChanged, Overwritten, Receive, ClearPid, shared
      <3>3. cpc'[s] \in Owning =>
              /\ Marked(s)'
              /\ \A t \in Subs \ crashed : t # s /\ cpc[t] \in Owning => slot[t] # slot'[s]
        <4>0. cursor[s] \in Nat /\ s \in Subs \ crashed
          BY <1>0, <3>1 DEF SubType, Seqs
        <4>1. CASE ClaimSlot(s)
          <5>1. /\ slot[s] \in Slots /\ state[slot[s]] = Free /\ slot' = slot
                /\ state'[slot[s]] = Claiming /\ cpc'[s] = "pid"
            BY <1>0, <4>1 DEF ClaimSlot, SubStep, SharedType, SubType
          <5>2. ASSUME NEW t \in Subs \ crashed, t # s, cpc[t] \in Owning
                PROVE  slot[t] # slot[s]
            BY <1>0, <5>1, <5>2 DEF SlotOK, Marked, Free, Claiming
          <5> QED
            BY <5>1, <5>2 DEF Marked
        <4>2. CASE Activate(s) \/ UpdateCursor(s)
          <5>1. cpc[s] \in Owning /\ slot' = slot /\ cursor' = cursor /\ cpc'[s] = "idle"
            BY <1>0, <4>2 DEF Activate, UpdateCursor, SubStep, Owning, SubType
          <5>2. state'[slot[s]] = Active(cursor[s])
            BY <1>0, <4>2, <5>1 DEF Activate, UpdateCursor, SharedType
          <5> QED
            BY <1>0, <4>0, <5>1, <5>2 DEF SlotOK, Marked, Active
        <4>3. CASE WritePid(s)
          <5>1. cpc[s] = "pid" /\ cpc'[s] = "activate" /\ UNCHANGED <<state, slot>>
            BY <1>0, <4>3 DEF WritePid, SubStep, SubType
          <5> QED
            BY <1>0, <4>0, <5>1 DEF SlotOK, Marked, Owning
        <4>4. CASE Connect(s) \/ ClaimNext(s) \/ ClaimFails(s) \/ DropSub(s) \/ ClearPid(s)
          BY <1>0, <4>4 DEF Connect, ClaimNext, ClaimFails, DropSub, ClearPid, SubStep, SubType, Owning
        <4>5. CASE TryRecv(s) \/ ReadStamp(s) \/ ReadData(s) \/ StampChanged(s)
                   \/ Overwritten(s) \/ Receive(s)
          <5>1. /\ cpc[s] \in Owning \ {"pid", "activate"} /\ cpc'[s] \in Owning \ {"pid", "activate"}
                /\ UNCHANGED <<state, slot>>
            BY <1>0, <4>5 DEF TryRecv, ReadStamp, ReadData, StampChanged, Overwritten,
                 Receive, SubStep, SubType, Owning, shared
          <5>2. cursor[s] <= cursor'[s] /\ cursor'[s] \in Nat
            BY <4>0, <4>5, CursorGrows DEF BusInv
          <5>3. state[slot[s]].at \in Nat
            BY <1>0, <5>1, StateAt DEF BusInv
          <5>4. state[slot[s]].st = "active" /\ state[slot[s]].at <= cursor'[s]
            BY <1>0, <4>0, <5>1, <5>2, <5>3 DEF SlotOK, Marked
          <5> QED
            BY <1>0, <4>0, <5>1, <5>4 DEF SlotOK, Marked
        <4> QED
          BY <1>2, <2>4, <4>1, <4>2, <4>3, <4>4, <4>5 DEF SubGo
      <3>4. ASSUME NEW t \in Subs \ {s}, t \notin crashed, cpc[t] \in Owning
            PROVE  Marked(t)'
        BY <1>0, <2>1, <3>2, <3>4 DEF SlotOK, Marked
      <3> QED
        BY <1>0, <2>1, <2>2, <3>3, <3>4 DEF SlotOK
    <2> QED
      BY <2>3, <2>4
  <1> QED
    BY <1>1, <1>2 DEF Next

(***************************************************************************)
(* The publisher and the subscribers of its own process                    *)
(***************************************************************************)
LocalOKFor(s) ==
  /\ cpc[s] \in Connecting => ppc = "idle" /\ cursor[s] = writeSeq
  /\ cpc[s] \in Owning \ {"pid"} => pid[slot[s]] \in {s, NoPid}
  /\ cpc[s] \notin {"off", "unpid"} => Within(s)
  /\ cpc[s] \in Owning => Scanned(s)

LEMMA LocalFacts ==
  ASSUME BusInv, Bounded, ~robbed, NEW s \in Local
  PROVE  /\ s \in Subs /\ s \notin crashed /\ LocalOKFor(s) /\ NoPid \notin crashed
         /\ Effective \in Nat \ {0} /\ writeSeq \in Nat /\ cursor[s] \in Nat
         /\ cachedSlowest \in Nat /\ cachedSlowest <= writeSeq
         /\ scan.idx \in Nat /\ scan.at \in Nat /\ slot[s] \in Nat /\ min \in SUBSET Nat
         /\ cpc[s] \in Owning => slot[s] \in Slots
         /\ cpc[s] \in {"off", "claim", "unpid"} \cup Owning
         /\ cpc[s] \in Owning \ {"pid", "activate"} =>
              state[slot[s]].st = "active" /\ state[slot[s]].at <= cursor[s]
         /\ cpc[s] \in {"pid", "activate"} => state[slot[s]] = Claiming
  <1>1. s \in Subs /\ s \notin crashed /\ NoPid \notin crashed
    BY TypeParts, Consts DEF BusInv, SharedType
  <1>2. Effective \in Nat \ {0}
    <2>1. watermark \in 0 .. RingSize - 1
      BY TypeParts, Consts DEF BusInv, SharedType, Bounded
    <2> QED
      BY <2>1, Consts DEF Effective
  <1>3. /\ writeSeq \in Nat /\ cursor[s] \in Nat /\ cachedSlowest \in Nat /\ scan.at \in Nat
        /\ min \in SUBSET Nat /\ cpc[s] \in {"off", "claim", "unpid"} \cup Owning
    BY <1>1, TypeParts, Consts DEF BusInv, SharedType, SubType, PubType, Seqs
  <1>4. scan.idx \in Nat /\ slot[s] \in Nat
    BY <1>1, TypeParts, Table DEF BusInv, SubType, PubType
  <1>5. cachedSlowest <= writeSeq /\ (cpc[s] \in Owning => slot[s] \in Slots) /\ LocalOKFor(s)
    BY <1>1 DEF BusInv, PubOK, SubOK, LocalOK, LocalOKFor
  <1>6. cpc[s] \in Owning => Marked(s)
    BY <1>1 DEF BusInv, SlotOK
  <1> QED
    BY <1>1, <1>2, <1>3, <1>4, <1>5, <1>6 DEF Marked, Owning

LEMMA PubLocal ==
  ASSUME BusInv, Publish \/ DropBus \/ PubStep, Bounded, ~robbed, ~robbed', NEW s \in Local
  PROVE  LocalOKFor(s)'
  <1>0. UNCHANGED <<cpc, cursor, lagged, slot>> /\ Effective' = Effective
    BY PubFrame, Mode DEF subVars, Next
  <1>a. PubType /\ Slots = 1 .. TableEnd - 1 /\ TableEnd \in Nat \ {0, 1}
    BY TypeParts, Table DEF BusInv
  <1> USE <1>0, LocalFacts DEF LocalOKFor, Within
  <1>1. CASE Publish
    BY <1>1 DEF Publish, Step, Connecting, Scanned, Scanning, Writing, shared
  <1>2. CASE DropBus
    BY <1>2 DEF DropBus, Step, Connecting, Scanned, Scanning, Writing, shared
  <1>b. CASE PubStep
    <2>0. cpc[s] \notin Connecting
      <3>1. ppc # "idle"
        BY <1>b DEF PubStep, CheckCached, StartScan, ScanSkip, ScanStaleClaim, ScanActive,
             ScanAlive, ScanDead, Prune, PrunePid, ScanRoom, ScanFull, MarkSlot, WriteData,
             CommitSlot, Advance, Step
      <3> QED
        BY <3>1
    <2> USE <2>0
    <2>1. CASE CheckCached
      BY <2>1 DEF CheckCached, Step, Scanned, Scanning, Writing, shared
    <2>2. CASE StartScan
      <3>1. scan.idx = 1 /\ min = {}
        BY <2>2 DEF StartScan, Step, BusInv, PubOK, Scanning
      <3> QED
        BY <1>a, <2>2, <3>1 DEF StartScan, Step, Scanned, Scanning, Writing, shared
    <2>3. CASE ScanSkip
      BY <2>3 DEF ScanSkip, NextScan, Step, Scanned, Scanning, Writing, shared, Owning, Connecting
    <2>4. CASE ScanStaleClaim
      BY <2>4, FreeSpares DEF ScanStaleClaim, Step, Scanned, Scanning, Writing
    <2>5. CASE ScanActive
      BY <2>5 DEF ScanActive, Step, Scanned, Scanning, Writing, shared, Owning, Connecting
    <2>6. CASE ScanAlive
      <3>1. \A m \in min : min = {m}
        BY DEF BusInv, PubOK
      <3>2. \A m \in min \cup {scan.at} : Min(min \cup {scan.at}) <= m
        BY <3>1, MinPair
      <3>3. Min(min \cup {scan.at}) \in Nat
        BY <3>1, MinPair
      <3>4. ASSUME cpc[s] \in Owning, slot[s] < scan.idx + 1
            PROVE  \E m \in min' : m <= cursor[s]
        <4>1. \E m \in min \cup {scan.at} : m <= cursor[s]
          BY <2>6, <3>4 DEF ScanAlive, Step, Scanned, Scanning
        <4>2. Min(min \cup {scan.at}) <= cursor[s]
          <5>1. PICK m \in min \cup {scan.at} : m <= cursor[s]
            BY <4>1
          <5>2. m \in Nat /\ cursor[s] \in Nat /\ Min(min \cup {scan.at}) <= m
            BY <3>2
          <5> HIDE DEF Within
          <5> QED
            BY <3>3, <5>1, <5>2
        <4> QED
          BY <2>6, <4>2 DEF ScanAlive
      <3> QED
        BY <2>6, <3>4 DEF ScanAlive, NextScan, Step, Scanned, Scanning, Writing, shared
    <2>7. CASE ScanDead
      <3>1. cpc[s] \in Owning => slot[s] # scan.idx
        BY <2>7 DEF ScanDead, Connecting
      <3> QED
        BY <2>7, <3>1 DEF ScanDead, Step, Scanned, Scanning, Writing, shared
    <2>8. CASE Prune
      BY <2>8, FreeSpares DEF Prune, Step, Scanned, Scanning, Writing
    <2>9. CASE PrunePid
      <3>1. cpc[s] \in Owning \ {"pid"} => pid'[slot[s]] \in {s, NoPid}
        BY <2>9, TypeParts DEF PrunePid, BusInv, SharedType
      <3>2. cpc[s] \in Owning => Scanned(s)'
        BY <2>9 DEF PrunePid, NextScan, Step, Scanned, Scanning
      <3> QED
        BY <2>9, <3>1, <3>2 DEF PrunePid, Step, Scanning, Writing
    <2>10. CASE ScanRoom \/ ScanFull
      <3>1. scan.idx = TableEnd /\ ppc = "scan"
        BY <2>10 DEF ScanRoom, ScanFull, ScanOver, Step
      <3>2. cpc[s] \in Owning => \E m \in min : m <= cursor[s]
        BY <1>a, <3>1 DEF Scanned, Scanning
      <3>3. cpc[s] \in Owning <=> cpc[s] \notin {"off", "unpid"}
        BY DEF Owning, Connecting
      <3>4. \A m \in min : min = {m}
        BY DEF BusInv, PubOK
      <3>5. CASE ScanRoom
        <4>1. min # {} => min = {Min(min)}
          BY <3>4, SingleMin
        <4>2. cpc[s] \in Owning => cachedSlowest' <= cursor[s] /\ writeSeq < cursor[s] + Effective
          <5>1. SUFFICES ASSUME cpc[s] \in Owning
                         PROVE  cachedSlowest' <= cursor[s] /\ writeSeq < cursor[s] + Effective
            OBVIOUS
          <5>2. PICK m \in min : m <= cursor[s]
            BY <3>2, <5>1
          <5>3. cachedSlowest' = m /\ writeSeq < m + Effective
            BY <3>5, <4>1, <5>2 DEF ScanRoom
          <5> QED
            BY <5>2, <5>3
        <4> QED
          BY <3>3, <3>5, <4>2 DEF ScanRoom, Step, Scanned, Scanning, Writing, shared
      <3>6. CASE ScanFull
        <4>1. cpc[s] \in Owning => cachedSlowest' <= cursor[s]
          BY <3>2, <3>4, <3>6 DEF ScanFull
        <4> QED
          BY <3>3, <3>6, <4>1 DEF ScanFull, Step, Scanned, Scanning, Writing, shared
      <3> QED
        BY <2>10, <3>5, <3>6
    <2>11. CASE MarkSlot \/ WriteData \/ CommitSlot
      BY <2>11 DEF MarkSlot, WriteData, CommitSlot, Step, Scanned, Scanning, Writing
    <2>12. CASE Advance
      BY <2>12 DEF Advance, Step, Scanned, Scanning, Writing
    <2> QED
      BY <1>b, <2>1, <2>2, <2>3, <2>4, <2>5, <2>6, <2>7, <2>8, <2>9, <2>10, <2>11, <2>12
         DEF PubStep
  <1> QED
    BY <1>1, <1>2, <1>b

\* A subscriber that the publisher is not a whole ring ahead of skips nothing.
LEMMA NoSkip ==
  ASSUME BusInv, Bounded, ~robbed, NEW s \in Local,
         TryRecv(s) \/ ReadStamp(s) \/ ReadData(s) \/ StampChanged(s) \/ Overwritten(s) \/ Receive(s)
  PROVE  lagged'[s] = 0 /\ ~Overwritten(s) /\ (TryRecv(s) => cursor' = cursor)
  <1>0. /\ s \in Subs /\ SubType /\ writeSeq \in Nat /\ cursor[s] \in Nat
        /\ RingSize \in Nat \ {0} /\ Effective \in Nat /\ Effective <= RingSize
    <2>1. watermark \in 0 .. RingSize - 1
      BY TypeParts, Consts DEF BusInv, SharedType, Bounded
    <2> QED
      BY SMTT(30), <2>1, Consts, TypeParts DEF BusInv, SharedType, SubType, Seqs, Effective
  <1>1. Within(s)
    BY LocalFacts DEF LocalOKFor, TryRecv, ReadStamp, ReadData, StampChanged, Overwritten,
       Receive, SubStep
  <1>2. Published <= cursor[s] + Effective /\ Published \in Nat
    BY <1>0, <1>1, PublishedFacts DEF Within, Writing
  <1>3. CASE TryRecv(s)
    <2> DEFINE d == writeSeq - RingSize - cursor[s]
               k == Max({0, d})
    <2>1. d \in Int /\ d <= 0
      BY <1>0, <1>1 DEF Within
    <2>2. k = 0
      BY <2>1, MaxZero
    <2> HIDE DEF k
    <2>3. lagged' = [lagged EXCEPT ![s] = @ + k] /\ cursor' = [cursor EXCEPT ![s] = @ + k]
      BY <1>3 DEF TryRecv, k
    <2>4. lagged'[s] = 0
      BY <1>0, <1>1, <2>2, <2>3 DEF SubType, Within
    <2>5. cursor' = cursor
      BY <1>0, <2>2, <2>3 DEF SubType
    <2>6. ~Overwritten(s)
      BY <1>3 DEF TryRecv, Overwritten, SubStep
    <2> QED
      BY <2>4, <2>5, <2>6
  <1>4. CASE Overwritten(s)
    <2>1. PICK n \in Seqs : /\ stamp[s] = n * 2 + 2 /\ cursor[s] <= n /\ n < Published
                            /\ n % RingSize = His(s)
      BY <1>0, <1>4 DEF Overwritten, SubStep, BusInv, SubOK, ReadOK
    <2>2. n \in Nat /\ cursor[s] < n
      <3>1. n \in Nat /\ n # cursor[s]
        BY <1>4, <2>1 DEF Overwritten, Seqs
      <3>2. cursor[s] \in Nat /\ cursor[s] <= n
        BY <1>0, <2>1
      <3> QED
        BY <3>1, <3>2
    <2>3. cursor[s] + RingSize <= n
      BY <1>0, <2>1, <2>2, ModApart DEF His
    <2> QED
      BY <1>0, <1>2, <2>1, <2>2, <2>3
  <1>5. CASE ~TryRecv(s) /\ ~Overwritten(s)
    BY <1>1, <1>5 DEF ReadStamp, ReadData, StampChanged, Receive, Within
  <1> QED
    BY <1>3, <1>4, <1>5

LEMMA SubLocal ==
  ASSUME BusInv, NEW t \in Subs, Connect(t) \/ SubGo(t) \/ DropSub(t) \/ Crash(t),
         Bounded, ~robbed, NEW s \in Local
  PROVE  LocalOKFor(s)'
  <1>0. UNCHANGED <<writeSeq, ppc, cachedSlowest, scan, min>> /\ Effective' = Effective
    BY SubFrame, Mode DEF pubVars, Next
  <1>a. SubType /\ SharedType /\ crashed \subseteq Subs
    BY TypeParts, Consts DEF BusInv, SharedType
  <1> USE <1>0, LocalFacts DEF LocalOKFor, Within
  \* The pid in the slot of s is written by s, or cleared.
  <1>b. ASSUME cpc[s] \in Owning \ {"pid"}
        PROVE  pid'[slot[s]] \in {s, NoPid}
    <2>1. CASE WritePid(t)
      <3>1. cpc[t] = "pid" /\ t \notin crashed /\ pid' = [pid EXCEPT ![slot[t]] = t]
        BY <2>1 DEF WritePid, SubStep
      <3>2. t # s /\ slot[t] # slot[s]
        BY <1>b, <3>1 DEF BusInv, SlotOK, Owning
      <3> QED
        BY <1>a, <1>b, <3>1, <3>2 DEF SharedType
    <2>2. CASE ClearPid(t)
      BY <1>a, <1>b, <2>2 DEF ClearPid, SharedType
    <2>3. CASE UNCHANGED pid
      BY <1>b, <2>3
    <2> QED
      BY <2>1, <2>2, <2>3 DEF Connect, SubGo, ClaimSlot, ClaimNext, ClaimFails, Activate,
         TryRecv, ReadStamp, ReadData, StampChanged, Overwritten, Receive, UpdateCursor,
         DropSub, Crash, shared
  <1>1. CASE t # s
    <2>1. /\ cpc'[s] = cpc[s] /\ cursor'[s] = cursor[s] /\ lagged'[s] = lagged[s]
          /\ slot'[s] = slot[s]
      BY <1>a, <1>1 DEF SubType, SubStep, Connect, SubGo, DropSub, Crash, ClaimSlot,
           ClaimNext, ClaimFails, WritePid, Activate, TryRecv, ReadStamp, ReadData,
           StampChanged, Overwritten, Receive, UpdateCursor, ClearPid, Forget, subVars
    <2> QED
      BY <1>b, <2>1 DEF Scanned
  <1>2. CASE t = s
    <2> USE <1>a, <1>2 DEF SubType, SubStep, Connecting, Owning
    <2>1. CASE Connect(s)
      <3>1. /\ ppc = "idle" /\ cpc'[s] = "claim" /\ cursor'[s] = writeSeq
            /\ lagged'[s] = 0
        BY <2>1 DEF Connect, BusInv, SubOK
      <3> QED
        BY <3>1 DEF Writing
    <2>2. CASE ClaimSlot(s) \/ ClaimNext(s)
      BY <2>2 DEF ClaimSlot, ClaimNext, Scanned, Scanning
    <2>3. CASE ClaimFails(s) \/ ClearPid(s) \/ DropSub(s)
      BY <2>3 DEF ClaimFails, ClearPid, DropSub
    <2>4. CASE WritePid(s)
      <3>1. pid'[slot[s]] = s
        BY <2>4 DEF WritePid, SharedType
      <3> QED
        BY <2>4, <3>1 DEF WritePid, Scanned, Scanning
    <2>5. CASE Activate(s)
      BY <1>b, <2>5 DEF Activate, Scanned, Scanning
    <2>6. CASE TryRecv(s) \/ ReadStamp(s) \/ ReadData(s) \/ StampChanged(s)
               \/ Overwritten(s) \/ Receive(s)
      <3>1. /\ cpc[s] \in Owning \ {"pid", "activate"} /\ cpc'[s] \in Owning \ {"pid", "activate"}
            /\ slot' = slot
        BY <2>6 DEF TryRecv, ReadStamp, ReadData, StampChanged, Overwritten, Receive
      <3>2. cursor[s] <= cursor'[s] /\ cursor'[s] \in Nat
        BY <2>6, CursorGrows
      <3>3. lagged'[s] = 0
        BY <2>6, NoSkip
      <3>4. Scanned(s) => Scanned(s)'
        BY <3>1, <3>2 DEF Scanned
      <3>5. Within(s)'
        BY <3>1, <3>2, <3>3
      <3>6. pid'[slot'[s]] \in {s, NoPid}
        BY <1>b, <3>1
      <3> QED
        BY <3>1, <3>4, <3>5, <3>6
    <2>7. CASE UpdateCursor(s)
      BY <1>b, <2>7 DEF UpdateCursor, Scanned
    <2>8. CASE Crash(s)
      BY <2>8, Consts DEF Crash
    <2> QED
      BY <2>1, <2>2, <2>3, <2>4, <2>5, <2>6, <2>7, <2>8 DEF SubGo
  <1> QED
    BY <1>1, <1>2

LEMMA StepLocal ==
  ASSUME BusInv, Next, Bounded, ~robbed, ~robbed'
  PROVE  LocalOK'
  <1>1. \A s \in Local : LocalOKFor(s)'
    BY PubLocal, SubLocal DEF Next
  <1> QED
    BY <1>1 DEF LocalOK, LocalOKFor

(***************************************************************************)
(* The theorems                                                            *)
(***************************************************************************)
LEMMA InitBus == Init => BusInv
  <1> SUFFICES ASSUME Init PROVE BusInv
    OBVIOUS
  <1>1. PICK n \in SlotCounts : state = [i \in 1 .. n |-> Free] /\ pid = [i \in 1 .. n |-> NoPid]
    BY DEF Init
  <1>2. Slots = 1 .. n /\ n \in Nat \ {0}
    BY <1>1, PodBusAssumption DEF Slots
  <1>3. TableEnd = n + 1
    BY <1>2, FS_Interval DEF TableEnd
  <1>4. 0 \in Seqs /\ 0 \in 0 .. 2 * MaxSeq
    BY Consts DEF Seqs
  <1>5. SharedType
    BY <1>1, <1>2, <1>4 DEF Init, SharedType
  <1>6. PubType
    BY <1>2, <1>3, <1>4 DEF Init, PubType
  <1>7. SubType
    <2>1. 0 \in 0 .. TableEnd
      BY <1>2, <1>3
    <2> QED
      BY <1>4, <2>1 DEF Init, SubType
  <1>8. Published = 0
    BY DEF Init, Published
  <1>9. RingOK
    BY <1>8, Consts DEF Init, RingOK
  <1>10. PubOK
    BY <1>1, <1>2 DEF Init, PubOK, Free, Scanning
  <1>11. SubOK
    BY <1>8 DEF Init, SubOK, Connecting, Owning
  <1>12. SlotOK /\ LocalOK
    BY Consts DEF Init, SlotOK, LocalOK, Connecting, Owning
  <1> QED
    BY <1>5, <1>6, <1>7, <1>9, <1>10, <1>11, <1>12, TypeParts DEF BusInv

LEMMA StepBus == BusInv /\ [Next]_vars => BusInv'
  <1> SUFFICES ASSUME BusInv, [Next]_vars PROVE BusInv'
    OBVIOUS
  <1>1. CASE Next
    <2>1. robbed => robbed'
      <3>1. CASE Publish \/ DropBus \/ PubStep
        BY <3>1 DEF Publish, DropBus, PubStep, CheckCached, StartScan, ScanSkip,
           ScanStaleClaim, ScanActive, ScanAlive, ScanDead, Prune, PrunePid, ScanRoom,
           ScanFull, MarkSlot, WriteData, CommitSlot, Advance, FreeSlot, fate
      <3> QED
        BY <1>1, <3>1, SubFrame DEF Next
    <2>2. Bounded' /\ ~robbed' => SlotOK' /\ LocalOK'
      BY <1>1, <2>1, Mode, StepSlot, StepLocal
    <2> QED
      BY <1>1, <2>2, StepType, StepRing, StepPub, StepSub DEF BusInv
  <1>2. CASE UNCHANGED vars
    <2> USE <1>2 DEF vars, shared, fate, pubVars, subVars, history
    <2>1. TypeOK'
      BY DEF BusInv, TypeOK, Slots, TableEnd
    <2>2. RingOK'
      BY DEF BusInv, RingOK, Mine, Published
    <2>3. PubOK'
      BY DEF BusInv, PubOK, Slots
    <2>4. SubOK'
      BY DEF BusInv, SubOK, ReadOK, His, Published, Slots
    <2>5. Bounded' /\ ~robbed' => SlotOK' /\ LocalOK'
      BY DEF BusInv, SlotOK, LocalOK, Marked, Within, Scanned, Effective, Bounded
    <2> QED
      BY <2>1, <2>2, <2>3, <2>4, <2>5 DEF BusInv
  <1> QED
    BY <1>1, <1>2

LEMMA BusInvariant == Spec => []BusInv
  BY InitBus, StepBus, PTL DEF Spec

\* Sequence numbers, stamps, cursors and indices of pod_bus.rs keep within what their
\* fields are made for, whoever crashes, is pruned or is slow.
THEOREM TypeCorrect == Spec => []TypeOK
  <1>1. BusInv => TypeOK
    BY DEF BusInv
  <1> QED
    BY <1>1, BusInvariant, PTL

\* Lossless mode: a bounded bus never writes over what a subscriber made by
\* PodBus::subscriber has yet to read, for every ring size, watermark, slot table
\* and number of subscribers, until a remote subscriber is robbed of its slot.
THEOREM Lossless == Spec => []LosslessLocal
  <1>1. BusInv => LosslessLocal
    <2> SUFFICES ASSUME BusInv, Bounded, ~robbed, NEW s \in Local, cpc[s] \notin {"off", "unpid"}
                 PROVE  lagged[s] = 0 /\ writeSeq <= cursor[s] + RingSize - watermark
      BY DEF LosslessLocal
    <2>1. watermark \in 0 .. RingSize - 1 /\ RingSize \in Nat
      BY TypeParts, Consts DEF BusInv, SharedType, Bounded
    <2>2. Within(s) /\ cursor[s] \in Nat
      BY LocalFacts DEF LocalOKFor
    <2> QED
      BY <2>1, <2>2 DEF Within, Effective
  <1> QED
    BY <1>1, BusInvariant, PTL

\* The publisher's prunes and the others' claims, drops and crashes leave to such a
\* subscriber the slot it claimed.
THEOREM SlotKept == Spec => []LocalSlotKept
  <1>1. BusInv => LocalSlotKept
    <2> SUFFICES ASSUME BusInv, Bounded, ~robbed, NEW s \in Local
                 PROVE  OwnsSlot(s)
      BY DEF LocalSlotKept
    <2>1. s \in Subs \ crashed
      BY LocalFacts
    <2> QED
      BY <2>1 DEF OwnsSlot, BusInv, SlotOK, Marked
  <1> QED
    BY <1>1, BusInvariant, PTL

(***************************************************************************)
(* The refinement                                                          *)
(***************************************************************************)
Room == IF Bounded /\ ~robbed THEN Effective ELSE Unbounded
SubView == [s \in Subs |-> View(s)]

LEMMA ViewFrame ==
  ASSUME UNCHANGED subVars
  PROVE  SubView' = SubView
  BY DEF subVars, history, SubView, View

LEMMA InitRefines == Init => B!Init
  <1> SUFFICES ASSUME Init PROVE B!Init
    OBVIOUS
  <1>1. Published = 0
    BY DEF Init, Published
  <1>2. SubView = [s \in Subs |-> B!Out]
    BY DEF Init, SubView, View, B!Out, B!Seen
  <1>3. Room \in 1 .. RingSize \cup {Unbounded}
    <2>1. CASE Bounded
      <3>1. watermark \in 0 .. RingSize - 1
        BY <2>1, Consts DEF Init, Bounded
      <3> QED
        BY <3>1, Consts DEF Room, Effective
    <2>2. CASE ~Bounded
      BY <2>2 DEF Room
    <2> QED
      BY <2>1, <2>2
  <1> QED
    BY <1>1, <1>2, <1>3 DEF B!Init, Room, SubView

\* The publisher's steps: the commit of a slot is the publication; to rob a
\* subscriber is to lose track.
LEMMA PubRefines ==
  ASSUME BusInv, Publish \/ DropBus \/ PubStep
  PROVE  B!Next \/ UNCHANGED B!bvars
  <1>1. SubView' = SubView
    BY PubFrame, ViewFrame
  <1>2. watermark' = watermark /\ Bounded' = Bounded /\ Effective' = Effective
    BY Mode DEF Next
  <1>3. CASE CommitSlot
    <2>1. /\ ppc = "commit" /\ Published = writeSeq /\ Published' = Published + 1
          /\ robbed' = robbed
      BY <1>3, PublishedFacts DEF CommitSlot, Step, Published, fate
    <2>2. Room' = Room
      BY <1>2, <2>1 DEF Room
    <2>3. ASSUME Room # Unbounded, NEW s \in Local, View(s).in
          PROVE  Published < View(s).pos + Room
      <3>1. Bounded /\ ~robbed /\ Room = Effective
        BY <2>3 DEF Room
      <3>2. cpc[s] \notin {"off", "unpid"} /\ View(s).pos = cursor[s]
        BY <2>3 DEF View
      <3> QED
        BY <2>1, <3>1, <3>2, LocalFacts DEF LocalOKFor, Within, Writing
    <2>4. Room # Unbounded => \A s \in Local : SubView[s].in => Published < SubView[s].pos + Room
      BY <2>3, Consts DEF SubView
    <2>5. B!Publish
      BY <1>1, <2>1, <2>2, <2>4 DEF B!Publish, Room, SubView
    <2> QED
      BY <2>5 DEF B!Next
  <1>4. CASE ScanStaleClaim \/ Prune
    <2>1. Published' = Published
      BY <1>4 DEF ScanStaleClaim, Prune, Step, Published
    <2>2. CASE robbed' = robbed
      BY <1>1, <1>2, <2>1, <2>2 DEF B!bvars, SubView
    <2>3. CASE robbed' # robbed
      <3>1. robbed'
        BY <1>4, <2>3, TypeParts DEF ScanStaleClaim, Prune, FreeSlot, BusInv, SharedType
      <3>2. Room' = Unbounded
        BY <3>1 DEF Room
      <3>3. B!LoseTrack
        BY <1>1, <2>1, <3>2 DEF B!LoseTrack, Room, SubView
      <3> QED
        BY <3>3 DEF B!Next
    <2> QED
      BY <2>2, <2>3
  <1>5. CASE ~CommitSlot /\ ~ScanStaleClaim /\ ~Prune
    <2>1. Published' = Published
      <3>1. CASE MarkSlot \/ WriteData \/ Advance
        BY <3>1, PublishedFacts DEF MarkSlot, WriteData, Advance, Step, Published
      <3>2. CASE ~MarkSlot /\ ~WriteData /\ ~Advance
        BY <1>5, <3>2, RingFrame DEF Next
      <3> QED
        BY <3>1, <3>2
    <2>2. robbed' = robbed
      BY <1>5 DEF Publish, DropBus, PubStep, CheckCached, StartScan, ScanSkip,
           ScanActive, ScanAlive, ScanDead, PrunePid, ScanRoom,
           ScanFull, MarkSlot, WriteData, Advance, fate
    <2> QED
      BY <1>1, <1>2, <2>1, <2>2 DEF B!bvars, SubView
  <1> QED
    BY <1>3, <1>4, <1>5

\* A subscriber's view is another's business only.
LEMMA OtherViews ==
  ASSUME BusInv, NEW s \in Subs, Connect(s) \/ SubGo(s) \/ DropSub(s) \/ Crash(s)
  PROVE  SubView' = [SubView EXCEPT ![s] = View(s)']
  <1>1. SubType
    BY TypeParts DEF BusInv
  <1>2. ASSUME NEW t \in Subs, t # s
        PROVE  View(t)' = View(t)
    <2>1. /\ cpc'[t] = cpc[t] /\ cursor'[t] = cursor[t] /\ lagged'[t] = lagged[t]
          /\ start'[t] = start[t] /\ got'[t] = got[t]
      BY <1>1, <1>2 DEF SubType, SubStep, Connect, SubGo, DropSub, Crash, ClaimSlot,
           ClaimNext, ClaimFails, WritePid, Activate, TryRecv, ReadStamp, ReadData,
           StampChanged, Overwritten, Receive, UpdateCursor, ClearPid, Forget,
           subVars, history
    <2> QED
      BY <2>1 DEF View
  <1> QED
    BY <1>2 DEF SubView

LEMMA SubRefines ==
  ASSUME BusInv, NEW s \in Subs, Connect(s) \/ SubGo(s) \/ DropSub(s) \/ Crash(s)
  PROVE  B!Next \/ UNCHANGED B!bvars
  <1>1. /\ Published' = Published /\ Room' = Room
        /\ UNCHANGED <<writeSeq, ppc>>
    BY SubFrame DEF pubVars, Published, Room, Bounded, Effective
  <1>2. SubView' = [SubView EXCEPT ![s] = View(s)'] /\ SubView[s] = View(s)
    BY OtherViews DEF SubView
  <1>3. /\ Published \in Nat /\ writeSeq \in Nat /\ cursor[s] \in Nat /\ lagged[s] \in Nat
        /\ Published = IF ppc = "advance" THEN writeSeq + 1 ELSE writeSeq
        /\ RingSize \in Nat \ {0} /\ SubType
    BY PublishedFacts, Consts, TypeParts DEF BusInv, SubType, Seqs
  <1>4. ASSUME View(s)' = View(s)
        PROVE  UNCHANGED B!bvars
    <2>1. SubView' = SubView
      BY <1>2, <1>4 DEF SubView
    <2> QED
      BY <1>1, <2>1 DEF B!bvars, Room, SubView
  <1> USE <1>3 DEF SubType, SubStep, history
  <1>5. CASE Connect(s)
    <2>1. View(s) = B!Out /\ cpc'[s] \in {"claim", "idle"}
      BY <1>5 DEF Connect, View, B!Out, B!Seen
    <2>2. lagged[s] = 0 /\ got[s] = {}
      BY <1>5 DEF Connect, BusInv, SubOK
    <2>3. View(s)' = [in |-> TRUE, from |-> writeSeq, pos |-> writeSeq, got |-> {}, missed |-> 0]
      BY <1>5, <2>1, <2>2 DEF Connect, View
    <2>4. View(s)' = B!Seen(TRUE, writeSeq, writeSeq, {}, 0)
      BY <2>3 DEF B!Seen
    <2>5. /\ writeSeq \in 0 .. Published
          /\ writeSeq = Published \/ (writeSeq + 1 = Published /\ s \notin Local)
      BY <1>5 DEF Connect
    <2>6. ~SubView[s].in
      BY <1>2, <2>1 DEF B!Out, B!Seen
    <2>7. B!Join(s)
      BY <1>1, <1>2, <2>4, <2>5, <2>6 DEF B!Join, Room, SubView
    <2> QED
      BY <2>7 DEF B!Next
  <1>6. CASE ClaimSlot(s) \/ ClaimNext(s) \/ WritePid(s) \/ Activate(s) \/ UpdateCursor(s)
             \/ ReadStamp(s) \/ ReadData(s) \/ StampChanged(s) \/ Crash(s)
    <2>1. View(s)' = View(s)
      BY <1>6 DEF ClaimSlot, ClaimNext, WritePid, Activate, UpdateCursor, ReadStamp,
           ReadData, StampChanged, Crash, View, subVars
    <2> QED
      BY <1>4, <2>1
  <1>7. CASE ClearPid(s)
    <2>1. View(s)' = View(s)
      BY <1>7 DEF ClearPid, View
    <2> QED
      BY <1>4, <2>1
  <1>8. CASE ClaimFails(s) \/ DropSub(s)
    <2>1. View(s)' = B!Out /\ View(s).in
      BY <1>8 DEF ClaimFails, DropSub, View, B!Out, B!Seen
    <2>2. B!Leave(s)
      BY <1>1, <1>2, <2>1 DEF B!Leave, Room, SubView
    <2> QED
      BY <2>2 DEF B!Next
  <1>9. ASSUME cpc[s] \notin {"off", "unpid"}, cpc'[s] \notin {"off", "unpid"},
               UNCHANGED <<start, got>>, NEW n \in cursor[s] + 1 .. Published,
               cursor'[s] = n, lagged'[s] = lagged[s] + n - cursor[s],
               cursor[s] + RingSize < Published,
               s \in Local => Room = Unbounded,
               \/ n + RingSize \in {Published, Published - 1}
               \/ n - 1 > cursor[s] /\ (n - 1) % RingSize = cursor[s] % RingSize
        PROVE  B!Skip(s)
    <2>1. /\ View(s) = B!Seen(TRUE, start[s], cursor[s], got[s], lagged[s])
          /\ View(s)' = B!Seen(TRUE, start[s], n, got[s], lagged[s] + n - cursor[s])
      BY <1>9 DEF View, B!Seen
    <2>a. View(s).in /\ View(s).pos = cursor[s] /\ View(s).missed = lagged[s]
      BY <2>1 DEF B!Seen
    <2>2. View(s)' = [View(s) EXCEPT !.pos = n, !.missed = @ + n - View(s).pos]
      <3> DEFINE v == View(s)
                 from == start[s]
                 seen == got[s]
                 yes == TRUE
                 y == lagged[s] + n - cursor[s]
                 q == [v EXCEPT !.pos = n]
      <3>1. v = B!Seen(yes, from, cursor[s], seen, lagged[s])
        BY <2>1
      <3>2. View(s)' = B!Seen(yes, from, n, seen, y)
        BY <2>1
      <3>3. [v EXCEPT !.pos = n, !.missed = @ + n - v.pos] = [v EXCEPT !.pos = n, !.missed = y]
        BY <2>a
      <3> HIDE DEF v, from, seen, yes, y
      <3>4. [v EXCEPT !.pos = n, !.missed = y] = [q EXCEPT !.missed = y]
        BY <3>1 DEF B!Seen
      <3>5. q = B!Seen(yes, from, n, seen, lagged[s])
        BY <3>1 DEF B!Seen
      <3> HIDE DEF q
      <3>6. [q EXCEPT !.missed = y] = B!Seen(yes, from, n, seen, y)
        BY <3>5 DEF B!Seen
      <3> QED
        BY <3>2, <3>3, <3>4, <3>6 DEF v
    <2>3. SubView' = [SubView EXCEPT ![s].pos = n, ![s].missed = @ + n - SubView[s].pos]
      BY <1>2, <2>2 DEF SubView
    <2>4. SubView[s].in /\ SubView[s].pos = cursor[s]
      BY <1>2, <2>a
    <2>5. B!Oldest(n) \/ B!PastUsurper(s, n)
      BY <1>9, <2>4 DEF B!Oldest, B!PastUsurper, SubView
    <2> QED
      BY <1>1, <1>9, <2>3, <2>4, <2>5 DEF B!Skip, Room, SubView
  <1>10. CASE TryRecv(s)
    <2> DEFINE d == writeSeq - RingSize - cursor[s]
               k == Max({0, d})
    <2>1. d \in Int
      OBVIOUS
    <2>2. k = IF d > 0 THEN d ELSE 0
      BY <2>1, MaxZero
    <2>3. /\ lagged'[s] = lagged[s] + k /\ cursor'[s] = cursor[s] + k /\ UNCHANGED <<start, got>>
          /\ cpc[s] = "idle" /\ cpc'[s] = "stamp"
      BY <1>10 DEF TryRecv
    <2>4. CASE d > 0
      <3>1. /\ cursor'[s] \in cursor[s] + 1 .. Published
            /\ lagged'[s] = lagged[s] + cursor'[s] - cursor[s]
            /\ cursor[s] + RingSize < Published
            /\ cursor'[s] + RingSize \in {Published, Published - 1}
        BY <2>1, <2>2, <2>3, <2>4 DEF Published
      <3>2. s \in Local => Room = Unbounded
        <4>1. ASSUME s \in Local, Bounded, ~robbed
              PROVE  FALSE
          <5>1. cursor'[s] = cursor[s]
            BY <1>10, <4>1, NoSkip
          <5> QED
            BY <2>1, <2>2, <2>3, <2>4, <5>1
        <4> QED
          BY <4>1 DEF Room
      <3>3. B!Skip(s)
        BY <1>9, <2>3, <3>1, <3>2
      <3> QED
        BY <3>3 DEF B!Next
    <2>5. CASE ~(d > 0)
      <3>1. cursor'[s] = cursor[s] /\ lagged'[s] = lagged[s]
        BY <2>2, <2>3, <2>5
      <3>2. View(s)' = View(s)
        BY <2>3, <3>1 DEF View
      <3> QED
        BY <1>4, <3>2
    <2> QED
      BY <2>4, <2>5
  <1>11. CASE Overwritten(s)
    <2>1. PICK n \in Seqs : /\ stamp[s] = n * 2 + 2 /\ cursor[s] <= n /\ n < Published
                            /\ n % RingSize = His(s)
      BY <1>11 DEF Overwritten, BusInv, SubOK, ReadOK
    <2>2. n \in Nat /\ n # cursor[s]
      BY <1>11, <2>1 DEF Overwritten, Seqs
    <2>3. cursor[s] < n
      BY <2>1, <2>2
    <2>4. cursor[s] + RingSize <= n
      BY <2>1, <2>2, <2>3, ModApart DEF His
    <2>5. stamp[s] \div 2 = n + 1
      BY <2>1, <2>2
    <2>6. /\ cursor'[s] = n + 1 /\ lagged'[s] = lagged[s] + (n + 1) - cursor[s]
          /\ UNCHANGED <<start, got>> /\ cpc[s] = "check" /\ cpc'[s] = "idle"
      BY <1>11, <2>5 DEF Overwritten
    <2>7. /\ n + 1 \in cursor[s] + 1 .. Published /\ cursor[s] + RingSize < Published
          /\ (n + 1) - 1 > cursor[s] /\ ((n + 1) - 1) % RingSize = cursor[s] % RingSize
      <3>1. (n + 1) - 1 = n
        BY <2>2
      <3> QED
        BY <2>1, <2>2, <2>3, <2>4, <3>1 DEF His
    <2>8. s \in Local => Room = Unbounded
      BY <1>11, NoSkip DEF Room
    <2>9. B!Skip(s)
      BY <1>9, <2>6, <2>7, <2>8
    <2> QED
      BY <2>9 DEF B!Next
  <1>12. CASE Receive(s)
    <2>1. PICK n \in Seqs : /\ stamp[s] = n * 2 + 2
                            /\ ring[His(s)].stamp = stamp[s] => val[s] = n
      BY <1>12 DEF Receive, BusInv, SubOK, ReadOK
    <2>2. n = cursor[s]
      BY <1>12, <2>1 DEF Receive, Seqs
    <2>3. val[s] = cursor[s] /\ cursor[s] < Published
      <3>1. cursor[s] < writeSeq
        BY <1>12 DEF Receive, BusInv, SubOK
      <3> QED
        BY <1>12, <2>1, <2>2, <3>1 DEF Receive
    <2>4. /\ cursor'[s] = cursor[s] + 1 /\ got'[s] = got[s] \cup {cursor[s]}
          /\ UNCHANGED <<start, lagged>> /\ cpc[s] = "check" /\ cpc'[s] \in {"update", "idle"}
      BY <1>12, <2>3 DEF Receive
    <2>5. /\ View(s) = B!Seen(TRUE, start[s], cursor[s], got[s], lagged[s])
          /\ View(s)' = B!Seen(TRUE, start[s], cursor[s] + 1, got[s] \cup {cursor[s]}, lagged[s])
      BY <2>4 DEF View, B!Seen
    <2>a. View(s).in /\ View(s).pos = cursor[s] /\ View(s).got = got[s]
      BY <2>5 DEF B!Seen
    <2>6. View(s)' = [View(s) EXCEPT !.pos = @ + 1, !.got = @ \cup {View(s).pos}]
      <3> DEFINE v == View(s)
                 from == start[s]
                 yes == TRUE
                 x == cursor[s] + 1
                 y == got[s] \cup {cursor[s]}
                 q == [v EXCEPT !.pos = x]
      <3>1. v = B!Seen(yes, from, cursor[s], got[s], lagged[s])
        BY <2>5
      <3>2. View(s)' = B!Seen(yes, from, x, y, lagged[s])
        BY <2>5
      <3>3. [v EXCEPT !.pos = @ + 1, !.got = @ \cup {v.pos}] = [v EXCEPT !.pos = x, !.got = y]
        BY <2>a
      <3> HIDE DEF v, from, yes, x, y
      <3>4. [v EXCEPT !.pos = x, !.got = y] = [q EXCEPT !.got = y]
        BY <3>1 DEF B!Seen
      <3>5. q = B!Seen(yes, from, x, got[s], lagged[s])
        BY <3>1 DEF B!Seen
      <3> HIDE DEF q
      <3>6. [q EXCEPT !.got = y] = B!Seen(yes, from, x, y, lagged[s])
        BY <3>5 DEF B!Seen
      <3> QED
        BY <3>2, <3>3, <3>4, <3>6 DEF v
    <2>7. SubView' = [SubView EXCEPT ![s].pos = @ + 1, ![s].got = @ \cup {SubView[s].pos}]
      BY <1>2, <2>6 DEF SubView
    <2>8. SubView[s].in /\ SubView[s].pos < Published
      BY <1>2, <2>3, <2>a
    <2>9. B!Receive(s)
      BY <1>1, <2>7, <2>8 DEF B!Receive, Room, SubView
    <2> QED
      BY <2>9 DEF B!Next
  <1> QED
    BY <1>5, <1>6, <1>7, <1>8, <1>10, <1>11, <1>12 DEF SubGo

\* The seqlock ring, the slot table and the watermark implement the broadcast, with
\* the even stamp as the point where a value is published: values are received whole,
\* once and in order or counted as missed, for every value of the constants.
THEOREM BusRefinement == Spec => ImplementsBroadcast
  <1>1. BusInv /\ [Next]_vars => [B!Next]_(B!bvars)
    <2>1. CASE UNCHANGED vars
      <3>1. UNCHANGED <<watermark, writeSeq, robbed, ppc, subVars>>
        BY <2>1 DEF vars, shared, fate, pubVars
      <3>2. SubView' = SubView /\ Published' = Published /\ Room' = Room
        BY <3>1, ViewFrame DEF Published, Room, Bounded, Effective
      <3> QED
        BY <3>2 DEF B!bvars, Room, SubView
    <2> QED
      BY <2>1, PubRefines, SubRefines DEF Next
  <1> QED
    BY <1>1, InitRefines, BusInvariant, PTL DEF Spec, ImplementsBroadcast, B!Spec

=============================================================================
