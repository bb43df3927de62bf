--------------------------- MODULE Directory_proofs ---------------------------
(***************************************************************************)
(* Proofs about Directory, for any number of publishers, regions, URIs,    *)
(* slots and entries, and any script.                                      *)
(***************************************************************************)
EXTENDS Directory, FiniteSetTheorems, TLAPS

(***************************************************************************)
(* The inductive invariant: topic tables                                   *)
(***************************************************************************)
Topic(r, u) == \E i \in Slots : slot[r][i] = [state |-> "ACTIVE", uri |-> u]

ActiveOK ==
  \A r \in Regions : \A i \in Slots : slot[r][i].state = "ACTIVE" => slot[r][i].uri \in Uris

\* What a call knows of the slot it is at.
CallOK(x) ==
  /\ tpc[x] \in {"scan", "claim", "write", "activate", "registry"} =>
       where[x] = RegionOf[x] /\ uri[x] \in Uris
  /\ tpc[x] \in {"write", "activate"} => Table(x)[ti[x]].state = "INIT"
  /\ tpc[x] = "activate" => Table(x)[ti[x]].uri = uri[x]
  /\ tpc[x] \in {"registry", "count"} =>
       Table(x)[ti[x]] = [state |-> "ACTIVE", uri |-> uri[x]]
  /\ tpc[x] \in {"find", "count"} => stream[x] = NoStream

\* A slot in INIT has at most one writer.
OwnSlot ==
  \A x, y \in Procs :
    /\ x # y /\ where[x] = where[y]
    /\ tpc[x] \in {"write", "activate"} /\ tpc[y] \in {"write", "activate"}
    => ti[x] # ti[y]

\* What register has found on its way through the slots that were ACTIVE.
SeenOK(x) ==
  /\ tpc[x] \in {"scan", "claim", "write"} => \A i \in seen[x] : Table(x)[i].state = "ACTIVE"
  /\ tpc[x] = "scan" => \A i \in seen[x] : i < ti[x] => Table(x)[i].uri # uri[x]
  /\ tpc[x] \in {"claim", "write"} => \A i \in seen[x] : Table(x)[i].uri # uri[x]

Streams(r, i) == {x \in Procs : stream[x] # NoStream /\ stream[x].region = r /\ stream[x].at = i}

\* A stream has been counted.
StreamsCounted ==
  \A r \in Regions : \A i \in Slots : counted[r][i] >= Cardinality(Streams(r, i))

TableInv ==
  /\ TableTypeOK
  /\ ActiveOK
  /\ \A x \in Procs : CallOK(x)
  /\ OwnSlot
  /\ \A x \in Procs : SeenOK(x)
  /\ StreamsCounted
  /\ HandleResolves

(***************************************************************************)
(* The inductive invariant: registry                                       *)
(***************************************************************************)
Opening == {"open", "magic", "truncate", "len", "header"}
Ops == [do : {"none", "register", "unregister", "prune", "discover", "since"},
        region : Regions \cup {NoRegion}, uri : Uris \cup {NoUri}, time : Nat,
        match : SUBSET (Uris \cup {NoUri})]

RegType ==
  /\ RegTypeOK
  /\ op \in [Procs -> Ops]
  /\ found \in [Procs -> SUBSET [at : Entries, got : Fields]]
  /\ \A i \in Entries : entry[i].ts = 0 \/ entry[i].ts >= StartTime

\* Where a process can be in each operation, and its arguments.
OpOK(x) ==
  /\ rpc[x] = "idle" <=> op[x].do = "none"
  /\ rpc[x] \in {"idle", "start", "done"} \cup Opening => ri[x] = 0
  /\ rpc[x] \in Writing \cup {"touch", "claim", "add"} => op[x].do = "register"
  /\ rpc[x] = "compare" => op[x].do \in {"register", "unregister"}
  /\ rpc[x] = "ts" => op[x].do \in {"prune", "since"}
  /\ rpc[x] \in {"free", "sub", "clamp"} => op[x].do \in {"prune", "unregister"}
  /\ rpc[x] \in {"get_uri", "get_region", "get_owner"} => op[x].do \in {"discover", "since"}
  /\ op[x].do \in {"register", "unregister"} => op[x].region = RegionOf[x]
  /\ op[x].do = "register" => op[x].uri \in Uris /\ Topic(RegionOf[x], op[x].uri)
  /\ op[x].do = "register" /\ rpc[x] \notin Opening \cup {"start", "done"} =>
       op[x].time \in StartTime .. clock

\* The file: nobody is in a registry that was never there.
FileOK ==
  ~erased /\ file # "ready" =>
    /\ \A x \in Procs : rpc[x] \in Opening \cup {"idle"}
    /\ \A i \in Entries : entry[i] = Blank
    /\ count = 0

\* Who claimed an entry has it alone until it is counted, unless it was freed.
SoleOK ==
  ~erased =>
    \A x \in Procs : IsAdding(x) /\ ri[x] \notin stolen =>
      /\ entry[ri[x]].active
      /\ \A y \in Procs : y # x /\ IsAdding(y) => ri[y] # ri[x]

\* How far its fields are written.
StageOK(x) ==
  IsAdding(x) =>
    /\ uses[ri[x]] >= 1
    /\ ~erased /\ ri[x] \notin stolen =>
         /\ ~At(x, "owner") => E(x).pid = Pid[x] /\ E(x).ts >= StartTime
         /\ At(x, "region") => E(x).region = Torn
         /\ rpc[x] \in {"uri", "add"} => E(x).region = RegionOf[x]
         /\ At(x, "uri") => E(x).uri = Torn
         /\ rpc[x] \in {"owner", "region"} /\ uses[ri[x]] <= 1 => E(x).uri = NoUri

\* e has the fields of a registration; its URI, if it is whole, is that of a topic.
Real(e) ==
  /\ \E y \in Procs : Pid[y] = e.pid /\ RegionOf[y] = e.region
  /\ e.ts >= StartTime
  /\ e.uri # Torn => Topic(e.region, e.uri)

First(i) == ~erased /\ i \notin stolen /\ uses[i] <= 1

WholeOK ==
  \A i \in Entries : First(i) /\ entry[i].uri # NoUri => uses[i] = 1 /\ Real(entry[i])

\* What discover has read of an entry is still there, or the string it found half
\* written has become whole.
ReadOK(x) ==
  /\ op[x].do = "since" /\ rpc[x] \in {"get_uri", "get_region", "get_owner"} =>
       read[x].ts >= StartTime
  /\ First(ri[x]) /\ read[x].uri # NoUri =>
       /\ rpc[x] \in {"get_region", "get_owner"} =>
            E(x).uri # NoUri /\ (read[x].uri # Torn => E(x).uri = read[x].uri)
       /\ rpc[x] = "get_owner" => E(x).region = read[x].region

FoundOK(x) ==
  \A f \in found[x] : First(f.at) /\ f.got.uri # NoUri => Real(f.got)

\* Entries discover has to return keep what it looks for, and it has returned
\* those it has passed.
DueOK(x) ==
  \A i \in due[x] :
    /\ op[x].do \in {"discover", "since"}
    /\ rpc[x] \in {"look", "ts", "get_uri", "get_region", "get_owner", "done"}
    /\ entry[i].active /\ entry[i].uri \in op[x].match
    /\ op[x].do = "since" => entry[i].ts > op[x].time
    /\ \A y \in Procs : ri[y] = i => ~IsWriting(y)
    /\ rpc[x] = "done" \/ i < ri[x] => \E f \in found[x] : f.at = i

\* unregister will not look at entry i any more.
Passed(x, i) ==
  /\ op[x].do = "unregister"
  /\ \/ rpc[x] = "done"
     \/ rpc[x] \in {"look", "compare", "free"} /\ i < ri[x]
     \/ rpc[x] \in {"sub", "clamp"} /\ i <= ri[x]

Listed(i) ==
  /\ ~erased /\ i \notin stolen /\ entry[i].active
  /\ \A y \in Procs : ri[y] = i => ~IsWriting(y)

\* An entry that is listed has a publisher that will unregister it, or nobody is
\* left of its process.
ListedOK ==
  \A i \in Entries : \A x \in alive : Listed(i) /\ entry[i].pid = Pid[x] =>
    \E y \in alive : Pid[y] = Pid[x] /\ RegionOf[y] = entry[i].region /\ ~Passed(y, i)

RegInv ==
  /\ RegType
  /\ \A x \in Procs : OpOK(x) /\ StageOK(x) /\ ReadOK(x) /\ FoundOK(x) /\ DueOK(x)
  /\ FileOK
  /\ SoleOK
  /\ WholeOK
  /\ CountAgrees

\* Who is gone does nothing, and register's two halves follow each other.
PartyOK(x) ==
  /\ x \notin alive => tpc[x] = "idle" /\ rpc[x] = "idle"
  /\ tpc[x] \notin {"idle", "registry"} => rpc[x] = "idle"
  /\ tpc[x] = "registry" => op[x].do = "register"

DirInv ==
  /\ TableInv
  /\ RegInv
  /\ ListedOK
  /\ \A x \in Procs : PartyOK(x)
  /\ script \in [Procs -> Seq(Jobs)]
  /\ alive \in SUBSET Procs

(***************************************************************************)
(* Topic tables: what a step leaves alone                                  *)
(***************************************************************************)
HandleOK(x) ==
  /\ \A h \in handles[x] : slot[RegionOf[x]][h.at] = [state |-> "ACTIVE", uri |-> h.uri]
  /\ stream[x] # NoStream =>
       slot[stream[x].region][stream[x].at] = [state |-> "ACTIVE", uri |-> stream[x].uri]

CallsOK(x) == CallOK(x) /\ SeenOK(x) /\ HandleOK(x)

\* x owns a slot in INIT.
Owns(x, r, i) == tpc[x] \in {"write", "activate"} /\ where[x] = r /\ ti[x] = i

\* A step of x leaves the calls of the others alone, and changes no slot that is
\* ACTIVE or that another owns.
TableStepOf(x) ==
  /\ \A y \in Procs \ {x} :
       /\ tpc'[y] = tpc[y] /\ ti'[y] = ti[y] /\ uri'[y] = uri[y] /\ where'[y] = where[y]
       /\ handles'[y] = handles[y] /\ stream'[y] = stream[y] /\ seen'[y] = seen[y]
  /\ \A r \in Regions : \A i \in Slots :
       \/ slot'[r][i] = slot[r][i]
       \/ /\ slot[r][i].state # "ACTIVE"
          /\ \A y \in Procs \ {x} : ~Owns(y, r, i)

LEMMA ActiveStays ==
  ASSUME NEW x \in Procs, TableStepOf(x), NEW r \in Regions, NEW i \in Slots,
         slot[r][i].state = "ACTIVE"
  PROVE  slot'[r][i] = slot[r][i]
BY DEF TableStepOf

LEMMA OthersCalls ==
  ASSUME NEW x \in Procs, NEW y \in Procs \ {x}, TableTypeOK, TableStepOf(x), CallsOK(y)
  PROVE  CallsOK(y)'
<1>1. /\ tpc'[y] = tpc[y] /\ ti'[y] = ti[y] /\ uri'[y] = uri[y] /\ where'[y] = where[y]
      /\ handles'[y] = handles[y] /\ stream'[y] = stream[y] /\ seen'[y] = seen[y]
  BY DEF TableStepOf
<1>2. /\ where[y] \in Regions /\ ti[y] \in Slots /\ seen[y] \subseteq Slots
      /\ RegionOf[y] \in Regions
      /\ handles[y] \subseteq [at : Slots, uri : Uris]
      /\ stream[y] # NoStream => stream[y].region \in Regions /\ stream[y].at \in Slots
  BY TableAssumption DEF TableTypeOK
<1>3. CallOK(y)'
  <2>1. tpc[y] \in {"write", "activate"} => slot'[where[y]][ti[y]] = slot[where[y]][ti[y]]
    BY <1>2 DEF TableStepOf, Owns
  <2>2. tpc[y] \in {"registry", "count"} => slot'[where[y]][ti[y]] = slot[where[y]][ti[y]]
    BY <1>2, ActiveStays DEF CallsOK, CallOK, Table
  <2> QED BY <1>1, <2>1, <2>2 DEF CallsOK, CallOK, Table
<1>4. SeenOK(y)'
  <2>1. tpc[y] \in {"scan", "claim", "write"} =>
          \A i \in seen[y] : slot'[where[y]][i] = slot[where[y]][i]
    BY <1>2, ActiveStays DEF CallsOK, SeenOK, Table
  <2> QED BY <1>1, <2>1 DEF CallsOK, SeenOK, Table
<1>5. HandleOK(y)'
  <2>1. ASSUME NEW h \in handles[y]
        PROVE  slot'[RegionOf[y]][h.at] = [state |-> "ACTIVE", uri |-> h.uri]
    <3>1. h.at \in Slots
      BY <1>2
    <3>2. slot[RegionOf[y]][h.at] = [state |-> "ACTIVE", uri |-> h.uri]
      BY DEF CallsOK, HandleOK
    <3> QED BY <1>2, <3>1, <3>2, ActiveStays
  <2>2. ASSUME stream[y] # NoStream
        PROVE  slot'[stream[y].region][stream[y].at] = [state |-> "ACTIVE", uri |-> stream[y].uri]
    BY <1>2, <2>2, ActiveStays DEF CallsOK, HandleOK
  <2> QED BY <1>1, <2>1, <2>2 DEF HandleOK
<1> QED BY <1>3, <1>4, <1>5 DEF CallsOK

LEMMA OthersOwn ==
  ASSUME NEW x \in Procs, OwnSlot, TableStepOf(x),
         \A r \in Regions : \A i \in Slots :
           Owns(x, r, i)' => Owns(x, r, i) \/ \A y \in Procs \ {x} : ~Owns(y, r, i),
         where' \in [Procs -> Regions], ti' \in [Procs -> Slots]
  PROVE  OwnSlot'
BY DEF OwnSlot, TableStepOf, Owns

\* The topics of a table stay.
LEMMA TopicStays ==
  ASSUME NEW x \in Procs, TableTypeOK, TableStepOf(x), NEW r \in Regions, NEW u, Topic(r, u)
  PROVE  Topic(r, u)'
BY ActiveStays DEF Topic, Slots

LEMMA StreamsFinite ==
  ASSUME NEW r, NEW i
  PROVE  IsFiniteSet(Streams(r, i)) /\ Cardinality(Streams(r, i)) \in Nat
<1>1. Streams(r, i) \subseteq Procs
  BY DEF Streams
<1>2. IsFiniteSet(Streams(r, i))
  BY <1>1, FS_Subset, RegistryAssumption
<1> QED BY <1>2, FS_CardinalityType

(***************************************************************************)
(* Topic tables: the steps                                                 *)
(***************************************************************************)
LEMMA TableParts ==
  TableInv <=> /\ TableTypeOK /\ ActiveOK /\ OwnSlot /\ StreamsCounted
               /\ \A x \in Procs : CallsOK(x)
BY DEF TableInv, CallsOK, HandleResolves, HandleOK

LEMMA TableCompose ==
  ASSUME NEW x \in Procs, TableInv, TableTypeOK', TableStepOf(x), CallsOK(x)', ActiveOK',
         StreamsCounted',
         \A r \in Regions : \A i \in Slots :
           Owns(x, r, i)' => Owns(x, r, i) \/ \A y \in Procs \ {x} : ~Owns(y, r, i)
  PROVE  TableInv'
<1>1. TableTypeOK /\ OwnSlot /\ \A y \in Procs : CallsOK(y)
  BY TableParts
<1>2. \A y \in Procs \ {x} : CallsOK(y)'
  BY <1>1, OthersCalls
<1>3. OwnSlot'
  BY <1>1, OthersOwn DEF TableTypeOK
<1>4. \A y \in Procs : CallsOK(y)'
  BY <1>2
<1> QED BY <1>3, <1>4 DEF TableInv, CallsOK, HandleResolves, HandleOK

\* A step that changes no slot and no stream.
LEMMA TableQuiet ==
  ASSUME NEW x \in Procs, TableInv, TableTypeOK', CallsOK(x)',
         UNCHANGED <<slot, counted, stream>>,
         \A y \in Procs \ {x} :
           /\ tpc'[y] = tpc[y] /\ ti'[y] = ti[y] /\ uri'[y] = uri[y] /\ where'[y] = where[y]
           /\ handles'[y] = handles[y] /\ seen'[y] = seen[y],
         tpc'[x] \notin {"write", "activate"}
  PROVE  TableInv' /\ TableStepOf(x)
<1>1. TableStepOf(x)
  BY DEF TableStepOf
<1>2. ActiveOK'
  BY DEF TableInv, ActiveOK
<1>3. StreamsCounted'
  BY DEF TableInv, StreamsCounted, Streams
<1>4. \A r \in Regions : \A i \in Slots : ~Owns(x, r, i)'
  BY DEF Owns
<1> QED BY <1>1, <1>2, <1>3, <1>4, TableCompose

LEMMA TableTypes ==
  ASSUME NEW x \in Procs, TableInv
  PROVE  /\ where[x] \in Regions /\ ti[x] \in Slots /\ seen[x] \subseteq Slots /\ ti[x] \in Nat
         /\ RegionOf[x] \in Regions /\ uri[x] \in Uris \cup {NoUri}
         /\ handles[x] \subseteq [at : Slots, uri : Uris]
         /\ stream[x] # NoStream =>
              stream[x].region \in Regions /\ stream[x].at \in Slots /\ stream[x].uri \in Uris
         /\ 0 \in Slots
         /\ CallsOK(x)
         /\ slot[where[x]][ti[x]] \in [state : {"FREE", "INIT", "ACTIVE"}, uri : Uris \cup {NoUri}]
         /\ slot[where[x]][ti[x]].state = "ACTIVE" => slot[where[x]][ti[x]].uri \in Uris
<1>1. TableTypeOK /\ ActiveOK /\ CallsOK(x)
  BY TableParts
<1>2. /\ where[x] \in Regions /\ ti[x] \in Slots /\ seen[x] \subseteq Slots
      /\ RegionOf[x] \in Regions /\ uri[x] \in Uris \cup {NoUri}
      /\ handles[x] \subseteq [at : Slots, uri : Uris]
      /\ slot[where[x]][ti[x]] \in [state : {"FREE", "INIT", "ACTIVE"}, uri : Uris \cup {NoUri}]
  BY <1>1, TableAssumption DEF TableTypeOK
<1>3. stream[x] # NoStream =>
        stream[x].region \in Regions /\ stream[x].at \in Slots /\ stream[x].uri \in Uris
  BY <1>1 DEF TableTypeOK
<1>4. 0 \in Slots /\ ti[x] \in Nat
  BY <1>2, TableAssumption DEF Slots
<1> QED BY <1>1, <1>2, <1>3, <1>4 DEF ActiveOK

\* A call begins.
LEMMA BeginOK ==
  ASSUME NEW x \in Procs, TableInv, NEW r \in Regions, NEW u \in Uris \cup {NoUri}, NEW pc0,
         Begin(x, r, u, pc0),
         \/ pc0 = "scan" /\ r = RegionOf[x] /\ u \in Uris
         \/ pc0 = "find" /\ stream[x] = NoStream
  PROVE  TableInv' /\ TableStepOf(x)
<1> USE DEF Begin, Go
<1>1. TableTypeOK'
  BY TableTypes DEF TableInv, TableTypeOK
<1>2. /\ tpc'[x] = pc0 /\ ti'[x] = 0 /\ uri'[x] = u /\ where'[x] = r
      /\ seen'[x] = {i \in Slots : slot[r][i].state = "ACTIVE"}
      /\ handles' = handles /\ stream' = stream /\ slot' = slot
  BY DEF TableInv, TableTypeOK
<1>3. CallOK(x)'
  BY <1>2 DEF CallOK, Table
<1>4. SeenOK(x)'
  BY <1>2 DEF SeenOK, Table, Slots
<1>5. HandleOK(x)'
  BY <1>2, TableTypes DEF CallsOK, HandleOK
<1>6. \A y \in Procs \ {x} :
           /\ tpc'[y] = tpc[y] /\ ti'[y] = ti[y] /\ uri'[y] = uri[y] /\ where'[y] = where[y]
           /\ handles'[y] = handles[y] /\ seen'[y] = seen[y]
  BY DEF TableInv, TableTypeOK
<1> QED BY <1>1, <1>2, <1>3, <1>4, <1>5, <1>6, TableQuiet DEF CallsOK

\* A call ends, with a handle or without.
LEMMA FinishOK ==
  ASSUME NEW x \in Procs, TableInv, Finish(x), UNCHANGED <<slot, counted, stream>>,
         NEW hs \in SUBSET [at : Slots, uri : Uris],
         handles' = [handles EXCEPT ![x] = hs],
         \A h \in hs : slot[RegionOf[x]][h.at] = [state |-> "ACTIVE", uri |-> h.uri]
  PROVE  TableInv' /\ TableStepOf(x)
<1> USE DEF Finish, Go
<1>1. TableTypeOK'
  BY TableTypes DEF TableInv, TableTypeOK
<1>2. tpc'[x] = "idle" /\ handles'[x] = hs
  BY DEF TableInv, TableTypeOK
<1>3. CallsOK(x)'
  BY <1>2, TableTypes DEF CallsOK, CallOK, SeenOK, HandleOK
<1>4. \A y \in Procs \ {x} :
           /\ tpc'[y] = tpc[y] /\ ti'[y] = ti[y] /\ uri'[y] = uri[y] /\ where'[y] = where[y]
           /\ handles'[y] = handles[y] /\ seen'[y] = seen[y]
  BY DEF TableInv, TableTypeOK
<1> QED BY <1>1, <1>2, <1>3, <1>4, TableQuiet

\* A call goes on to another slot.
LEMMA GoOK ==
  ASSUME NEW x \in Procs, TableInv, NEW i \in Slots, NEW pc0 \in {"scan", "claim", "find", "count"},
         Go(x, pc0, i), UNCHANGED <<slot, counted, uri, where, handles, stream, seen>>,
         pc0 \in {"scan", "claim"} => tpc[x] \in {"scan", "claim"},
         pc0 = "scan" => tpc[x] = "scan" /\ \A j \in seen[x] : j < i => Table(x)[j].uri # uri[x],
         pc0 = "claim" => \A j \in seen[x] : Table(x)[j].uri # uri[x],
         pc0 \in {"find", "count"} => tpc[x] = "find",
         pc0 = "count" => Table(x)[i] = [state |-> "ACTIVE", uri |-> uri[x]]
  PROVE  TableInv' /\ TableStepOf(x)
<1> USE DEF Go
<1>1. TableTypeOK'
  BY TableTypes DEF TableInv, TableTypeOK
<1>2. tpc'[x] = pc0 /\ ti'[x] = i
  BY DEF TableInv, TableTypeOK
<1>3. CallOK(x)'
  BY <1>2, TableTypes DEF CallsOK, CallOK, Table
<1>4. SeenOK(x)'
  BY <1>2, TableTypes DEF CallsOK, SeenOK, Table
<1>5. HandleOK(x)'
  BY TableTypes DEF CallsOK, HandleOK
<1>6. \A y \in Procs \ {x} :
           /\ tpc'[y] = tpc[y] /\ ti'[y] = ti[y] /\ uri'[y] = uri[y] /\ where'[y] = where[y]
           /\ handles'[y] = handles[y] /\ seen'[y] = seen[y]
  BY DEF TableInv, TableTypeOK
<1> QED BY <1>1, <1>2, <1>3, <1>4, <1>5, <1>6, TableQuiet DEF CallsOK

\* A slot that is FREE or that x owns changes.
LEMMA SlotOK ==
  ASSUME NEW x \in Procs, TableInv, NEW pc0 \in {"write", "activate", "registry"},
         NEW v \in [state : {"INIT", "ACTIVE"}, uri : Uris \cup {NoUri}],
         slot' = [slot EXCEPT ![where[x]][ti[x]] = v],
         Go(x, pc0, ti[x]),
         UNCHANGED <<counted, uri, where, handles, stream, seen>>,
         \/ /\ pc0 = "write" /\ tpc[x] = "claim"
            /\ Table(x)[ti[x]].state = "FREE" /\ v.state = "INIT"
         \/ pc0 = "activate" /\ tpc[x] = "write" /\ v.state = "INIT" /\ v.uri = uri[x]
         \/ pc0 = "registry" /\ tpc[x] = "activate" /\ v = [state |-> "ACTIVE", uri |-> uri[x]]
  PROVE  TableInv' /\ TableStepOf(x)
<1> USE DEF Go
<1> DEFINE r0 == where[x]
           i0 == ti[x]
<1>1. r0 \in Regions /\ i0 \in Slots /\ CallsOK(x)
  BY TableTypes
<1>2. \A r \in Regions : \A i \in Slots :
        slot'[r][i] = IF r = r0 /\ i = i0 THEN v ELSE slot[r][i]
  BY <1>1 DEF TableInv, TableTypeOK
<1>3. TableTypeOK'
  <2>1. slot' \in [Regions -> [Slots -> [state : {"FREE", "INIT", "ACTIVE"}, uri : Uris \cup {NoUri}]]]
    BY <1>1 DEF TableInv, TableTypeOK
  <2> QED BY <1>1, <2>1 DEF TableInv, TableTypeOK
<1>4. tpc'[x] = pc0 /\ ti'[x] = i0 /\ where'[x] = r0 /\ uri'[x] = uri[x]
  BY DEF TableInv, TableTypeOK
<1>5. \A y \in Procs \ {x} : ~Owns(y, r0, i0)
  <2>1. CASE tpc[x] = "claim"
    BY <2>1, TableTypes DEF Owns, CallsOK, CallOK, Table
  <2>2. CASE tpc[x] \in {"write", "activate"}
    BY <2>2 DEF Owns, TableInv, OwnSlot
  <2> QED BY <2>1, <2>2
<1>6. slot[r0][i0].state # "ACTIVE"
  BY <1>1 DEF CallsOK, CallOK, Table
<1>7. TableStepOf(x)
  BY <1>2, <1>5, <1>6 DEF TableStepOf, TableInv, TableTypeOK
<1>8. ActiveOK'
  <2>1. v.state = "ACTIVE" => v.uri \in Uris
    BY <1>1 DEF CallsOK, CallOK
  <2> QED BY <1>2, <2>1 DEF TableInv, ActiveOK
<1>9. StreamsCounted'
  BY DEF TableInv, StreamsCounted, Streams
<1>10. \A r \in Regions : \A i \in Slots :
           Owns(x, r, i)' => Owns(x, r, i) \/ \A y \in Procs \ {x} : ~Owns(y, r, i)
  BY <1>4, <1>5 DEF Owns
<1>11. CallsOK(x)'
  <2>1. slot'[r0][i0] = v
    BY <1>1, <1>2
  <2>2. CallOK(x)'
    BY <1>1, <1>4, <2>1 DEF CallsOK, CallOK, Table
  <2>3. SeenOK(x)'
    <3>1. tpc[x] \in {"scan", "claim", "write"} =>
            \A i \in seen[x] : slot'[r0][i] = slot[r0][i]
      BY <1>1, <1>2, <1>6, TableTypes DEF CallsOK, SeenOK, Table
    <3> QED BY <1>1, <1>4, <3>1 DEF CallsOK, SeenOK, Table
  <2>4. HandleOK(x)'
    <3>1. ASSUME NEW h \in handles[x]
          PROVE  slot'[RegionOf[x]][h.at] = [state |-> "ACTIVE", uri |-> h.uri]
      <4>1. h.at \in Slots /\ RegionOf[x] \in Regions
        BY TableTypes
      <4>2. slot[RegionOf[x]][h.at] = [state |-> "ACTIVE", uri |-> h.uri]
        BY <1>1 DEF CallsOK, HandleOK
      <4> QED BY <4>1, <4>2, <1>7, ActiveStays
    <3>2. ASSUME stream[x] # NoStream
          PROVE  slot'[stream[x].region][stream[x].at] = [state |-> "ACTIVE", uri |-> stream[x].uri]
      BY <1>1, <1>7, <3>2, TableTypes, ActiveStays DEF CallsOK, HandleOK
    <3> QED BY <3>1, <3>2 DEF HandleOK
  <2> QED BY <2>2, <2>3, <2>4 DEF CallsOK
<1> QED BY <1>3, <1>7, <1>8, <1>9, <1>10, <1>11, TableCompose

LEMMA CountInOK ==
  ASSUME NEW x \in Procs, TableInv, CountIn(x)
  PROVE  TableInv' /\ TableStepOf(x)
<1> USE DEF CountIn, Finish, Go
<1> DEFINE r0 == where[x]
           i0 == ti[x]
           s == [at |-> i0, region |-> r0, uri |-> uri[x]]
<1>1. r0 \in Regions /\ i0 \in Slots /\ CallsOK(x) /\ 0 \in Slots /\ stream[x] = NoStream
  BY TableTypes DEF CallsOK, CallOK
<1>2. slot[r0][i0] = [state |-> "ACTIVE", uri |-> uri[x]] /\ uri[x] \in Uris
  BY <1>1, TableTypes DEF CallsOK, CallOK, Table
<1>3. \A r \in Regions : \A i \in Slots :
        /\ counted[r][i] \in Nat
        /\ counted'[r][i] = IF r = r0 /\ i = i0 THEN counted[r][i] + 1 ELSE counted[r][i]
  BY <1>1 DEF TableInv, TableTypeOK
<1>4. TableTypeOK'
  <2>1. counted' \in [Regions -> [Slots -> Nat]]
    BY <1>1 DEF TableInv, TableTypeOK
  <2>2. stream' \in [Procs -> [at : Slots, region : Regions, uri : Uris] \cup {NoStream}]
    BY <1>1, <1>2 DEF TableInv, TableTypeOK
  <2> QED BY <1>1, <2>1, <2>2 DEF TableInv, TableTypeOK
<1>5. TableStepOf(x)
  BY DEF TableStepOf, TableInv, TableTypeOK
<1>6. tpc'[x] = "idle" /\ stream'[x] = s /\ handles'[x] = handles[x]
  BY DEF TableInv, TableTypeOK
<1>7. CallsOK(x)'
  BY <1>1, <1>2, <1>6 DEF CallsOK, CallOK, SeenOK, HandleOK
<1>8. ActiveOK'
  BY DEF TableInv, ActiveOK
<1>9. \A r \in Regions : \A i \in Slots : ~Owns(x, r, i)'
  BY <1>6 DEF Owns
<1>10. StreamsCounted'
  <2> SUFFICES ASSUME NEW r \in Regions, NEW i \in Slots
               PROVE  counted'[r][i] >= Cardinality(Streams(r, i)')
    BY DEF StreamsCounted
  <2>1. \A y \in Procs \ {x} : stream'[y] = stream[y]
    BY DEF TableInv, TableTypeOK
  <2>2. IsFiniteSet(Streams(r, i)) /\ Cardinality(Streams(r, i)) \in Nat
    BY StreamsFinite
  <2>3. counted[r][i] >= Cardinality(Streams(r, i)) /\ counted[r][i] \in Nat
    BY <1>3 DEF TableInv, StreamsCounted
  <2>4. CASE r = r0 /\ i = i0
    <3>1. Streams(r, i)' = Streams(r, i) \cup {x}
      <4>1. s # NoStream /\ s.region = r /\ s.at = i
        BY <1>2, <2>4, PartiesAssumption DEF NoStream
      <4> HIDE DEF s
      <4> QED BY <1>6, <2>1, <4>1 DEF Streams
    <3>2. x \notin Streams(r, i)
      BY <1>1 DEF Streams
    <3>3. Cardinality(Streams(r, i)') = Cardinality(Streams(r, i)) + 1
      BY <2>2, <3>1, <3>2, FS_AddElement
    <3> QED BY <1>3, <2>2, <2>3, <2>4, <3>3
  <2>5. CASE ~(r = r0 /\ i = i0)
    <3>1. Streams(r, i)' = Streams(r, i)
      BY <1>1, <1>6, <2>1, <2>5 DEF Streams
    <3> QED BY <1>3, <2>3, <2>5, <3>1
  <2> QED BY <2>4, <2>5
<1> QED BY <1>4, <1>5, <1>7, <1>8, <1>9, <1>10, TableCompose

LEMMA DropStreamOK ==
  ASSUME NEW x \in Procs, TableInv, DropStream(x)
  PROVE  TableInv' /\ TableStepOf(x)
<1> USE DEF DropStream
<1> DEFINE r0 == stream[x].region
           i0 == stream[x].at
<1>1. r0 \in Regions /\ i0 \in Slots /\ CallsOK(x)
  BY TableTypes
<1>2. \A r \in Regions : \A i \in Slots :
        /\ counted[r][i] \in Nat
        /\ counted'[r][i] = IF r = r0 /\ i = i0 THEN counted[r][i] - 1 ELSE counted[r][i]
  BY <1>1 DEF TableInv, TableTypeOK
<1>3. stream'[x] = NoStream /\ \A y \in Procs \ {x} : stream'[y] = stream[y]
  BY DEF TableInv, TableTypeOK
<1>4. ASSUME NEW r \in Regions, NEW i \in Slots
      PROVE  counted'[r][i] >= Cardinality(Streams(r, i)') /\ counted'[r][i] \in Nat
  <2>2. IsFiniteSet(Streams(r, i)) /\ Cardinality(Streams(r, i)) \in Nat
    BY StreamsFinite
  <2>3. counted[r][i] >= Cardinality(Streams(r, i)) /\ counted[r][i] \in Nat
    BY <1>2 DEF TableInv, StreamsCounted
  <2>4. CASE r = r0 /\ i = i0
    <3>1. Streams(r, i)' = Streams(r, i) \ {x} /\ x \in Streams(r, i)
      BY <1>3, <2>4 DEF Streams
    <3>2. /\ Cardinality(Streams(r, i)') = Cardinality(Streams(r, i)) - 1
          /\ Cardinality(Streams(r, i)') \in Nat
      BY <2>2, <3>1, FS_RemoveElement, FS_CardinalityType
    <3> QED BY <1>2, <2>2, <2>3, <2>4, <3>2
  <2>5. CASE ~(r = r0 /\ i = i0)
    <3>1. Streams(r, i)' = Streams(r, i)
      BY <1>3, <2>5 DEF Streams
    <3>2. counted'[r][i] = counted[r][i]
      BY <1>2, <2>5
    <3> HIDE DEF DropStream
    <3> QED BY <2>3, <3>1, <3>2
  <2> QED BY <2>4, <2>5
<1>5. TableTypeOK'
  <2>1. counted' \in [Regions -> [Slots -> Int]]
    BY <1>1 DEF TableInv, TableTypeOK
  <2>2. counted' \in [Regions -> [Slots -> Nat]]
    BY <1>4, <2>1
  <2> QED BY <2>2 DEF TableInv, TableTypeOK
<1>6. TableStepOf(x)
  BY <1>3 DEF TableStepOf
<1>7. CallsOK(x)'
  BY <1>1, <1>3 DEF CallsOK, CallOK, SeenOK, HandleOK, Table
<1>8. ActiveOK'
  BY DEF TableInv, ActiveOK
<1>9. \A r \in Regions : \A i \in Slots : ~Owns(x, r, i)'
  BY DEF Owns
<1>10. StreamsCounted'
  BY <1>4 DEF StreamsCounted
<1> QED BY <1>5, <1>6, <1>7, <1>8, <1>9, <1>10, TableCompose

LEMMA HoldsIs ==
  ASSUME NEW s \in [state : {"FREE", "INIT", "ACTIVE"}, uri : Uris \cup {NoUri}], NEW u
  PROVE  Holds(s, u) <=> s = [state |-> "ACTIVE", uri |-> u]
BY DEF Holds

LEMMA TableStepOK ==
  ASSUME NEW x \in Procs, TableInv, TableStep(x)
  PROVE  TableInv' /\ TableStepOf(x)
<1>0. /\ where[x] \in Regions /\ ti[x] \in Slots /\ CallsOK(x) /\ 0 \in Slots /\ ti[x] \in Nat
      /\ slot[where[x]][ti[x]] \in [state : {"FREE", "INIT", "ACTIVE"}, uri : Uris \cup {NoUri}]
      /\ handles[x] \subseteq [at : Slots, uri : Uris]
      /\ \A h \in handles[x] : slot[RegionOf[x]][h.at] = [state |-> "ACTIVE", uri |-> h.uri]
      /\ seen[x] \subseteq Slots /\ uri[x] \in Uris \cup {NoUri}
  BY TableTypes DEF CallsOK, HandleOK
<1>h. handles = [handles EXCEPT ![x] = handles[x]]
  BY DEF TableInv, TableTypeOK
<1>1. CASE ScanMatch(x)
  <2> DEFINE hs == handles[x] \cup {Handle(x)}
  <2>1. slot[RegionOf[x]][ti[x]] = [state |-> "ACTIVE", uri |-> uri[x]] /\ uri[x] \in Uris
    BY <1>0, <1>1, HoldsIs DEF ScanMatch, CallsOK, CallOK, Table
  <2>2. hs \in SUBSET [at : Slots, uri : Uris]
    BY <1>0, <2>1 DEF Handle
  <2>3. \A h \in hs : slot[RegionOf[x]][h.at] = [state |-> "ACTIVE", uri |-> h.uri]
    <3>1. Handle(x).at = ti[x] /\ Handle(x).uri = uri[x]
      BY DEF Handle
    <3>2. slot[RegionOf[x]][Handle(x).at] = [state |-> "ACTIVE", uri |-> Handle(x).uri]
      BY <2>1, <3>1
    <3> QED BY <1>0, <3>2
  <2>4. handles' = [handles EXCEPT ![x] = hs] /\ Finish(x) /\ UNCHANGED <<slot, counted, stream>>
    BY <1>1 DEF ScanMatch
  <2> HIDE DEF hs
  <2> QED BY <2>2, <2>3, <2>4, FinishOK
<1>2. CASE ScanNext(x)
  <2>1. \A j \in seen[x] : j <= ti[x] => Table(x)[j].uri # uri[x]
    <3> SUFFICES ASSUME NEW j \in seen[x], j <= ti[x] PROVE Table(x)[j].uri # uri[x]
      OBVIOUS
    <3>1. CASE j = ti[x]
      BY <1>0, <1>2, <3>1, HoldsIs DEF ScanNext, CallsOK, SeenOK, Table
    <3>2. CASE j < ti[x]
      BY <1>0, <1>2, <3>2 DEF ScanNext, CallsOK, SeenOK
    <3> QED BY <1>0, <3>1, <3>2 DEF Slots
  <2>2. CASE ti[x] + 1 \in Slots
    <3>1. \A j \in seen[x] : j < ti[x] + 1 => Table(x)[j].uri # uri[x]
      BY <1>0, <2>1 DEF Slots
    <3> QED BY <1>2, <2>2, <3>1, GoOK DEF ScanNext
  <2>3. CASE ti[x] + 1 \notin Slots
    <3>1. \A j \in seen[x] : Table(x)[j].uri # uri[x]
      BY <1>0, <2>1, <2>3, TableAssumption DEF Slots
    <3> QED BY <1>0, <1>2, <2>3, <3>1, GoOK DEF ScanNext
  <2> QED BY <2>2, <2>3
<1>3. CASE ClaimSlot(x)
  <2> DEFINE w == [slot[where[x]][ti[x]] EXCEPT !.state = "INIT"]
  <2>1. /\ w \in [state : {"INIT", "ACTIVE"}, uri : Uris \cup {NoUri}] /\ w.state = "INIT"
        /\ slot' = [slot EXCEPT ![where[x]][ti[x]] = w]
    BY <1>0, <1>3 DEF ClaimSlot, TableInv, TableTypeOK
  <2> HIDE DEF w
  <2> QED BY <1>3, <2>1, SlotOK DEF ClaimSlot
<1>4. CASE ClaimNext(x)
  BY <1>0, <1>4, GoOK DEF ClaimNext, CallsOK, SeenOK
<1>5. CASE MaxTopicsReached(x)
  BY <1>0, <1>5, <1>h, FinishOK DEF MaxTopicsReached
<1>6. CASE WriteTopic(x)
  <2> DEFINE w == [slot[where[x]][ti[x]] EXCEPT !.uri = uri[x]]
  <2>1. /\ w \in [state : {"INIT", "ACTIVE"}, uri : Uris \cup {NoUri}] /\ w.state = "INIT"
        /\ w.uri = uri[x]
        /\ slot' = [slot EXCEPT ![where[x]][ti[x]] = w]
    BY <1>0, <1>6 DEF WriteTopic, TableInv, TableTypeOK, CallsOK, CallOK, Table
  <2> HIDE DEF w
  <2> QED BY <1>6, <2>1, SlotOK DEF WriteTopic
<1>7. CASE FindMatch(x)
  BY <1>0, <1>7, GoOK, HoldsIs DEF FindMatch, Table
<1>8. CASE FindNext(x)
  BY <1>0, <1>8, GoOK DEF FindNext
<1>9. CASE TopicNotFound(x)
  BY <1>0, <1>9, <1>h, FinishOK DEF TopicNotFound
<1>10. CASE CountIn(x)
  BY <1>10, CountInOK
<1> QED BY <1>1, <1>2, <1>3, <1>4, <1>5, <1>6, <1>7, <1>8, <1>9, <1>10 DEF TableStep

LEMMA ActivateOK ==
  ASSUME NEW x \in Procs, TableInv, Activate(x)
  PROVE  TableInv' /\ TableStepOf(x) /\ Topic(RegionOf[x], uri[x])' /\ uri[x] \in Uris
<1>0. /\ where[x] \in Regions /\ ti[x] \in Slots /\ CallsOK(x) /\ RegionOf[x] = where[x]
      /\ slot[where[x]][ti[x]] \in [state : {"FREE", "INIT", "ACTIVE"}, uri : Uris \cup {NoUri}]
      /\ slot[where[x]][ti[x]].uri = uri[x] /\ uri[x] \in Uris
  BY TableTypes DEF CallsOK, CallOK, Table, Activate
<1> DEFINE w == [state |-> "ACTIVE", uri |-> uri[x]]
<1>1. w \in [state : {"INIT", "ACTIVE"}, uri : Uris \cup {NoUri}]
  BY <1>0
<1>2. slot' = [slot EXCEPT ![where[x]][ti[x]] = w] /\ slot'[where[x]][ti[x]] = w
  <2> DEFINE w0 == [slot[where[x]][ti[x]] EXCEPT !.state = "ACTIVE"]
  <2>1. w0 = w
    BY <1>0
  <2>2. slot' = [slot EXCEPT ![where[x]][ti[x]] = w0]
    BY DEF Activate
  <2> HIDE DEF w, w0
  <2>3. slot \in [Regions -> [Slots -> [state : {"FREE", "INIT", "ACTIVE"}, uri : Uris \cup {NoUri}]]]
    BY DEF TableInv, TableTypeOK
  <2> QED BY <1>0, <2>1, <2>2, <2>3
<1>3. TableInv' /\ TableStepOf(x)
  <2>1. w = [state |-> "ACTIVE", uri |-> uri[x]]
    OBVIOUS
  <2> HIDE DEF w
  <2> QED BY <1>1, <1>2, <2>1, SlotOK DEF Activate
<1>4. Topic(RegionOf[x], uri[x])'
  BY <1>0, <1>2 DEF Topic, Slots, Activate
<1> QED BY <1>0, <1>3, <1>4

LEMMA RegisterReturnOK ==
  ASSUME NEW x \in Procs, TableInv, RegisterReturn(x)
  PROVE  TableInv' /\ TableStepOf(x)
<1> DEFINE hs == handles[x] \cup {Handle(x)}
<1>1. slot[RegionOf[x]][ti[x]] = [state |-> "ACTIVE", uri |-> uri[x]] /\ uri[x] \in Uris
  BY TableTypes DEF RegisterReturn, CallsOK, CallOK, Table
<1>2. hs \in SUBSET [at : Slots, uri : Uris]
  BY <1>1, TableTypes DEF Handle
<1>3. \A h \in hs : slot[RegionOf[x]][h.at] = [state |-> "ACTIVE", uri |-> h.uri]
  <2>1. Handle(x).at = ti[x] /\ Handle(x).uri = uri[x]
    BY DEF Handle
  <2>2. slot[RegionOf[x]][Handle(x).at] = [state |-> "ACTIVE", uri |-> Handle(x).uri]
    BY <1>1, <2>1
  <2>3. \A h \in handles[x] : slot[RegionOf[x]][h.at] = [state |-> "ACTIVE", uri |-> h.uri]
    BY TableTypes DEF CallsOK, HandleOK
  <2> QED BY <2>2, <2>3
<1>4. handles' = [handles EXCEPT ![x] = hs] /\ Finish(x) /\ UNCHANGED <<slot, counted, stream>>
  BY DEF RegisterReturn
<1> HIDE DEF hs
<1> QED BY <1>2, <1>3, <1>4, FinishOK

\* A process dies.
LEMMA TableGoneOK ==
  ASSUME TableInv, NEW xs \in SUBSET Procs,
         tpc' = [y \in Procs |-> IF y \in xs THEN "idle" ELSE tpc[y]],
         ti' = [y \in Procs |-> IF y \in xs THEN 0 ELSE ti[y]],
         uri' = [y \in Procs |-> IF y \in xs THEN NoUri ELSE uri[y]],
         handles' = [y \in Procs |-> IF y \in xs THEN {} ELSE handles[y]],
         stream' = [y \in Procs |-> IF y \in xs THEN NoStream ELSE stream[y]],
         seen' = [y \in Procs |-> IF y \in xs THEN {} ELSE seen[y]],
         UNCHANGED <<slot, counted, where>>
  PROVE  TableInv'
<1>0. TableTypeOK /\ ActiveOK /\ OwnSlot /\ StreamsCounted /\ \A x \in Procs : CallsOK(x)
  BY TableParts
<1>1. TableTypeOK'
  <2>1. 0 \in Slots
    BY TableAssumption DEF Slots
  <2> QED BY <1>0, <2>1 DEF TableTypeOK
<1>2. ActiveOK'
  BY <1>0 DEF ActiveOK
<1>3. OwnSlot'
  BY <1>0 DEF OwnSlot
<1>4. StreamsCounted'
  <2> SUFFICES ASSUME NEW r \in Regions, NEW i \in Slots
               PROVE  counted[r][i] >= Cardinality(Streams(r, i)')
    BY DEF StreamsCounted
  <2>1. Streams(r, i)' \subseteq Streams(r, i)
    BY DEF Streams
  <2>2. Cardinality(Streams(r, i)') <= Cardinality(Streams(r, i)) /\ Cardinality(Streams(r, i)') \in Nat
    BY <2>1, StreamsFinite, FS_Subset, FS_CardinalityType
  <2>3. counted[r][i] >= Cardinality(Streams(r, i)) /\ counted[r][i] \in Nat
    BY <1>0 DEF StreamsCounted, TableTypeOK
  <2> QED BY <2>2, <2>3, StreamsFinite
<1>5. \A x \in Procs : CallsOK(x)'
  <2> SUFFICES ASSUME NEW x \in Procs PROVE CallsOK(x)'
    OBVIOUS
  <2>1. CASE x \in xs
    BY <2>1 DEF CallsOK, CallOK, SeenOK, HandleOK
  <2>2. CASE x \notin xs
    BY <1>0, <2>2 DEF CallsOK, CallOK, SeenOK, HandleOK, Table
  <2> QED BY <2>1, <2>2
<1> QED BY <1>1, <1>2, <1>3, <1>4, <1>5 DEF TableInv, CallsOK, HandleResolves, HandleOK

\* A publisher's handles go with it.
LEMMA HandlesGoneOK ==
  ASSUME NEW x \in Procs, TableInv, tpc[x] = "idle", handles' = [handles EXCEPT ![x] = {}],
         UNCHANGED <<slot, counted, tpc, ti, uri, where, stream, seen>>
  PROVE  TableInv' /\ TableStepOf(x)
<1>1. TableTypeOK'
  BY DEF TableInv, TableTypeOK
<1>2. handles'[x] = {} /\ \A y \in Procs \ {x} : handles'[y] = handles[y]
  BY DEF TableInv, TableTypeOK
<1>3. CallsOK(x)'
  BY <1>2, TableTypes DEF CallsOK, CallOK, SeenOK, HandleOK, Table
<1> QED BY <1>1, <1>2, <1>3, TableQuiet

LEMMA TableInitOK ==
  ASSUME NEW first \in [Regions -> Uris \cup {NoUri}], TableInit(first)
  PROVE  TableInv
<1>0. 0 \in Slots
  BY TableAssumption DEF Slots
<1>1. \A r \in Regions : \A i \in Slots :
        slot[r][i] = IF i = 0 /\ first[r] # NoUri THEN [state |-> "ACTIVE", uri |-> first[r]] ELSE FreeSlot
  BY DEF TableInit
<1>2. TableTypeOK
  <2>1. slot \in [Regions -> [Slots -> [state : {"FREE", "INIT", "ACTIVE"}, uri : Uris \cup {NoUri}]]]
    BY DEF TableInit, FreeSlot
  <2>2. handles \in [Procs -> SUBSET [at : Slots, uri : Uris]]
    BY <1>0 DEF TableInit
  <2> QED BY <1>0, <2>1, <2>2, TableAssumption DEF TableInit, TableTypeOK
<1>3. ActiveOK
  <2> SUFFICES ASSUME NEW r \in Regions, NEW i \in Slots, slot[r][i].state = "ACTIVE"
               PROVE  slot[r][i].uri \in Uris
    BY DEF ActiveOK
  <2>1. FreeSlot.state # "ACTIVE"
    BY DEF FreeSlot
  <2>2. first[r] # NoUri /\ slot[r][i] = [state |-> "ACTIVE", uri |-> first[r]]
    BY <1>1, <2>1
  <2> QED BY <2>2
<1>4. OwnSlot
  BY DEF TableInit, OwnSlot
<1>5. StreamsCounted
  <2> SUFFICES ASSUME NEW r \in Regions, NEW i \in Slots
               PROVE  counted[r][i] >= Cardinality(Streams(r, i))
    BY DEF StreamsCounted
  <2>1. Streams(r, i) = {}
    BY DEF Streams, TableInit
  <2>2. counted[r][i] = 0
    BY DEF TableInit
  <2> QED BY <2>1, <2>2, FS_EmptySet
<1>6. ASSUME NEW x \in Procs PROVE CallsOK(x)
  <2>1. CallOK(x) /\ SeenOK(x)
    BY DEF TableInit, CallOK, SeenOK
  <2>2. \A h \in handles[x] : h.at = 0 /\ h.uri = first[RegionOf[x]] /\ h.uri \in Uris
    BY DEF TableInit
  <2>3. RegionOf[x] \in Regions
    BY TableAssumption
  <2>4. \A h \in handles[x] : slot[RegionOf[x]][h.at] = [state |-> "ACTIVE", uri |-> h.uri]
    <3> SUFFICES ASSUME NEW h \in handles[x]
                 PROVE  slot[RegionOf[x]][h.at] = [state |-> "ACTIVE", uri |-> h.uri]
      OBVIOUS
    <3>1. h.at = 0 /\ h.uri = first[RegionOf[x]] /\ h.uri # NoUri
      BY <2>2, PartiesAssumption
    <3> QED BY <1>0, <1>1, <2>3, <3>1
  <2>5. stream[x] = NoStream
    BY DEF TableInit
  <2> QED BY <2>1, <2>4, <2>5 DEF CallsOK, HandleOK
<1> QED BY <1>2, <1>3, <1>4, <1>5, <1>6, TableParts

(***************************************************************************)
(* Registry: what a step leaves alone                                      *)
(***************************************************************************)
RegLocal(x) == OpOK(x) /\ StageOK(x) /\ ReadOK(x) /\ FoundOK(x) /\ DueOK(x)

RegStepOf(x) ==
  \A y \in Procs \ {x} :
    /\ rpc'[y] = rpc[y] /\ ri'[y] = ri[y] /\ op'[y] = op[y]
    /\ read'[y] = read[y] /\ found'[y] = found[y] /\ due'[y] \subseteq due[y]

TopicsKept == \A r \in Regions : \A u \in Uris \cup {NoUri} \cup Garbled : Topic(r, u) => Topic(r, u)'

LEMMA RegTypes ==
  ASSUME NEW x \in Procs, RegType
  PROVE  /\ rpc[x] \in RegPC /\ ri[x] \in Entries /\ ri[x] \in Nat /\ op[x] \in Ops
         /\ read[x] \in Fields /\ entry[ri[x]] \in Fields /\ due[x] \subseteq Entries
         /\ found[x] \subseteq [at : Entries, got : Fields]
         /\ 0 \in Entries /\ clock \in Nat /\ RegionOf[x] \in Regions
         /\ clock \in StartTime .. MaxTime
<1>1. 0 \in Entries
  BY RegistryAssumption DEF Entries
<1>2. RegionOf[x] \in Regions
  BY TableAssumption
<1>3. ri[x] \in Entries
  BY DEF RegType, RegTypeOK
<1>4. ri[x] \in Nat
  BY <1>3 DEF Entries
<1>5. clock \in StartTime .. MaxTime /\ clock \in Nat
  BY RegistryAssumption DEF RegType, RegTypeOK
<1> QED BY <1>1, <1>2, <1>3, <1>4, <1>5 DEF RegType, RegTypeOK

LEMMA RealStays ==
  ASSUME NEW e \in Fields, TopicsKept, Real(e)
  PROVE  Real(e)'
BY TableAssumption DEF Real, TopicsKept, Fields

LEMMA RegParts ==
  RegInv <=> /\ RegType /\ FileOK /\ SoleOK /\ WholeOK /\ CountAgrees
             /\ \A x \in Procs : RegLocal(x)
BY DEF RegInv, RegLocal

\* Steps that change no entry.
LEMMA OthersQuiet ==
  ASSUME NEW x \in Procs, NEW y \in Procs \ {x}, RegType, RegStepOf(x), TopicsKept,
         UNCHANGED <<entry, uses, stolen, erased, clock>>,
         IsWriting(x)' => IsWriting(x) /\ ri'[x] = ri[x],
         RegLocal(y)
  PROVE  RegLocal(y)'
<1>1. /\ rpc'[y] = rpc[y] /\ ri'[y] = ri[y] /\ op'[y] = op[y]
      /\ read'[y] = read[y] /\ found'[y] = found[y] /\ due'[y] \subseteq due[y]
  BY DEF RegStepOf
<1>2. OpOK(y)'
  BY <1>1, RegTypes DEF RegLocal, OpOK, TopicsKept, Ops
<1>3. StageOK(y)'
  BY <1>1 DEF RegLocal, StageOK, IsAdding, IsWriting, At, E
<1>4. ReadOK(y)'
  BY <1>1 DEF RegLocal, ReadOK, First, E
<1>5. FoundOK(y)'
  <2> SUFFICES ASSUME NEW f \in found[y], First(f.at), f.got.uri # NoUri
               PROVE  Real(f.got)'
    BY <1>1 DEF FoundOK, First
  <2>1. f.got \in Fields
    BY RegTypes
  <2> QED BY <2>1, RealStays DEF RegLocal, FoundOK
<1>6. DueOK(y)'
  <2> SUFFICES ASSUME NEW i \in due'[y]
               PROVE  \A z \in Procs : ri'[z] = i => ~IsWriting(z)'
    BY <1>1 DEF RegLocal, DueOK
  <2>1. i \in due[y]
    BY <1>1
  <2>2. \A z \in Procs : ri[z] = i => ~IsWriting(z)
    BY <2>1 DEF RegLocal, DueOK
  <2> QED BY <2>2 DEF RegStepOf, IsWriting
<1> QED BY <1>2, <1>3, <1>4, <1>5, <1>6 DEF RegLocal

LEMMA WholeStays ==
  ASSUME WholeOK, RegType, TopicsKept, UNCHANGED <<entry, uses, stolen, erased>>
  PROVE  WholeOK'
<1> SUFFICES ASSUME NEW i \in Entries, First(i), entry[i].uri # NoUri
             PROVE  uses[i] = 1 /\ Real(entry[i])'
  BY DEF WholeOK, First
<1>1. entry[i] \in Fields
  BY DEF RegType, RegTypeOK
<1>2. uses[i] = 1 /\ Real(entry[i])
  BY DEF WholeOK
<1> QED BY <1>1, <1>2, RealStays

LEMMA RegQuiet ==
  ASSUME NEW x \in Procs, RegInv, RegType', RegStepOf(x), TopicsKept,
         UNCHANGED <<entry, uses, stolen, erased, clock>>,
         IsWriting(x)' => IsWriting(x), IsAdding(x)' => IsAdding(x) /\ ri'[x] = ri[x],
         RegLocal(x)', FileOK', CountAgrees'
  PROVE  RegInv'
<1>0. RegType /\ SoleOK /\ WholeOK /\ \A y \in Procs : RegLocal(y)
  BY RegParts
<1>1. \A y \in Procs \ {x} : RegLocal(y)'
  BY <1>0, OthersQuiet DEF IsAdding
<1>2. SoleOK'
  <2>1. \A y \in Procs : IsAdding(y)' => IsAdding(y) /\ ri'[y] = ri[y]
    BY DEF RegStepOf, IsAdding, IsWriting, At
  <2> QED BY <1>0, <2>1 DEF SoleOK
<1>3. WholeOK'
  BY <1>0, WholeStays
<1> QED BY <1>1, <1>2, <1>3 DEF RegInv, RegLocal

\* Steps of a process that neither adds nor subtracts.
LEMMA CountStays ==
  ASSUME NEW x \in Procs, CountAgrees, RegStepOf(x),
         UNCHANGED <<entry, count>>, skewed => skewed', erased => erased',
         rpc[x] \notin Writing \cup {"add", "sub"}, rpc'[x] \notin Writing \cup {"add", "sub"}
  PROVE  CountAgrees'
<1>1. Adding' = Adding /\ Subtracting' = Subtracting
  BY DEF RegStepOf, Adding, Subtracting, IsAdding, IsSubtracting, IsWriting, At
<1>2. Active' = Active
  BY DEF Active
<1> QED BY <1>1, <1>2 DEF CountAgrees

LEMMA ReadStep ==
  ASSUME NEW x \in Procs, RegInv, RegType', RegStepOf(x), TopicsKept, RegLocal(x)',
         UNCHANGED <<file, entry, count, uses, stolen, skewed, erased, clock>>,
         rpc[x] \notin Writing \cup {"add", "sub"}, rpc'[x] \notin Writing \cup {"add", "sub", "clamp"},
         rpc[x] \in Opening \cup {"idle"} /\ file # "ready" => rpc'[x] \in Opening \cup {"idle"}
  PROVE  RegInv'
<1>0. FileOK /\ CountAgrees
  BY RegParts
<1>1. CountAgrees'
  BY <1>0, CountStays
<1>2. FileOK'
  BY <1>0 DEF FileOK, RegStepOf
<1>3. ~IsWriting(x)' /\ ~IsAdding(x)'
  BY DEF IsWriting, IsAdding, At
<1> QED BY <1>1, <1>2, <1>3, RegQuiet

(***************************************************************************)
(* Registry: the loop over the entries                                     *)
(***************************************************************************)
LoopPC == {"look", "compare", "ts", "free", "sub", "clamp", "get_uri", "get_region", "get_owner"}

LEMMA NextLookIs ==
  ASSUME NEW x \in Procs, RegType, NextLook(x)
  PROVE  /\ rpc' \in [Procs -> RegPC] /\ ri' \in [Procs -> Entries]
         /\ \A y \in Procs \ {x} : rpc'[y] = rpc[y] /\ ri'[y] = ri[y]
         /\ \/ rpc'[x] = "look" /\ ri'[x] = ri[x] + 1
            \/ /\ rpc'[x] = IF op[x].do = "register" THEN "claim" ELSE "done"
               /\ ri'[x] = 0 /\ \A i \in Entries : i <= ri[x]
<1>1. rpc \in [Procs -> RegPC] /\ ri \in [Procs -> Entries]
  BY DEF RegType, RegTypeOK
<1>2. 0 \in Entries /\ ri[x] \in Entries
  BY RegTypes
<1>3. CASE ri[x] + 1 \in Entries
  <2>1. rpc' = [rpc EXCEPT ![x] = "look"] /\ ri' = [ri EXCEPT ![x] = @ + 1]
    BY <1>3 DEF NextLook, NextEntry, To
  <2> QED BY <1>1, <1>3, <2>1 DEF RegPC
<1>4. CASE ri[x] + 1 \notin Entries
  <2> DEFINE p0 == IF op[x].do = "register" THEN "claim" ELSE "done"
  <2>1. rpc' = [rpc EXCEPT ![x] = p0] /\ ri' = [ri EXCEPT ![x] = 0]
    BY <1>4 DEF NextLook, NextEntry, To
  <2>2. \A i \in Entries : i <= ri[x]
    BY <1>2, <1>4, RegistryAssumption DEF Entries
  <2>3. p0 \in RegPC
    BY DEF RegPC
  <2> QED BY <1>1, <1>2, <2>1, <2>2, <2>3
<1> QED BY <1>3, <1>4

LEMMA LookOn ==
  ASSUME NEW x \in Procs, RegInv, NextLook(x), rpc[x] \in LoopPC, TopicsKept,
         UNCHANGED <<entry, clock, op, due>>,
         \A y \in Procs \ {x} : found'[y] = found[y] /\ read'[y] = read[y],
         found[x] \subseteq found'[x],
         \A i \in due[x] : i = ri[x] => \E f \in found'[x] : f.at = i
  PROVE  /\ rpc' \in [Procs -> RegPC] /\ ri' \in [Procs -> Entries]
         /\ RegStepOf(x) /\ rpc'[x] \in {"look", "claim", "done"}
         /\ OpOK(x)' /\ StageOK(x)' /\ ReadOK(x)' /\ DueOK(x)'
<1>0. RegType /\ RegLocal(x) /\ ri[x] \in Nat /\ due[x] \subseteq Entries /\ op[x] \in Ops
      /\ RegionOf[x] \in Regions
  BY RegParts, RegTypes
<1>1. /\ rpc' \in [Procs -> RegPC] /\ ri' \in [Procs -> Entries]
      /\ \A y \in Procs \ {x} : rpc'[y] = rpc[y] /\ ri'[y] = ri[y]
      /\ \/ rpc'[x] = "look" /\ ri'[x] = ri[x] + 1
         \/ /\ rpc'[x] = IF op[x].do = "register" THEN "claim" ELSE "done"
            /\ ri'[x] = 0 /\ \A i \in Entries : i <= ri[x]
  BY <1>0, NextLookIs
<1>2. rpc'[x] \in {"look", "claim", "done"}
  BY <1>1
<1>3. RegStepOf(x)
  BY <1>1 DEF RegStepOf
<1>4. OpOK(x)'
  <2>1. op[x].do # "none"
    BY <1>0 DEF RegLocal, OpOK, LoopPC
  <2>2. op[x].do = "register" => op[x].time \in StartTime .. clock
    BY <1>0 DEF RegLocal, OpOK, LoopPC, Opening
  <2>3. op[x].do = "register" => Topic(RegionOf[x], op[x].uri)'
    BY <1>0 DEF RegLocal, OpOK, TopicsKept
  <2> QED BY <1>0, <1>1, <2>1, <2>2, <2>3 DEF RegLocal, OpOK, Opening, Writing
<1>5. StageOK(x)'
  BY <1>2 DEF StageOK, IsAdding, IsWriting, Writing, At
<1>6. ReadOK(x)'
  BY <1>2 DEF ReadOK
<1>7. DueOK(x)'
  <2> SUFFICES ASSUME NEW i \in due[x]
               PROVE  /\ rpc'[x] \in {"look", "done"}
                      /\ \A y \in Procs : ri'[y] = i => ~IsWriting(y)'
                      /\ rpc'[x] = "done" \/ i < ri'[x] => \E f \in found'[x] : f.at = i
    BY <1>0 DEF RegLocal, DueOK
  <2>1. /\ op[x].do \in {"discover", "since"}
        /\ \A y \in Procs : ri[y] = i => ~IsWriting(y)
        /\ i < ri[x] => \E f \in found[x] : f.at = i
    BY <1>0 DEF RegLocal, DueOK
  <2>2. rpc'[x] \in {"look", "done"}
    BY <1>1, <2>1
  <2>3. \A y \in Procs : ri'[y] = i => ~IsWriting(y)'
    BY <1>1, <2>1, <2>2 DEF IsWriting, Writing
  <2>4. i <= ri[x] => \E f \in found'[x] : f.at = i
    <3>1. i \in Nat
      BY <1>0 DEF Entries
    <3> QED BY <1>0, <2>1, <3>1
  <2>5. rpc'[x] = "done" \/ i < ri'[x] => i <= ri[x]
    <3>1. i \in Nat /\ i \in Entries
      BY <1>0 DEF Entries
    <3> QED BY <1>0, <1>1, <3>1
  <2> QED BY <2>2, <2>3, <2>4, <2>5
<1> QED BY <1>1, <1>2, <1>3, <1>4, <1>5, <1>6, <1>7

\* The loop goes on, and nothing has been read of this entry.
LEMMA LookOnStep ==
  ASSUME NEW x \in Procs, RegInv, NextLook(x), rpc[x] \in LoopPC \ {"sub"}, TopicsKept,
         UNCHANGED <<file, entry, count, clock, op, found, due, uses, stolen, skewed, erased>>,
         read' \in [Procs -> Fields], \A y \in Procs \ {x} : read'[y] = read[y],
         ri[x] \notin due[x]
  PROVE  RegInv'
<1>0. RegType /\ RegLocal(x)
  BY RegParts
<1>1. /\ rpc' \in [Procs -> RegPC] /\ ri' \in [Procs -> Entries]
      /\ RegStepOf(x) /\ rpc'[x] \in {"look", "claim", "done"}
      /\ OpOK(x)' /\ StageOK(x)' /\ ReadOK(x)' /\ DueOK(x)'
  BY LookOn
<1>2. RegType'
  BY <1>0, <1>1 DEF RegType, RegTypeOK
<1>3. FoundOK(x)'
  <2> SUFFICES ASSUME NEW f \in found[x], First(f.at), f.got.uri # NoUri
               PROVE  Real(f.got)'
    BY DEF FoundOK, First
  <2>1. f.got \in Fields
    BY <1>0, RegTypes
  <2> QED BY <1>0, <2>1, RealStays DEF RegLocal, FoundOK
<1>4. RegLocal(x)'
  BY <1>1, <1>3 DEF RegLocal
<1> QED BY <1>1, <1>2, <1>4, ReadStep DEF LoopPC, Writing, Opening

LEMMA FoundStays ==
  ASSUME NEW x \in Procs, RegType, FoundOK(x), TopicsKept, found'[x] \subseteq found[x],
         \A i \in Entries : First(i)' => First(i)
  PROVE  FoundOK(x)'
<1> SUFFICES ASSUME NEW f \in found'[x], First(f.at)', f.got.uri # NoUri
             PROVE  Real(f.got)'
  BY DEF FoundOK
<1>1. f \in found[x] /\ f.got \in Fields /\ f.at \in Entries
  BY RegTypes
<1> QED BY <1>1, RealStays DEF FoundOK

\* A process goes on at the same entry.
LEMMA MoveStep ==
  ASSUME NEW x \in Procs, RegInv, TopicsKept, NEW p0 \in RegPC \ (Writing \cup {"add", "sub", "clamp", "idle", "done"}),
         rpc' = [rpc EXCEPT ![x] = p0],
         UNCHANGED <<file, entry, count, clock, ri, op, found, regHistory>>,
         read' \in [Procs -> Fields], \A y \in Procs \ {x} : read'[y] = read[y],
         rpc[x] \notin Writing \cup {"add", "sub", "idle", "done"},
         rpc[x] \in Opening \cup {"start"} <=> p0 \in Opening \cup {"start"},
         rpc[x] \in Opening /\ file # "ready" => p0 \in Opening,
         p0 \in {"touch", "claim"} => op[x].do = "register",
         p0 = "compare" => op[x].do \in {"register", "unregister"},
         p0 = "ts" => op[x].do \in {"prune", "since"},
         p0 = "free" => op[x].do \in {"prune", "unregister"},
         p0 \in {"get_uri", "get_region", "get_owner"} => op[x].do \in {"discover", "since"},
         op[x].do \in {"discover", "since"} /\ rpc[x] \in LoopPC =>
           p0 \in {"look", "ts", "get_uri", "get_region", "get_owner"},
         ReadOK(x)'
  PROVE  RegInv'
<1>0. RegType /\ RegLocal(x) /\ op[x] \in Ops /\ RegionOf[x] \in Regions /\ rpc \in [Procs -> RegPC]
  BY RegParts, RegTypes DEF RegType, RegTypeOK
<1>1. rpc'[x] = p0 /\ \A y \in Procs \ {x} : rpc'[y] = rpc[y]
  BY <1>0
<1>2. RegStepOf(x)
  BY <1>1 DEF RegStepOf, regHistory
<1>3. RegType'
  BY <1>0 DEF RegType, RegTypeOK, regHistory
<1>4. OpOK(x)'
  <2>1. op[x].do = "register" => Topic(RegionOf[x], op[x].uri)'
    BY <1>0 DEF RegLocal, OpOK, TopicsKept
  <2>2. op[x].do # "none"
    BY <1>0 DEF RegLocal, OpOK
  <2>3. op[x].do = "register" /\ p0 \notin Opening \cup {"start", "done"} =>
          op[x].time \in StartTime .. clock
    BY <1>0 DEF RegLocal, OpOK
  <2>4. p0 \in {"idle", "start", "done"} \cup Opening => ri[x] = 0
    BY <1>0 DEF RegLocal, OpOK
  <2> QED BY <1>0, <1>1, <2>1, <2>2, <2>3, <2>4 DEF RegLocal, OpOK
<1>5. StageOK(x)'
  BY <1>1 DEF StageOK, IsAdding, IsWriting, At
<1>6. FoundOK(x)'
  BY <1>0, FoundStays DEF RegLocal, First, regHistory
<1>7. DueOK(x)'
  <2> SUFFICES ASSUME NEW i \in due[x]
               PROVE  /\ p0 \in {"look", "ts", "get_uri", "get_region", "get_owner"}
                      /\ \A y \in Procs : ri[y] = i => ~IsWriting(y)'
    BY <1>0, <1>1 DEF RegLocal, DueOK, regHistory
  <2>1. /\ op[x].do \in {"discover", "since"}
        /\ rpc[x] \in LoopPC
        /\ \A y \in Procs : ri[y] = i => ~IsWriting(y)
    BY <1>0 DEF RegLocal, DueOK, LoopPC
  <2> QED BY <1>1, <2>1 DEF IsWriting
<1> QED BY <1>1, <1>2, <1>3, <1>4, <1>5, <1>6, <1>7, ReadStep DEF RegLocal, regHistory, Opening

LEMMA OpeningOK ==
  ASSUME NEW x \in Procs, RegInv, TopicsKept, OpenExisting(x) \/ CheckMagic(x)
  PROVE  RegInv'
<1>0. RegType
  BY RegParts
<1> DEFINE p0 == IF OpenExisting(x) THEN IF file \in {"absent", "empty"} THEN "truncate" ELSE "magic"
                 ELSE IF file = "ready" THEN "start" ELSE "truncate"
<1>1. /\ p0 \in {"truncate", "magic", "start"} /\ (p0 = "start" => file = "ready")
      /\ rpc' = [rpc EXCEPT ![x] = p0] /\ rpc[x] \in {"open", "magic"}
      /\ UNCHANGED <<file, entry, count, clock, ri, op, read, found, regHistory>>
  BY DEF OpenExisting, CheckMagic, To, At
<1> HIDE DEF p0
<1>2. rpc'[x] = p0 /\ read' \in [Procs -> Fields]
  BY <1>0, <1>1 DEF RegType, RegTypeOK
<1>3. ReadOK(x)'
  BY <1>1, <1>2 DEF ReadOK
<1> QED BY <1>1, <1>2, <1>3, MoveStep DEF RegPC, Writing, Opening, LoopPC

LEMMA LookOK ==
  ASSUME NEW x \in Procs, RegInv, TopicsKept, LookFree(x) \/ LookActive(x)
  PROVE  RegInv'
<1>0. RegType /\ RegLocal(x) /\ op[x] \in Ops
  BY RegParts, RegTypes
<1>1. CASE LookFree(x)
  <2>1. ri[x] \notin due[x]
    BY <1>0, <1>1 DEF LookFree, E, RegLocal, DueOK
  <2>2. read \in [Procs -> Fields]
    BY <1>0 DEF RegType, RegTypeOK
  <2> QED BY <1>1, <2>1, <2>2, LookOnStep DEF LookFree, At, LoopPC, regHistory
<1>2. CASE LookActive(x)
  <2> DEFINE p0 == CASE op[x].do \in {"register", "unregister"} -> "compare"
                     [] op[x].do \in {"prune", "since"} -> "ts"
                     [] OTHER -> "get_uri"
  <2>0. op[x].do \in {"register", "unregister", "prune", "discover", "since"}
    BY <1>0, <1>2 DEF LookActive, At, RegLocal, OpOK, Ops
  <2>1. /\ op[x].do \in {"register", "unregister"} => p0 = "compare"
        /\ op[x].do \in {"prune", "since"} => p0 = "ts"
        /\ op[x].do = "discover" => p0 = "get_uri"
    OBVIOUS
  <2>2. rpc' = [rpc EXCEPT ![x] = p0]
    BY <1>2 DEF LookActive, To
  <2> HIDE DEF p0
  <2>3. rpc'[x] = p0 /\ read' \in [Procs -> Fields]
    BY <1>0, <1>2, <2>2 DEF RegType, RegTypeOK, LookActive
  <2>4. ReadOK(x)'
    BY <1>2, <2>0, <2>1, <2>3 DEF ReadOK, LookActive
  <2> QED BY <1>2, <2>0, <2>1, <2>2, <2>3, <2>4, MoveStep DEF LookActive, At, RegPC, Writing, Opening, LoopPC
<1> QED BY <1>1, <1>2

LEMMA CompareOK ==
  ASSUME NEW x \in Procs, RegInv, TopicsKept, Compare(x)
  PROVE  RegInv'
<1>0. RegType /\ RegLocal(x) /\ op[x].do \in {"register", "unregister"}
  BY RegParts DEF RegLocal, OpOK, Compare, At
<1>1. due[x] = {} /\ read \in [Procs -> Fields]
  BY <1>0 DEF RegLocal, DueOK, RegType, RegTypeOK
<1>2. CASE To(x, IF op[x].do = "register" THEN "touch" ELSE "free") /\ UNCHANGED ri
  <2> DEFINE p0 == IF op[x].do = "register" THEN "touch" ELSE "free"
  <2>1. rpc' = [rpc EXCEPT ![x] = p0] /\ UNCHANGED ri
    BY <1>2 DEF To
  <2>2. rpc'[x] = p0
    BY <1>0, <2>1 DEF RegType, RegTypeOK
  <2>3. ReadOK(x)'
    BY <2>2 DEF ReadOK
  <2> QED BY <1>0, <1>1, <2>1, <2>3, MoveStep DEF Compare, At, RegPC, Writing, Opening, LoopPC
<1>3. CASE NextLook(x)
  BY <1>1, <1>3, LookOnStep DEF Compare, At, LoopPC, regHistory
<1> QED BY <1>2, <1>3 DEF Compare

LEMMA FreeLostOK ==
  ASSUME NEW x \in Procs, RegInv, TopicsKept, FreeLost(x)
  PROVE  RegInv'
<1>0. RegType /\ RegLocal(x)
  BY RegParts
<1>1. due[x] = {} /\ read \in [Procs -> Fields]
  BY <1>0 DEF RegLocal, DueOK, OpOK, RegType, RegTypeOK, FreeLost, At
<1> QED BY <1>1, LookOnStep DEF FreeLost, At, LoopPC, regHistory

LEMMA ReadTsOK ==
  ASSUME NEW x \in Procs, RegInv, TopicsKept, ReadTs(x)
  PROVE  RegInv'
<1>0. /\ RegType /\ RegLocal(x) /\ op[x].do \in {"prune", "since"} /\ op[x].time \in Nat
      /\ E(x) \in Fields /\ read[x] \in Fields /\ read \in [Procs -> Fields] /\ ri[x] \in Entries
  BY RegParts, RegTypes DEF RegLocal, OpOK, ReadTs, At, E, Ops, RegType, RegTypeOK
<1> DEFINE t0 == IF op[x].do = "since" THEN E(x).ts ELSE read[x].ts
           q == [read[x] EXCEPT !.ts = t0]
<1>1. t0 \in 0 .. MaxTime
  BY <1>0 DEF Fields
<1>2. q \in Fields /\ q.ts = t0
  BY <1>0, <1>1 DEF Fields
<1>3. read' = [read EXCEPT ![x] = q]
  BY DEF ReadTs
<1> HIDE DEF q
<1>4. read' \in [Procs -> Fields] /\ read'[x] = q /\ \A y \in Procs \ {x} : read'[y] = read[y]
  BY <1>0, <1>2, <1>3
<1>5. CASE op[x].do = "prune" /\ E(x).ts < op[x].time
  <2>1. rpc' = [rpc EXCEPT ![x] = "free"] /\ UNCHANGED ri
    BY <1>5 DEF ReadTs, To
  <2>2. rpc'[x] = "free"
    BY <1>0, <2>1 DEF RegType, RegTypeOK
  <2>3. ReadOK(x)'
    BY <2>2 DEF ReadOK
  <2> QED BY <1>4, <1>5, <2>1, <2>3, MoveStep DEF ReadTs, At, RegPC, Writing, Opening, LoopPC
<1>6. CASE op[x].do = "since" /\ E(x).ts > op[x].time
  <2>1. rpc' = [rpc EXCEPT ![x] = "get_uri"] /\ UNCHANGED ri
    BY <1>6 DEF ReadTs, To
  <2>2. rpc'[x] = "get_uri"
    BY <1>0, <2>1 DEF RegType, RegTypeOK
  <2>3. E(x).ts >= StartTime
    <3>1. E(x).ts = 0 \/ E(x).ts >= StartTime
      BY <1>0 DEF RegType, E
    <3>2. E(x).ts # 0
      BY <1>0, <1>6 DEF Fields
    <3> QED BY <3>1, <3>2
  <2>4. q.ts >= StartTime
    BY <1>2, <1>6, <2>3
  <2>5. ReadOK(x)'
    BY <1>4, <2>2, <2>4 DEF ReadOK
  <2> QED BY <1>4, <1>6, <2>1, <2>5, MoveStep DEF ReadTs, At, RegPC, Writing, Opening, LoopPC
<1>7. CASE \/ op[x].do = "prune" /\ ~(E(x).ts < op[x].time)
           \/ op[x].do = "since" /\ ~(E(x).ts > op[x].time)
  <2>1. NextLook(x)
    BY <1>7 DEF ReadTs
  <2>2. ri[x] \notin due[x]
    BY <1>0, <1>7 DEF RegLocal, DueOK, E
  <2> QED BY <1>4, <2>1, <2>2, LookOnStep DEF ReadTs, At, LoopPC, regHistory
<1> QED BY <1>0, <1>5, <1>6, <1>7

LEMMA GetUriOK ==
  ASSUME NEW x \in Procs, RegInv, TopicsKept, GetUri(x)
  PROVE  RegInv'
<1>0. /\ RegType /\ RegLocal(x) /\ op[x].do \in {"discover", "since"}
      /\ E(x) \in Fields /\ read[x] \in Fields /\ read \in [Procs -> Fields] /\ ri[x] \in Entries
  BY RegParts, RegTypes DEF RegLocal, OpOK, GetUri, At, E, RegType, RegTypeOK
<1>1. PICK u : u = ReadStr(E(x).uri)
  OBVIOUS
<1>t. /\ u \in Uris \cup {NoUri} \cup Garbled /\ (u # Torn => u = E(x).uri)
      /\ u # NoUri => E(x).uri # NoUri
  BY <1>0, <1>1, RegistryAssumption DEF ReadStr, Garbled, Fields
<1> DEFINE q == [read[x] EXCEPT !.uri = u]
<1>2. q \in Fields /\ q.uri = u /\ q.ts = read[x].ts
  BY <1>0, <1>t DEF Fields
<1>3. read' = [read EXCEPT ![x] = q]
  BY <1>1 DEF GetUri
<1> HIDE DEF q
<1>4. read' \in [Procs -> Fields] /\ read'[x] = q /\ \A y \in Procs \ {x} : read'[y] = read[y]
  BY <1>0, <1>2, <1>3
<1>5. CASE To(x, "get_region") /\ UNCHANGED ri
  <2>1. rpc' = [rpc EXCEPT ![x] = "get_region"] /\ UNCHANGED ri
    BY <1>5 DEF To
  <2>2. rpc'[x] = "get_region"
    BY <1>0, <2>1 DEF RegType, RegTypeOK
  <2>3. op[x].do = "since" => read[x].ts >= StartTime
    BY <1>0 DEF RegLocal, ReadOK, GetUri, At
  <2>4. UNCHANGED <<entry, op, ri>>
    BY <2>1 DEF GetUri
  <2>5. ReadOK(x)'
    BY <1>2, <1>4, <1>t, <2>2, <2>3, <2>4 DEF ReadOK, E
  <2> QED BY <1>0, <1>4, <2>1, <2>5, MoveStep DEF GetUri, At, RegPC, Writing, Opening, LoopPC
<1>6. CASE u \notin op[x].match /\ NextLook(x)
  <2>1. ri[x] \notin due[x]
    <3>1. op[x].match \subseteq Uris \cup {NoUri}
      BY <1>0, RegTypes DEF Ops
    <3>2. E(x).uri \notin op[x].match
      BY <1>1, <1>6, <3>1, RegistryAssumption DEF ReadStr, Garbled
    <3> QED BY <1>0, <3>2 DEF RegLocal, DueOK, E
  <2> QED BY <1>4, <1>6, <2>1, LookOnStep DEF GetUri, At, LoopPC, regHistory
<1> QED BY <1>1, <1>5, <1>6 DEF GetUri

LEMMA GetRegionOK ==
  ASSUME NEW x \in Procs, RegInv, TopicsKept, GetRegion(x)
  PROVE  RegInv'
<1>0. /\ RegType /\ RegLocal(x) /\ op[x].do \in {"discover", "since"}
      /\ E(x) \in Fields /\ read[x] \in Fields /\ read \in [Procs -> Fields] /\ ri[x] \in Entries
  BY RegParts, RegTypes DEF RegLocal, OpOK, GetRegion, At, E, RegType, RegTypeOK
<1>1. PICK r : r = ReadStr(E(x).region)
  OBVIOUS
<1>r. r \in Regions \cup {NoRegion} \cup Garbled
  BY <1>0, <1>1 DEF ReadStr, Garbled, Fields
<1> DEFINE q == [read[x] EXCEPT !.region = r]
<1>2. q \in Fields /\ q.uri = read[x].uri /\ q.ts = read[x].ts /\ q.region = r
  BY <1>0, <1>r DEF Fields
<1>3. read' = [read EXCEPT ![x] = q]
  BY <1>1 DEF GetRegion
<1> HIDE DEF q
<1>4. read' \in [Procs -> Fields] /\ read'[x] = q /\ \A y \in Procs \ {x} : read'[y] = read[y]
  BY <1>0, <1>2, <1>3
<1>5. rpc' = [rpc EXCEPT ![x] = "get_owner"] /\ rpc'[x] = "get_owner"
  BY <1>0 DEF GetRegion, To, RegType, RegTypeOK
<1>6. UNCHANGED <<entry, op, ri, uses, stolen, erased>>
  BY DEF GetRegion, regHistory
\* A URI has been begun: the region is whole.
<1>w. First(ri[x]) /\ read[x].uri # NoUri => r = E(x).region
  <2> SUFFICES ASSUME First(ri[x]), read[x].uri # NoUri PROVE r = E(x).region
    OBVIOUS
  <2>1. E(x).uri # NoUri
    BY <1>0 DEF RegLocal, ReadOK, GetRegion, At
  <2>2. Real(E(x))
    BY <1>0, <2>1, RegParts DEF WholeOK, E
  <2>3. E(x).region \in Regions
    BY <2>2, TableAssumption DEF Real
  <2> QED BY <1>1, <2>3, RegistryAssumption DEF ReadStr, Garbled
<1>7. ReadOK(x)'
  BY <1>0, <1>2, <1>4, <1>5, <1>6, <1>w DEF RegLocal, ReadOK, E, First, GetRegion, At
<1> QED BY <1>0, <1>4, <1>5, <1>7, MoveStep DEF GetRegion, At, RegPC, Writing, Opening, LoopPC

LEMMA GetOwnerOK ==
  ASSUME NEW x \in Procs, RegInv, TopicsKept, GetOwner(x)
  PROVE  RegInv'
<1>0. /\ RegType /\ RegLocal(x) /\ WholeOK /\ op[x].do \in {"discover", "since"}
      /\ E(x) \in Fields /\ read[x] \in Fields /\ read \in [Procs -> Fields] /\ ri[x] \in Entries
      /\ found \in [Procs -> SUBSET [at : Entries, got : Fields]]
  BY RegParts, RegTypes DEF RegLocal, OpOK, GetOwner, At, E, RegType, RegTypeOK
<1> DEFINE yes == TRUE
           t0 == IF op[x].do = "since" THEN read[x].ts ELSE E(x).ts
           q == [read[x] EXCEPT !.active = yes, !.pid = E(x).pid, !.ts = t0]
           f0 == [at |-> ri[x], got |-> q]
<1>1. yes \in BOOLEAN /\ t0 \in 0 .. MaxTime
  BY <1>0 DEF Fields
<1>2. found' = [found EXCEPT ![x] = @ \cup {f0}] /\ read' = [read EXCEPT ![x] = Blank]
  BY DEF GetOwner
<1> HIDE DEF yes, t0
<1>3. q \in Fields /\ q.uri = read[x].uri /\ q.region = read[x].region /\ q.pid = E(x).pid /\ q.ts = t0
  BY <1>0, <1>1 DEF Fields
<1> HIDE DEF q
<1>4. f0 \in [at : Entries, got : Fields] /\ f0.at = ri[x] /\ f0.got = q
  BY <1>0, <1>3
<1>5. First(ri[x]) /\ q.uri # NoUri => Real(q)
  <2> SUFFICES ASSUME First(ri[x]), q.uri # NoUri PROVE Real(q)
    OBVIOUS
  <2>1. E(x).uri # NoUri /\ (q.uri # Torn => E(x).uri = q.uri) /\ E(x).region = q.region
    BY <1>0, <1>3 DEF RegLocal, ReadOK, GetOwner, At
  <2>2. Real(E(x))
    BY <1>0, <2>1 DEF WholeOK, E
  <2>3. t0 >= StartTime
    BY <1>0, <2>2 DEF t0, Real, RegLocal, ReadOK, GetOwner, At
  <2> QED BY <1>3, <2>1, <2>2, <2>3 DEF Real
<1> HIDE DEF f0
<1>6. /\ found' \in [Procs -> SUBSET [at : Entries, got : Fields]]
      /\ found'[x] = found[x] \cup {f0} /\ \A y \in Procs \ {x} : found'[y] = found[y]
  BY <1>0, <1>2, <1>4
<1>7. read' \in [Procs -> Fields] /\ \A y \in Procs \ {x} : read'[y] = read[y]
  <2>1. Blank \in Fields
    BY RegistryAssumption DEF Blank, Fields
  <2> QED BY <1>0, <1>2, <2>1
<1>8. /\ rpc' \in [Procs -> RegPC] /\ ri' \in [Procs -> Entries]
      /\ RegStepOf(x) /\ rpc'[x] \in {"look", "claim", "done"}
      /\ OpOK(x)' /\ StageOK(x)' /\ ReadOK(x)' /\ DueOK(x)'
  <2>1. \A i \in due[x] : i = ri[x] => \E f \in found'[x] : f.at = i
    BY <1>4, <1>6
  <2> QED BY <1>6, <1>7, <2>1, LookOn DEF GetOwner, At, LoopPC, regHistory
<1>9. RegType'
  BY <1>0, <1>6, <1>7, <1>8 DEF RegType, RegTypeOK, GetOwner, regHistory
<1>10. FoundOK(x)'
  <2> SUFFICES ASSUME NEW f \in found'[x], First(f.at), f.got.uri # NoUri
               PROVE  Real(f.got)'
    BY DEF FoundOK, First, GetOwner, regHistory
  <2>1. f.got \in Fields
    BY <1>0, <1>4, <1>6
  <2>2. Real(f.got)
    BY <1>0, <1>4, <1>5, <1>6 DEF RegLocal, FoundOK
  <2> QED BY <2>1, <2>2, RealStays
<1> QED BY <1>8, <1>9, <1>10, ReadStep DEF RegLocal, GetOwner, At, Writing, Opening, regHistory

LEMMA ClaimTakenOK ==
  ASSUME NEW x \in Procs, RegInv, TopicsKept, ClaimTaken(x)
  PROVE  RegInv'
<1>0. /\ RegType /\ RegLocal(x) /\ op[x].do = "register" /\ due[x] = {} /\ RegionOf[x] \in Regions
      /\ rpc \in [Procs -> RegPC] /\ ri \in [Procs -> Entries] /\ 0 \in Entries /\ op[x] \in Ops
  BY RegParts, RegTypes DEF RegLocal, OpOK, DueOK, ClaimTaken, At, RegType, RegTypeOK
<1>t. rpc \in [Procs -> RegPC] /\ ri \in [Procs -> Entries] /\ 0 \in Entries
  BY <1>0
<1>1. /\ rpc' \in [Procs -> RegPC] /\ ri' \in [Procs -> Entries]
      /\ \A y \in Procs \ {x} : rpc'[y] = rpc[y] /\ ri'[y] = ri[y]
      /\ rpc'[x] = "claim" \/ (rpc'[x] = "done" /\ ri'[x] = 0)
  <2>1. CASE ri[x] + 1 \in Entries
    <3>1. rpc' = [rpc EXCEPT ![x] = "claim"] /\ ri' = [ri EXCEPT ![x] = @ + 1]
      BY <2>1 DEF ClaimTaken, NextEntry, To
    <3>2. rpc' \in [Procs -> RegPC] /\ rpc'[x] = "claim"
      BY <1>t, <3>1 DEF RegPC
    <3>3. ri' \in [Procs -> Entries]
      BY <1>t, <2>1, <3>1
    <3>4. \A y \in Procs \ {x} : rpc'[y] = rpc[y] /\ ri'[y] = ri[y]
      BY <1>t, <3>1
    <3> QED BY <3>2, <3>3, <3>4
  <2>2. CASE ri[x] + 1 \notin Entries
    <3>1. rpc' = [rpc EXCEPT ![x] = "done"] /\ ri' = [ri EXCEPT ![x] = 0]
      BY <2>2 DEF ClaimTaken, NextEntry, To
    <3>2. rpc' \in [Procs -> RegPC] /\ ri' \in [Procs -> Entries]
      BY <1>t, <3>1 DEF RegPC
    <3>3. /\ rpc'[x] = "done" /\ ri'[x] = 0
          /\ \A y \in Procs \ {x} : rpc'[y] = rpc[y] /\ ri'[y] = ri[y]
      BY <1>t, <3>1
    <3> QED BY <3>2, <3>3
  <2> QED BY <2>1, <2>2
<1>u. UNCHANGED <<file, entry, count, clock, op, read, found, due, uses, stolen, skewed, erased>>
  BY DEF ClaimTaken, regHistory
<1>2. RegStepOf(x)
  BY <1>1, <1>u DEF RegStepOf
<1>3. RegType'
  BY <1>0, <1>1, <1>u DEF RegType, RegTypeOK
<1>4. OpOK(x)'
  <2>1. Topic(RegionOf[x], op[x].uri)'
    <3>1. op[x].uri \in Uris /\ Topic(RegionOf[x], op[x].uri)
      BY <1>0 DEF RegLocal, OpOK
    <3> QED BY <1>0, <1>u, <3>1 DEF TopicsKept
  <2>2. op[x].time \in StartTime .. clock
    BY <1>0 DEF RegLocal, OpOK, ClaimTaken, At, Opening
  <2> QED BY <1>0, <1>1, <1>u, <2>1, <2>2 DEF RegLocal, OpOK, Opening, Writing
<1>5. StageOK(x)' /\ ReadOK(x)'
  BY <1>1 DEF StageOK, ReadOK, IsAdding, IsWriting, Writing, At
<1>6. DueOK(x)'
  BY <1>0, <1>u DEF DueOK
<1>7. FoundOK(x)'
  BY <1>0, <1>u, FoundStays DEF RegLocal, First
<1> QED BY <1>1, <1>2, <1>3, <1>4, <1>5, <1>6, <1>7, <1>u, ReadStep DEF RegLocal, ClaimTaken, At, Writing, Opening

(***************************************************************************)
(* Registry: opening it, and the ends of the operations                    *)
(***************************************************************************)
LEMMA StartOK ==
  ASSUME NEW x \in Procs, RegInv, TopicsKept, Start(x)
  PROVE  RegInv'
<1>0. /\ RegType /\ RegLocal(x) /\ op \in [Procs -> Ops] /\ op[x] \in Ops /\ RegionOf[x] \in Regions
      /\ rpc \in [Procs -> RegPC] /\ due \in [Procs -> SUBSET Entries] /\ ri[x] = 0
      /\ rpc[x] = "start" /\ op[x].do # "none"
      /\ clock \in Nat /\ clock \in StartTime .. MaxTime
  BY RegParts, RegTypes DEF RegLocal, OpOK, Start, At, RegType, RegTypeOK
<1> DEFINE t0 == CASE op[x].do = "register" -> clock
                   [] op[x].do = "prune" -> IF clock > StaleTimeout THEN clock - StaleTimeout ELSE 0
                   [] OTHER -> op[x].time
           q == [op[x] EXCEPT !.time = t0]
           p0 == IF op[x].do = "register" /\ op[x].uri \in TooLong THEN "done" ELSE "look"
           d0 == IF op[x].do \in {"discover", "since"} THEN Due(op[x]) ELSE {}
<1>1. /\ t0 \in Nat /\ (op[x].do = "register" => t0 = clock) /\ (op[x].do = "since" => t0 = op[x].time)
  BY <1>0, RegistryAssumption DEF Ops
<1>2. /\ op' = [op EXCEPT ![x] = q] /\ rpc' = [rpc EXCEPT ![x] = p0] /\ due' = [due EXCEPT ![x] = d0]
      /\ UNCHANGED <<file, entry, count, clock, ri, read, found, uses, stolen, skewed, erased>>
  BY DEF Start, To
<1> HIDE DEF t0
<1>3. /\ q \in Ops /\ q.do = op[x].do /\ q.region = op[x].region /\ q.uri = op[x].uri
      /\ q.match = op[x].match /\ q.time = t0
  BY <1>0, <1>1 DEF Ops
<1>4. /\ p0 \in {"look", "done"} /\ (p0 = "done" => op[x].do = "register")
      /\ d0 \subseteq Entries /\ (op[x].do = "register" => d0 = {})
  BY DEF Due
<1>5. d0 # {} => op[x].do \in {"discover", "since"}
  OBVIOUS
<1>6. \A i \in d0 : /\ entry[i].active /\ entry[i].uri \in op[x].match
                    /\ op[x].do = "since" => entry[i].ts > op[x].time
                    /\ \A y \in Procs : ri[y] = i => ~IsWriting(y)
  BY DEF Due
<1> HIDE DEF q, p0, d0
<1>7. /\ op'[x] = q /\ rpc'[x] = p0 /\ due'[x] = d0 /\ ri'[x] = 0
      /\ op' \in [Procs -> Ops] /\ rpc' \in [Procs -> RegPC] /\ due' \in [Procs -> SUBSET Entries]
      /\ \A y \in Procs \ {x} : op'[y] = op[y] /\ rpc'[y] = rpc[y] /\ due'[y] = due[y]
  BY <1>0, <1>2, <1>3, <1>4 DEF RegPC
<1>8. RegStepOf(x)
  BY <1>2, <1>7 DEF RegStepOf
<1>9. RegType'
  <2>1. \A y \in Procs : op'[y].do \in {"none", "register", "unregister", "prune", "discover", "since"}
    BY <1>7 DEF Ops
  <2> QED BY <1>0, <1>2, <1>7, <2>1 DEF RegType, RegTypeOK
<1>10. OpOK(x)'
  <2>1. op[x].do = "register" => Topic(RegionOf[x], op[x].uri)'
    <3>1. op'[x].uri = op[x].uri
      BY <1>3, <1>7
    <3>2. op[x].do = "register" => op[x].uri \in Uris /\ Topic(RegionOf[x], op[x].uri)
      BY <1>0 DEF RegLocal, OpOK
    <3> QED BY <1>0, <3>1, <3>2 DEF TopicsKept
  <2>2. op[x].do = "register" => q.time \in StartTime .. clock
    BY <1>0, <1>1, <1>3, RegistryAssumption
  <2> QED BY <1>0, <1>2, <1>3, <1>4, <1>7, <2>1, <2>2 DEF RegLocal, OpOK, Opening, Writing
<1>11. StageOK(x)' /\ ReadOK(x)'
  BY <1>4, <1>7 DEF StageOK, ReadOK, IsAdding, IsWriting, Writing, At
<1>12. FoundOK(x)'
  BY <1>0, <1>2, FoundStays DEF RegLocal, First
<1>13. DueOK(x)'
  <2> SUFFICES ASSUME NEW i \in d0
               PROVE  /\ q.do \in {"discover", "since"}
                      /\ p0 = "look"
                      /\ entry[i].active /\ entry[i].uri \in q.match
                      /\ q.do = "since" => entry[i].ts > q.time
                      /\ \A y \in Procs : ri[y] = i => ~IsWriting(y)'
                      /\ ~(i < 0)
    BY <1>0, <1>2, <1>7 DEF DueOK
  <2>1. q.do \in {"discover", "since"} /\ p0 = "look"
    BY <1>3, <1>4, <1>5
  <2>2. ~(i < 0)
    BY <1>4 DEF Entries
  <2>3. \A y \in Procs : ri[y] = i => ~IsWriting(y)'
    BY <1>6, <1>7, <2>1 DEF IsWriting, Writing
  <2> QED BY <1>1, <1>3, <1>6, <2>1, <2>2, <2>3
<1> QED BY <1>0, <1>2, <1>4, <1>7, <1>8, <1>9, <1>10, <1>11, <1>12, <1>13, ReadStep
    DEF RegLocal, Writing, Opening

\* The file gets its length, then its header.
LEMMA FileStepOK ==
  ASSUME NEW x \in Procs, RegInv, TopicsKept, SetLen(x) \/ WriteHeader(x)
  PROVE  RegInv'
<1>0. /\ RegType /\ RegLocal(x) /\ FileOK /\ CountAgrees /\ rpc \in [Procs -> RegPC] /\ op[x] \in Ops
      /\ RegionOf[x] \in Regions
  BY RegParts, RegTypes DEF RegType, RegTypeOK
<1> DEFINE p0 == IF SetLen(x) THEN "header" ELSE "start"
<1>1. /\ p0 \in {"header", "start"} /\ rpc' = [rpc EXCEPT ![x] = p0] /\ rpc[x] \in {"len", "header"}
      /\ UNCHANGED <<entry, count, clock, ri, op, read, found, regHistory>>
      /\ file' \in {"absent", "empty", "blank", "ready"}
      /\ file' # "ready" => file # "ready" /\ p0 = "header"
  BY <1>0 DEF SetLen, WriteHeader, To, At, RegType, RegTypeOK
<1> HIDE DEF p0
<1>2. rpc'[x] = p0 /\ \A y \in Procs \ {x} : rpc'[y] = rpc[y]
  BY <1>0, <1>1
<1>3. RegStepOf(x)
  BY <1>1, <1>2 DEF RegStepOf, regHistory
<1>4. rpc' \in [Procs -> RegPC]
  BY <1>0, <1>1 DEF RegPC
<1>5. RegType'
  BY <1>0, <1>1, <1>4 DEF RegType, RegTypeOK, regHistory
<1>6. OpOK(x)'
  <2>1. op[x].do = "register" => Topic(RegionOf[x], op[x].uri)'
    BY <1>0, <1>1 DEF RegLocal, OpOK, TopicsKept
  <2> QED BY <1>0, <1>1, <1>2, <2>1 DEF RegLocal, OpOK, Opening, Writing
<1>7. StageOK(x)' /\ ReadOK(x)'
  BY <1>1, <1>2 DEF StageOK, ReadOK, IsAdding, IsWriting, Writing, At
<1>8. FoundOK(x)'
  BY <1>0, <1>1, FoundStays DEF RegLocal, First, regHistory
<1>9. DueOK(x)'
  <2>1. due'[x] = {}
    BY <1>0, <1>1 DEF RegLocal, DueOK, regHistory
  <2> QED BY <2>1 DEF DueOK
<1>10. FileOK'
  BY <1>0, <1>1, <1>2 DEF FileOK, regHistory, Opening
<1>11. CountAgrees'
  BY <1>0, <1>1, <1>2, <1>3, CountStays DEF Writing, regHistory
<1>12. ~IsWriting(x)' /\ ~IsAdding(x)'
  BY <1>1, <1>2 DEF IsWriting, IsAdding, At, Writing
<1> QED BY <1>1, <1>3, <1>5, <1>6, <1>7, <1>8, <1>9, <1>10, <1>11, <1>12, RegQuiet DEF RegLocal, regHistory

\* The arguments an operation may be called with.
OpFits(x, o) ==
  /\ o \in Ops /\ o.do # "none"
  /\ o.do \in {"register", "unregister"} => o.region = RegionOf[x]
  /\ o.do = "register" => o.uri \in Uris

\* An operation begins, follows another, or ends.
LEMMA TurnOK ==
  ASSUME NEW x \in Procs, RegInv, TopicsKept, NEW o \in Ops, NEW p0 \in {"open", "start", "idle"},
         rpc' = [rpc EXCEPT ![x] = p0], op' = [op EXCEPT ![x] = o],
         rpc[x] \in {"idle", "done"}, rpc[x] = "idle" => p0 = "open",
         p0 = "idle" <=> o.do = "none",
         o.do # "none" => OpFits(x, o),
         o.do = "register" => Topic(RegionOf[x], o.uri)',
         found' \in [Procs -> SUBSET [at : Entries, got : Fields]],
         found'[x] \subseteq found[x], \A y \in Procs \ {x} : found'[y] = found[y],
         due' \in [Procs -> SUBSET Entries],
         due'[x] = {}, \A y \in Procs \ {x} : due'[y] = due[y],
         UNCHANGED <<file, entry, count, clock, ri, read, uses, stolen, skewed, erased>>
  PROVE  RegInv' /\ RegStepOf(x)
<1>0. /\ RegType /\ RegLocal(x) /\ rpc \in [Procs -> RegPC] /\ op \in [Procs -> Ops] /\ RegionOf[x] \in Regions
  BY RegParts, RegTypes DEF RegType, RegTypeOK
<1>1. /\ rpc'[x] = p0 /\ op'[x] = o /\ op' \in [Procs -> Ops] /\ rpc' \in [Procs -> RegPC]
      /\ \A y \in Procs \ {x} : rpc'[y] = rpc[y] /\ op'[y] = op[y]
  BY <1>0 DEF RegPC
<1>2. RegStepOf(x)
  BY <1>1 DEF RegStepOf
<1>3. RegType'
  <2>1. \A y \in Procs : op'[y].do \in {"none", "register", "unregister", "prune", "discover", "since"}
    BY <1>1 DEF Ops
  <2>2. \A y \in Procs : \A f \in found'[y] : f.at \in Entries /\ f.got \in Fields
    OBVIOUS
  <2> QED BY <1>0, <1>1, <2>1, <2>2 DEF RegType, RegTypeOK
<1>4. OpOK(x)'
  <2>1. ri[x] = 0
    BY <1>0 DEF RegLocal, OpOK
  <2> QED BY <1>1, <2>1 DEF OpOK, OpFits, Opening, Writing
<1>5. StageOK(x)' /\ ReadOK(x)'
  BY <1>1 DEF StageOK, ReadOK, IsAdding, IsWriting, Writing, At
<1>6. FoundOK(x)'
  BY <1>0, FoundStays DEF RegLocal, First
<1>7. DueOK(x)'
  BY DEF DueOK
<1> QED BY <1>1, <1>2, <1>3, <1>4, <1>5, <1>6, <1>7, ReadStep DEF RegLocal, Writing, Opening

(***************************************************************************)
(* Registry: counting                                                      *)
(***************************************************************************)
LEMMA ModBelow ==
  ASSUME NEW a \in Nat, NEW m \in Nat, a < m
  PROVE  (a % m) = a
OBVIOUS

LEMMA ModRange ==
  ASSUME NEW a \in Nat, NEW m \in Nat, m > 0
  PROVE  (a % m) \in 0 .. m - 1
OBVIOUS

LEMMA ModDown ==
  ASSUME NEW a \in Nat, NEW m \in Nat, a < m, a # 0
  PROVE  ((a + m - 1) % m) = a - 1
<1>1. a + m - 1 = (a - 1) + m /\ a - 1 \in Nat /\ a - 1 < m
  OBVIOUS
<1>2. (((a - 1) + m) % m) = ((a - 1) % m)
  BY <1>1
<1> QED BY <1>1, <1>2, ModBelow

\* Counting one up or down, modulo m: L are listed, D of them are not counted yet.
LEMMA CountUp ==
  ASSUME NEW c \in Nat, NEW L \in Nat, NEW D \in Nat, NEW m \in Nat,
         c < m, L < m, D >= 1, D < m, c + D = L + (IF L < D THEN m ELSE 0)
  PROVE  ((c + 1) % m) + (D - 1) = L + (IF L < D - 1 THEN m ELSE 0)
<1>1. CASE c + 1 = m
  <2>1. (m % m) = 0
    OBVIOUS
  <2>2. L = D - 1
    BY <1>1
  <2> QED BY <1>1, <2>1, <2>2
<1>2. CASE c + 1 < m
  <2>1. ((c + 1) % m) = c + 1
    BY <1>2, ModBelow
  <2>2. L < D <=> L < D - 1
    BY <1>2
  <2> QED BY <2>1, <2>2
<1> QED BY <1>1, <1>2

LEMMA CountDown ==
  ASSUME NEW c \in Nat, NEW L \in Nat, NEW D \in Nat, NEW m \in Nat,
         c < m, L < m, L >= 1, D < m, c + D = L + (IF L < D THEN m ELSE 0)
  PROVE  ((c + m - 1) % m) + D = (L - 1) + (IF L - 1 < D THEN m ELSE 0)
<1>1. CASE c = 0
  <2>1. c + m - 1 = m - 1 /\ m - 1 \in Nat /\ m - 1 < m
    BY <1>1
  <2>2. ((c + m - 1) % m) = m - 1
    BY <2>1, ModBelow
  <2>3. L = D
    BY <1>1
  <2> QED BY <2>2, <2>3
<1>2. CASE c # 0
  <2>1. ((c + m - 1) % m) = c - 1
    BY <1>2, ModDown
  <2>2. L < D <=> L - 1 < D
    BY <1>2
  <2> QED BY <2>1, <2>2
<1> QED BY <1>1, <1>2

LEMMA CountBound ==
  ASSUME RegInv
  PROVE  /\ IsFiniteSet(Active) /\ IsFiniteSet(Adding) /\ IsFiniteSet(Subtracting)
         /\ Cardinality(Active) \in Nat /\ Cardinality(Adding) \in Nat /\ Cardinality(Subtracting) \in Nat
         /\ Cardinality(Active) + Cardinality(Subtracting) < CountMod
         /\ Cardinality(Adding) < CountMod /\ count \in Nat /\ count < CountMod /\ CountMod \in Nat
<1>1. IsFiniteSet(Entries) /\ Cardinality(Entries) = MaxEntries
  <2>1. 0 \in Int /\ MaxEntries - 1 \in Int /\ ~(0 > MaxEntries - 1) /\ MaxEntries - 1 - 0 + 1 = MaxEntries
    BY RegistryAssumption
  <2> QED BY <2>1, FS_Interval DEF Entries
<1>2. IsFiniteSet(Active) /\ Cardinality(Active) <= MaxEntries
  <2>1. Active \in SUBSET Entries
    BY DEF Active
  <2> QED BY <1>1, <2>1, FS_Subset
<1>3. IsFiniteSet(Procs)
  BY RegistryAssumption
<1>4. Adding \in SUBSET Procs /\ Subtracting \in SUBSET Procs
  BY DEF Adding, Subtracting
<1>5. /\ IsFiniteSet(Adding) /\ Cardinality(Adding) <= Cardinality(Procs)
      /\ IsFiniteSet(Subtracting) /\ Cardinality(Subtracting) <= Cardinality(Procs)
  BY <1>3, <1>4, FS_Subset
<1>6. /\ Cardinality(Active) \in Nat /\ Cardinality(Adding) \in Nat
      /\ Cardinality(Subtracting) \in Nat /\ Cardinality(Procs) \in Nat
  BY <1>2, <1>3, <1>5, FS_CardinalityType
<1>7. MaxEntries \in Nat /\ CountMod \in Nat /\ CountMod > MaxEntries + Cardinality(Procs)
  BY RegistryAssumption
<1>8. count \in Nat /\ count < CountMod
  BY <1>7, RegParts DEF RegType, RegTypeOK
<1>9. Cardinality(Active) + Cardinality(Subtracting) < CountMod
  BY <1>2, <1>5, <1>6, <1>7
<1>10. Cardinality(Adding) < CountMod
  BY <1>5, <1>6, <1>7
<1> QED BY <1>2, <1>5, <1>6, <1>7, <1>8, <1>9, <1>10

LEMMA AddOK ==
  ASSUME NEW x \in Procs, RegInv, TopicsKept, Add(x)
  PROVE  RegInv'
<1>0. /\ RegType /\ RegLocal(x) /\ FileOK /\ CountAgrees /\ op[x].do = "register" /\ due[x] = {}
      /\ rpc \in [Procs -> RegPC] /\ ri \in [Procs -> Entries] /\ 0 \in Entries /\ op[x] \in Ops
      /\ RegionOf[x] \in Regions /\ count \in Nat
  BY RegParts, RegTypes DEF RegLocal, OpOK, DueOK, Add, At, RegType, RegTypeOK
<1>1. /\ rpc[x] = "add" /\ rpc' = [rpc EXCEPT ![x] = "done"] /\ ri' = [ri EXCEPT ![x] = 0]
      /\ count' = (count + 1) % CountMod
      /\ UNCHANGED <<file, entry, clock, op, read, found, due, uses, stolen, skewed, erased>>
  BY DEF Add, At, To, regHistory
<1>2. /\ rpc'[x] = "done" /\ ri'[x] = 0 /\ rpc' \in [Procs -> RegPC] /\ ri' \in [Procs -> Entries]
      /\ \A y \in Procs \ {x} : rpc'[y] = rpc[y] /\ ri'[y] = ri[y]
  BY <1>0, <1>1 DEF RegPC
<1>3. RegStepOf(x)
  BY <1>1, <1>2 DEF RegStepOf
<1>4. RegType'
  <2>1. count' \in 0 .. CountMod - 1
    <3>1. count + 1 \in Nat /\ CountMod \in Nat
      BY <1>0, RegistryAssumption
    <3>2. CountMod > 0
      BY CountBound, RegistryAssumption
    <3> QED BY <1>1, <3>1, <3>2, ModRange
  <2> QED BY <1>0, <1>1, <1>2, <2>1 DEF RegType, RegTypeOK
<1>5. OpOK(x)'
  <2>1. Topic(RegionOf[x], op[x].uri)'
    BY <1>0, <1>1 DEF RegLocal, OpOK, TopicsKept
  <2> QED BY <1>0, <1>1, <1>2, <2>1 DEF RegLocal, OpOK, Opening, Writing
<1>6. StageOK(x)' /\ ReadOK(x)'
  BY <1>2 DEF StageOK, ReadOK, IsAdding, IsWriting, Writing, At
<1>7. FoundOK(x)'
  BY <1>0, <1>1, FoundStays DEF RegLocal, First
<1>8. DueOK(x)'
  BY <1>0, <1>1 DEF DueOK
<1>9. FileOK'
  BY <1>0, <1>1 DEF FileOK, Opening
<1>10. CountAgrees'
  <2>1. Active' = Active
    BY <1>1 DEF Active
  <2>2. Subtracting' = Subtracting
    BY <1>1, <1>2 DEF Subtracting, IsSubtracting, At
  <2>3. Adding' = Adding \ {x} /\ x \in Adding
    BY <1>1, <1>2 DEF Adding, IsAdding, IsWriting, Writing, At
  <2> DEFINE L == Cardinality(Active) + Cardinality(Subtracting)
             D == Cardinality(Adding)
  <2>4. Cardinality(Adding') = D - 1
    BY <2>3, CountBound, FS_RemoveElement
  <2>5. D # 0
    BY <2>3, CountBound, FS_EmptySet
  <2>6. /\ L \in Nat /\ L < CountMod /\ D \in Nat /\ D < CountMod /\ CountMod \in Nat
        /\ count \in Nat /\ count < CountMod
    BY CountBound
  <2>7. ~skewed /\ ~erased => count + D = L + (IF L < D THEN CountMod ELSE 0)
    BY <1>0 DEF CountAgrees
  <2>8. Cardinality(Active)' + Cardinality(Subtracting)' = L /\ Cardinality(Adding)' = D - 1
    BY <2>1, <2>2, <2>4
  <2> HIDE DEF L, D
  <2>9. D >= 1
    BY <2>5, <2>6
  <2>10. ~skewed /\ ~erased => count' + (D - 1) = L + (IF L < D - 1 THEN CountMod ELSE 0)
    BY <1>1, <2>6, <2>7, <2>9, CountUp
  <2> QED BY <1>1, <2>8, <2>10 DEF CountAgrees
<1>11. ~IsWriting(x)' /\ ~IsAdding(x)'
  BY <1>2 DEF IsWriting, IsAdding, At, Writing
<1> QED BY <1>1, <1>3, <1>4, <1>5, <1>6, <1>7, <1>8, <1>9, <1>10, <1>11, RegQuiet DEF RegLocal

LEMMA SubOK ==
  ASSUME NEW x \in Procs, RegInv, TopicsKept, Sub(x) \/ Clamp(x)
  PROVE  RegInv'
<1>0. /\ RegType /\ RegLocal(x) /\ FileOK /\ CountAgrees /\ op[x].do \in {"prune", "unregister"} /\ due[x] = {}
      /\ rpc \in [Procs -> RegPC] /\ op[x] \in Ops /\ ri[x] \in Entries
      /\ RegionOf[x] \in Regions /\ count \in Nat /\ count \in 0 .. CountMod - 1
  BY RegParts, RegTypes DEF RegLocal, OpOK, DueOK, Sub, Clamp, At, RegType, RegTypeOK
<1>1. /\ rpc[x] \in {"sub", "clamp"}
      /\ UNCHANGED <<file, entry, clock, op, read, found, due, uses, stolen, erased>>
      /\ skewed' \in BOOLEAN
  BY <1>0 DEF Sub, Clamp, At, regHistory, RegType, RegTypeOK
<1>2. count' \in 0 .. CountMod - 1
  BY <1>0, RegistryAssumption DEF Sub, Clamp
<1>3. /\ rpc' \in [Procs -> RegPC] /\ ri' \in [Procs -> Entries] /\ RegStepOf(x)
      /\ rpc'[x] \in {"look", "claim", "done", "clamp"}
      /\ OpOK(x)' /\ StageOK(x)' /\ ReadOK(x)' /\ DueOK(x)'
  <2>1. CASE NextLook(x)
    BY <1>0, <1>1, <2>1, LookOn DEF LoopPC
  <2>2. CASE To(x, "clamp") /\ UNCHANGED ri
    <3>1. /\ rpc'[x] = "clamp" /\ rpc' \in [Procs -> RegPC]
          /\ \A y \in Procs \ {x} : rpc'[y] = rpc[y]
      BY <1>0, <2>2 DEF To, RegPC
    <3>2. ri' \in [Procs -> Entries] /\ RegStepOf(x)
      BY <1>0, <1>1, <2>2, <3>1 DEF RegStepOf, RegType, RegTypeOK
    <3>3. OpOK(x)'
      BY <1>0, <1>1, <2>2, <3>1 DEF RegLocal, OpOK, Opening, Writing
    <3>4. StageOK(x)' /\ ReadOK(x)'
      BY <3>1 DEF StageOK, ReadOK, IsAdding, IsWriting, Writing, At
    <3>5. DueOK(x)'
      BY <1>0, <1>1 DEF DueOK
    <3> QED BY <3>1, <3>2, <3>3, <3>4, <3>5
  <2> QED BY <2>1, <2>2 DEF Sub, Clamp
<1>4. RegType'
  BY <1>0, <1>1, <1>2, <1>3 DEF RegType, RegTypeOK
<1>5. FoundOK(x)'
  BY <1>0, <1>1, FoundStays DEF RegLocal, First
<1>6. FileOK'
  BY <1>0, <1>1 DEF FileOK, Opening
<1>7. CountAgrees'
  <2>1. CASE Clamp(x)
    <3>1. rpc[x] = "clamp" /\ count' = 0 /\ skewed' = (skewed \/ count # 0) /\ erased' = erased
      BY <2>1 DEF Clamp, At
    <3>2. Active' = Active
      BY <1>1 DEF Active
    <3>3. Adding' = Adding
      BY <1>3, <3>1 DEF RegStepOf, Adding, IsAdding, IsWriting, Writing, At
    <3>4. rpc'[x] # "sub"
      BY <1>3
    <3>5. Subtracting' = Subtracting
      BY <1>3, <3>1, <3>4 DEF RegStepOf, Subtracting, IsSubtracting, At
    <3>6. CASE count = 0 /\ ~skewed /\ ~erased
      BY <1>0, <3>1, <3>2, <3>3, <3>5, <3>6 DEF CountAgrees
    <3>7. CASE ~(count = 0 /\ ~skewed /\ ~erased)
      BY <3>1, <3>7 DEF CountAgrees
    <3> QED BY <3>6, <3>7
  <2>2. CASE Sub(x)
    <3>0. rpc[x] = "sub" /\ count' = (count + CountMod - 1) % CountMod /\ UNCHANGED <<skewed, erased>>
      BY <2>2 DEF Sub, At, regHistory
    <3>1. Active' = Active
      BY <1>1 DEF Active
    <3>2. Adding' = Adding
      BY <1>3, <3>0 DEF RegStepOf, Adding, IsAdding, IsWriting, Writing, At
    <3>3. Subtracting' = Subtracting \ {x} /\ x \in Subtracting
      BY <1>3, <3>0 DEF RegStepOf, Subtracting, IsSubtracting, At
    <3> DEFINE L == Cardinality(Active) + Cardinality(Subtracting)
               D == Cardinality(Adding)
    <3>4. Cardinality(Subtracting') = Cardinality(Subtracting) - 1
      BY <3>3, CountBound, FS_RemoveElement
    <3>5. Cardinality(Subtracting) # 0
      BY <3>3, CountBound, FS_EmptySet
    <3>6. /\ L \in Nat /\ L < CountMod /\ L >= 1 /\ D \in Nat /\ D < CountMod /\ CountMod \in Nat
          /\ count \in Nat /\ count < CountMod
      BY <3>5, CountBound
    <3>7. ~skewed /\ ~erased => count + D = L + (IF L < D THEN CountMod ELSE 0)
      BY <1>0 DEF CountAgrees
    <3>8. Cardinality(Active)' + Cardinality(Subtracting)' = L - 1 /\ Cardinality(Adding)' = D
      BY <3>1, <3>2, <3>4, CountBound
    <3> HIDE DEF L, D
    <3>9. ~skewed /\ ~erased => count' + D = (L - 1) + (IF L - 1 < D THEN CountMod ELSE 0)
      BY <3>0, <3>6, <3>7, CountDown
    <3> QED BY <3>0, <3>8, <3>9 DEF CountAgrees
  <2> QED BY <2>1, <2>2
<1>8. ~IsWriting(x)' /\ ~IsAdding(x)'
  BY <1>3 DEF IsWriting, IsAdding, At, Writing
<1> QED BY <1>1, <1>3, <1>4, <1>5, <1>6, <1>7, <1>8, RegQuiet DEF RegLocal

(***************************************************************************)
(* Registry: steps that change an entry                                    *)
(***************************************************************************)

\* x changes entry i0 to e0, in a way that the others do not notice.
Unnoticed(x, y, i0, e0) ==
  /\ IsAdding(y) /\ ri[y] = i0 /\ ~erased /\ i0 \notin stolen' =>
       /\ e0.pid = entry[i0].pid /\ e0.region = entry[i0].region /\ e0.uri = entry[i0].uri
       /\ e0.ts >= StartTime
  /\ First(i0)' /\ entry[i0].uri # NoUri =>
       /\ e0.uri # NoUri /\ (entry[i0].uri # Torn => e0.uri = entry[i0].uri)
       /\ e0.region = entry[i0].region
  /\ i0 \in due'[y] =>
       /\ e0.active /\ e0.uri = entry[i0].uri
       /\ op[y].do = "since" => e0.ts > op[y].time
  /\ IsWriting(x)' => ri'[x] \notin due'[y]

LEMMA OthersLoud ==
  ASSUME NEW x \in Procs, NEW y \in Procs \ {x}, RegType, RegStepOf(x), TopicsKept, RegLocal(y),
         NEW i0 \in Entries, NEW e0 \in Fields, entry' = [entry EXCEPT ![i0] = e0],
         UNCHANGED <<erased, clock>>, stolen \subseteq stolen',
         uses' \in [Entries -> 0 .. 2], \A i \in Entries : uses'[i] >= uses[i],
         Unnoticed(x, y, i0, e0)
  PROVE  RegLocal(y)'
<1>0. /\ ri[y] \in Entries /\ due[y] \subseteq Entries /\ op[y] \in Ops /\ RegionOf[y] \in Regions
      /\ uses \in [Entries -> 0 .. 2] /\ entry \in [Entries -> Fields]
  BY RegTypes DEF RegType, RegTypeOK
<1>1. /\ rpc'[y] = rpc[y] /\ ri'[y] = ri[y] /\ op'[y] = op[y]
      /\ read'[y] = read[y] /\ found'[y] = found[y] /\ due'[y] \subseteq due[y]
  BY DEF RegStepOf
<1>2. \A i \in Entries : entry'[i] = IF i = i0 THEN e0 ELSE entry[i]
  BY <1>0
<1>3. \A i \in Entries : First(i)' => First(i)
  <2> SUFFICES ASSUME NEW i \in Entries, First(i)' PROVE First(i)
    OBVIOUS
  <2>1. uses'[i] <= 1 /\ uses'[i] >= uses[i] /\ uses[i] \in 0 .. 2 /\ uses'[i] \in 0 .. 2
    BY <1>0 DEF First
  <2>2. uses[i] <= 1
    BY <2>1
  <2> QED BY <2>2 DEF First
<1>4. OpOK(y)'
  BY <1>0, <1>1 DEF RegLocal, OpOK, TopicsKept
<1>5. StageOK(y)'
  <2> SUFFICES ASSUME IsAdding(y)
               PROVE  /\ uses'[ri[y]] >= 1
                      /\ ~erased /\ ri[y] \notin stolen' =>
                           /\ ~At(y, "owner") => entry'[ri[y]].pid = Pid[y] /\ entry'[ri[y]].ts >= StartTime
                           /\ At(y, "region") => entry'[ri[y]].region = Torn
                           /\ rpc[y] \in {"uri", "add"} => entry'[ri[y]].region = RegionOf[y]
                           /\ At(y, "uri") => entry'[ri[y]].uri = Torn
                           /\ rpc[y] \in {"owner", "region"} /\ uses'[ri[y]] <= 1 =>
                                entry'[ri[y]].uri = NoUri
    BY <1>1 DEF StageOK, IsAdding, IsWriting, At, E
  <2>1. uses[ri[y]] >= 1 /\ uses'[ri[y]] >= uses[ri[y]] /\ uses[ri[y]] \in 0 .. 2 /\ uses'[ri[y]] \in 0 .. 2
    BY <1>0 DEF RegLocal, StageOK
  <2>2. uses'[ri[y]] >= 1 /\ (uses'[ri[y]] <= 1 => uses[ri[y]] <= 1)
    BY <2>1
  <2>3. ~erased /\ ri[y] \notin stolen =>
          /\ ~At(y, "owner") => entry[ri[y]].pid = Pid[y] /\ entry[ri[y]].ts >= StartTime
          /\ At(y, "region") => entry[ri[y]].region = Torn
          /\ rpc[y] \in {"uri", "add"} => entry[ri[y]].region = RegionOf[y]
          /\ At(y, "uri") => entry[ri[y]].uri = Torn
          /\ rpc[y] \in {"owner", "region"} /\ uses[ri[y]] <= 1 => entry[ri[y]].uri = NoUri
    BY DEF RegLocal, StageOK, E
  <2>4. CASE ri[y] # i0
    BY <1>0, <1>2, <2>2, <2>3, <2>4
  <2>5. CASE ri[y] = i0
    BY <1>0, <1>2, <2>2, <2>3, <2>5 DEF Unnoticed
  <2> QED BY <2>4, <2>5
<1>6. ReadOK(y)'
  <2>1. First(ri[y])' /\ entry[ri[y]].uri # NoUri =>
            /\ entry'[ri[y]].uri # NoUri
            /\ entry[ri[y]].uri # Torn => entry'[ri[y]].uri = entry[ri[y]].uri
            /\ entry'[ri[y]].region = entry[ri[y]].region
    BY <1>0, <1>1, <1>2 DEF Unnoticed, First
  <2>2. First(ri[y])' => First(ri[y])
    BY <1>0, <1>1, <1>3 DEF First
  <2> QED BY <1>1, <2>1, <2>2 DEF RegLocal, ReadOK, E, First
<1>7. FoundOK(y)'
  BY <1>1, <1>3, FoundStays DEF RegLocal
<1>8. DueOK(y)'
  <2> SUFFICES ASSUME NEW i \in due'[y]
               PROVE  /\ entry'[i].active /\ entry'[i].uri \in op[y].match
                      /\ op[y].do = "since" => entry'[i].ts > op[y].time
                      /\ \A z \in Procs : ri'[z] = i => ~IsWriting(z)'
    BY <1>1 DEF RegLocal, DueOK
  <2>1. /\ i \in Entries /\ entry[i].active /\ entry[i].uri \in op[y].match
        /\ op[y].do = "since" => entry[i].ts > op[y].time
        /\ \A z \in Procs : ri[z] = i => ~IsWriting(z)
    BY <1>0, <1>1 DEF RegLocal, DueOK
  <2>2. /\ entry'[i].active /\ entry'[i].uri \in op[y].match
        /\ op[y].do = "since" => entry'[i].ts > op[y].time
    BY <1>2, <2>1 DEF Unnoticed
  <2>3. \A z \in Procs : ri'[z] = i => ~IsWriting(z)'
    BY <2>1 DEF Unnoticed, RegStepOf, IsWriting
  <2> QED BY <2>2, <2>3
<1> QED BY <1>4, <1>5, <1>6, <1>7, <1>8 DEF RegLocal

LEMMA LoudStep ==
  ASSUME NEW x \in Procs, RegInv, RegType', RegStepOf(x), TopicsKept, RegLocal(x)',
         NEW i0 \in Entries, NEW e0 \in Fields, entry' = [entry EXCEPT ![i0] = e0],
         UNCHANGED <<file, erased, clock>>, stolen \subseteq stolen',
         \A i \in Entries : uses'[i] >= uses[i], \A i \in Entries \ {i0} : uses'[i] = uses[i],
         \A y \in Procs \ {x} : Unnoticed(x, y, i0, e0),
         First(i0)' /\ e0.uri # NoUri => uses'[i0] = 1 /\ Real(e0),
         rpc[x] \notin Opening \cup {"idle"}, SoleOK', CountAgrees'
  PROVE  RegInv'
<1>0. RegType /\ FileOK /\ WholeOK /\ \A y \in Procs : RegLocal(y)
  BY RegParts
<1>1. \A y \in Procs \ {x} : RegLocal(y)'
  <2>1. uses' \in [Entries -> 0 .. 2]
    BY DEF RegType, RegTypeOK
  <2> QED BY <1>0, <2>1, OthersLoud
<1>2. FileOK'
  BY <1>0 DEF FileOK
<1>3. WholeOK'
  <2> SUFFICES ASSUME NEW i \in Entries, First(i)', entry'[i].uri # NoUri
               PROVE  uses'[i] = 1 /\ Real(entry[i])'
    BY DEF WholeOK
  <2>1. entry \in [Entries -> Fields]
    BY <1>0 DEF RegType, RegTypeOK
  <2>2. CASE i = i0
    <3>1. entry'[i] = e0
      BY <2>1, <2>2
    <3>2. Real(e0)'
      BY <2>2, <3>1, RealStays
    <3> QED BY <2>2, <3>1, <3>2 DEF Real, Topic
  <2>3. CASE i # i0
    <3>1. entry'[i] = entry[i] /\ uses'[i] = uses[i] /\ entry[i] \in Fields
      BY <2>1, <2>3
    <3>2. First(i)
      BY <3>1 DEF First
    <3>3. uses[i] = 1 /\ Real(entry[i])
      BY <1>0, <3>1, <3>2 DEF WholeOK
    <3>4. PICK e : e = entry[i]
      OBVIOUS
    <3>5. Real(e)'
      BY <3>1, <3>3, <3>4, RealStays
    <3> QED BY <3>1, <3>3, <3>4, <3>5 DEF Real, Topic
  <2> QED BY <2>2, <2>3
<1> QED BY <1>1, <1>2, <1>3 DEF RegInv, RegLocal

LEMMA TouchOK ==
  ASSUME NEW x \in Procs, RegInv, TopicsKept, Touch(x)
  PROVE  RegInv'
<1>0. /\ RegType /\ RegLocal(x) /\ SoleOK /\ CountAgrees /\ WholeOK /\ op[x].do = "register" /\ due[x] = {}
      /\ rpc \in [Procs -> RegPC] /\ ri \in [Procs -> Entries] /\ 0 \in Entries /\ op[x] \in Ops
      /\ RegionOf[x] \in Regions /\ ri[x] \in Entries /\ entry[ri[x]] \in Fields
      /\ entry \in [Entries -> Fields] /\ due \in [Procs -> SUBSET Entries]
      /\ op[x].time \in StartTime .. clock /\ clock \in StartTime .. MaxTime
  BY RegParts, RegTypes DEF RegLocal, OpOK, DueOK, Touch, At, RegType, RegTypeOK, Opening
<1>i. PICK i0 \in Entries : i0 = ri[x]
  BY <1>0
<1>j. PICK t0 : t0 = op[x].time
  OBVIOUS
<1>k. PICK e0 : e0 = [entry[i0] EXCEPT !.ts = t0]
  OBVIOUS
<1>1. t0 \in 0 .. MaxTime /\ t0 >= StartTime
  BY <1>0, <1>j, RegistryAssumption
<1>2. /\ rpc[x] = "touch" /\ rpc' = [rpc EXCEPT ![x] = "done"] /\ ri' = [ri EXCEPT ![x] = 0]
      /\ entry' = [entry EXCEPT ![i0] = e0]
      /\ due' = [y \in Procs |-> IF op[y].do = "since" /\ t0 <= op[y].time
                                 THEN due[y] \ {i0} ELSE due[y]]
      /\ UNCHANGED <<file, count, clock, op, read, found, uses, stolen, skewed, erased>>
  BY <1>i, <1>j, <1>k DEF Touch, At, To
<1>3. /\ e0 \in Fields /\ e0.ts = t0 /\ e0.active = entry[i0].active /\ e0.pid = entry[i0].pid
      /\ e0.region = entry[i0].region /\ e0.uri = entry[i0].uri
  BY <1>0, <1>1, <1>k DEF Fields
<1>4. /\ rpc'[x] = "done" /\ ri'[x] = 0 /\ rpc' \in [Procs -> RegPC] /\ ri' \in [Procs -> Entries]
      /\ \A y \in Procs \ {x} : rpc'[y] = rpc[y] /\ ri'[y] = ri[y]
  BY <1>0, <1>2 DEF RegPC
<1>5. due' \in [Procs -> SUBSET Entries] /\ \A y \in Procs : due'[y] \subseteq due[y]
  BY <1>0, <1>2
<1>6. RegStepOf(x)
  BY <1>2, <1>4, <1>5 DEF RegStepOf
<1>7. \A i \in Entries : entry'[i] = IF i = i0 THEN e0 ELSE entry[i]
  BY <1>0, <1>2
<1>8. RegType'
  <2>1. entry' \in [Entries -> Fields]
    BY <1>0, <1>2, <1>3
  <2>2. \A i \in Entries : entry'[i].ts = 0 \/ entry'[i].ts >= StartTime
    BY <1>0, <1>1, <1>3, <1>7 DEF RegType
  <2> QED BY <1>0, <1>2, <1>4, <1>5, <2>1, <2>2 DEF RegType, RegTypeOK
<1>9. RegLocal(x)'
  <2>1. Topic(RegionOf[x], op[x].uri)'
    BY <1>0, <1>2 DEF RegLocal, OpOK, TopicsKept
  <2>2. OpOK(x)'
    BY <1>0, <1>2, <1>4, <2>1 DEF RegLocal, OpOK, Opening, Writing
  <2>3. StageOK(x)' /\ ReadOK(x)'
    BY <1>4 DEF StageOK, ReadOK, IsAdding, IsWriting, Writing, At
  <2>4. FoundOK(x)'
    BY <1>0, <1>2, FoundStays DEF RegLocal, First
  <2>5. DueOK(x)'
    BY <1>0, <1>5 DEF DueOK
  <2> QED BY <2>2, <2>3, <2>4, <2>5 DEF RegLocal
<1>10. ASSUME NEW y \in Procs \ {x} PROVE Unnoticed(x, y, i0, e0)
  <2>1. ~IsWriting(x)'
    BY <1>4 DEF IsWriting, Writing
  <2>2. RegLocal(y) /\ op[y].time \in Nat
    BY RegParts, RegTypes DEF Ops
  <2>3. i0 \in due'[y] => entry[i0].active /\ (op[y].do = "since" => t0 > op[y].time)
    <3>1. i0 \in due'[y] => i0 \in due[y] /\ ~(op[y].do = "since" /\ t0 <= op[y].time)
      BY <1>2
    <3> QED BY <1>1, <2>2, <3>1 DEF RegLocal, DueOK
  <2> QED BY <1>1, <1>3, <2>1, <2>3 DEF Unnoticed
<1>11. First(i0)' /\ e0.uri # NoUri => uses'[i0] = 1 /\ Real(e0)
  <2> SUFFICES ASSUME First(i0)', e0.uri # NoUri PROVE uses[i0] = 1 /\ Real(e0)
    BY <1>2
  <2>1. uses[i0] = 1 /\ Real(entry[i0])
    BY <1>0, <1>2, <1>3 DEF WholeOK, First
  <2> QED BY <1>1, <1>3, <2>1 DEF Real
<1>12. SoleOK'
  <2>1. \A y \in Procs : IsAdding(y)' => IsAdding(y) /\ ri'[y] = ri[y]
    BY <1>4 DEF IsAdding, IsWriting, Writing, At
  <2>2. \A i \in Entries : entry'[i].active = entry[i].active
    BY <1>3, <1>7
  <2>3. \A y \in Procs : ri[y] \in Entries
    BY <1>0
  <2> QED BY <1>0, <1>2, <2>1, <2>2, <2>3 DEF SoleOK
<1>13. CountAgrees'
  <2>1. Active' = Active
    BY <1>3, <1>7 DEF Active
  <2>2. Adding' = Adding /\ Subtracting' = Subtracting
    BY <1>2, <1>4 DEF Adding, Subtracting, IsAdding, IsSubtracting, IsWriting, Writing, At
  <2> QED BY <1>0, <1>2, <1>4, <2>1, <2>2 DEF CountAgrees
<1>14. rpc[x] \notin Opening \cup {"idle"}
  BY <1>2 DEF Opening
<1>15. \A i \in Entries : uses'[i] = uses[i] /\ uses'[i] >= uses[i]
  BY <1>0, <1>2 DEF RegType, RegTypeOK
<1> QED BY <1>0, <1>2, <1>3, <1>6, <1>8, <1>9, <1>10, <1>11, <1>12, <1>13, <1>14, <1>15, LoudStep

LEMMA ClaimOK ==
  ASSUME NEW x \in Procs, RegInv, TopicsKept, Claim(x)
  PROVE  RegInv'
<1>0. /\ RegType /\ RegLocal(x) /\ SoleOK /\ CountAgrees /\ WholeOK /\ op[x].do = "register" /\ due[x] = {}
      /\ rpc \in [Procs -> RegPC] /\ ri \in [Procs -> Entries] /\ op[x] \in Ops
      /\ RegionOf[x] \in Regions /\ ri[x] \in Entries /\ entry[ri[x]] \in Fields
      /\ entry \in [Entries -> Fields] /\ uses \in [Entries -> 0 .. 2]
  BY RegParts, RegTypes DEF RegLocal, OpOK, DueOK, Claim, At, RegType, RegTypeOK
<1>i. PICK i0 \in Entries : i0 = ri[x]
  BY <1>0
<1>j. PICK yes \in BOOLEAN : yes = TRUE
  OBVIOUS
<1>k. PICK e0 : e0 = [entry[i0] EXCEPT !.active = yes]
  OBVIOUS
<1>l. PICK n0 : n0 = IF uses[i0] < 2 THEN uses[i0] + 1 ELSE uses[i0]
  OBVIOUS
<1>1. n0 \in 0 .. 2 /\ n0 >= uses[i0] /\ n0 >= 1 /\ (n0 <= 1 => uses[i0] = 0)
  BY <1>0, <1>l
<1>2. /\ rpc[x] = "claim" /\ rpc' = [rpc EXCEPT ![x] = "owner"] /\ ~entry[i0].active
      /\ entry' = [entry EXCEPT ![i0] = e0] /\ uses' = [uses EXCEPT ![i0] = n0]
      /\ UNCHANGED <<file, count, clock, ri, op, read, found, due, stolen, skewed, erased>>
  BY <1>i, <1>j, <1>k, <1>l DEF Claim, At, To, E
<1>3. /\ e0 \in Fields /\ e0.ts = entry[i0].ts /\ e0.active = yes /\ e0.pid = entry[i0].pid
      /\ e0.region = entry[i0].region /\ e0.uri = entry[i0].uri
  BY <1>0, <1>k DEF Fields
<1>4. /\ rpc'[x] = "owner" /\ rpc' \in [Procs -> RegPC] /\ ri'[x] = i0
      /\ \A y \in Procs \ {x} : rpc'[y] = rpc[y] /\ ri'[y] = ri[y]
  BY <1>0, <1>2, <1>i DEF RegPC, Writing
<1>5. /\ uses' \in [Entries -> 0 .. 2] /\ uses'[i0] = n0
      /\ \A i \in Entries \ {i0} : uses'[i] = uses[i]
      /\ \A i \in Entries : uses'[i] >= uses[i]
  BY <1>0, <1>1, <1>2
<1>6. RegStepOf(x)
  BY <1>2, <1>4 DEF RegStepOf
<1>7. \A i \in Entries : entry'[i] = IF i = i0 THEN e0 ELSE entry[i]
  BY <1>0, <1>2
<1>8. RegType'
  <2>1. entry' \in [Entries -> Fields]
    BY <1>0, <1>2, <1>3
  <2>2. \A i \in Entries : entry'[i].ts = 0 \/ entry'[i].ts >= StartTime
    BY <1>0, <1>3, <1>7 DEF RegType
  <2> QED BY <1>0, <1>2, <1>4, <1>5, <2>1, <2>2 DEF RegType, RegTypeOK
<1>u. First(i0)' => uses[i0] = 0 /\ First(i0)
  <2>1. First(i0)' => n0 <= 1
    BY <1>5 DEF First
  <2>2. First(i0)' => ~erased /\ i0 \notin stolen
    BY <1>2 DEF First
  <2> QED BY <1>1, <2>1, <2>2 DEF First
<1>v. First(i0)' => e0.uri = NoUri
  BY <1>0, <1>3, <1>u DEF WholeOK
<1>9. RegLocal(x)'
  <2>1. Topic(RegionOf[x], op[x].uri)'
    BY <1>0, <1>2 DEF RegLocal, OpOK, TopicsKept
  <2>2. OpOK(x)'
    BY <1>0, <1>2, <1>4, <2>1 DEF RegLocal, OpOK, Opening, Writing
  <2>3. StageOK(x)'
    <3>1. uses'[i0] >= 1 /\ At(x, "owner")'
      BY <1>1, <1>4, <1>5 DEF At
    <3>2. ~erased' /\ i0 \notin stolen' /\ uses'[i0] <= 1 => entry'[i0].uri = NoUri
      BY <1>7, <1>v DEF First
    <3> QED BY <1>4, <3>1, <3>2 DEF StageOK, E, At
  <2>4. ReadOK(x)'
    BY <1>4 DEF ReadOK
  <2>5. FoundOK(x)'
    <3>1. \A i \in Entries : First(i)' => First(i)
      BY <1>2, <1>5, <1>u DEF First
    <3> QED BY <1>0, <1>2, <3>1, FoundStays DEF RegLocal
  <2>6. DueOK(x)'
    BY <1>0, <1>2 DEF DueOK
  <2> QED BY <2>2, <2>3, <2>4, <2>5, <2>6 DEF RegLocal
<1>10. \A y \in Procs : IsAdding(y) /\ ri[y] = i0 => erased \/ i0 \in stolen
  BY <1>0, <1>2 DEF SoleOK
<1>11. ASSUME NEW y \in Procs \ {x} PROVE Unnoticed(x, y, i0, e0)
  <2>1. i0 \notin due'[y]
    BY <1>2, RegParts DEF RegLocal, DueOK
  <2> QED BY <1>2, <1>3, <1>4, <1>10, <2>1 DEF Unnoticed
<1>12. SoleOK'
  <2> SUFFICES ASSUME ~erased, NEW y \in Procs, IsAdding(y)', ri[y] \notin stolen
               PROVE  /\ entry'[ri[y]].active
                      /\ \A z \in Procs : z # y /\ IsAdding(z)' => ri[z] # ri[y]
    BY <1>2 DEF SoleOK
  <2>1. \A z \in Procs \ {x} : IsAdding(z)' <=> IsAdding(z)
    BY <1>4 DEF IsAdding, IsWriting, At
  <2>2. CASE y = x
    <3>1. entry'[ri[y]].active
      BY <1>3, <1>7, <1>i, <1>j, <2>2
    <3>2. \A z \in Procs : z # y /\ IsAdding(z)' => ri[z] # ri[y]
      BY <1>10, <1>i, <2>1, <2>2
    <3> QED BY <3>1, <3>2
  <2>3. CASE y # x
    <3>1. ri[y] \in Entries /\ IsAdding(y)
      BY <1>0, <2>1, <2>3
    <3>2. ri[y] # i0
      BY <1>10, <3>1
    <3>3. entry'[ri[y]].active
      BY <1>0, <1>7, <3>1, <3>2 DEF SoleOK
    <3>4. \A z \in Procs : z # y /\ IsAdding(z)' => ri[z] # ri[y]
      BY <1>0, <1>i, <2>1, <3>1, <3>2 DEF SoleOK
    <3> QED BY <3>3, <3>4
  <2> QED BY <2>2, <2>3
<1>13. CountAgrees'
  <2>1. Active' = Active \cup {i0} /\ i0 \notin Active
    BY <1>2, <1>3, <1>7, <1>j DEF Active
  <2>2. Subtracting' = Subtracting
    BY <1>2, <1>4 DEF Subtracting, IsSubtracting, At
  <2>3. Adding' = Adding \cup {x} /\ x \notin Adding
    BY <1>2, <1>4 DEF Adding, IsAdding, IsWriting, Writing, At
  <2>4. Cardinality(Active') = Cardinality(Active) + 1
    BY <2>1, CountBound, FS_AddElement
  <2>5. Cardinality(Adding') = Cardinality(Adding) + 1
    BY <2>3, CountBound, FS_AddElement
  <2>6. Cardinality(Active)' + Cardinality(Subtracting)' = Cardinality(Active) + Cardinality(Subtracting) + 1
    BY <2>2, <2>4, CountBound
  <2> QED BY <1>0, <1>2, <2>5, <2>6, CountBound DEF CountAgrees
<1>14. rpc[x] \notin Opening \cup {"idle"}
  BY <1>2 DEF Opening
<1> QED BY <1>2, <1>3, <1>5, <1>6, <1>8, <1>9, <1>11, <1>12, <1>13, <1>14, <1>v, LoudStep

LEMMA WriteFieldOK ==
  ASSUME NEW x \in Procs, RegInv, TopicsKept, WriteField(x)
  PROVE  RegInv'
<1>0. /\ RegType /\ RegLocal(x) /\ SoleOK /\ CountAgrees /\ WholeOK /\ op[x].do = "register" /\ due[x] = {}
      /\ rpc \in [Procs -> RegPC] /\ ri \in [Procs -> Entries] /\ op[x] \in Ops
      /\ RegionOf[x] \in Regions /\ ri[x] \in Entries /\ entry[ri[x]] \in Fields
      /\ entry \in [Entries -> Fields] /\ uses \in [Entries -> 0 .. 2]
      /\ op[x].time \in StartTime .. clock /\ clock \in StartTime .. MaxTime
      /\ op[x].region = RegionOf[x] /\ op[x].uri \in Uris /\ Topic(RegionOf[x], op[x].uri)
      /\ Pid[x] \in Pids
  <2>1. rpc[x] \in Writing
    BY DEF WriteField, IsWriting
  <2>2. op[x].do = "register" /\ op[x].time \in StartTime .. clock
    BY <2>1, RegParts DEF RegLocal, OpOK, Writing, Opening
  <2> QED BY <2>2, RegParts, RegTypes, RegistryAssumption
      DEF RegLocal, OpOK, DueOK, RegType, RegTypeOK
<1>i. PICK i0 \in Entries : i0 = ri[x]
  BY <1>0
<1>j. PICK o \in Ops : o = op[x]
  BY <1>0
<1>t. o.time \in 0 .. MaxTime /\ o.time >= StartTime
  BY <1>0, <1>j, RegistryAssumption
<1>b. PICK r1, u1, r2, u2 : /\ r1 = Begun(x, "region") /\ u1 = Begun(x, "uri")
                           /\ r2 = Copied(entry[i0].region, o.region)
                           /\ u2 = Copied(entry[i0].uri, o.uri)
  OBVIOUS
<1>c. /\ r1 \in Garbled /\ u1 \in Garbled
      /\ r2 \in {o.region, Mixed} /\ (entry[i0].region = Torn => r2 = o.region)
      /\ u2 \in {o.uri, Mixed} /\ (entry[i0].uri = Torn => u2 = o.uri)
  BY <1>b DEF Begun, Copied, Garbled
<1>k. PICK e0 : e0 = CASE At(x, "owner")  -> [entry[i0] EXCEPT !.pid = Pid[x], !.ts = o.time, !.region = r1]
                       [] At(x, "region") -> [entry[i0] EXCEPT !.region = r2, !.uri = u1]
                       [] At(x, "uri")    -> [entry[i0] EXCEPT !.uri = u2]
  OBVIOUS
<1>p. PICK p0 : p0 = CASE At(x, "owner") -> "region" [] At(x, "region") -> "uri" [] At(x, "uri") -> "add"
  OBVIOUS
<1>1. rpc[x] \in {"owner", "region", "uri"}
  BY DEF WriteField, IsWriting, Writing
<1>2. /\ rpc' = [rpc EXCEPT ![x] = p0]
      /\ entry' = [entry EXCEPT ![i0] = e0]
      /\ UNCHANGED <<file, count, clock, ri, op, read, found, due, uses, stolen, skewed, erased>>
  <2>1. CASE At(x, "owner")
    BY <1>i, <1>j, <1>b, <1>k, <1>p, <2>1 DEF WriteField, To, regHistory, At, E
  <2>2. CASE At(x, "region")
    BY <1>i, <1>j, <1>b, <1>k, <1>p, <2>2 DEF WriteField, To, regHistory, At, E
  <2>3. CASE At(x, "uri")
    BY <1>i, <1>j, <1>b, <1>k, <1>p, <2>3 DEF WriteField, To, regHistory, At, E
  <2> QED BY <1>1, <2>1, <2>2, <2>3 DEF At
<1>3. /\ rpc[x] = "owner" => /\ p0 = "region" /\ e0 \in Fields /\ e0.pid = Pid[x] /\ e0.ts = o.time
                             /\ e0.region = r1 /\ e0.uri = entry[i0].uri
                             /\ e0.active = entry[i0].active
      /\ rpc[x] = "region" => /\ p0 = "uri" /\ e0 \in Fields /\ e0.region = r2
                              /\ e0.pid = entry[i0].pid /\ e0.uri = u1
                              /\ e0.ts = entry[i0].ts /\ e0.active = entry[i0].active
      /\ rpc[x] = "uri" => /\ p0 = "add" /\ e0 \in Fields /\ e0.uri = u2
                           /\ e0.pid = entry[i0].pid /\ e0.region = entry[i0].region
                           /\ e0.ts = entry[i0].ts /\ e0.active = entry[i0].active
  <2>1. CASE rpc[x] = "owner"
    <3>1. e0 = [entry[i0] EXCEPT !.pid = Pid[x], !.ts = o.time, !.region = r1] /\ p0 = "region"
      BY <1>k, <1>p, <2>1 DEF At
    <3> QED BY <1>0, <1>c, <1>t, <2>1, <3>1 DEF Fields
  <2>2. CASE rpc[x] = "region"
    <3>1. e0 = [entry[i0] EXCEPT !.region = r2, !.uri = u1] /\ p0 = "uri"
      BY <1>k, <1>p, <2>2 DEF At
    <3>2. r2 \in Regions \cup {NoRegion} \cup Garbled
      BY <1>0, <1>c, <1>j DEF Garbled
    <3> QED BY <1>0, <1>c, <2>2, <3>1, <3>2 DEF Fields
  <2>3. CASE rpc[x] = "uri"
    <3>1. e0 = [entry[i0] EXCEPT !.uri = u2] /\ p0 = "add"
      BY <1>k, <1>p, <2>3 DEF At
    <3>2. u2 \in Uris \cup {NoUri} \cup Garbled
      BY <1>0, <1>c, <1>j DEF Garbled
    <3> QED BY <1>0, <2>3, <3>1, <3>2 DEF Fields
  <2> QED BY <1>1, <2>1, <2>2, <2>3
<1>4. /\ e0 \in Fields /\ e0.active = entry[i0].active /\ p0 \in {"region", "uri", "add"}
      /\ e0.ts = 0 \/ e0.ts >= StartTime
  BY <1>0, <1>1, <1>3, <1>t DEF RegType
<1>5. /\ rpc'[x] = p0 /\ rpc' \in [Procs -> RegPC] /\ ri'[x] = i0
      /\ \A y \in Procs \ {x} : rpc'[y] = rpc[y] /\ ri'[y] = ri[y]
  BY <1>0, <1>2, <1>4, <1>i DEF RegPC, Writing
<1>6. RegStepOf(x)
  BY <1>2, <1>5 DEF RegStepOf
<1>7. \A i \in Entries : entry'[i] = IF i = i0 THEN e0 ELSE entry[i]
  BY <1>0, <1>2
<1>8. RegType'
  <2>1. entry' \in [Entries -> Fields]
    BY <1>0, <1>2, <1>4
  <2>2. \A i \in Entries : entry'[i].ts = 0 \/ entry'[i].ts >= StartTime
    BY <1>0, <1>4, <1>7 DEF RegType
  <2> QED BY <1>0, <1>2, <1>5, <2>1, <2>2 DEF RegType, RegTypeOK
<1>a. IsAdding(x) /\ IsWriting(x) /\ IsAdding(x)'
  BY <1>1, <1>4, <1>5 DEF IsAdding, IsWriting, Writing, At
\* What has been written before.
<1>s. ~erased /\ i0 \notin stolen =>
        /\ rpc[x] # "owner" => entry[i0].pid = Pid[x] /\ entry[i0].ts >= StartTime
        /\ rpc[x] = "region" => entry[i0].region = Torn
        /\ rpc[x] = "uri" => entry[i0].region = RegionOf[x] /\ entry[i0].uri = Torn
        /\ rpc[x] # "uri" /\ uses[i0] <= 1 => entry[i0].uri = NoUri
  BY <1>0, <1>1, <1>a, <1>i DEF RegLocal, StageOK, E, At
\* Nobody else is at this entry.
<1>z. ~erased /\ i0 \notin stolen => r1 = Torn /\ u1 = Torn
  <2>1. ~erased /\ i0 \notin stolen => \A y \in Procs : y # x /\ IsAdding(y) => ri[y] # i0
    BY <1>0, <1>a, <1>i DEF SoleOK
  <2>2. \A y \in Procs : At(y, "region") \/ At(y, "uri") => IsAdding(y)
    BY DEF IsAdding, IsWriting, Writing, At
  <2> QED BY <1>b, <1>i, <2>1, <2>2 DEF Begun
<1>n. uses[i0] \in 0 .. 2 /\ uses[i0] >= 1
  BY <1>0, <1>a, <1>i DEF RegLocal, StageOK
<1>9. RegLocal(x)'
  <2>1. Topic(RegionOf[x], op[x].uri)'
    BY <1>0, <1>2 DEF TopicsKept
  <2>2. OpOK(x)'
    BY <1>0, <1>1, <1>2, <1>4, <1>5, <2>1 DEF RegLocal, OpOK, Opening, Writing
  <2>3. StageOK(x)'
    <3> SUFFICES ASSUME ~erased, i0 \notin stolen
                 PROVE  /\ e0.pid = Pid[x] /\ e0.ts >= StartTime
                        /\ p0 = "region" => e0.region = Torn
                        /\ p0 \in {"uri", "add"} => e0.region = RegionOf[x]
                        /\ p0 = "uri" => e0.uri = Torn
                        /\ p0 = "region" /\ uses[i0] <= 1 => e0.uri = NoUri
      BY <1>2, <1>4, <1>5, <1>7, <1>n DEF StageOK, IsAdding, IsWriting, Writing, At, E
    <3> QED BY <1>0, <1>1, <1>3, <1>c, <1>j, <1>s, <1>t, <1>z
  <2>4. ReadOK(x)'
    BY <1>4, <1>5 DEF ReadOK
  <2>5. FoundOK(x)'
    BY <1>0, <1>2, FoundStays DEF RegLocal, First
  <2>6. DueOK(x)'
    BY <1>0, <1>2 DEF DueOK
  <2> QED BY <2>2, <2>3, <2>4, <2>5, <2>6 DEF RegLocal
<1>10. ASSUME NEW y \in Procs \ {x} PROVE Unnoticed(x, y, i0, e0)
  <2>1. i0 \notin due'[y]
    BY <1>2, <1>a, <1>i, RegParts DEF RegLocal, DueOK
  <2>2. IsAdding(y) /\ ri[y] = i0 => erased \/ i0 \in stolen
    BY <1>0, <1>a, <1>i DEF SoleOK
  <2>3. First(i0)' /\ entry[i0].uri # NoUri =>
          rpc[x] = "uri" /\ entry[i0].uri = Torn
    BY <1>2, <1>s DEF First
  <2>4. First(i0)' /\ entry[i0].uri # NoUri => e0.uri # NoUri /\ e0.region = entry[i0].region
    BY <1>0, <1>3, <1>c, <1>j, <2>3, PartiesAssumption
  <2> QED BY <1>2, <1>5, <2>1, <2>2, <2>3, <2>4 DEF Unnoticed
<1>11. First(i0)' /\ e0.uri # NoUri => uses'[i0] = 1 /\ Real(e0)
  <2> SUFFICES ASSUME First(i0)', e0.uri # NoUri PROVE uses[i0] = 1 /\ Real(e0)
    BY <1>2
  <2>1. ~erased /\ i0 \notin stolen /\ uses[i0] <= 1
    BY <1>2 DEF First
  <2>2. uses[i0] = 1
    BY <1>n, <2>1
  <2>3. rpc[x] \in {"region", "uri"}
    BY <1>1, <1>3, <1>s, <2>1
  <2>4. /\ e0.pid = Pid[x] /\ e0.region = RegionOf[x] /\ e0.ts >= StartTime
        /\ e0.uri \in {op[x].uri, Torn}
    BY <1>0, <1>3, <1>c, <1>j, <1>s, <1>z, <2>1, <2>3
  <2> QED BY <1>0, <2>2, <2>4 DEF Real
<1>12. SoleOK'
  <2>1. \A y \in Procs : IsAdding(y)' => IsAdding(y) /\ ri'[y] = ri[y]
    BY <1>2, <1>5, <1>a DEF IsAdding, IsWriting, At
  <2>2. \A i \in Entries : entry'[i].active = entry[i].active
    BY <1>4, <1>7
  <2>3. \A y \in Procs : ri[y] \in Entries
    BY <1>0
  <2> QED BY <1>0, <1>2, <2>1, <2>2, <2>3 DEF SoleOK
<1>13. CountAgrees'
  <2>1. Active' = Active
    BY <1>4, <1>7 DEF Active
  <2>2. Adding' = Adding
    BY <1>5, <1>a DEF Adding, IsAdding, IsWriting, At
  <2>3. Subtracting' = Subtracting
    BY <1>1, <1>4, <1>5 DEF Subtracting, IsSubtracting, At
  <2> QED BY <1>0, <1>2, <2>1, <2>2, <2>3 DEF CountAgrees
<1>14. rpc[x] \notin Opening \cup {"idle"}
  BY <1>1 DEF Opening
<1>15. \A i \in Entries : uses'[i] = uses[i] /\ uses'[i] >= uses[i]
  BY <1>0, <1>2
<1> QED BY <1>2, <1>4, <1>6, <1>8, <1>9, <1>10, <1>11, <1>12, <1>13, <1>14, <1>15, LoudStep

LEMMA FreeOK ==
  ASSUME NEW x \in Procs, RegInv, TopicsKept, Free(x)
  PROVE  RegInv'
<1>0. /\ RegType /\ RegLocal(x) /\ SoleOK /\ CountAgrees /\ WholeOK /\ due[x] = {}
      /\ op[x].do \in {"prune", "unregister"}
      /\ rpc \in [Procs -> RegPC] /\ ri \in [Procs -> Entries] /\ op[x] \in Ops
      /\ RegionOf[x] \in Regions /\ ri[x] \in Entries /\ entry[ri[x]] \in Fields
      /\ entry \in [Entries -> Fields] /\ uses \in [Entries -> 0 .. 2]
      /\ due \in [Procs -> SUBSET Entries] /\ stolen \in SUBSET Entries
  BY RegParts, RegTypes DEF RegLocal, OpOK, DueOK, Free, At, RegType, RegTypeOK
<1>i. PICK i0 \in Entries : i0 = ri[x]
  BY <1>0
<1>j. PICK no \in BOOLEAN : no = FALSE
  OBVIOUS
<1>k. PICK e0 : e0 = [entry[i0] EXCEPT !.active = no]
  OBVIOUS
<1>2. /\ rpc[x] = "free" /\ rpc' = [rpc EXCEPT ![x] = "sub"] /\ entry[i0].active
      /\ entry' = [entry EXCEPT ![i0] = e0]
      /\ due' = [y \in Procs |-> due[y] \ {i0}]
      /\ stolen' \in SUBSET Entries /\ stolen \subseteq stolen'
      /\ \A y \in Procs : ri[y] = i0 /\ IsAdding(y) => i0 \in stolen'
      /\ UNCHANGED <<file, count, clock, ri, op, read, found, uses, skewed, erased>>
  BY <1>0, <1>i, <1>j, <1>k DEF Free, Freed, IsStolen, At, To, E, RegType, RegTypeOK
<1>3. /\ e0 \in Fields /\ e0.ts = entry[i0].ts /\ e0.active = no /\ e0.pid = entry[i0].pid
      /\ e0.region = entry[i0].region /\ e0.uri = entry[i0].uri
  BY <1>0, <1>k DEF Fields
<1>4. /\ rpc'[x] = "sub" /\ rpc' \in [Procs -> RegPC] /\ ri'[x] = i0
      /\ \A y \in Procs \ {x} : rpc'[y] = rpc[y] /\ ri'[y] = ri[y]
  BY <1>0, <1>2, <1>i DEF RegPC
<1>5. due' \in [Procs -> SUBSET Entries] /\ \A y \in Procs : due'[y] = due[y] \ {i0}
  BY <1>0, <1>2
<1>6. RegStepOf(x)
  BY <1>2, <1>4, <1>5 DEF RegStepOf
<1>7. \A i \in Entries : entry'[i] = IF i = i0 THEN e0 ELSE entry[i]
  BY <1>0, <1>2
<1>8. RegType'
  <2>1. entry' \in [Entries -> Fields]
    BY <1>0, <1>2, <1>3
  <2>2. \A i \in Entries : entry'[i].ts = 0 \/ entry'[i].ts >= StartTime
    BY <1>0, <1>3, <1>7 DEF RegType
  <2> QED BY <1>0, <1>2, <1>4, <1>5, <2>1, <2>2 DEF RegType, RegTypeOK
<1>f. \A i \in Entries : First(i)' => First(i)
  BY <1>2 DEF First
<1>a. ~IsWriting(x)' /\ ~IsAdding(x)' /\ ~IsAdding(x)
  BY <1>2, <1>4 DEF IsWriting, IsAdding, Writing, At
<1>9. RegLocal(x)'
  <2>2. OpOK(x)'
    BY <1>0, <1>2, <1>4 DEF RegLocal, OpOK, Opening, Writing
  <2>3. StageOK(x)' /\ ReadOK(x)'
    BY <1>4, <1>a DEF StageOK, ReadOK
  <2>5. FoundOK(x)'
    BY <1>0, <1>2, <1>f, FoundStays DEF RegLocal
  <2>6. DueOK(x)'
    BY <1>0, <1>5 DEF DueOK
  <2> QED BY <2>2, <2>3, <2>5, <2>6 DEF RegLocal
<1>10. ASSUME NEW y \in Procs \ {x} PROVE Unnoticed(x, y, i0, e0)
  BY <1>2, <1>3, <1>5, <1>a DEF Unnoticed
<1>11. First(i0)' /\ e0.uri # NoUri => uses'[i0] = 1 /\ Real(e0)
  <2> SUFFICES ASSUME First(i0)', e0.uri # NoUri PROVE uses[i0] = 1 /\ Real(e0)
    BY <1>2
  <2>1. uses[i0] = 1 /\ Real(entry[i0])
    BY <1>0, <1>3, <1>f DEF WholeOK
  <2> QED BY <1>3, <2>1 DEF Real
<1>12. SoleOK'
  <2> SUFFICES ASSUME ~erased, NEW y \in Procs, IsAdding(y)', ri[y] \notin stolen'
               PROVE  /\ entry'[ri[y]].active
                      /\ \A z \in Procs : z # y /\ IsAdding(z)' => ri[z] # ri[y]
    BY <1>2 DEF SoleOK
  <2>1. \A z \in Procs : IsAdding(z)' <=> IsAdding(z)
    BY <1>4, <1>a DEF IsAdding, IsWriting, At
  <2>2. ri[y] # i0 /\ ri[y] \in Entries
    BY <1>0, <1>2, <2>1
  <2>3. ri[y] \notin stolen
    BY <1>2
  <2>4. entry[ri[y]].active /\ \A z \in Procs : z # y /\ IsAdding(z) => ri[z] # ri[y]
    BY <1>0, <2>1, <2>3 DEF SoleOK
  <2> QED BY <1>7, <2>1, <2>2, <2>4
<1>13. CountAgrees'
  <2>1. Active' = Active \ {i0} /\ i0 \in Active
    BY <1>2, <1>3, <1>7, <1>j DEF Active
  <2>2. Subtracting' = Subtracting \cup {x} /\ x \notin Subtracting
    BY <1>2, <1>4 DEF Subtracting, IsSubtracting, At
  <2>3. Adding' = Adding
    BY <1>4, <1>a DEF Adding, IsAdding, IsWriting, At
  <2>4. Cardinality(Active') = Cardinality(Active) - 1
    BY <2>1, CountBound, FS_RemoveElement
  <2>5. Cardinality(Subtracting') = Cardinality(Subtracting) + 1
    BY <2>2, CountBound, FS_AddElement
  <2>6. Cardinality(Active)' + Cardinality(Subtracting)' = Cardinality(Active) + Cardinality(Subtracting)
    BY <2>4, <2>5, CountBound
  <2> QED BY <1>0, <1>2, <2>3, <2>6 DEF CountAgrees
<1>14. rpc[x] \notin Opening \cup {"idle"}
  BY <1>2 DEF Opening
<1>15. \A i \in Entries : uses'[i] = uses[i] /\ uses'[i] >= uses[i]
  BY <1>0, <1>2
<1> QED BY <1>2, <1>3, <1>6, <1>8, <1>9, <1>10, <1>11, <1>12, <1>13, <1>14, <1>15, LoudStep

LEMMA BlankType == Blank \in Fields /\ Blank.ts = 0 /\ Blank.uri = NoUri /\ Blank.active = FALSE
BY RegistryAssumption DEF Blank, Fields

LEMMA TruncateOK ==
  ASSUME NEW x \in Procs, RegInv, TopicsKept, Truncate(x)
  PROVE  RegInv'
<1>0. /\ RegType /\ FileOK /\ rpc \in [Procs -> RegPC] /\ \A y \in Procs : RegLocal(y)
  BY RegParts DEF RegType, RegTypeOK
<1>1. /\ rpc[x] = "truncate" /\ rpc' = [rpc EXCEPT ![x] = "len"] /\ file' = "empty"
      /\ entry' = [i \in Entries |-> Blank] /\ count' = 0
      /\ erased' = (erased \/ file = "ready") /\ due' = [y \in Procs |-> {}]
      /\ UNCHANGED <<clock, ri, op, read, found, uses, stolen, skewed>>
  BY DEF Truncate, At, To
<1>2. /\ rpc'[x] = "len" /\ rpc' \in [Procs -> RegPC]
      /\ \A y \in Procs \ {x} : rpc'[y] = rpc[y]
  BY <1>0, <1>1 DEF RegPC
<1>3. RegType'
  <2>1. entry' \in [Entries -> Fields] /\ \A i \in Entries : entry'[i].ts = 0
    BY <1>1, BlankType
  <2>2. count' \in 0 .. CountMod - 1
    <3>1. CountMod \in Nat /\ CountMod > 0
      BY CountBound, RegistryAssumption
    <3> QED BY <1>1, <3>1
  <2>3. due' \in [Procs -> SUBSET Entries] /\ erased' \in BOOLEAN
    BY <1>1
  <2> QED BY <1>0, <1>1, <1>2, <2>1, <2>2, <2>3 DEF RegType, RegTypeOK
<1>4. ~erased' => ~erased /\ \A y \in Procs : rpc[y] \in Opening \cup {"idle"}
  BY <1>0, <1>1 DEF FileOK
<1>5. ~erased' => \A y \in Procs : rpc'[y] \in Opening \cup {"idle"}
  BY <1>2, <1>4 DEF Opening
<1>6. ASSUME NEW y \in Procs PROVE RegLocal(y)'
  <2>1. OpOK(y)'
    <3>1. op[y] \in Ops /\ RegionOf[y] \in Regions
      BY <1>0, RegTypes
    <3>2. op[y].do = "register" => Topic(RegionOf[y], op[y].uri)'
      BY <1>0, <1>1, <3>1 DEF RegLocal, OpOK, TopicsKept
    <3> QED BY <1>0, <1>1, <1>2, <3>2 DEF RegLocal, OpOK, Opening, Writing
  <2>2. StageOK(y)'
    <3>1. IsAdding(y)' => IsAdding(y)
      BY <1>1, <1>2 DEF IsAdding, IsWriting, Writing, At
    <3>2. IsAdding(y)' => erased'
      BY <1>5 DEF IsAdding, IsWriting, Writing, At, Opening
    <3> QED BY <1>0, <1>1, <3>1, <3>2 DEF RegLocal, StageOK
  <2>3. ReadOK(y)'
    <3>1. rpc'[y] \in {"get_uri", "get_region", "get_owner"} => rpc'[y] = rpc[y] /\ erased'
      BY <1>2, <1>5 DEF Opening
    <3> QED BY <1>0, <1>1, <3>1 DEF RegLocal, ReadOK, First
  <2>4. FoundOK(y)'
    BY <1>0, <1>1, FoundStays DEF RegLocal, First
  <2>5. DueOK(y)'
    BY <1>1 DEF DueOK
  <2> QED BY <2>1, <2>2, <2>3, <2>4, <2>5 DEF RegLocal
<1>7. FileOK'
  BY <1>1, <1>5 DEF FileOK
<1>8. SoleOK'
  BY <1>5 DEF SoleOK, IsAdding, IsWriting, Writing, At, Opening
<1>9. WholeOK'
  BY <1>1, BlankType DEF WholeOK
<1>10. CountAgrees'
  <2> SUFFICES ASSUME ~erased' PROVE CountAgrees'
    BY DEF CountAgrees
  <2>1. Active' = {}
    BY <1>1, BlankType DEF Active
  <2>2. Adding' = {} /\ Subtracting' = {}
    BY <1>5 DEF Adding, Subtracting, IsAdding, IsSubtracting, IsWriting, Writing, At, Opening
  <2>3. Cardinality({}) = 0
    BY FS_EmptySet
  <2> QED BY <1>1, <2>1, <2>2, <2>3 DEF CountAgrees
<1> QED BY <1>3, <1>6, <1>7, <1>8, <1>9, <1>10 DEF RegInv, RegLocal

LEMMA TickOK ==
  ASSUME RegInv, TopicsKept, Tick
  PROVE  RegInv'
<1>0. RegType /\ FileOK /\ SoleOK /\ WholeOK /\ CountAgrees /\ \A y \in Procs : RegLocal(y)
  BY RegParts
<1>1. UNCHANGED <<file, entry, count, rpc, ri, op, read, found, due, uses, stolen, skewed, erased>>
  BY DEF Tick, regLocal, regHistory
<1>2. clock' \in StartTime .. MaxTime /\ clock' = clock + 1 /\ clock \in Nat
  BY <1>0, RegistryAssumption DEF Tick, RegType, RegTypeOK
<1>3. RegType'
  BY <1>0, <1>1, <1>2 DEF RegType, RegTypeOK
<1>4. ASSUME NEW y \in Procs PROVE RegLocal(y)'
  <2>0. RegLocal(y) /\ op[y] \in Ops /\ RegionOf[y] \in Regions
    BY <1>0, RegTypes
  <2>1. OpOK(y)'
    <3>1. op[y].do = "register" => Topic(RegionOf[y], op[y].uri)'
      BY <1>1, <2>0 DEF RegLocal, OpOK, TopicsKept
    <3>2. op[y].time \in StartTime .. clock => op[y].time \in StartTime .. clock'
      BY <1>2, RegistryAssumption
    <3> QED BY <1>1, <2>0, <3>1, <3>2 DEF RegLocal, OpOK
  <2>2. StageOK(y)' /\ ReadOK(y)' /\ DueOK(y)'
    BY <1>1, <2>0 DEF RegLocal, StageOK, ReadOK, DueOK, IsAdding, IsWriting, At, E, First
  <2>3. FoundOK(y)'
    BY <1>0, <1>1, <2>0, FoundStays DEF RegLocal, First
  <2> QED BY <2>1, <2>2, <2>3 DEF RegLocal
<1>5. WholeOK'
  BY <1>0, <1>1, WholeStays
<1>6. FileOK' /\ SoleOK' /\ CountAgrees'
  BY <1>0, <1>1 DEF FileOK, SoleOK, CountAgrees, Active, Adding, Subtracting, IsAdding,
                    IsSubtracting, IsWriting, At
<1> QED BY <1>3, <1>4, <1>5, <1>6 DEF RegInv, RegLocal

\* Threads that die.
LEMMA RegGoneOK ==
  ASSUME RegInv, TopicsKept, NEW xs \in SUBSET Procs, RegGone(xs)
  PROVE  RegInv'
<1>0. RegType /\ FileOK /\ SoleOK /\ WholeOK /\ CountAgrees /\ \A y \in Procs : RegLocal(y)
  BY RegParts
<1>1. /\ \A y \in xs : /\ rpc'[y] = "idle" /\ ri'[y] = 0 /\ op'[y] = NoOp /\ read'[y] = Blank
                       /\ found'[y] = {} /\ due'[y] = {}
      /\ \A y \in Procs \ xs : /\ rpc'[y] = rpc[y] /\ ri'[y] = ri[y] /\ op'[y] = op[y]
                               /\ read'[y] = read[y] /\ found'[y] = found[y] /\ due'[y] = due[y]
      /\ UNCHANGED <<file, entry, count, clock, uses, erased>>
  BY DEF RegGone
<1>2. /\ stolen \subseteq stolen' /\ skewed' \in BOOLEAN /\ (skewed => skewed')
      /\ \A y \in xs : IsAdding(y) \/ IsSubtracting(y) => skewed'
  BY <1>0 DEF RegGone, RegType, RegTypeOK
<1>t. NoOp \in Ops /\ NoOp.do = "none"
  BY DEF NoOp, Ops
<1>3. RegType'
  <2>1. 0 \in Entries
    BY RegistryAssumption DEF Entries
  <2>2. rpc' \in [Procs -> RegPC] /\ ri' \in [Procs -> Entries]
    BY <1>0, <2>1 DEF RegGone, RegType, RegTypeOK, RegPC
  <2>3. op' \in [Procs -> Ops] /\ read' \in [Procs -> Fields]
    BY <1>0, <1>t, BlankType DEF RegGone, RegType, RegTypeOK
  <2>4. found' \in [Procs -> SUBSET [at : Entries, got : Fields]] /\ due' \in [Procs -> SUBSET Entries]
    BY <1>0 DEF RegGone, RegType, RegTypeOK
  <2>5. stolen' \in SUBSET Entries
    BY <1>0 DEF RegGone, RegType, RegTypeOK
  <2>6. \A y \in Procs : op'[y].do \in {"none", "register", "unregister", "prune", "discover", "since"}
    BY <2>3 DEF Ops
  <2>7. \A y \in Procs : \A f \in found'[y] : f.at \in Entries /\ f.got \in Fields
    BY <2>4
  <2> QED BY <1>0, <1>1, <1>2, <2>2, <2>3, <2>4, <2>5, <2>6, <2>7 DEF RegType, RegTypeOK
<1>4. \A y \in Procs : IsAdding(y)' => IsAdding(y) /\ ri'[y] = ri[y] /\ y \notin xs
  BY <1>1 DEF IsAdding, IsWriting, Writing, At
<1>5. \A i \in Entries : First(i)' => First(i)
  BY <1>1, <1>2 DEF First
<1>6. ASSUME NEW y \in Procs PROVE RegLocal(y)'
  <2>1. CASE y \in xs
    BY <1>1, <1>t, <2>1 DEF RegLocal, OpOK, StageOK, ReadOK, FoundOK, DueOK, IsAdding, IsWriting,
                            Writing, At, Opening
  <2>2. CASE y \notin xs
    <3>0. /\ rpc'[y] = rpc[y] /\ ri'[y] = ri[y] /\ op'[y] = op[y]
          /\ read'[y] = read[y] /\ found'[y] = found[y] /\ due'[y] = due[y]
      BY <1>1, <2>2
    <3>1. RegLocal(y) /\ op[y] \in Ops /\ RegionOf[y] \in Regions /\ ri[y] \in Entries
      BY <1>0, RegTypes
    <3>2. OpOK(y)'
      <4>1. op[y].do = "register" => Topic(RegionOf[y], op[y].uri)'
        BY <3>0, <3>1 DEF RegLocal, OpOK, TopicsKept
      <4> QED BY <1>1, <3>0, <3>1, <4>1 DEF RegLocal, OpOK
    <3>3. StageOK(y)'
      BY <1>1, <1>2, <3>0, <3>1 DEF RegLocal, StageOK, IsAdding, IsWriting, At, E
    <3>4. ReadOK(y)'
      BY <1>1, <1>2, <3>0, <3>1 DEF RegLocal, ReadOK, E, First
    <3>5. FoundOK(y)'
      BY <1>0, <1>5, <3>0, <3>1, FoundStays DEF RegLocal
    <3>6. DueOK(y)'
      <4>1. \A z \in Procs : IsWriting(z)' => IsWriting(z) /\ ri'[z] = ri[z]
        BY <1>1 DEF IsWriting, Writing
      <4> QED BY <1>1, <3>0, <3>1, <4>1 DEF RegLocal, DueOK
    <3> QED BY <3>2, <3>3, <3>4, <3>5, <3>6 DEF RegLocal
  <2> QED BY <2>1, <2>2
<1>7. FileOK'
  BY <1>0, <1>1 DEF FileOK
<1>8. SoleOK'
  BY <1>0, <1>1, <1>2, <1>4 DEF SoleOK
<1>9. WholeOK'
  <2> SUFFICES ASSUME NEW i \in Entries, First(i)', entry[i].uri # NoUri
               PROVE  uses[i] = 1 /\ Real(entry[i])'
    BY <1>1 DEF WholeOK
  <2>1. uses[i] = 1 /\ Real(entry[i])
    BY <1>0, <1>5 DEF WholeOK
  <2>2. PICK e \in Fields : e = entry[i]
    BY <1>0 DEF RegType, RegTypeOK
  <2>3. Real(e)'
    BY <2>1, <2>2, RealStays
  <2> QED BY <1>1, <2>1, <2>2, <2>3 DEF Real, Topic
<1>10. CountAgrees'
  <2> SUFFICES ASSUME ~skewed', ~erased PROVE CountAgrees'
    BY <1>1 DEF CountAgrees
  <2>1. ~skewed /\ \A y \in xs : ~IsAdding(y) /\ ~IsSubtracting(y)
    BY <1>2
  <2>2. Adding' = Adding /\ Subtracting' = Subtracting
    BY <1>1, <2>1 DEF Adding, Subtracting, IsAdding, IsSubtracting, IsWriting, Writing, At
  <2>3. Active' = Active
    BY <1>1 DEF Active
  <2> QED BY <1>0, <1>1, <2>1, <2>2, <2>3 DEF CountAgrees
<1> QED BY <1>3, <1>6, <1>7, <1>8, <1>9, <1>10 DEF RegInv, RegLocal

LEMMA RegStepOK ==
  ASSUME NEW x \in Procs, RegInv, TopicsKept, RegStep(x)
  PROVE  RegInv'
BY OpeningOK, TruncateOK, FileStepOK, StartOK, LookOK, CompareOK, TouchOK, ClaimOK, ClaimTakenOK,
   WriteFieldOK, AddOK, ReadTsOK, FreeOK, FreeLostOK, SubOK, GetUriOK, GetRegionOK, GetOwnerOK
DEF RegStep

LEMMA RegInitOK ==
  ASSUME RegInit, file \in {"absent", "ready"}
  PROVE  RegInv
<1>0. NoOp \in Ops /\ NoOp.do = "none" /\ 0 \in Entries
  BY RegistryAssumption DEF NoOp, Ops, Entries
<1>1. RegType
  <2>1. CountMod \in Nat /\ CountMod > 0
    <3>1. Cardinality(Procs) \in Nat
      BY RegistryAssumption, FS_CardinalityType
    <3> QED BY <3>1, RegistryAssumption
  <2>2. count \in 0 .. CountMod - 1 /\ clock \in StartTime .. MaxTime
    BY <2>1, RegistryAssumption DEF RegInit
  <2>3. entry \in [Entries -> Fields] /\ read \in [Procs -> Fields] /\ \A i \in Entries : entry[i].ts = 0
    BY BlankType DEF RegInit
  <2>4. rpc \in [Procs -> RegPC] /\ ri \in [Procs -> Entries] /\ op \in [Procs -> Ops]
    BY <1>0 DEF RegInit, RegPC
  <2>5. \A x \in Procs : op[x].do \in {"none", "register", "unregister", "prune", "discover", "since"}
    BY <1>0 DEF RegInit
  <2>6. /\ found \in [Procs -> SUBSET [at : Entries, got : Fields]] /\ due \in [Procs -> SUBSET Entries]
        /\ \A x \in Procs : found[x] = {}
    BY DEF RegInit
  <2>7. uses \in [Entries -> 0 .. 2] /\ stolen = {} /\ skewed = FALSE /\ erased = FALSE
    BY DEF RegInit
  <2>8. RegTypeOK
    BY <2>2, <2>3, <2>4, <2>5, <2>6, <2>7 DEF RegTypeOK
  <2> QED BY <2>3, <2>4, <2>6, <2>8 DEF RegType
<1>2. ASSUME NEW x \in Procs PROVE RegLocal(x)
  BY <1>0 DEF RegInit, RegLocal, OpOK, StageOK, ReadOK, FoundOK, DueOK, IsAdding, IsWriting, Writing, At, Opening
<1>3. FileOK /\ SoleOK
  BY DEF RegInit, FileOK, SoleOK, IsAdding, IsWriting, Writing, At
<1>4. WholeOK
  BY BlankType DEF RegInit, WholeOK
<1>5. CountAgrees
  <2>1. Active = {} /\ Adding = {} /\ Subtracting = {}
    BY BlankType DEF RegInit, Active, Adding, Subtracting, IsAdding, IsSubtracting, IsWriting, Writing, At
  <2>2. Cardinality({}) = 0
    BY FS_EmptySet
  <2> QED BY <2>1, <2>2 DEF RegInit, CountAgrees
<1> QED BY <1>1, <1>2, <1>3, <1>4, <1>5, RegParts

(***************************************************************************)
(* Entries that are listed                                                 *)
(***************************************************************************)
Mine(x, i) == entry[i].active /\ entry[i].pid = Pid[x] /\ entry[i].region = RegionOf[x]

\* Of the others, nothing that Passed depends on changes.
OthersStay(x) ==
  \A y \in Procs \ {x} : rpc'[y] = rpc[y] /\ ri'[y] = ri[y] /\ op'[y] = op[y]

\* x passes only entries that are not its own, and lists only its own.
LEMMA ListedFrame ==
  ASSUME NEW x \in Procs, ListedOK, alive \in SUBSET Procs, alive' = alive, OthersStay(x),
         \A i \in Entries : Listed(i)' =>
           \/ Listed(i) /\ entry'[i].region = entry[i].region /\ entry'[i].pid = entry[i].pid
           \/ Mine(x, i)' /\ x \in alive /\ ~Passed(x, i)',
         \A i \in Entries : Passed(x, i)' => Passed(x, i) \/ ~Mine(x, i)'
  PROVE  ListedOK'
<1> SUFFICES ASSUME NEW i \in Entries, NEW z \in alive, Listed(i)', entry'[i].pid = Pid[z]
             PROVE  \E y \in alive : /\ Pid[y] = Pid[z] /\ RegionOf[y] = entry'[i].region
                                     /\ ~Passed(y, i)'
  BY DEF ListedOK
<1>1. CASE Mine(x, i)' /\ x \in alive /\ ~Passed(x, i)'
  BY <1>1 DEF Mine
<1>2. CASE Listed(i) /\ entry'[i].region = entry[i].region /\ entry'[i].pid = entry[i].pid
  <2>1. PICK y \in alive : Pid[y] = Pid[z] /\ RegionOf[y] = entry[i].region /\ ~Passed(y, i)
    BY <1>2 DEF ListedOK
  <2>2. CASE y = x
    <3>1. Mine(x, i)'
      BY <1>2, <2>1, <2>2 DEF Mine, Listed
    <3>2. ~Passed(x, i)'
      BY <2>1, <2>2, <3>1
    <3> QED BY <1>2, <2>1, <2>2, <3>2
  <2>3. CASE y # x
    <3>1. rpc'[y] = rpc[y] /\ ri'[y] = ri[y] /\ op'[y] = op[y]
      BY <2>3 DEF OthersStay
    <3>2. ~Passed(y, i)'
      BY <2>1, <3>1 DEF Passed
    <3> QED BY <1>2, <2>1, <3>2
  <2> QED BY <2>2, <2>3
<1> QED BY <1>1, <1>2

\* Steps that change no entry.
LEMMA ListedQuiet ==
  ASSUME NEW x \in Procs, ListedOK, alive \in SUBSET Procs, alive' = alive, OthersStay(x),
         UNCHANGED <<entry, stolen, erased>>, ~IsWriting(x),
         \A i \in Entries : Passed(x, i)' => Passed(x, i) \/ ~Mine(x, i)
  PROVE  ListedOK'
<1>1. \A i \in Entries : Listed(i)' => Listed(i)
  BY DEF Listed, OthersStay, IsWriting
<1>2. \A i \in Entries : Mine(x, i)' <=> Mine(x, i)
  BY DEF Mine
<1> QED BY <1>1, <1>2, ListedFrame

\* The loop goes on behind an entry that is not x's own.
LEMMA ListedLook ==
  ASSUME NEW x \in Procs, RegType, NextLook(x), op' = op,
         rpc[x] \in {"look", "compare", "free", "sub", "clamp", "ts", "get_uri", "get_owner"},
         rpc[x] \in {"ts", "get_uri", "get_owner"} => op[x].do # "unregister",
         op[x].do = "unregister" /\ rpc[x] \in {"look", "compare", "free"} => ~Mine(x, ri[x])
  PROVE  OthersStay(x) /\ \A i \in Entries : Passed(x, i)' => Passed(x, i) \/ ~Mine(x, i)
<1>1. /\ \A y \in Procs \ {x} : rpc'[y] = rpc[y] /\ ri'[y] = ri[y]
      /\ \/ rpc'[x] = "look" /\ ri'[x] = ri[x] + 1
         \/ /\ rpc'[x] = IF op[x].do = "register" THEN "claim" ELSE "done"
            /\ ri'[x] = 0 /\ \A i \in Entries : i <= ri[x]
  BY NextLookIs
<1>2. OthersStay(x)
  BY <1>1 DEF OthersStay
<1>3. ASSUME NEW i \in Entries, Passed(x, i)' PROVE Passed(x, i) \/ ~Mine(x, i)
  <2>0. i \in Nat /\ ri[x] \in Nat
    BY RegTypes DEF Entries
  <2>1. op[x].do = "unregister" /\ (rpc'[x] = "done" \/ i < ri'[x])
    BY <1>1, <1>3 DEF Passed
  <2>2. i <= ri[x]
    BY <1>1, <2>0, <2>1
  <2>3. i = ri[x] \/ i < ri[x]
    BY <2>0, <2>2
  <2> QED BY <2>0, <2>1, <2>2, <2>3 DEF Passed
<1> QED BY <1>2, <1>3

\* x goes to p0 at the same entry, or is not unregistering.
LEMMA ListedMove ==
  ASSUME NEW x \in Procs, RegType, NEW p0, rpc' = [rpc EXCEPT ![x] = p0], ri' = ri,
         op'[x].do = op[x].do, \A y \in Procs \ {x} : op'[y] = op[y],
         \/ p0 \in Opening \cup {"start", "region", "uri", "ts", "get_uri", "get_region", "get_owner"}
         \/ p0 = "look" /\ ri[x] = 0
         \/ p0 \in {"compare", "free"} /\ rpc[x] \in {"look", "compare", "free"}
         \/ p0 = "clamp" /\ rpc[x] = "sub"
         \/ op[x].do # "unregister"
  PROVE  OthersStay(x) /\ \A i \in Entries : Passed(x, i)' => Passed(x, i)
<1>1. rpc'[x] = p0 /\ \A y \in Procs \ {x} : rpc'[y] = rpc[y]
  BY DEF RegType, RegTypeOK
<1>2. OthersStay(x)
  BY <1>1 DEF OthersStay
<1>3. ASSUME NEW i \in Entries, Passed(x, i)' PROVE Passed(x, i)
  <2>0. i \in Nat /\ ri[x] \in Nat
    BY RegTypes DEF Entries
  <2>1. op[x].do = "unregister"
    BY <1>3 DEF Passed
  <2>2. \/ p0 = "done"
        \/ p0 \in {"look", "compare", "free"} /\ i < ri[x]
        \/ p0 \in {"sub", "clamp"} /\ i <= ri[x]
    BY <1>1, <1>3 DEF Passed
  <2> QED BY <2>0, <2>1, <2>2 DEF Passed, Opening
<1> QED BY <1>2, <1>3

LEMMA ListedStepOK ==
  ASSUME NEW x \in Procs, RegInv, ListedOK, alive \in SUBSET Procs, alive' = alive,
         rpc[x] # "idle" => x \in alive, RegStep(x)
  PROVE  ListedOK' /\ OthersStay(x) /\ op'[x].do = op[x].do /\ rpc[x] # "idle"
<1>0. /\ RegType /\ RegLocal(x) /\ rpc \in [Procs -> RegPC] /\ ri \in [Procs -> Entries]
      /\ op \in [Procs -> Ops] /\ entry \in [Entries -> Fields] /\ ri[x] \in Entries /\ SoleOK
  BY RegParts, RegTypes DEF RegType, RegTypeOK
<1>u. ASSUME UNCHANGED <<entry, op, regHistory>>
      PROVE  UNCHANGED <<entry, op, stolen, erased>>
  BY <1>u DEF regHistory
<1>1. CASE OpenExisting(x)
  <2>1. PICK p0 : p0 \in {"truncate", "magic"} /\ rpc' = [rpc EXCEPT ![x] = p0]
    BY <1>1 DEF OpenExisting, To
  <2>2. ri' = ri /\ UNCHANGED <<entry, op, stolen, erased>> /\ rpc[x] = "open"
    BY <1>1, <1>u DEF OpenExisting, At
  <2>3. OthersStay(x) /\ \A i \in Entries : Passed(x, i)' => Passed(x, i)
    BY <1>0, <2>1, <2>2, ListedMove DEF Opening
  <2> QED BY <2>2, <2>3, ListedQuiet DEF IsWriting, Writing
<1>2. CASE CheckMagic(x)
  <2>1. PICK p0 : p0 \in {"start", "truncate"} /\ rpc' = [rpc EXCEPT ![x] = p0]
    BY <1>2 DEF CheckMagic, To
  <2>2. ri' = ri /\ UNCHANGED <<entry, op, stolen, erased>> /\ rpc[x] = "magic"
    BY <1>2, <1>u DEF CheckMagic, At
  <2>3. OthersStay(x) /\ \A i \in Entries : Passed(x, i)' => Passed(x, i)
    BY <1>0, <2>1, <2>2, ListedMove DEF Opening
  <2> QED BY <2>2, <2>3, ListedQuiet DEF IsWriting, Writing
<1>3. CASE Truncate(x)
  <2>1. rpc' = [rpc EXCEPT ![x] = "len"] /\ ri' = ri /\ op' = op /\ rpc[x] = "truncate"
    BY <1>3 DEF Truncate, To, At
  <2>2. OthersStay(x) /\ \A i \in Entries : Passed(x, i)' => Passed(x, i)
    BY <1>0, <2>1, ListedMove DEF Opening
  <2>3. \A i \in Entries : ~Listed(i)'
    BY <1>3, BlankType DEF Truncate, Listed
  <2> QED BY <2>1, <2>2, <2>3, ListedFrame
<1>4. CASE SetLen(x)
  <2>1. rpc' = [rpc EXCEPT ![x] = "header"]
    BY <1>4 DEF SetLen, To
  <2>2. ri' = ri /\ UNCHANGED <<entry, op, stolen, erased>> /\ rpc[x] = "len"
    BY <1>4, <1>u DEF SetLen, At
  <2>3. OthersStay(x) /\ \A i \in Entries : Passed(x, i)' => Passed(x, i)
    BY <1>0, <2>1, <2>2, ListedMove DEF Opening
  <2> QED BY <2>2, <2>3, ListedQuiet DEF IsWriting, Writing
<1>5. CASE WriteHeader(x)
  <2>1. rpc' = [rpc EXCEPT ![x] = "start"]
    BY <1>5 DEF WriteHeader, To
  <2>2. ri' = ri /\ UNCHANGED <<entry, op, stolen, erased>> /\ rpc[x] = "header"
    BY <1>5, <1>u DEF WriteHeader, At
  <2>3. OthersStay(x) /\ \A i \in Entries : Passed(x, i)' => Passed(x, i)
    BY <1>0, <2>1, <2>2, ListedMove
  <2> QED BY <2>2, <2>3, ListedQuiet DEF IsWriting, Writing
<1>6. CASE Start(x)
  <2>1. PICK p0 : /\ rpc' = [rpc EXCEPT ![x] = p0]
                  /\ p0 = "look" \/ (p0 = "done" /\ op[x].do = "register")
    BY <1>6 DEF Start, To
  <2>2. ri' = ri /\ UNCHANGED <<entry, stolen, erased>> /\ rpc[x] = "start" /\ ri[x] = 0
    BY <1>0, <1>6 DEF Start, At, RegLocal, OpOK
  <2>3. op'[x].do = op[x].do /\ \A y \in Procs \ {x} : op'[y] = op[y]
    BY <1>0, <1>6 DEF Start, Ops
  <2>4. OthersStay(x) /\ \A i \in Entries : Passed(x, i)' => Passed(x, i)
    BY <1>0, <2>1, <2>2, <2>3, ListedMove
  <2> QED BY <2>2, <2>3, <2>4, ListedQuiet DEF IsWriting, Writing
<1>7. CASE LookFree(x)
  <2>1. /\ NextLook(x) /\ UNCHANGED <<entry, op, stolen, erased>> /\ rpc[x] = "look"
        /\ ~Mine(x, ri[x])
    BY <1>7, <1>u DEF LookFree, At, Mine, E
  <2>2. OthersStay(x) /\ \A i \in Entries : Passed(x, i)' => Passed(x, i) \/ ~Mine(x, i)
    BY <1>0, <2>1, ListedLook
  <2> QED BY <2>1, <2>2, ListedQuiet DEF IsWriting, Writing
<1>8. CASE LookActive(x)
  <2>1. PICK p0 : p0 \in {"compare", "ts", "get_uri"} /\ rpc' = [rpc EXCEPT ![x] = p0]
    BY <1>8 DEF LookActive, To
  <2>2. ri' = ri /\ UNCHANGED <<entry, op, stolen, erased>> /\ rpc[x] = "look"
    BY <1>8, <1>u DEF LookActive, At
  <2>3. OthersStay(x) /\ \A i \in Entries : Passed(x, i)' => Passed(x, i)
    BY <1>0, <2>1, <2>2, ListedMove
  <2> QED BY <2>2, <2>3, ListedQuiet DEF IsWriting, Writing
<1>9. CASE Compare(x)
  <2>1. UNCHANGED <<entry, op, stolen, erased>> /\ rpc[x] = "compare"
    BY <1>9, <1>u DEF Compare, At
  <2>2. CASE To(x, IF op[x].do = "register" THEN "touch" ELSE "free") /\ UNCHANGED ri
    <3>1. PICK p0 : /\ rpc' = [rpc EXCEPT ![x] = p0] /\ ri' = ri
                    /\ p0 = "free" \/ (p0 = "touch" /\ op[x].do = "register")
      BY <2>2 DEF To
    <3>2. OthersStay(x) /\ \A i \in Entries : Passed(x, i)' => Passed(x, i)
      BY <1>0, <2>1, <3>1, ListedMove
    <3> QED BY <2>1, <3>2, ListedQuiet DEF IsWriting, Writing
  <2>3. CASE ~Same(x) /\ NextLook(x)
    <3>1. op[x].do = "unregister" => ~Mine(x, ri[x])
      BY <1>0, <2>3 DEF Same, Mine, E, RegLocal, OpOK
    <3>2. OthersStay(x) /\ \A i \in Entries : Passed(x, i)' => Passed(x, i) \/ ~Mine(x, i)
      BY <1>0, <2>1, <2>3, <3>1, ListedLook
    <3> QED BY <2>1, <3>2, ListedQuiet DEF IsWriting, Writing
  <2> QED BY <1>9, <2>2, <2>3 DEF Compare
<1>10. CASE ClaimTaken(x)
  <2>1. /\ UNCHANGED <<entry, op, stolen, erased>> /\ rpc[x] = "claim" /\ op[x].do = "register"
    BY <1>0, <1>10, <1>u DEF ClaimTaken, At, RegLocal, OpOK
  <2>2. OthersStay(x)
    BY <1>0, <1>10, <2>1 DEF ClaimTaken, NextEntry, To, OthersStay
  <2>3. \A i \in Entries : ~Passed(x, i)'
    BY <2>1 DEF Passed
  <2> QED BY <2>1, <2>2, <2>3, ListedQuiet DEF IsWriting, Writing
<1>11. CASE Add(x)
  <2>1. /\ UNCHANGED <<entry, op, stolen, erased>> /\ rpc[x] = "add" /\ op[x].do = "register"
    BY <1>0, <1>11, <1>u DEF Add, At, RegLocal, OpOK
  <2>2. OthersStay(x)
    BY <1>0, <1>11, <2>1 DEF Add, To, OthersStay
  <2>3. \A i \in Entries : ~Passed(x, i)'
    BY <2>1 DEF Passed
  <2> QED BY <2>1, <2>2, <2>3, ListedQuiet DEF IsWriting, Writing
<1>12. CASE ReadTs(x) \/ GetUri(x) \/ GetRegion(x) \/ GetOwner(x)
  <2>1. UNCHANGED <<entry, op, stolen, erased>>
    BY <1>12, <1>u DEF ReadTs, GetUri, GetRegion, GetOwner
  <2>2. rpc[x] \in {"ts", "get_uri", "get_region", "get_owner"} /\ op[x].do # "unregister"
    BY <1>0, <1>12 DEF ReadTs, GetUri, GetRegion, GetOwner, At, RegLocal, OpOK
  <2>3. OthersStay(x)
    BY <1>0, <1>12, <2>1 DEF ReadTs, GetUri, GetRegion, GetOwner, NextLook, NextEntry, To, OthersStay
  <2>4. \A i \in Entries : ~Passed(x, i)'
    BY <2>1, <2>2 DEF Passed
  <2> QED BY <2>1, <2>2, <2>3, <2>4, ListedQuiet DEF IsWriting, Writing
<1>13. CASE FreeLost(x)
  <2>1. /\ NextLook(x) /\ UNCHANGED <<entry, op, stolen, erased>> /\ rpc[x] = "free"
        /\ ~Mine(x, ri[x])
    BY <1>13, <1>u DEF FreeLost, At, Mine, E
  <2>2. OthersStay(x) /\ \A i \in Entries : Passed(x, i)' => Passed(x, i) \/ ~Mine(x, i)
    BY <1>0, <2>1, ListedLook
  <2> QED BY <2>1, <2>2, ListedQuiet DEF IsWriting, Writing
<1>14. CASE Sub(x) \/ Clamp(x)
  <2>1. UNCHANGED <<entry, op, stolen, erased>> /\ rpc[x] \in {"sub", "clamp"}
    BY <1>14, <1>u DEF Sub, Clamp, At
  <2>2. CASE NextLook(x)
    <3>1. OthersStay(x) /\ \A i \in Entries : Passed(x, i)' => Passed(x, i) \/ ~Mine(x, i)
      BY <1>0, <2>1, <2>2, ListedLook
    <3> QED BY <2>1, <3>1, ListedQuiet DEF IsWriting, Writing
  <2>3. CASE ~NextLook(x)
    <3>1. rpc' = [rpc EXCEPT ![x] = "clamp"] /\ ri' = ri /\ rpc[x] = "sub"
      BY <1>14, <2>3 DEF Sub, Clamp, To, At
    <3>2. OthersStay(x) /\ \A i \in Entries : Passed(x, i)' => Passed(x, i)
      BY <1>0, <2>1, <3>1, ListedMove
    <3> QED BY <2>1, <3>2, ListedQuiet DEF IsWriting, Writing
  <2> QED BY <2>2, <2>3
<1>15. CASE Touch(x)
  <2>1. op' = op /\ rpc[x] = "touch" /\ op[x].do = "register" /\ UNCHANGED <<stolen, erased>>
    BY <1>0, <1>15 DEF Touch, At, RegLocal, OpOK
  <2>2. OthersStay(x)
    BY <1>0, <1>15, <2>1 DEF Touch, To, OthersStay
  <2>3. \A i \in Entries : ~Passed(x, i)'
    BY <2>1 DEF Passed
  <2>4. \A i \in Entries : /\ entry'[i].active = entry[i].active
                           /\ entry'[i].region = entry[i].region /\ entry'[i].pid = entry[i].pid
    BY <1>0, <1>15 DEF Touch, Fields
  <2>5. \A y \in Procs : IsWriting(y) => IsWriting(y)' /\ ri'[y] = ri[y]
    BY <2>1, <2>2 DEF OthersStay, IsWriting, Writing
  <2>6. \A i \in Entries : Listed(i)' => Listed(i)
    BY <2>1, <2>4, <2>5 DEF Listed
  <2> QED BY <2>1, <2>2, <2>3, <2>4, <2>6, ListedFrame
<1>16. CASE Claim(x)
  <2>1. op' = op /\ rpc[x] = "claim" /\ op[x].do = "register" /\ UNCHANGED <<stolen, erased, ri>>
    BY <1>0, <1>16 DEF Claim, At, RegLocal, OpOK
  <2>2. OthersStay(x) /\ rpc'[x] = "owner"
    BY <1>0, <1>16, <2>1 DEF Claim, To, OthersStay
  <2>3. \A i \in Entries : ~Passed(x, i)'
    BY <2>1 DEF Passed
  <2>4. \A i \in Entries \ {ri[x]} : entry'[i] = entry[i]
    BY <1>0, <1>16 DEF Claim
  <2>5. ~Listed(ri[x])'
    BY <2>1, <2>2 DEF Listed, IsWriting, Writing
  <2>6. \A y \in Procs : IsWriting(y) => IsWriting(y)'
    BY <2>1, <2>2 DEF OthersStay, IsWriting, Writing
  <2>7. \A i \in Entries : Listed(i)' => Listed(i) /\ i # ri[x]
    BY <2>1, <2>4, <2>5, <2>6 DEF Listed
  <2>8. \A i \in Entries : Listed(i)' =>
          Listed(i) /\ entry'[i].region = entry[i].region /\ entry'[i].pid = entry[i].pid
    BY <2>4, <2>7
  <2> QED BY <2>1, <2>2, <2>3, <2>8, ListedFrame
<1>17. CASE WriteField(x)
  <2>1. op' = op /\ rpc[x] \in Writing /\ op[x].do = "register" /\ UNCHANGED <<stolen, erased, ri>>
    BY <1>0, <1>17 DEF WriteField, IsWriting, RegLocal, OpOK, regHistory
  <2>2. OthersStay(x) /\ (rpc[x] # "uri" => rpc'[x] \in Writing)
    BY <1>0, <1>17, <2>1 DEF WriteField, To, OthersStay, At, Writing
  <2>3. \A i \in Entries : ~Passed(x, i)'
    BY <2>1 DEF Passed
  <2>4. \A i \in Entries \ {ri[x]} : entry'[i] = entry[i]
    BY <1>0, <1>17 DEF WriteField
  <2>5. ASSUME NEW i \in Entries, i # ri[x], Listed(i)'
        PROVE  Listed(i) /\ entry'[i].region = entry[i].region /\ entry'[i].pid = entry[i].pid
    <3>1. entry'[i] = entry[i]
      BY <2>4, <2>5
    <3>2. \A y \in Procs : ri[y] = i => ~IsWriting(y)
      BY <2>1, <2>2, <2>5 DEF Listed, OthersStay, IsWriting
    <3> QED BY <2>1, <2>5, <3>1, <3>2 DEF Listed
  <2>6. ASSUME Listed(ri[x])' PROVE Mine(x, ri[x])' /\ x \in alive
    <3>1. rpc[x] = "uri"
      BY <2>1, <2>2, <2>6 DEF Listed, IsWriting
    <3>2. ~erased /\ ri[x] \notin stolen
      BY <2>1, <2>6 DEF Listed
    <3>3. entry[ri[x]].pid = Pid[x] /\ entry[ri[x]].region = RegionOf[x] /\ entry[ri[x]].active
      BY <1>0, <3>1, <3>2 DEF RegLocal, StageOK, SoleOK, IsAdding, IsWriting, Writing, At, E
    <3>4. entry' = [entry EXCEPT ![ri[x]] = [@ EXCEPT !.uri = Copied(E(x).uri, op[x].uri)]]
      BY <1>17, <3>1 DEF WriteField, At
    <3>5. /\ entry'[ri[x]].pid = entry[ri[x]].pid /\ entry'[ri[x]].region = entry[ri[x]].region
          /\ entry'[ri[x]].active = entry[ri[x]].active
      BY <1>0, <3>4 DEF Fields
    <3>6. x \in alive
      BY <3>1
    <3> QED BY <2>1, <3>3, <3>5, <3>6 DEF Mine
  <2>7. PICK i0 \in Entries : i0 = ri[x]
    BY <1>0
  <2>8. Listed(i0)' => Mine(x, i0)' /\ x \in alive
    BY <2>1, <2>6, <2>7 DEF Listed, Mine
  <2>9. \A i \in Entries : Listed(i)' =>
          \/ Listed(i) /\ entry'[i].region = entry[i].region /\ entry'[i].pid = entry[i].pid
          \/ Mine(x, i)' /\ x \in alive /\ ~Passed(x, i)'
    BY <2>3, <2>5, <2>7, <2>8
  <2> QED BY <2>1, <2>2, <2>3, <2>9, ListedFrame DEF Writing
<1>18. CASE Free(x)
  <2>1. op' = op /\ rpc[x] = "free" /\ UNCHANGED <<erased, ri>> /\ stolen \subseteq stolen'
    BY <1>0, <1>18 DEF Free, Freed, At
  <2>2. OthersStay(x) /\ rpc'[x] = "sub"
    BY <1>0, <1>18, <2>1 DEF Free, Freed, To, OthersStay
  <2>3. \A i \in Entries \ {ri[x]} : entry'[i] = entry[i]
    BY <1>0, <1>18 DEF Free, Freed
  <2>4. ~entry'[ri[x]].active
    BY <1>0, <1>18 DEF Free, Freed, Fields
  <2>5. PICK i0 \in Entries : i0 = ri[x]
    BY <1>0
  <2>6. ~Listed(i0)' /\ ~Mine(x, i0)'
    BY <2>4, <2>5 DEF Listed, Mine
  <2>7. ASSUME NEW i \in Entries, Listed(i)'
        PROVE  Listed(i) /\ entry'[i].region = entry[i].region /\ entry'[i].pid = entry[i].pid
    <3>1. i # ri[x] /\ entry'[i] = entry[i]
      BY <2>3, <2>5, <2>6, <2>7
    <3>2. \A y \in Procs : ri[y] = i => ~IsWriting(y)
      BY <2>1, <2>2, <2>7 DEF Listed, OthersStay, IsWriting, Writing
    <3> QED BY <2>1, <2>7, <3>1, <3>2 DEF Listed
  <2>8. ASSUME NEW i \in Entries, Passed(x, i)' PROVE Passed(x, i) \/ ~Mine(x, i)'
    <3>1. i \in Nat /\ ri[x] \in Nat
      BY <1>0 DEF Entries
    <3>2. op[x].do = "unregister" /\ i <= ri[x]
      BY <2>1, <2>2, <2>8 DEF Passed
    <3>3. i = i0 \/ i < ri[x]
      BY <2>5, <3>1, <3>2
    <3> QED BY <2>1, <2>6, <3>2, <3>3 DEF Passed
  <2> QED BY <2>1, <2>2, <2>7, <2>8, ListedFrame
<1> QED BY <1>1, <1>2, <1>3, <1>4, <1>5, <1>6, <1>7, <1>8, <1>9, <1>10, <1>11, <1>12, <1>13, <1>14,
           <1>15, <1>16, <1>17, <1>18 DEF RegStep

\* An operation begins, follows another, or ends other than unregister.
LEMMA ListedTurnOK ==
  ASSUME NEW x \in Procs, RegInv, ListedOK, alive \in SUBSET Procs, alive' = alive,
         NEW p0 \in {"open", "start", "idle"}, rpc' = [rpc EXCEPT ![x] = p0],
         \A y \in Procs \ {x} : op'[y] = op[y], rpc[x] \in {"idle", "done"},
         UNCHANGED <<entry, ri, stolen, erased>>
  PROVE  ListedOK'
<1>1. rpc'[x] = p0 /\ \A y \in Procs \ {x} : rpc'[y] = rpc[y]
  BY DEF RegInv, RegType, RegTypeOK
<1>2. OthersStay(x)
  BY <1>1 DEF OthersStay
<1>3. \A i \in Entries : ~Passed(x, i)'
  BY <1>1 DEF Passed
<1>4. ~IsWriting(x)
  BY DEF IsWriting, Writing
<1> QED BY <1>2, <1>3, <1>4, ListedQuiet

\* A publisher that has unregistered all its entries goes.
LEMMA ListedDropOK ==
  ASSUME NEW x \in Procs, RegInv, ListedOK, alive \in SUBSET Procs, alive' = alive \ {x},
         rpc[x] = "done", op[x].do = "unregister",
         rpc' = [rpc EXCEPT ![x] = "idle"], \A y \in Procs \ {x} : op'[y] = op[y],
         UNCHANGED <<entry, ri, stolen, erased>>
  PROVE  ListedOK'
<1>1. rpc'[x] = "idle" /\ \A y \in Procs \ {x} : rpc'[y] = rpc[y]
  BY DEF RegInv, RegType, RegTypeOK
<1> SUFFICES ASSUME NEW i \in Entries, NEW z \in alive', Listed(i)', entry'[i].pid = Pid[z]
             PROVE  \E y \in alive' : /\ Pid[y] = Pid[z] /\ RegionOf[y] = entry'[i].region
                                      /\ ~Passed(y, i)'
  BY DEF ListedOK
<1>2. Listed(i)
  BY <1>1 DEF Listed, IsWriting, Writing
<1>3. PICK y \in alive : Pid[y] = Pid[z] /\ RegionOf[y] = entry[i].region /\ ~Passed(y, i)
  BY <1>2 DEF ListedOK
<1>4. y # x
  BY <1>3 DEF Passed
<1>5. ~Passed(y, i)'
  BY <1>1, <1>3, <1>4 DEF Passed
<1> QED BY <1>3, <1>4, <1>5

\* All of a process die.
LEMMA ListedGoneOK ==
  ASSUME NEW x \in Procs, NEW xs, xs = {y \in Procs : Pid[y] = Pid[x]},
         ListedOK, alive \in SUBSET Procs, alive' = alive \ xs, RegGone(xs)
  PROVE  ListedOK'
<1>1. /\ \A y \in Procs \ xs : rpc'[y] = rpc[y] /\ ri'[y] = ri[y] /\ op'[y] = op[y]
      /\ UNCHANGED <<entry, erased>>
  BY DEF RegGone
<1>2. stolen \subseteq stolen' /\ \A y \in xs : IsAdding(y) => ri[y] \in stolen'
  BY DEF RegGone
<1> SUFFICES ASSUME NEW i \in Entries, NEW z \in alive', Listed(i)', entry'[i].pid = Pid[z]
             PROVE  \E y \in alive' : /\ Pid[y] = Pid[z] /\ RegionOf[y] = entry'[i].region
                                      /\ ~Passed(y, i)'
  BY DEF ListedOK
<1>3. Listed(i)
  <2>1. ASSUME NEW y \in Procs, ri[y] = i PROVE ~IsWriting(y)
    <3>1. CASE y \in xs
      BY <1>2, <2>1, <3>1 DEF Listed, IsAdding
    <3>2. CASE y \notin xs
      BY <1>1, <2>1, <3>2 DEF Listed, IsWriting
    <3> QED BY <3>1, <3>2
  <2> QED BY <1>1, <1>2, <2>1 DEF Listed
<1>4. PICK y \in alive : Pid[y] = Pid[z] /\ RegionOf[y] = entry[i].region /\ ~Passed(y, i)
  BY <1>1, <1>3 DEF ListedOK
<1>5. y \notin xs
  BY <1>4
<1>6. ~Passed(y, i)'
  BY <1>1, <1>4, <1>5 DEF Passed
<1> QED BY <1>1, <1>4, <1>5, <1>6

(***************************************************************************)
(* The inductive invariant holds                                           *)
(***************************************************************************)
LEMMA SlotsKept ==
  ASSUME UNCHANGED slot
  PROVE  TopicsKept
BY DEF TopicsKept, Topic

LEMMA StepsKeepTopics ==
  ASSUME NEW x \in Procs, TableInv, TableStepOf(x)
  PROVE  TopicsKept
BY TopicStays DEF TopicsKept, TableInv

LEMMA TableStutterOK ==
  ASSUME TableInv, UNCHANGED <<slot, counted, tpc, ti, uri, where, handles, stream, seen>>
  PROVE  TableInv'
<1>1. TableTypeOK' /\ ActiveOK'
  BY DEF TableInv, TableTypeOK, ActiveOK
<1>2. OwnSlot' /\ StreamsCounted' /\ HandleResolves'
  BY DEF TableInv, OwnSlot, StreamsCounted, Streams, HandleResolves
<1>3. \A x \in Procs : CallOK(x)' /\ SeenOK(x)'
  BY DEF TableInv, CallOK, SeenOK, Table
<1> QED BY <1>1, <1>2, <1>3 DEF TableInv

LEMMA RegStutterOK ==
  ASSUME RegInv, TopicsKept,
         UNCHANGED <<file, entry, count, clock, rpc, ri, op, read, found, due, uses, stolen, skewed, erased>>
  PROVE  RegInv'
<1>0. RegType /\ FileOK /\ SoleOK /\ WholeOK /\ CountAgrees /\ \A y \in Procs : RegLocal(y)
  BY RegParts
<1>1. RegType'
  BY <1>0 DEF RegType, RegTypeOK
<1>2. ASSUME NEW y \in Procs PROVE RegLocal(y)'
  <2>0. RegLocal(y) /\ op[y] \in Ops /\ RegionOf[y] \in Regions
    BY <1>0, RegTypes
  <2>1. OpOK(y)'
    <3>1. op[y].do = "register" => Topic(RegionOf[y], op[y].uri)'
      BY <2>0 DEF RegLocal, OpOK, TopicsKept
    <3> QED BY <2>0, <3>1 DEF RegLocal, OpOK
  <2>2. StageOK(y)' /\ ReadOK(y)' /\ DueOK(y)'
    BY <2>0 DEF RegLocal, StageOK, ReadOK, DueOK, IsAdding, IsWriting, At, E, First
  <2>3. FoundOK(y)'
    BY <1>0, <2>0, FoundStays DEF RegLocal, First
  <2> QED BY <2>1, <2>2, <2>3 DEF RegLocal
<1>3. WholeOK'
  BY <1>0, WholeStays
<1>4. FileOK' /\ SoleOK' /\ CountAgrees'
  BY <1>0 DEF FileOK, SoleOK, CountAgrees, Active, Adding, Subtracting, IsAdding,
              IsSubtracting, IsWriting, At
<1> QED BY <1>1, <1>2, <1>3, <1>4 DEF RegInv, RegLocal

\* A call of the registry begins.
LEMMA CallRegistry ==
  ASSUME NEW x \in Procs, RegInv, ListedOK, TopicsKept, alive \in SUBSET Procs, alive' = alive,
         NEW o \in Ops, OpenCall(x, o), OpFits(x, o),
         o.do = "register" => Topic(RegionOf[x], o.uri)'
  PROVE  /\ RegInv' /\ ListedOK' /\ OthersStay(x)
         /\ rpc[x] = "idle" /\ rpc'[x] = "open" /\ op'[x] = o
<1>1. /\ rpc[x] = "idle" /\ rpc' = [rpc EXCEPT ![x] = "open"] /\ op' = [op EXCEPT ![x] = o]
      /\ UNCHANGED <<file, entry, count, clock, ri, read, found, due, uses, stolen, skewed, erased>>
  BY DEF OpenCall, To, At, regHistory
<1>2. RegType /\ RegLocal(x)
  BY RegParts
<1>3. due[x] = {}
  BY <1>1, <1>2 DEF RegLocal, OpOK, DueOK
<1>4. o.do # "none"
  BY DEF OpFits
<1>5. /\ found' \in [Procs -> SUBSET [at : Entries, got : Fields]] /\ due' \in [Procs -> SUBSET Entries]
      /\ \A y \in Procs : found'[y] = found[y] /\ due'[y] = due[y]
  BY <1>1, <1>2 DEF RegType, RegTypeOK
<1>6. RegInv'
  BY <1>1, <1>3, <1>4, <1>5, TurnOK
<1>7. /\ rpc'[x] = "open" /\ op'[x] = o
      /\ \A y \in Procs \ {x} : rpc'[y] = rpc[y] /\ op'[y] = op[y]
  BY <1>1, <1>2 DEF RegType, RegTypeOK
<1>8. ListedOK'
  BY <1>1, <1>7, ListedTurnOK
<1> QED BY <1>1, <1>6, <1>7, <1>8 DEF OthersStay

\* It returns.
LEMMA CloseOK ==
  ASSUME NEW x \in Procs, RegInv, TopicsKept, Close(x)
  PROVE  /\ RegInv' /\ rpc[x] = "done" /\ rpc'[x] = "idle" /\ rpc' = [rpc EXCEPT ![x] = "idle"]
         /\ OthersStay(x) /\ UNCHANGED <<entry, ri, stolen, erased>>
<1>1. /\ rpc[x] = "done" /\ rpc' = [rpc EXCEPT ![x] = "idle"] /\ op' = [op EXCEPT ![x] = NoOp]
      /\ found' = [found EXCEPT ![x] = {}] /\ due' = [due EXCEPT ![x] = {}]
      /\ UNCHANGED <<file, entry, count, clock, ri, read, uses, stolen, skewed, erased>>
  BY DEF Close, To, At
<1>2. RegType
  BY RegParts
<1>3. NoOp \in Ops /\ NoOp.do = "none"
  BY DEF NoOp, Ops
<1>4. /\ found' \in [Procs -> SUBSET [at : Entries, got : Fields]] /\ due' \in [Procs -> SUBSET Entries]
      /\ found'[x] = {} /\ due'[x] = {}
      /\ \A y \in Procs \ {x} : found'[y] = found[y] /\ due'[y] = due[y]
  BY <1>1, <1>2 DEF RegType, RegTypeOK
<1>5. RegInv'
  <2>1. PICK o0 \in Ops : o0 = NoOp
    BY <1>3
  <2> QED BY <1>1, <1>3, <1>4, <2>1, TurnOK
<1>6. rpc'[x] = "idle" /\ \A y \in Procs \ {x} : rpc'[y] = rpc[y] /\ op'[y] = op[y]
  BY <1>1, <1>2 DEF RegType, RegTypeOK
<1> QED BY <1>1, <1>5, <1>6 DEF OthersStay

\* What the script says next.
LEMMA JobOK ==
  ASSUME NEW x \in Procs, script \in [Procs -> Seq(Jobs)], script[x] # <<>>
  PROVE  /\ Job(x) \in Jobs
         /\ Advance(x) => script' \in [Procs -> Seq(Jobs)]
<1>1. script[x] \in Seq(Jobs)
  OBVIOUS
<1>2. Job(x) \in Jobs
  BY <1>1 DEF Job
<1>3. Tail(script[x]) \in Seq(Jobs)
  BY <1>1
<1> QED BY <1>2, <1>3 DEF Advance

LEMMA JobArgs ==
  ASSUME NEW j \in Jobs
  PROVE  /\ j.do = "register" => j.uri \in Uris
         /\ j.do = "find" => j.match \in SUBSET (Uris \cup {NoUri})
         /\ j.do = "since" => j.match \in SUBSET (Uris \cup {NoUri}) /\ j.time \in Nat
BY DEF Jobs

LEMMA OpType ==
  ASSUME NEW do \in {"register", "unregister", "prune", "discover", "since"},
         NEW r \in Regions \cup {NoRegion}, NEW u \in Uris \cup {NoUri}, NEW t \in Nat,
         NEW m \in SUBSET (Uris \cup {NoUri})
  PROVE  /\ Op(do, r, u, t, m) \in Ops
         /\ Op(do, r, u, t, m).do = do /\ Op(do, r, u, t, m).region = r
         /\ Op(do, r, u, t, m).uri = u
BY DEF Op, Ops

\* Of the others, nothing that PartyOK depends on changes.
LEMMA OthersParty ==
  ASSUME NEW x \in Procs, \A y \in Procs : PartyOK(y), OthersStay(x),
         \A y \in Procs \ {x} : tpc'[y] = tpc[y] /\ (y \in alive <=> y \in alive'),
         PartyOK(x)'
  PROVE  \A y \in Procs : PartyOK(y)'
BY DEF PartyOK, OthersStay

LEMMA InitOK == Init => DirInv
<1> SUFFICES ASSUME Init PROVE DirInv
  OBVIOUS
<1>1. PICK s0 \in Scripts : TableInit(s0.first) /\ file = s0.file /\ script = s0.does
  BY DEF Init
<1>2. /\ s0.first \in [Regions -> Uris \cup {NoUri}] /\ file \in {"absent", "ready"}
      /\ script \in [Procs -> Seq(Jobs)]
  BY <1>1, DirectoryAssumption
<1>3. TableInv
  BY <1>1, <1>2, TableInitOK
<1>4. RegInv
  BY <1>2, RegInitOK DEF Init
<1>5. ListedOK
  BY BlankType DEF Init, RegInit, ListedOK, Listed
<1>6. \A x \in Procs : PartyOK(x)
  BY <1>1 DEF Init, RegInit, TableInit, PartyOK
<1>7. alive \in SUBSET Procs
  BY DEF Init
<1> QED BY <1>2, <1>3, <1>4, <1>5, <1>6, <1>7 DEF DirInv

\* A step of a call in the topic table.
LEMMA TableOnlyOK ==
  ASSUME NEW x \in Procs, DirInv, TableStep(x), UNCHANGED <<regVars, script, alive>>
  PROVE  DirInv'
<1>1. TableInv' /\ TableStepOf(x)
  BY TableStepOK DEF DirInv
<1>2. TopicsKept
  BY <1>1, StepsKeepTopics DEF DirInv
<1>3. UNCHANGED <<file, entry, count, clock, rpc, ri, op, read, found, due, uses, stolen, skewed, erased>>
  BY DEF regVars, regLocal, regHistory
<1>4. RegInv'
  BY <1>2, <1>3, RegStutterOK DEF DirInv
<1>5. ListedOK'
  BY <1>3 DEF DirInv, ListedOK, Listed, Passed, IsWriting
<1>6. tpc[x] \notin {"idle", "registry"}
  BY DEF TableStep, ScanMatch, ScanNext, ClaimSlot, ClaimNext, MaxTopicsReached, WriteTopic,
         FindMatch, FindNext, TopicNotFound, CountIn
<1>7. tpc'[x] # "registry"
  BY DEF TableStep, ScanMatch, ScanNext, ClaimSlot, ClaimNext, MaxTopicsReached, WriteTopic,
         FindMatch, FindNext, TopicNotFound, CountIn, Finish, Go, DirInv, TableInv, TableTypeOK
<1>8. PartyOK(x)'
  BY <1>3, <1>6, <1>7 DEF DirInv, PartyOK
<1>9. OthersStay(x) /\ \A y \in Procs \ {x} : tpc'[y] = tpc[y]
  BY <1>1, <1>3 DEF OthersStay, TableStepOf
<1>10. \A y \in Procs : PartyOK(y)'
  BY <1>8, <1>9, OthersParty DEF DirInv
<1> QED BY <1>1, <1>4, <1>5, <1>10 DEF DirInv

\* A step of an operation of the registry.
LEMMA RegOnlyOK ==
  ASSUME NEW x \in Procs, DirInv, RegStep(x), UNCHANGED <<tableVars, script, alive>>
  PROVE  DirInv'
<1>1. UNCHANGED <<slot, counted, tpc, ti, uri, where, handles, stream, seen>>
  BY DEF tableVars
<1>2. TableInv'
  BY <1>1, TableStutterOK DEF DirInv
<1>3. RegInv'
  BY <1>1, SlotsKept, RegStepOK DEF DirInv
<1>4. ListedOK' /\ OthersStay(x) /\ op'[x].do = op[x].do /\ rpc[x] # "idle"
  BY ListedStepOK DEF DirInv, PartyOK
<1>5. PartyOK(x)'
  BY <1>1, <1>4 DEF DirInv, PartyOK
<1>6. \A y \in Procs : PartyOK(y)'
  BY <1>1, <1>4, <1>5, OthersParty DEF DirInv
<1> QED BY <1>2, <1>3, <1>4, <1>6 DEF DirInv

LEMMA RegisterCallOK ==
  ASSUME NEW x \in Procs, DirInv, Register(x)
  PROVE  DirInv'
<1>0. Idle(x) /\ script[x] # <<>> /\ Job(x).do = "register" /\ Advance(x)
  BY DEF Register, Todo, Job
<1>1. Job(x).uri \in Uris /\ script' \in [Procs -> Seq(Jobs)]
  BY <1>0, JobOK, JobArgs DEF DirInv
<1>2. RegionOf[x] \in Regions
  BY TableAssumption
<1>3. Begin(x, RegionOf[x], Job(x).uri, "scan")
  BY DEF Register, RegisterCall
<1>4. TableInv' /\ TableStepOf(x)
  <2>1. PICK u0 \in Uris : u0 = Job(x).uri
    BY <1>1
  <2> QED BY <1>2, <1>3, <2>1, BeginOK DEF DirInv
<1>5. TopicsKept
  BY <1>4, StepsKeepTopics DEF DirInv
<1>6. UNCHANGED <<file, entry, count, clock, rpc, ri, op, read, found, due, uses, stolen, skewed, erased>>
  BY DEF Register, regVars, regLocal, regHistory
<1>7. RegInv'
  BY <1>5, <1>6, RegStutterOK DEF DirInv
<1>8. alive' = alive
  BY DEF Register
<1>9. ListedOK'
  BY <1>6, <1>8 DEF DirInv, ListedOK, Listed, Passed, IsWriting
<1>10. tpc'[x] = "scan"
  BY <1>3 DEF Begin, Go, DirInv, TableInv, TableTypeOK
<1>11. PartyOK(x)'
  BY <1>0, <1>6, <1>8, <1>10 DEF Idle, PartyOK
<1>12. OthersStay(x) /\ \A y \in Procs \ {x} : tpc'[y] = tpc[y]
  BY <1>4, <1>6 DEF OthersStay, TableStepOf
<1>13. \A y \in Procs : PartyOK(y)'
  BY <1>8, <1>11, <1>12, OthersParty DEF DirInv
<1> QED BY <1>1, <1>4, <1>7, <1>8, <1>9, <1>13 DEF DirInv

LEMMA PublicizeOK ==
  ASSUME NEW x \in Procs, DirInv, Publicize(x)
  PROVE  DirInv'
<1>1. TableInv' /\ TableStepOf(x) /\ Topic(RegionOf[x], uri[x])' /\ uri[x] \in Uris
  BY ActivateOK DEF Publicize, DirInv
<1>2. TopicsKept
  BY <1>1, StepsKeepTopics DEF DirInv
<1>3. tpc[x] = "activate" /\ where[x] = RegionOf[x] /\ RegionOf[x] \in Regions
  BY TableTypes DEF Publicize, Activate, DirInv, CallsOK, CallOK
<1>4. PICK o0 : o0 = Op("register", where[x], uri[x], 0, {})
  OBVIOUS
<1>5. o0 \in Ops /\ OpFits(x, o0) /\ o0.do = "register" /\ o0.uri = uri[x]
  BY <1>1, <1>3, <1>4, OpType DEF OpFits
<1>6. Topic(RegionOf[x], o0.uri)'
  BY <1>1, <1>5 DEF Publicize, Activate
<1>7. alive' = alive /\ script' = script /\ OpenCall(x, o0)
  BY <1>4 DEF Publicize
<1>8. /\ RegInv' /\ ListedOK' /\ OthersStay(x)
      /\ rpc[x] = "idle" /\ rpc'[x] = "open" /\ op'[x] = o0
  BY <1>2, <1>5, <1>6, <1>7, CallRegistry DEF DirInv
<1>9. PartyOK(x)'
  BY <1>3, <1>5, <1>7, <1>8 DEF DirInv, PartyOK, Publicize, Activate, Go, TableInv, TableTypeOK
<1>10. \A y \in Procs \ {x} : tpc'[y] = tpc[y]
  BY <1>1 DEF TableStepOf
<1>11. \A y \in Procs : PartyOK(y)'
  BY <1>7, <1>8, <1>9, <1>10, OthersParty DEF DirInv
<1> QED BY <1>1, <1>7, <1>8, <1>11 DEF DirInv

LEMMA RegisteredOK ==
  ASSUME NEW x \in Procs, DirInv, Registered(x)
  PROVE  DirInv'
<1>1. TableInv' /\ TableStepOf(x)
  BY RegisterReturnOK DEF Registered, DirInv
<1>2. TopicsKept
  BY <1>1, StepsKeepTopics DEF DirInv
<1>3. /\ RegInv' /\ rpc[x] = "done" /\ rpc'[x] = "idle" /\ rpc' = [rpc EXCEPT ![x] = "idle"]
      /\ OthersStay(x) /\ UNCHANGED <<entry, ri, stolen, erased>>
  BY <1>2, CloseOK DEF Registered, DirInv
<1>4. alive' = alive /\ script' = script
  BY DEF Registered
<1>5. ListedOK'
  BY <1>3, <1>4, ListedTurnOK DEF DirInv, OthersStay
<1>6. tpc'[x] = "idle" /\ \A y \in Procs \ {x} : tpc'[y] = tpc[y]
  BY <1>1 DEF Registered, RegisterReturn, Finish, Go, TableStepOf, DirInv, TableInv, TableTypeOK
<1>7. PartyOK(x)'
  BY <1>3, <1>6 DEF PartyOK
<1>8. \A y \in Procs : PartyOK(y)'
  BY <1>3, <1>4, <1>6, <1>7, OthersParty DEF DirInv
<1> QED BY <1>1, <1>3, <1>4, <1>5, <1>8 DEF DirInv

\* The program calls the registry.
LEMMA CallOnlyOK ==
  ASSUME NEW x \in Procs, DirInv, Idle(x), script[x] # <<>>, Advance(x), NEW o \in Ops,
         OpenCall(x, o), OpFits(x, o), o.do = "register" => Topic(RegionOf[x], o.uri),
         UNCHANGED <<tableVars, alive>>
  PROVE  DirInv'
<1>1. UNCHANGED <<slot, counted, tpc, ti, uri, where, handles, stream, seen>> /\ alive' = alive
  BY DEF tableVars
<1>2. TableInv' /\ TopicsKept
  BY <1>1, TableStutterOK, SlotsKept DEF DirInv
<1>3. o.do = "register" => Topic(RegionOf[x], o.uri)'
  BY <1>1 DEF Topic
<1>4. /\ RegInv' /\ ListedOK' /\ OthersStay(x)
      /\ rpc[x] = "idle" /\ rpc'[x] = "open" /\ op'[x] = o
  BY <1>1, <1>2, <1>3, CallRegistry DEF DirInv
<1>5. PartyOK(x)'
  BY <1>1 DEF Idle, PartyOK
<1>6. \A y \in Procs : PartyOK(y)'
  BY <1>1, <1>4, <1>5, OthersParty DEF DirInv
<1>7. script' \in [Procs -> Seq(Jobs)]
  BY JobOK DEF DirInv
<1> QED BY <1>1, <1>2, <1>4, <1>6, <1>7 DEF DirInv

LEMMA CallsOfRegistryOK ==
  ASSUME NEW x \in Procs, DirInv, Refresh(x) \/ Drop(x) \/ Find(x) \/ FindSince(x)
  PROVE  DirInv'
<1>0. /\ Idle(x) /\ script[x] # <<>> /\ Advance(x) /\ UNCHANGED <<tableVars, alive>>
      /\ RegionOf[x] \in Regions /\ Job(x) \in Jobs
  BY JobOK, TableAssumption DEF Refresh, Drop, Find, FindSince, Todo, DirInv
<1>1. CASE Refresh(x)
  <2>1. PICK h \in handles[x] : h.uri = Job(x).uri
    BY <1>1 DEF Refresh
  <2>2. h.uri \in Uris /\ h.at \in Slots
    BY TableTypes DEF DirInv
  <2>3. Topic(RegionOf[x], h.uri)
    BY <2>2 DEF Topic, DirInv, TableInv, HandleResolves
  <2>4. PICK o0 : o0 = Op("register", RegionOf[x], h.uri, 0, {})
    OBVIOUS
  <2>5. o0 \in Ops /\ OpFits(x, o0) /\ o0.do = "register" /\ o0.uri = h.uri
    BY <1>0, <2>2, <2>4, OpType DEF OpFits
  <2>6. OpenCall(x, o0)
    BY <1>1, <2>1, <2>4 DEF Refresh
  <2> QED BY <1>0, <2>3, <2>5, <2>6, CallOnlyOK
<1>2. CASE Drop(x)
  <2>1. PICK o0 : o0 = Op("unregister", RegionOf[x], NoUri, 0, {})
    OBVIOUS
  <2>2. o0 \in Ops /\ OpFits(x, o0) /\ o0.do = "unregister"
    <3>1. o0 \in Ops /\ o0.do = "unregister" /\ o0.region = RegionOf[x]
      BY <1>0, <2>1 DEF Op, Ops
    <3> QED BY <3>1 DEF OpFits
  <2> QED BY <1>0, <1>2, <2>1, <2>2, CallOnlyOK DEF Drop
<1>3. CASE Find(x)
  <2>1. Job(x).match \in SUBSET (Uris \cup {NoUri})
    BY <1>0, <1>3, JobArgs DEF Find, Todo, Job
  <2>2. PICK o0 : o0 = Op("prune", NoRegion, NoUri, 0, Job(x).match)
    OBVIOUS
  <2>3. o0 \in Ops /\ OpFits(x, o0) /\ o0.do = "prune"
    BY <2>1, <2>2, OpType DEF OpFits
  <2> QED BY <1>0, <1>3, <2>2, <2>3, CallOnlyOK DEF Find
<1>4. CASE FindSince(x)
  <2>1. Job(x).match \in SUBSET (Uris \cup {NoUri}) /\ Job(x).time \in Nat
    BY <1>0, <1>4, JobArgs DEF FindSince, Todo, Job
  <2>2. PICK o0 : o0 = Op("since", NoRegion, NoUri, Job(x).time, Job(x).match)
    OBVIOUS
  <2>3. o0 \in Ops /\ OpFits(x, o0) /\ o0.do = "since"
    BY <2>1, <2>2, OpType DEF OpFits
  <2> QED BY <1>0, <1>4, <2>2, <2>3, CallOnlyOK DEF FindSince
<1> QED BY <1>1, <1>2, <1>3, <1>4

LEMMA DroppedOK ==
  ASSUME NEW x \in Procs, DirInv, Dropped(x)
  PROVE  DirInv'
<1>0. /\ op[x].do = "unregister" /\ Close(x) /\ alive' = alive \ {x} /\ script' = script
      /\ UNCHANGED <<slot, counted, tpc, ti, uri, where, stream, seen>>
      /\ handles' = [handles EXCEPT ![x] = {}] /\ rpc[x] = "done"
  BY DEF Dropped, Close, At
<1>1. tpc[x] = "idle"
  BY <1>0 DEF DirInv, PartyOK
<1>2. TableInv'
  BY <1>0, <1>1, HandlesGoneOK DEF DirInv
<1>3. /\ RegInv' /\ rpc'[x] = "idle" /\ rpc' = [rpc EXCEPT ![x] = "idle"]
      /\ OthersStay(x) /\ UNCHANGED <<entry, ri, stolen, erased>>
  BY <1>0, SlotsKept, CloseOK DEF DirInv
<1>4. ListedOK'
  BY <1>0, <1>3, ListedDropOK DEF DirInv, OthersStay
<1>5. PartyOK(x)'
  BY <1>0, <1>1, <1>3 DEF PartyOK
<1>6. \A y \in Procs : PartyOK(y)'
  BY <1>0, <1>3, <1>5, OthersParty DEF DirInv
<1>7. alive' \in SUBSET Procs
  BY <1>0 DEF DirInv
<1> QED BY <1>0, <1>2, <1>3, <1>4, <1>6, <1>7 DEF DirInv

LEMMA FindPrunedOK ==
  ASSUME NEW x \in Procs, DirInv, FindPruned(x)
  PROVE  DirInv'
<1> DEFINE o0 == [op[x] EXCEPT !.do = "discover"]
<1>1. /\ op[x].do = "prune" /\ rpc[x] = "done" /\ rpc' = [rpc EXCEPT ![x] = "start"]
      /\ op' = [op EXCEPT ![x] = o0]
      /\ UNCHANGED <<file, entry, count, clock, ri, read, found, due, uses, stolen, skewed, erased>>
      /\ UNCHANGED <<slot, counted, tpc, ti, uri, where, handles, stream, seen>>
      /\ script' = script /\ alive' = alive
  BY DEF FindPruned, Then, To, At, regHistory, tableVars
<1>2. RegType /\ RegLocal(x) /\ op[x] \in Ops /\ RegInv /\ TableInv
  BY RegParts, RegTypes DEF DirInv
<1>3. o0 \in Ops /\ o0.do = "discover"
  BY <1>2 DEF Ops
<1>4. OpFits(x, o0)
  BY <1>3 DEF OpFits
<1> HIDE DEF o0
<1>5. due[x] = {}
  BY <1>1, <1>2 DEF RegLocal, DueOK
<1>6. /\ found' \in [Procs -> SUBSET [at : Entries, got : Fields]] /\ due' \in [Procs -> SUBSET Entries]
      /\ \A y \in Procs : found'[y] = found[y] /\ due'[y] = due[y]
  BY <1>1, <1>2 DEF RegType, RegTypeOK
<1>7. TopicsKept
  BY <1>1, SlotsKept
<1>8. RegInv'
  BY <1>1, <1>2, <1>3, <1>4, <1>5, <1>6, <1>7, TurnOK
<1>9. op'[x] = o0 /\ \A y \in Procs \ {x} : rpc'[y] = rpc[y] /\ op'[y] = op[y]
  BY <1>1, <1>2 DEF RegType, RegTypeOK
<1>10. ListedOK'
  BY <1>1, <1>9, ListedTurnOK DEF DirInv
<1>11. PartyOK(x)'
  BY <1>1 DEF DirInv, PartyOK
<1>12. OthersStay(x)
  BY <1>1, <1>9 DEF OthersStay
<1>13. \A y \in Procs : PartyOK(y)'
  BY <1>1, <1>11, <1>12, OthersParty DEF DirInv
<1>14. TableInv'
  BY <1>1, <1>2, TableStutterOK
<1> QED BY <1>1, <1>8, <1>10, <1>13, <1>14 DEF DirInv

LEMMA ReturnedOK ==
  ASSUME NEW x \in Procs, DirInv, Returned(x)
  PROVE  DirInv'
<1>1. /\ Close(x) /\ UNCHANGED <<slot, counted, tpc, ti, uri, where, handles, stream, seen>>
      /\ script' = script /\ alive' = alive /\ rpc[x] = "done"
      /\ op[x].do \in {"discover", "since"} \/ tpc[x] = "idle"
  BY DEF Returned, tableVars, Close, At, Results
<1>2. /\ RegInv' /\ rpc'[x] = "idle" /\ rpc' = [rpc EXCEPT ![x] = "idle"]
      /\ OthersStay(x) /\ UNCHANGED <<entry, ri, stolen, erased>>
  BY <1>1, SlotsKept, CloseOK DEF DirInv
<1>3. ListedOK'
  BY <1>1, <1>2, ListedTurnOK DEF DirInv, OthersStay
<1>4. tpc[x] = "idle"
  BY <1>1 DEF DirInv, PartyOK
<1>5. PartyOK(x)'
  BY <1>1, <1>2, <1>4 DEF PartyOK
<1>6. \A y \in Procs : PartyOK(y)'
  BY <1>1, <1>2, <1>5, OthersParty DEF DirInv
<1>7. TableInv'
  BY <1>1, TableStutterOK DEF DirInv
<1> QED BY <1>1, <1>2, <1>3, <1>6, <1>7 DEF DirInv

LEMMA SubscribeToOK ==
  ASSUME NEW x \in Procs, DirInv, SubscribeTo(x)
  PROVE  DirInv'
<1>1. /\ Close(x) /\ alive' = alive /\ script[x] # <<>> /\ Advance(x) /\ rpc[x] = "done"
  BY DEF SubscribeTo, Close, At
<1>2. PICK r \in Regions, u \in Uris \cup {NoUri} : SubscribeCall(x, r, u)
  BY DEF SubscribeTo
<1>4. stream[x] = NoStream /\ Begin(x, r, u, "find")
  BY <1>2 DEF SubscribeCall
<1>5. TableInv' /\ TableStepOf(x)
  BY <1>4, BeginOK DEF DirInv
<1>6. TopicsKept
  BY <1>5, StepsKeepTopics DEF DirInv
<1>7. /\ RegInv' /\ rpc'[x] = "idle" /\ rpc' = [rpc EXCEPT ![x] = "idle"]
      /\ OthersStay(x) /\ UNCHANGED <<entry, ri, stolen, erased>>
  BY <1>1, <1>6, CloseOK DEF DirInv
<1>8. ListedOK'
  BY <1>1, <1>7, ListedTurnOK DEF DirInv, OthersStay
<1>9. tpc'[x] = "find" /\ \A y \in Procs \ {x} : tpc'[y] = tpc[y]
  BY <1>4, <1>5 DEF Begin, Go, TableStepOf, DirInv, TableInv, TableTypeOK
<1>10. PartyOK(x)'
  BY <1>1, <1>7, <1>9 DEF DirInv, PartyOK
<1>11. \A y \in Procs : PartyOK(y)'
  BY <1>1, <1>7, <1>9, <1>10, OthersParty DEF DirInv
<1>12. script' \in [Procs -> Seq(Jobs)]
  BY <1>1, JobOK DEF DirInv
<1> QED BY <1>1, <1>5, <1>7, <1>8, <1>11, <1>12 DEF DirInv

LEMMA UnsubscribeOK ==
  ASSUME NEW x \in Procs, DirInv, Unsubscribe(x)
  PROVE  DirInv'
<1>1. /\ DropStream(x) /\ script' = script /\ alive' = alive /\ tpc' = tpc
      /\ UNCHANGED <<file, entry, count, clock, rpc, ri, op, read, found, due, uses, stolen, skewed, erased>>
  BY DEF Unsubscribe, DropStream, regVars, regLocal, regHistory
<1>2. TableInv' /\ TableStepOf(x)
  BY <1>1, DropStreamOK DEF DirInv
<1>3. RegInv'
  BY <1>1, <1>2, StepsKeepTopics, RegStutterOK DEF DirInv
<1>4. ListedOK'
  BY <1>1 DEF DirInv, ListedOK, Listed, Passed, IsWriting
<1>5. \A y \in Procs : PartyOK(y)'
  BY <1>1 DEF DirInv, PartyOK
<1> QED BY <1>1, <1>2, <1>3, <1>4, <1>5 DEF DirInv

LEMMA ClockTickOK ==
  ASSUME DirInv, ClockTick
  PROVE  DirInv'
<1>1. /\ Tick /\ script' = script /\ alive' = alive
      /\ UNCHANGED <<slot, counted, tpc, ti, uri, where, handles, stream, seen>>
      /\ UNCHANGED <<entry, rpc, ri, op, stolen, erased>>
  BY DEF ClockTick, Tick, tableVars, regLocal, regHistory
<1>2. TableInv'
  BY <1>1, TableStutterOK DEF DirInv
<1>3. RegInv'
  BY <1>1, SlotsKept, TickOK DEF DirInv
<1>4. ListedOK'
  BY <1>1 DEF DirInv, ListedOK, Listed, Passed, IsWriting
<1>5. \A y \in Procs : PartyOK(y)'
  BY <1>1 DEF DirInv, PartyOK
<1> QED BY <1>1, <1>2, <1>3, <1>4, <1>5 DEF DirInv

LEMMA DieOK ==
  ASSUME NEW x \in Procs, DirInv, Die(x)
  PROVE  DirInv'
<1>1. PICK xs : xs = {y \in Procs : Pid[y] = Pid[x]}
  OBVIOUS
<1>2. /\ RegGone(xs) /\ alive' = alive \ xs
      /\ script' = [y \in Procs |-> IF y \in xs THEN <<>> ELSE script[y]]
      /\ tpc' = [y \in Procs |-> IF y \in xs THEN "idle" ELSE tpc[y]]
      /\ ti' = [y \in Procs |-> IF y \in xs THEN 0 ELSE ti[y]]
      /\ uri' = [y \in Procs |-> IF y \in xs THEN NoUri ELSE uri[y]]
      /\ handles' = [y \in Procs |-> IF y \in xs THEN {} ELSE handles[y]]
      /\ stream' = [y \in Procs |-> IF y \in xs THEN NoStream ELSE stream[y]]
      /\ seen' = [y \in Procs |-> IF y \in xs THEN {} ELSE seen[y]]
      /\ UNCHANGED <<slot, counted, where>>
  BY <1>1 DEF Die
<1>3. xs \in SUBSET Procs
  BY <1>1
<1>4. TableInv'
  BY <1>2, <1>3, TableGoneOK DEF DirInv
<1>5. RegInv'
  BY <1>2, <1>3, SlotsKept, RegGoneOK DEF DirInv
<1>6. ListedOK'
  BY <1>1, <1>2, ListedGoneOK DEF DirInv
<1>7. /\ \A y \in xs : tpc'[y] = "idle" /\ rpc'[y] = "idle"
      /\ \A y \in Procs \ xs : tpc'[y] = tpc[y] /\ rpc'[y] = rpc[y] /\ op'[y] = op[y]
  BY <1>2, <1>3 DEF RegGone
<1>8. \A y \in Procs : PartyOK(y)'
  BY <1>2, <1>3, <1>7 DEF DirInv, PartyOK
<1>9. script' \in [Procs -> Seq(Jobs)]
  <2>1. <<>> \in Seq(Jobs)
    OBVIOUS
  <2> QED BY <1>2, <2>1 DEF DirInv
<1>10. alive' \in SUBSET Procs
  BY <1>2 DEF DirInv
<1> QED BY <1>4, <1>5, <1>6, <1>8, <1>9, <1>10 DEF DirInv

LEMMA NextOK == DirInv /\ [Next]_vars => DirInv'
<1> SUFFICES ASSUME DirInv, [Next]_vars PROVE DirInv'
  OBVIOUS
<1>1. ASSUME NEW x \in Procs, Step(x) PROVE DirInv'
  BY <1>1, TableOnlyOK, RegOnlyOK, PublicizeOK, RegisteredOK, DroppedOK, FindPrunedOK, ReturnedOK,
     SubscribeToOK DEF Step
<1>2. ASSUME NEW x \in Procs,
             Register(x) \/ Refresh(x) \/ Drop(x) \/ Find(x) \/ FindSince(x) \/ Unsubscribe(x) \/ Die(x)
      PROVE  DirInv'
  BY <1>2, RegisterCallOK, CallsOfRegistryOK, UnsubscribeOK, DieOK
<1>3. CASE ClockTick
  BY <1>3, ClockTickOK
<1>4. CASE UNCHANGED vars
  <2>1. /\ UNCHANGED <<slot, counted, tpc, ti, uri, where, handles, stream, seen>>
        /\ UNCHANGED <<file, entry, count, clock, rpc, ri, op, read, found, due, uses, stolen, skewed, erased>>
        /\ script' = script /\ alive' = alive
    BY <1>4 DEF vars, tableVars, regVars, regLocal, regHistory
  <2>2. TableInv' /\ RegInv'
    BY <2>1, TableStutterOK, SlotsKept, RegStutterOK DEF DirInv
  <2>3. ListedOK' /\ \A y \in Procs : PartyOK(y)'
    BY <2>1 DEF DirInv, ListedOK, Listed, Passed, IsWriting, PartyOK
  <2> QED BY <2>1, <2>2, <2>3 DEF DirInv
<1> QED BY <1>1, <1>2, <1>3, <1>4 DEF Next

LEMMA Inductive == Spec => []DirInv
BY InitOK, NextOK, PTL DEF Spec

(***************************************************************************)
(* The theorems                                                            *)
(***************************************************************************)

\* Every index stays inside the table or the registry it is used for, whatever
\* the processes run: register and discover never look past the last slot or
\* entry, and the count never leaves its range.
THEOREM TypeCorrect == Spec => []TypeOK
<1>1. DirInv => TypeOK
  BY DEF DirInv, TableInv, RegInv, RegType, TypeOK
<1> QED BY <1>1, Inductive, PTL

\* The handle Publisher::register returned and the stream Subscriber::subscribe
\* returned stay those of the URI that was asked for, for any hash function.
THEOREM Handles == Spec => []HandleResolves
<1>1. DirInv => HandleResolves
  BY DEF DirInv, TableInv
<1> QED BY <1>1, Inductive, PTL

\* Publisher::register claims no second slot for a URI that was ACTIVE when it
\* was called.
THEOREM Once == Spec => []RegisterOnce
<1>1. DirInv => RegisterOnce
  BY DEF DirInv, TableInv, SeenOK, RegisterOnce
<1> QED BY <1>1, Inductive, PTL

\* entry_count is right, modulo its width, but for the steps under way: an entry is
\* counted down by one process only, also while the count is below zero because an
\* entry was freed before the register that claimed it has counted it; nothing is
\* said once a wrapped count was clamped to 0, a process died between claim or free
\* and count, or the file was truncated.
THEOREM Counts == Spec => []CountAgrees
<1>1. DirInv => CountAgrees
  BY DEF DirInv, RegInv, CountAgrees
<1> QED BY <1>1, Inductive, PTL

\* discover and discover_since miss no topic that was listed throughout.
THEOREM FindsAll == Spec => []DiscoverFindsAll
<1>1. DirInv => DiscoverFindsAll
  BY DEF DirInv, RegInv, DueOK, DiscoverFindsAll, At
<1> QED BY <1>1, Inductive, PTL

\* What discover returns for an entry that has been claimed once was registered, even
\* when its URI was read half written; a URI read whole is in the region's table.
THEOREM Discovered == Spec => []DiscoveredRegistered
<1>1. ASSUME DirInv PROVE DiscoveredRegistered
  <2> SUFFICES ASSUME NEW x \in Procs, NEW f \in found[x], ~erased, uses[f.at] = 1, f.at \notin stolen,
                      f.got.uri # NoUri
               PROVE  Real(f.got)
    BY DEF DiscoveredRegistered, Real, Topic
  <2>1. First(f.at)
    BY DEF First
  <2> QED BY <1>1, <2>1 DEF DirInv, RegInv, FoundOK
<1> QED BY <1>1, Inductive, PTL

\* When Publisher's drop has unregistered, the publisher is not listed any more.
THEOREM Delisted == Spec => []DropDelists
<1>1. ASSUME DirInv PROVE DropDelists
  <2> SUFFICES ASSUME NEW x \in Procs, NEW i \in Entries, At(x, "done"), op[x].do = "unregister",
                      i \notin stolen, ~erased, entry[i].active, entry[i].region = RegionOf[x],
                      entry[i].pid = Pid[x], \A y \in Procs : ri[y] = i => ~IsWriting(y)
               PROVE  \E y \in Procs \ {x} : /\ Pid[y] = Pid[x] /\ RegionOf[y] = RegionOf[x]
                                             /\ y \in alive
    BY DEF DropDelists
  <2>1. x \in alive /\ alive \in SUBSET Procs
    BY <1>1 DEF DirInv, PartyOK, At
  <2>2. Listed(i)
    BY DEF Listed
  <2>3. PICK y \in alive : Pid[y] = Pid[x] /\ RegionOf[y] = entry[i].region /\ ~Passed(y, i)
    BY <1>1, <2>1, <2>2 DEF DirInv, ListedOK
  <2>4. y # x
    BY <2>3 DEF Passed, At
  <2> QED BY <2>1, <2>3, <2>4
<1> QED BY <1>1, Inductive, PTL

===============================================================================
