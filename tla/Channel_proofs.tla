---------------------------- MODULE Channel_proofs ----------------------------
(***************************************************************************)
(* Proofs about the files, locks and heartbeats of module Lifecycle as     *)
(* module Channel drives them, for any number of processes, names, inodes  *)
(* and any jobs: a name keeps its file while a publisher of it lives, and  *)
(* who attaches to a file finds it initialised.                            *)
(***************************************************************************)
EXTENDS Channel, FiniteSetTheorems, TLAPS

\* What keeps readers out before it is there: all but the rings.
Ready == {"len", "header", "pool", "beat"}

\* The name x attaches to.
Target(x) == IF IsEndpoint(x) THEN Peer[Name(x)] ELSE Name(x)

\* A file belongs to a name while it is there or a process has it from there.
Refers(f, n) ==
  \/ path[n] = f
  \/ \E x \in Procs : map[x] = f /\ Name(x) = n
  \/ \E x \in Procs : view[x] = f /\ Target(x) = n

Viewing == {"map", "header", "beat", "ok"}

(***************************************************************************)
(* The inductive invariant                                                 *)
(***************************************************************************)
\* What a process has at each step of a publisher's life ...
PubLocal(x) ==
  /\ pc[x] = "none" <=> lfd[x] = None
  /\ pc[x] \in {"none", "lock"} => held[x] = "none"
  /\ pc[x] \in {"remove", "new", "init", "downgrade"} \/ (pc[x] = "identify" /\ IsBus(x))
       => held[x] = "exclusive"
  /\ pc[x] \in {"attach", "up", "unlink", "unlinked"} \/ (pc[x] = "identify" /\ ~IsBus(x))
       => held[x] = "shared"
  /\ map[x] = None <=> pc[x] \in {"none", "lock", "remove", "new", "attach"}
  /\ at[x] \in 0 .. 4
  /\ at[x] # 0 => pc[x] = "init"
  /\ pc[x] \in Creating => Creates(x)

\* ... and as one that attaches.
AttachLocal(x) ==
  /\ apc[x] \in {"none", "find"} => view[x] = None
  /\ apc[x] \in Viewing => view[x] # None
  /\ pc[x] = "attach" => apc[x] # "none"
  /\ apc[x] # "none" => \/ pc[x] = "attach" /\ job[x].what \in {"open", "connect"}
                        \/ pc[x] = "none" /\ job[x].what = "connect"
                        \/ pc[x] = "up" /\ chan[x] # "off"
  /\ chan[x] # "off" => pc[x] = "up" /\ IsEndpoint(x) /\ apc[x] # "none"
  /\ chan[x] = "connected" => apc[x] = "ok"

\* Only plain regions have channels.
BusJob(j) == j.name \in BusNames => j.what \in {"create", "connect"}
JobOK(x) ==
  /\ pc[x] # "none" \/ apc[x] # "none" => BusJob(job[x])
  /\ \A i \in DOMAIN jobs[x] : BusJob(jobs[x][i])

\* The lock of a name excludes, while all who use the name have one lock file.
LockOK ==
  /\ exposed \subseteq BusNames
  /\ \A x \in Procs : lfd[x] # None /\ Name(x) \notin exposed => lfd[x] = lockAt[Name(x)]
  /\ \A x, y \in Procs : x # y /\ held[x] = "exclusive" /\ lfd[x] = lfd[y] => held[y] = "none"

OneName == \A f \in Files : \A n, m \in Names : Refers(f, n) /\ Refers(f, m) => n = m

\* Who has a file from a name finds that file there, or none.
PathOK(x) ==
  Name(x) \notin exposed =>
    /\ pc[x] = "new" => path[Name(x)] = None
    /\ pc[x] \in {"init", "downgrade", "identify", "up", "unlink"}
         => path[Name(x)] \in {map[x], None}
    /\ pc[x] = "attach" /\ apc[x] \in Viewing => path[Name(x)] \in {view[x], None}

\* How far files are initialised.
BeatOK ==
  \A f \in Files : \A n \in Names \ exposed :
    Refers(f, n) /\ beat[f] # "zero" => Ready \subseteq wrote[f]

InitOK(x) ==
  Name(x) \notin exposed =>
    /\ pc[x] = "init" =>
         \A i \in 1 .. at[x] : InitOrder(IsBus(x))[i] \in wrote[map[x]]
    /\ pc[x] \in {"downgrade", "identify"} => wrote[map[x]] = Parts
    /\ pc[x] \in {"up", "unlink"} => Ready \subseteq wrote[map[x]]
    /\ apc[x] = "ok" => Ready \subseteq wrote[view[x]]
    /\ pc[x] = "attach" /\ apc[x] \in Viewing =>
         view[x] \in halfMade \/ wrote[view[x]] = Parts

MadeOK ==
  \A n \in Names \ exposed :
    path[n] # None =>
      \/ path[n] \in halfMade
      \/ wrote[path[n]] = Parts
      \/ \E y \in Procs : pc[y] = "init" /\ map[y] = path[n]

LifeInv ==
  /\ TypeOK
  /\ \A x \in Procs : PubLocal(x) /\ AttachLocal(x) /\ JobOK(x)
  /\ LockOK
  /\ OneName
  /\ \A x \in Procs : PathOK(x)
  /\ BeatOK
  /\ \A x \in Procs : InitOK(x)
  /\ MadeOK

(***************************************************************************)
(* Constants and types                                                     *)
(***************************************************************************)
LEMMA Consts ==
  /\ BusNames \subseteq Names /\ None \notin Files /\ None \notin LockFiles
  /\ Peer \in [Names -> Names] /\ MaxSend \in Nat
  /\ \A n \in Names \ BusNames : Peer[n] \notin BusNames
  BY LifecycleAssumption, ChannelAssumption

LEMMA IdleIsJob == IdleJob \in Jobs /\ IdleJob.what = "open"
  <1>1. \E n \in Names : TRUE
    BY LifecycleAssumption
  <1>2. (CHOOSE n \in Names : TRUE) \in Names
    BY <1>1
  <1> QED
    BY <1>2 DEF IdleJob, Jobs

LEMMA JobFields == ASSUME NEW j \in Jobs
                   PROVE  j.name \in Names /\ j.what \in {"create", "open", "connect", "channel"}
  BY DEF Jobs

LEMMA FivePhases == Cardinality(Parts) = 5
  <1>1. IsFiniteSet({}) /\ Cardinality({}) = 0
    BY FS_EmptySet
  <1>2. IsFiniteSet({"len"}) /\ Cardinality({"len"}) = 1
    BY FS_Singleton
  <1>3. IsFiniteSet({"len", "header"}) /\ Cardinality({"len", "header"}) = 2
    <2>1. {"len", "header"} = {"len"} \cup {"header"} /\ "header" \notin {"len"}
      OBVIOUS
    <2> QED
      BY <1>2, <2>1, FS_AddElement
  <1>4. IsFiniteSet({"len", "header", "pool"}) /\ Cardinality({"len", "header", "pool"}) = 3
    <2>1. /\ {"len", "header", "pool"} = {"len", "header"} \cup {"pool"}
          /\ "pool" \notin {"len", "header"}
      OBVIOUS
    <2> QED
      BY <1>3, <2>1, FS_AddElement
  <1>5. IsFiniteSet(Ready) /\ Cardinality(Ready) = 4
    <2>1. /\ Ready = {"len", "header", "pool"} \cup {"beat"}
          /\ "beat" \notin {"len", "header", "pool"}
      BY DEF Ready
    <2> QED
      BY <1>4, <2>1, FS_AddElement
  <1>6. Cardinality(Parts) = 5
    <2>1. Parts = Ready \cup {"rings"} /\ "rings" \notin Ready
      BY DEF Ready, Parts
    <2> QED
      BY <1>5, <2>1, FS_AddElement
  <1> QED
    BY <1>6

\* Where in the initialisation a part comes.
LEMMA OrderFacts ==
  ASSUME NEW bus \in BOOLEAN
  PROVE  /\ Len(InitOrder(bus)) = 5
         /\ \A i \in 1 .. 5 : InitOrder(bus)[i] \in Parts
         /\ \A i \in 1 .. 5 : InitOrder(bus)[i] = "beat" =>
              \A p \in Ready \ {"beat"} : \E k \in 1 .. i - 1 : InitOrder(bus)[k] = p
         /\ \A p \in Parts : \E k \in 1 .. 5 : InitOrder(bus)[k] = p
  <1>1. CASE bus
    <2>1. InitOrder(bus) = <<"len", "header", "pool", "rings", "beat">>
      BY <1>1 DEF InitOrder
    <2> DEFINE o == InitOrder(bus)
    <2>2. o[1] = "len" /\ o[2] = "header" /\ o[3] = "pool" /\ o[4] = "rings" /\ o[5] = "beat" /\ Len(o) = 5
      BY <2>1
    <2> HIDE DEF o
    <2>3. \A i \in 1 .. 5 : i = 1 \/ i = 2 \/ i = 3 \/ i = 4 \/ i = 5
      OBVIOUS
    <2>4. \A i \in 1 .. 5 : o[i] = "beat" => i = 5
      BY <2>2, <2>3
    <2>5. \A p \in Ready \ {"beat"} : \E k \in 1 .. 5 - 1 : o[k] = p
      BY <2>2 DEF Ready
    <2>6. \A p \in Parts : \E k \in 1 .. 5 : o[k] = p
      BY <2>2 DEF Parts
    <2>7. \A i \in 1 .. 5 : o[i] \in Parts
      BY <2>2, <2>3 DEF Parts
    <2> QED
      BY <2>2, <2>4, <2>5, <2>6, <2>7 DEF o
  <1>2. CASE ~bus
    <2>1. InitOrder(bus) = <<"len", "header", "pool", "beat", "rings">>
      BY <1>2 DEF InitOrder
    <2> DEFINE o == InitOrder(bus)
    <2>2. o[1] = "len" /\ o[2] = "header" /\ o[3] = "pool" /\ o[4] = "beat" /\ o[5] = "rings" /\ Len(o) = 5
      BY <2>1
    <2> HIDE DEF o
    <2>3. \A i \in 1 .. 5 : i = 1 \/ i = 2 \/ i = 3 \/ i = 4 \/ i = 5
      OBVIOUS
    <2>4. \A i \in 1 .. 5 : o[i] = "beat" => i = 4
      BY <2>2, <2>3
    <2>5. \A p \in Ready \ {"beat"} : \E k \in 1 .. 4 - 1 : o[k] = p
      BY <2>2 DEF Ready
    <2>6. \A p \in Parts : \E k \in 1 .. 5 : o[k] = p
      BY <2>2 DEF Parts
    <2>7. \A i \in 1 .. 5 : o[i] \in Parts
      BY <2>2, <2>3 DEF Parts
    <2> QED
      BY <2>2, <2>4, <2>5, <2>6, <2>7 DEF o
  <1> QED
    BY <1>1, <1>2

(***************************************************************************)
(* What one step of a process may do to the files and to the others        *)
(***************************************************************************)
\* Only x's own variables change.
OthersKept(x) ==
  \A y \in Procs \ {x} :
    /\ jobs'[y] = jobs[y] /\ pc'[y] = pc[y] /\ job'[y] = job[y] /\ lfd'[y] = lfd[y]
    /\ held'[y] = held[y] /\ map'[y] = map[y] /\ at'[y] = at[y]
    /\ apc'[y] = apc[y] /\ view'[y] = view[y] /\ chan'[y] = chan[y]

\* Files are filled, not emptied, and taken from their names, not put there.
FilesKept ==
  /\ exposed \subseteq exposed'
  /\ halfMade \subseteq halfMade'
  /\ \A f \in Files : wrote[f] \subseteq wrote'[f]
  /\ \A n \in Names : path'[n] \in {path[n], None}

\* What x has now it had, or had found.
NoNewFile(x) ==
  /\ map'[x] # None => Refers(map'[x], Name(x)')
  /\ view'[x] # None => Refers(view'[x], Target(x)')

\* A heartbeat is given to an initialised file.
BeatKept(x) ==
  \A f \in Files :
    \/ beat'[f] = beat[f] \/ beat[f] # "zero"
    \/ Refers(f, Name(x)) /\ (Name(x) \notin exposed => Ready \subseteq wrote'[f])

\* A file that x initialises is initialised, or left half made.
MadeKept(x) ==
  pc[x] = "init" =>
    \/ pc'[x] = "init" /\ map'[x] = map[x]
    \/ map[x] \in halfMade'
    \/ Name(x) \notin exposed => wrote'[map[x]] = Parts

StepOK(x) ==
  /\ OthersKept(x) /\ FilesKept /\ NoNewFile(x) /\ BeatKept(x) /\ MadeKept(x)
  /\ PubLocal(x)' /\ AttachLocal(x)' /\ JobOK(x)'
  /\ PathOK(x)' /\ InitOK(x)'

LEMMA InvParts ==
  ASSUME LifeInv
  PROVE  /\ TypeOK /\ LifecycleTypeOK /\ LockOK /\ OneName /\ BeatOK /\ MadeOK
         /\ \A x \in Procs : /\ PubLocal(x) /\ AttachLocal(x) /\ JobOK(x)
                              /\ PathOK(x) /\ InitOK(x)
  BY DEF LifeInv, TypeOK

LEMMA Own ==
  ASSUME NEW x \in Procs
  PROVE  Refers(map[x], Name(x)) /\ Refers(view[x], Target(x))
  BY DEF Refers

LEMMA PathRefers == \A n \in Names : Refers(path[n], n)
  BY DEF Refers

LEMMA NamesTyped ==
  ASSUME LifecycleTypeOK, NEW x \in Procs
  PROVE  job[x] \in Jobs /\ Name(x) \in Names /\ Target(x) \in Names
  <1>1. job[x] \in Jobs
    BY DEF LifecycleTypeOK
  <1>2. Name(x) \in Names
    BY <1>1, JobFields DEF Name
  <1> QED
    BY <1>1, <1>2, Consts DEF Target

\* Who has a file of a name that is not exposed has it from such a name.
LEMMA TargetShut ==
  ASSUME LifeInv, NEW x \in Procs, view[x] # None, Name(x) \notin exposed
  PROVE  Target(x) \notin exposed
  <1>1. apc[x] # "none"
    BY InvParts DEF AttachLocal
  <1>2. BusJob(job[x])
    BY <1>1, InvParts DEF JobOK
  <1>3. IsEndpoint(x) => Name(x) \in Names \ BusNames
    BY <1>2, InvParts, NamesTyped DEF BusJob, IsEndpoint, Name
  <1> QED
    BY <1>3, InvParts, Consts DEF Target, LockOK

\* While a name is not exposed, its lock keeps everybody else out.
LEMMA Excluded ==
  ASSUME LifeInv, NEW x \in Procs, NEW y \in Procs, x # y, held[x] = "exclusive",
         Name(x) = Name(y), Name(x) \notin exposed
  PROVE  pc[y] \in {"none", "lock"}
  <1>1. PubLocal(x) /\ PubLocal(y) /\ LockOK /\ LifecycleTypeOK
    BY InvParts
  <1>2. pc[x] # "none" /\ lfd[x] # None
    BY <1>1 DEF PubLocal
  <1>3. CASE lfd[y] = None
    BY <1>1, <1>3 DEF PubLocal
  <1>4. CASE lfd[y] # None
    <2>1. lfd[y] = lfd[x]
      BY <1>1, <1>2, <1>4 DEF LockOK
    <2>2. held[y] = "none"
      BY <1>1, <2>1 DEF LockOK
    <2>3. pc[y] \in PubPC
      BY <1>1 DEF LifecycleTypeOK
    <2> QED
      BY <1>1, <2>2, <2>3 DEF PubLocal, PubPC, Creating
  <1> QED
    BY <1>3, <1>4

(***************************************************************************)
(* A step that is all right keeps the invariant                            *)
(***************************************************************************)
LEMMA RefsKept ==
  ASSUME LifeInv, LifecycleTypeOK', NEW x \in Procs, OthersKept(x), FilesKept, NoNewFile(x),
         NEW f \in Files, NEW n \in Names, Refers(f, n)'
  PROVE  Refers(f, n)
  <1>0. f # None
    BY Consts
  <1>1. CASE path'[n] = f
    BY <1>0, <1>1 DEF FilesKept, Refers
  <1>2. ASSUME NEW y \in Procs, map'[y] = f, Name(y)' = n
        PROVE  Refers(f, n)
    <2>1. CASE y = x
      BY <1>0, <1>2, <2>1 DEF NoNewFile
    <2>2. CASE y # x
      BY <1>2, <2>2 DEF OthersKept, Refers, Name
    <2> QED
      BY <2>1, <2>2
  <1>3. ASSUME NEW y \in Procs, view'[y] = f, Target(y)' = n
        PROVE  Refers(f, n)
    <2>1. CASE y = x
      BY <1>0, <1>3, <2>1 DEF NoNewFile
    <2>2. CASE y # x
      BY <1>3, <2>2 DEF OthersKept, Refers, Name, Target, IsEndpoint
    <2> QED
      BY <2>1, <2>2
  <1> QED
    BY <1>1, <1>2, <1>3 DEF Refers

LEMMA StepKeeps ==
  ASSUME LifeInv, TypeOK', LockOK', NEW x \in Procs, StepOK(x)
  PROVE  LifeInv'
  <1>0. LifecycleTypeOK /\ LifecycleTypeOK'
    BY InvParts DEF TypeOK
  <1>1. /\ OthersKept(x) /\ FilesKept /\ NoNewFile(x) /\ BeatKept(x) /\ MadeKept(x)
        /\ PubLocal(x)' /\ AttachLocal(x)' /\ JobOK(x)' /\ PathOK(x)' /\ InitOK(x)'
    BY DEF StepOK
  <1>2. \A f \in Files, n \in Names : Refers(f, n)' => Refers(f, n)
    BY <1>0, <1>1, RefsKept
  <1>3. ASSUME NEW y \in Procs, y # x
        PROVE  /\ PubLocal(y)' /\ AttachLocal(y)' /\ JobOK(y)' /\ PathOK(y)' /\ InitOK(y)'
    <2>1. /\ jobs'[y] = jobs[y] /\ pc'[y] = pc[y] /\ job'[y] = job[y] /\ lfd'[y] = lfd[y]
          /\ held'[y] = held[y] /\ map'[y] = map[y] /\ at'[y] = at[y]
          /\ apc'[y] = apc[y] /\ view'[y] = view[y] /\ chan'[y] = chan[y]
      BY <1>1, <1>3 DEF OthersKept
    <2>2. PubLocal(y) /\ AttachLocal(y) /\ JobOK(y) /\ PathOK(y) /\ InitOK(y)
      BY InvParts
    <2>3. Name(y)' = Name(y) /\ Name(y) \in Names /\ IsBus(y)' = IsBus(y)
      BY <1>0, <2>1, NamesTyped DEF Name, IsBus
    <2>4. PubLocal(y)'
      BY <2>1, <2>2, <2>3 DEF PubLocal, Creates
    <2>5. AttachLocal(y)' /\ JobOK(y)'
      BY <2>1, <2>2 DEF AttachLocal, JobOK, IsEndpoint
    <2>6. PathOK(y)'
      BY <1>1, <2>1, <2>2, <2>3 DEF PathOK, FilesKept
    <2>7. InitOK(y)'
      <3> SUFFICES ASSUME Name(y) \notin exposed'
                   PROVE  InitOK(y)'
        BY <2>3 DEF InitOK
      <3>1. Name(y) \notin exposed
        BY <1>1 DEF FilesKept
      <3>2. map[y] \in Files \cup {None} /\ view[y] \in Files \cup {None}
        BY <1>0 DEF LifecycleTypeOK
      <3>3. /\ map[y] # None => /\ wrote[map[y]] \subseteq wrote'[map[y]]
                                /\ wrote'[map[y]] \subseteq Parts
            /\ view[y] # None => /\ wrote[view[y]] \subseteq wrote'[view[y]]
                                 /\ wrote'[view[y]] \subseteq Parts
        BY <1>0, <1>1, <3>2 DEF FilesKept, LifecycleTypeOK
      <3>4. /\ pc[y] \in {"init", "downgrade", "identify", "up", "unlink"} => map[y] # None
            /\ apc[y] \in Viewing => view[y] # None
        BY <2>2 DEF PubLocal, AttachLocal
      <3>5. "ok" \in Viewing
        BY DEF Viewing
      <3>6. /\ pc[y] = "init" =>
                 \A i \in 1 .. at[y] : InitOrder(IsBus(y))[i] \in wrote[map[y]]
            /\ pc[y] \in {"downgrade", "identify"} => wrote[map[y]] = Parts
            /\ pc[y] \in {"up", "unlink"} => Ready \subseteq wrote[map[y]]
            /\ apc[y] = "ok" => Ready \subseteq wrote[view[y]]
            /\ pc[y] = "attach" /\ apc[y] \in Viewing =>
                 view[y] \in halfMade \/ wrote[view[y]] = Parts
        BY <2>2, <3>1 DEF InitOK
      <3>7. pc[y] = "init" => \A i \in 1 .. at[y] : InitOrder(IsBus(y))[i] \in wrote'[map[y]]
        BY <3>3, <3>4, <3>6
      <3>8. pc[y] \in {"downgrade", "identify"} => wrote'[map[y]] = Parts
        BY <3>3, <3>4, <3>6
      <3>9. /\ pc[y] \in {"up", "unlink"} => Ready \subseteq wrote'[map[y]]
            /\ apc[y] = "ok" => Ready \subseteq wrote'[view[y]]
        BY <3>3, <3>4, <3>5, <3>6
      <3>10. pc[y] = "attach" /\ apc[y] \in Viewing =>
               view[y] \in halfMade' \/ wrote'[view[y]] = Parts
        BY <1>1, <3>3, <3>4, <3>6 DEF FilesKept
      <3> QED
        BY <2>1, <2>3, <3>7, <3>8, <3>9, <3>10 DEF InitOK
    <2> QED
      BY <2>4, <2>5, <2>6, <2>7
  <1>4. OneName'
    BY <1>2, InvParts DEF OneName
  <1>5. BeatOK'
    <2> SUFFICES ASSUME NEW f \in Files, NEW n \in Names \ exposed', Refers(f, n)',
                        beat'[f] # "zero"
                 PROVE  Ready \subseteq wrote'[f]
      BY DEF BeatOK
    <2>1. Refers(f, n) /\ n \notin exposed /\ wrote[f] \subseteq wrote'[f]
      BY <1>1, <1>2 DEF FilesKept
    <2>2. CASE beat[f] # "zero"
      BY <2>1, <2>2, InvParts DEF BeatOK
    <2>3. CASE beat[f] = "zero"
      <3>1. Refers(f, Name(x)) /\ (Name(x) \notin exposed => Ready \subseteq wrote'[f])
        BY <1>1, <2>3 DEF BeatKept
      <3>2. n = Name(x)
        BY <1>0, <2>1, <3>1, InvParts, NamesTyped DEF OneName
      <3> QED
        BY <2>1, <3>1, <3>2
    <2> QED
      BY <2>2, <2>3
  <1>6. MadeOK'
    <2> SUFFICES ASSUME NEW n \in Names \ exposed', path'[n] # None
                 PROVE  \/ path'[n] \in halfMade'
                        \/ wrote'[path'[n]] = Parts
                        \/ \E y \in Procs : pc'[y] = "init" /\ map'[y] = path'[n]
      BY DEF MadeOK
    <2>1. path'[n] = path[n] /\ path[n] \in Files /\ n \notin exposed
      BY <1>0, <1>1 DEF FilesKept, LifecycleTypeOK
    <2>2. CASE path[n] \in halfMade
      BY <1>1, <2>1, <2>2 DEF FilesKept
    <2>3. CASE wrote[path[n]] = Parts
      <3>1. wrote[path[n]] \subseteq wrote'[path[n]]
        BY <1>1, <2>1 DEF FilesKept
      <3>2. wrote'[path[n]] \subseteq Parts
        BY <1>0, <2>1 DEF LifecycleTypeOK
      <3> QED
        BY <2>1, <2>3, <3>1, <3>2
    <2>4. ASSUME NEW y \in Procs, pc[y] = "init", map[y] = path[n]
          PROVE  \/ path'[n] \in halfMade'
                 \/ wrote'[path'[n]] = Parts
                 \/ \E z \in Procs : pc'[z] = "init" /\ map'[z] = path'[n]
      <3>1. CASE y # x
        BY <1>1, <2>1, <2>4, <3>1 DEF OthersKept
      <3>2. CASE y = x
        <4>1. Refers(map[x], Name(x)) /\ Refers(map[x], n)
          BY <2>4, <3>2, Own, PathRefers
        <4>2. Name(x) = n
          BY <1>0, <2>1, <2>4, <3>2, <4>1, InvParts, NamesTyped DEF OneName
        <4> QED
          BY <1>1, <2>1, <2>4, <3>2, <4>2 DEF MadeKept
      <3> QED
        BY <3>1, <3>2
    <2> QED
      BY <2>1, <2>2, <2>3, <2>4, InvParts DEF MadeOK
  <1> QED
    BY <1>1, <1>3, <1>4, <1>5, <1>6 DEF LifeInv

(***************************************************************************)
(* Types                                                                   *)
(***************************************************************************)
\* The steps of Lifecycle that a process takes in Channel.
LifeStep(x) ==
  \/ PubStep(x) \/ AttachStep(x, Target(x)) \/ Detach(x)
  \/ \E j \in Jobs : OpenLockFile(x, j) \/ ConnectUnlocked(x, j) \/ NoLockFile(x, j)
  \/ Drop(x) \/ Heartbeat(x) \/ Die(x) \/ BusError(x)

\* The steps of Channel that change what is Lifecycle's, or not.
EndStep(x) == RegisterCh(x) \/ PollAgain(x) \/ Close(x)
MessageStep(x) == Subscribe(x) \/ Send(x) \/ TryRecv(x)

LEMMA HeadTail ==
  ASSUME LifecycleTypeOK, NEW x \in Procs, jobs[x] # <<>>
  PROVE  /\ Head(jobs[x]) \in Jobs /\ Tail(jobs[x]) \in Seq(Jobs)
         /\ Head(jobs[x]) = jobs[x][1] /\ 1 \in DOMAIN jobs[x]
         /\ \A i \in DOMAIN Tail(jobs[x]) : /\ i + 1 \in DOMAIN jobs[x]
                                             /\ Tail(jobs[x])[i] = jobs[x][i + 1]
  <1>1. jobs[x] \in Seq(Jobs)
    BY DEF LifecycleTypeOK
  <1> QED
    BY <1>1

LEMMA FreshLock == FreeLocks # {} => FreeLock \in LockFiles
  <1>1. FreeLocks # {} => FreeLock \in FreeLocks
    BY DEF FreeLock
  <1> QED
    BY <1>1 DEF FreeLocks

LEMMA FreshFile == FreeFiles # {} => FreeFile \in Files /\ ~InUse(FreeFile)
  <1>1. FreeFiles # {} => FreeFile \in FreeFiles
    BY DEF FreeFile
  <1> QED
    BY <1>1 DEF FreeFiles

LEMMA TypeKept ==
  ASSUME LifeInv, NEW x \in Procs, LifeStep(x) \/ EndStep(x)
  PROVE  LifecycleTypeOK'
  <1>0. LifecycleTypeOK /\ Name(x) \in Names /\ Target(x) \in Names
    BY InvParts, NamesTyped
  <1>1. IdleJob \in Jobs
    BY IdleIsJob
  <1> USE DEF LifecycleTypeOK, files, history, attachVars, pubVars, Step, Leave, Locked
  <1>2. CASE \E j \in Jobs : OpenLockFile(x, j)
    <2>1. PICK j \in Jobs : OpenLockFile(x, j)
      BY <1>2
    <2>2. Tail(jobs[x]) \in Seq(Jobs) /\ j.name \in Names
      BY <1>0, <2>1, HeadTail, JobFields DEF OpenLockFile, Call
    <2> DEFINE l == IF lockAt[j.name] = None THEN FreeLock ELSE lockAt[j.name]
    <2>3. l \in LockFiles
      BY <1>0, <2>1, <2>2, FreshLock DEF OpenLockFile
    <2>4. lockAt' = [lockAt EXCEPT ![j.name] = l] /\ lfd' = [lfd EXCEPT ![x] = l]
      BY <2>1 DEF OpenLockFile
    <2> HIDE DEF l
    <2>5. /\ lockAt' \in [Names -> LockFiles \cup {None}]
          /\ lfd' \in [Procs -> LockFiles \cup {None}]
      BY <1>0, <2>3, <2>4
    <2> QED
      BY <1>0, <2>1, <2>2, <2>5 DEF OpenLockFile, Call, PubPC
  <1>3. CASE \E j \in Jobs : ConnectUnlocked(x, j) \/ NoLockFile(x, j)
    <2>1. PICK j \in Jobs : ConnectUnlocked(x, j) \/ NoLockFile(x, j)
      BY <1>3
    <2>2. Tail(jobs[x]) \in Seq(Jobs)
      BY <1>0, <2>1, HeadTail DEF ConnectUnlocked, NoLockFile, Call
    <2> QED
      BY ZenonT(30), <1>0, <2>1, <2>2 DEF ConnectUnlocked, NoLockFile, Call, AttachPC
  <1>4. CASE LockExclusive(x) \/ LockContention(x)
    <2>1. CASE LockExclusive(x)
      BY <1>0, <2>1 DEF LockExclusive, PubPC, Creating
    <2>2. CASE LockContention(x)
      BY <1>0, <1>1, <2>2 DEF LockContention, PubPC
    <2> QED
      BY <1>4, <2>1, <2>2
  <1>5. CASE RemoveStale(x) \/ Downgrade(x) \/ Identify(x) \/ Unlink(x) \/ LockShared(x)
    <2>1. CASE RemoveStale(x) \/ Unlink(x)
      BY <1>0, <2>1 DEF RemoveStale, Unlink, PubPC, Creating
    <2>2. CASE Downgrade(x)
      BY <1>0, <2>2 DEF Downgrade, PubPC, Creating
    <2>3. CASE Identify(x)
      BY <1>0, <2>3 DEF Identify, PubPC, Creating
    <2>4. CASE LockShared(x)
      BY <1>0, <2>4 DEF LockShared, PubPC, AttachPC
    <2> QED
      BY <1>5, <2>1, <2>2, <2>3, <2>4
  <1>6. CASE NewFile(x)
    <2> DEFINE f == IF path[Name(x)] = None THEN FreeFile ELSE path[Name(x)]
    <2>1. f \in Files
      BY <1>0, <1>6, FreshFile DEF NewFile
    <2>2. /\ path' = [path EXCEPT ![Name(x)] = f] /\ map' = [map EXCEPT ![x] = f]
          /\ wrote' = [wrote EXCEPT ![f] = {}] /\ beat' = [beat EXCEPT ![f] = "zero"]
          /\ halfMade' = halfMade \ {f}
      BY <1>6 DEF NewFile
    <2> HIDE DEF f
    <2> QED
      BY <1>0, <1>6, <2>1, <2>2 DEF NewFile, PubPC, Creating
  <1>7. CASE InitPart(x)
    <2> DEFINE o == InitOrder(IsBus(x))
               n == at[x] + 1
    <2>1. at[x] \in 0 .. 4
      BY InvParts DEF PubLocal
    <2>0. IsBus(x) \in BOOLEAN
      BY DEF IsBus
    <2>2. o[n] \in Parts /\ Len(o) = 5
      <3>1. n \in 1 .. 5
        BY <2>1
      <3> QED
        BY <2>0, <3>1, OrderFacts
    <2>3. /\ wrote' = [wrote EXCEPT ![map[x]] = @ \cup {o[n]}]
          /\ beat' = IF o[n] = "beat" THEN [beat EXCEPT ![map[x]] = "fresh"] ELSE beat
          /\ at' = [at EXCEPT ![x] = IF n < Len(o) THEN n ELSE 0]
          /\ pc' = [pc EXCEPT ![x] = IF n < Len(o) THEN "init"
                                     ELSE IF IsBus(x) THEN "identify" ELSE "downgrade"]
      BY <1>7 DEF InitPart
    <2>4. (IF n < Len(o) THEN n ELSE 0) \in 0 .. Cardinality(Parts)
      <3>1. (IF n < Len(o) THEN n ELSE 0) \in 0 .. 4
        BY <2>1, <2>2
      <3> QED
        BY <3>1, FivePhases
    <2> HIDE DEF o, n
    <2>5. at' \in [Procs -> 0 .. Cardinality(Parts)]
      BY <1>0, <2>3, <2>4
    <2>6. wrote' \in [Files -> SUBSET Parts]
      BY <1>0, <2>2, <2>3
    <2>7. beat' \in [Files -> {"zero", "fresh", "stale"}]
      BY <1>0, <2>3
    <2>8. pc' \in [Procs -> PubPC]
      BY <1>0, <2>3 DEF PubPC, Creating
    <2> QED
      BY <1>0, <1>7, <2>5, <2>6, <2>7, <2>8 DEF InitPart
  <1>8. CASE Opened(x) \/ Detach(x) \/ DropFields(x)
    <2>1. CASE Opened(x)
      BY <1>0, <2>1 DEF Opened, PubPC, AttachPC
    <2>2. CASE Detach(x)
      BY <1>0, <1>1, <2>2 DEF Detach, PubPC, AttachPC
    <2>3. CASE DropFields(x)
      <3>1. lockAt' \in [Names -> LockFiles \cup {None}] /\ exposed' \in SUBSET Names
        BY <1>0, <2>3 DEF DropFields
      <3> QED
        BY <1>0, <1>1, <2>3, <3>1 DEF DropFields, PubPC
    <2> QED
      BY <1>8, <2>1, <2>2, <2>3
  <1>9. CASE AttachStep(x, Target(x))
    <2>1. UNCHANGED <<jobs, files, history, pubVars>>
      BY <1>9 DEF AttachStep, Find, MapFile, CheckHeader, CheckBeat, Attached
    <2>2. view' \in [Procs -> Files \cup {None}]
      BY <1>0, <1>9 DEF AttachStep, Find, MapFile, CheckHeader, CheckBeat
    <2>3. apc' \in [Procs -> AttachPC]
      BY ZenonT(30), <1>0, <1>9 DEF AttachStep, Find, MapFile, CheckHeader, CheckBeat, Attached, AttachPC
    <2> QED
      BY <1>0, <2>1, <2>2, <2>3
  <1>10. CASE Drop(x) \/ Heartbeat(x)
    BY <1>0, <1>10 DEF Drop, DropPublisher, Heartbeat, PubPC
  <1>11. CASE Die(x) \/ BusError(x)
    <2>1. Gone(x)
      BY <1>11 DEF Die, BusError
    <2>2. halfMade' \in SUBSET Files
      <3>1. map[x] # None => map[x] \in Files
        BY <1>0
      <3> QED
        BY <1>0, <2>1, <3>1 DEF Gone
    <2>3. 0 \in 0 .. Cardinality(Parts)
      BY FivePhases
    <2> QED
      BY <1>0, <1>1, <2>1, <2>2, <2>3 DEF Gone, PubPC, AttachPC
  <1>12. CASE EndStep(x)
    BY ZenonT(30), <1>0, <1>12 DEF EndStep, RegisterCh, PollAgain, Close, DropPublisher, PubPC, AttachPC
  <1> QED
    BY <1>2, <1>3, <1>4, <1>5, <1>6, <1>7, <1>8, <1>9, <1>10, <1>11, <1>12 DEF LifeStep, PubStep

(***************************************************************************)
(* The locks                                                               *)
(***************************************************************************)
LEMMA LocksKept ==
  ASSUME LifeInv, NEW x \in Procs, LifeStep(x) \/ EndStep(x)
  PROVE  LockOK'
  <1>0. /\ LifecycleTypeOK /\ LockOK /\ Name(x) \in Names
        /\ \A y \in Procs : PubLocal(y) /\ Name(y) \in Names
    BY InvParts, NamesTyped
  <1> USE DEF files, history, attachVars, pubVars, Step, Leave, Locked
  <1>1. CASE \E j \in Jobs : OpenLockFile(x, j)
    <2>1. PICK j \in Jobs : OpenLockFile(x, j)
      BY <1>1
    <2> DEFINE l == IF lockAt[j.name] = None THEN FreeLock ELSE lockAt[j.name]
    <2>2. /\ lockAt' = [lockAt EXCEPT ![j.name] = l] /\ lfd' = [lfd EXCEPT ![x] = l]
          /\ job' = [job EXCEPT ![x] = j] /\ UNCHANGED <<held, exposed>> /\ pc[x] = "none"
          /\ j.name \in Names
      BY <2>1, JobFields DEF OpenLockFile, Call
    <2>3. held[x] = "none"
      BY <1>0, <2>2 DEF PubLocal
    <2>4. \A y \in Procs : lfd'[y] # None /\ Name(y)' \notin exposed' => lfd'[y] = lockAt'[Name(y)']
      <3> SUFFICES ASSUME NEW y \in Procs, lfd'[y] # None, Name(y)' \notin exposed'
                   PROVE  lfd'[y] = lockAt'[Name(y)']
        OBVIOUS
      <3>1. CASE y = x
        BY <1>0, <2>2, <3>1 DEF Name, LifecycleTypeOK
      <3>2. CASE y # x
        <4>1. lfd'[y] = lfd[y] /\ Name(y)' = Name(y)
          BY <1>0, <2>2, <3>2 DEF Name, LifecycleTypeOK
        <4>2. lfd[y] = lockAt[Name(y)]
          BY <1>0, <2>2, <4>1 DEF LockOK
        <4> QED
          BY <1>0, <2>2, <4>1, <4>2 DEF LifecycleTypeOK
      <3> QED
        BY <3>1, <3>2
    <2> HIDE DEF l
    <2> QED
      BY <1>0, <2>2, <2>3, <2>4 DEF LockOK, LifecycleTypeOK
  <1>2. CASE LockExclusive(x)
    BY <1>0, <1>2 DEF LockExclusive, CanExclude, LockOK, LifecycleTypeOK, Name
  <1>3. CASE LockShared(x)
    BY <1>0, <1>3 DEF LockShared, CanShare, LockOK, LifecycleTypeOK, Name
  <1>4. CASE Downgrade(x)
    <2>1. held[x] = "exclusive"
      BY <1>0, <1>4 DEF Downgrade, PubLocal
    <2> QED
      BY <1>0, <1>4, <2>1 DEF Downgrade, LockOK, LifecycleTypeOK, Name
  <1>5. CASE DropFields(x) \/ LockContention(x) \/ Detach(x) \/ Die(x) \/ BusError(x)
    <2>1. Leave(x)
      BY <1>5 DEF DropFields, LockContention, Detach, Die, BusError, Gone
    <2>2. \/ UNCHANGED <<lockAt, exposed>>
          \/ /\ IsBus(x) /\ lockAt' = [lockAt EXCEPT ![Name(x)] = None]
             /\ exposed' = exposed \cup {Name(x)}
      BY <1>5 DEF DropFields, LockContention, Detach, Die, BusError, Gone
    <2>3. exposed' \subseteq BusNames /\ exposed \subseteq exposed'
      BY <1>0, <2>2 DEF LockOK, IsBus
    <2>4. ASSUME NEW y \in Procs, lfd'[y] # None, Name(y)' \notin exposed'
          PROVE  lfd'[y] = lockAt'[Name(y)']
      <3>1. y # x
        BY <1>0, <2>1, <2>4 DEF LifecycleTypeOK
      <3>2. lfd'[y] = lfd[y] /\ Name(y)' = Name(y)
        BY <1>0, <2>1, <3>1 DEF LifecycleTypeOK, Name
      <3>3. lfd[y] = lockAt[Name(y)]
        BY <1>0, <2>3, <2>4, <3>2 DEF LockOK
      <3> QED
        BY <1>0, <2>2, <2>4, <3>2, <3>3 DEF LifecycleTypeOK
    <2>5. ASSUME NEW y \in Procs, NEW z \in Procs, y # z, held'[y] = "exclusive", lfd'[y] = lfd'[z]
          PROVE  held'[z] = "none"
      <3>1. CASE z = x
        BY <1>0, <2>1, <3>1 DEF LifecycleTypeOK
      <3>2. CASE z # x
        BY <1>0, <2>1, <2>5, <3>2 DEF LifecycleTypeOK, LockOK
      <3> QED
        BY <3>1, <3>2
    <2> QED
      BY <2>3, <2>4, <2>5 DEF LockOK
  <1>6. CASE \E j \in Jobs : ConnectUnlocked(x, j)
    <2>1. /\ UNCHANGED <<lockAt, lfd, held, exposed>> /\ lfd[x] = None
          /\ \E j : job' = [job EXCEPT ![x] = j]
      BY <1>0, <1>6 DEF ConnectUnlocked, Call, PubLocal
    <2>2. \A y \in Procs \ {x} : Name(y)' = Name(y)
      BY <1>0, <2>1 DEF LifecycleTypeOK, Name
    <2> QED
      BY <1>0, <2>1, <2>2 DEF LockOK
  <1>7. CASE UNCHANGED <<lockAt, lfd, held, exposed, job>>
    BY <1>0, <1>7 DEF LockOK, Name
  <1>8. \/ UNCHANGED <<lockAt, lfd, held, exposed, job>>
        \/ (\E j \in Jobs : OpenLockFile(x, j)) \/ (\E j \in Jobs : ConnectUnlocked(x, j))
        \/ LockExclusive(x) \/ LockShared(x) \/ Downgrade(x)
        \/ DropFields(x) \/ LockContention(x) \/ Detach(x) \/ Die(x) \/ BusError(x)
    <2>1. CASE PubStep(x)
      BY <2>1 DEF PubStep, RemoveStale, NewFile, InitPart, Identify, Opened, Unlink
    <2>2. CASE AttachStep(x, Target(x)) \/ EndStep(x) \/ Drop(x) \/ Heartbeat(x)
      BY <2>2 DEF AttachStep, Find, MapFile, CheckHeader, CheckBeat, Attached, EndStep, RegisterCh,
           PollAgain, Close, Drop, DropPublisher, Heartbeat
    <2>3. CASE \E j \in Jobs : NoLockFile(x, j)
      BY <2>3 DEF NoLockFile
    <2> QED
      BY <2>1, <2>2, <2>3 DEF LifeStep
  <1> QED
    BY <1>1, <1>2, <1>3, <1>4, <1>5, <1>6, <1>7, <1>8

(***************************************************************************)
(* The steps                                                               *)
(***************************************************************************)
\* The step concerns no channel but x's.
ChanStep(x) == chan' = chan \/ \E c : chan' = [chan EXCEPT ![x] = c]

LEMMA OnlyOwn ==
  ASSUME LifeInv, NEW x \in Procs, LifeStep(x) \/ EndStep(x), ChanStep(x)
  PROVE  OthersKept(x)
  <1>0. LifecycleTypeOK /\ TypeOK
    BY InvParts
  <1> USE DEF files, history, attachVars, pubVars, Step, Leave, Locked
  <1>c. \A y \in Procs \ {x} : chan'[y] = chan[y]
    BY <1>0 DEF ChanStep, TypeOK
  <1>1. /\ jobs' = jobs \/ \E v : jobs' = [jobs EXCEPT ![x] = v]
        /\ pc' = pc \/ \E v : pc' = [pc EXCEPT ![x] = v]
        /\ job' = job \/ \E v : job' = [job EXCEPT ![x] = v]
        /\ lfd' = lfd \/ \E v : lfd' = [lfd EXCEPT ![x] = v]
        /\ held' = held \/ \E v : held' = [held EXCEPT ![x] = v]
        /\ map' = map \/ \E v : map' = [map EXCEPT ![x] = v]
        /\ at' = at \/ \E v : at' = [at EXCEPT ![x] = v]
        /\ apc' = apc \/ \E v : apc' = [apc EXCEPT ![x] = v]
        /\ view' = view \/ \E v : view' = [view EXCEPT ![x] = v]
    <2>1. CASE PubStep(x)
      <3>1. CASE LockExclusive(x) \/ LockContention(x) \/ RemoveStale(x) \/ Downgrade(x)
                 \/ Identify(x)
        BY <3>1 DEF LockExclusive, LockContention, RemoveStale, Downgrade, Identify
      <3>2. CASE NewFile(x) \/ InitPart(x)
        BY <3>2 DEF NewFile, InitPart
      <3>3. CASE LockShared(x) \/ Opened(x) \/ Unlink(x) \/ DropFields(x)
        BY <3>3 DEF LockShared, Opened, Unlink, DropFields
      <3> QED
        BY <2>1, <3>1, <3>2, <3>3 DEF PubStep
    <2>2. CASE AttachStep(x, Target(x))
      BY <2>2 DEF AttachStep, Find, MapFile, CheckHeader, CheckBeat, Attached
    <2>3. CASE Detach(x) \/ Drop(x) \/ Heartbeat(x)
      BY <2>3 DEF Detach, Drop, DropPublisher, Heartbeat
    <2>4. CASE \E j \in Jobs : OpenLockFile(x, j) \/ ConnectUnlocked(x, j) \/ NoLockFile(x, j)
      BY <2>4 DEF OpenLockFile, ConnectUnlocked, NoLockFile, Call
    <2>5. CASE Die(x) \/ BusError(x)
      BY <2>5 DEF Die, BusError, Gone
    <2>6. CASE EndStep(x)
      BY <2>6 DEF EndStep, RegisterCh, PollAgain, Close, DropPublisher
    <2> QED
      BY <2>1, <2>2, <2>3, <2>4, <2>5, <2>6 DEF LifeStep
  <1> QED
    BY <1>0, <1>1, <1>c DEF OthersKept, LifecycleTypeOK

\* A step that leaves the files alone.
LEMMA Quiet ==
  ASSUME LifeInv, NEW x \in Procs, UNCHANGED <<path, wrote, beat, halfMade, exposed>>,
         pc[x] # "init", map'[x] \in {None, map[x]}, view'[x] \in {None, view[x]},
         map'[x] # None \/ view'[x] # None => job'[x] = job[x]
  PROVE  FilesKept /\ NoNewFile(x) /\ BeatKept(x) /\ MadeKept(x)
  <1>1. FilesKept /\ BeatKept(x) /\ MadeKept(x)
    BY DEF FilesKept, BeatKept, MadeKept
  <1>2. NoNewFile(x)
    BY Own DEF NoNewFile, Name, Target, IsEndpoint
  <1> QED
    BY <1>1, <1>2

\* The locals of x as the invariant has them.
LEMMA LocalFacts ==
  ASSUME LifeInv, NEW x \in Procs
  PROVE  /\ LifecycleTypeOK /\ TypeOK /\ job[x] \in Jobs /\ Name(x) \in Names
         /\ PubLocal(x) /\ AttachLocal(x) /\ JobOK(x) /\ PathOK(x) /\ InitOK(x)
  BY InvParts, NamesTyped

LEMMA CallOK ==
  ASSUME LifeInv, NEW x \in Procs, ChanStep(x), chan' = chan,
         \E j \in Jobs : OpenLockFile(x, j) \/ ConnectUnlocked(x, j) \/ NoLockFile(x, j)
  PROVE  StepOK(x)
  <1>0. PICK j \in Jobs : OpenLockFile(x, j) \/ ConnectUnlocked(x, j) \/ NoLockFile(x, j)
    OBVIOUS
  <1>1. OthersKept(x)
    BY OnlyOwn DEF LifeStep
  <1>l. /\ LifecycleTypeOK /\ TypeOK /\ PubLocal(x) /\ AttachLocal(x) /\ JobOK(x)
        /\ PathOK(x) /\ InitOK(x) /\ LifecycleTypeOK'
    BY LocalFacts, TypeKept DEF LifeStep
  <1>2. /\ pc[x] = "none" /\ apc[x] = "none" /\ jobs[x] # <<>> /\ j = Head(jobs[x])
        /\ jobs' = [jobs EXCEPT ![x] = Tail(@)]
        /\ UNCHANGED <<path, wrote, beat, halfMade, exposed, held, map, at, view>>
    BY <1>0 DEF OpenLockFile, ConnectUnlocked, NoLockFile, Call, files, history, pubVars, attachVars
  <1>3. map[x] = None /\ view[x] = None /\ at[x] = 0 /\ lfd[x] = None /\ held[x] = "none"
        /\ chan[x] = "off"
    BY <1>l, <1>2 DEF PubLocal, AttachLocal, TypeOK
  <1>4. FilesKept /\ NoNewFile(x) /\ BeatKept(x) /\ MadeKept(x)
    BY <1>2, <1>3, Quiet
  <1>5. \/ pc'[x] = "lock" /\ apc'[x] = "none" /\ job'[x] = j /\ lfd'[x] # None
        \/ /\ pc'[x] = "none" /\ apc'[x] = "find" /\ job'[x] = j /\ lfd'[x] = None
           /\ j.what = "connect"
        \/ pc'[x] = "none" /\ apc'[x] = "none" /\ lfd'[x] = None
    <2>1. CASE OpenLockFile(x, j)
      <3> DEFINE l == IF lockAt[j.name] = None THEN FreeLock ELSE lockAt[j.name]
      <3>1. l \in LockFiles
        BY <1>l, <2>1, FreshLock, JobFields DEF OpenLockFile, LifecycleTypeOK
      <3>2. lfd' = [lfd EXCEPT ![x] = l]
        BY <2>1 DEF OpenLockFile
      <3> HIDE DEF l
      <3>3. lfd'[x] # None
        BY <1>l, <3>1, <3>2, Consts DEF LifecycleTypeOK
      <3> QED
        BY <1>l, <2>1, <3>3 DEF OpenLockFile, Call, LifecycleTypeOK
    <2>2. CASE ConnectUnlocked(x, j)
      BY <1>l, <1>2, <1>3, <2>2 DEF ConnectUnlocked, Call, LifecycleTypeOK
    <2>3. CASE NoLockFile(x, j)
      BY <1>l, <1>2, <1>3, <2>3 DEF NoLockFile, attachVars, pubVars
    <2> QED
      BY <1>0, <2>1, <2>2, <2>3
  <1>6. PubLocal(x)' /\ AttachLocal(x)'
    BY <1>2, <1>3, <1>5 DEF PubLocal, AttachLocal, Creating, Viewing
  <1>7. JobOK(x)'
    <2>1. /\ jobs'[x] = Tail(jobs[x])
          /\ \A i \in DOMAIN Tail(jobs[x]) : BusJob(Tail(jobs[x])[i])
          /\ BusJob(j)
      BY <1>l, <1>2, HeadTail DEF JobOK, LifecycleTypeOK
    <2> QED
      BY <1>5, <2>1 DEF JobOK, BusJob
  <1>8. PathOK(x)' /\ InitOK(x)'
    BY <1>5 DEF PathOK, InitOK, Viewing
  <1> QED
    BY <1>1, <1>4, <1>6, <1>7, <1>8 DEF StepOK

\* The locks taken, kept, given up; the wait for the lock.
LEMMA LockStepOK ==
  ASSUME LifeInv, NEW x \in Procs, ChanStep(x), chan' = chan,
         LockExclusive(x) \/ LockContention(x) \/ Downgrade(x) \/ Identify(x) \/ LockShared(x)
  PROVE  StepOK(x)
  <1>1. OthersKept(x)
    BY OnlyOwn DEF LifeStep, PubStep
  <1>l. /\ LifecycleTypeOK /\ TypeOK /\ PubLocal(x) /\ AttachLocal(x) /\ JobOK(x)
        /\ PathOK(x) /\ InitOK(x) /\ job[x] \in Jobs
    BY LocalFacts
  <1> USE DEF files, history, attachVars, pubVars, Step, Leave, Locked
  <1>2. /\ UNCHANGED <<path, wrote, beat, halfMade, exposed, map, at, view>>
        /\ pc[x] \in {"lock", "downgrade", "identify"}
    BY DEF LockExclusive, LockContention, Downgrade, Identify, LockShared
  <1>3. /\ apc[x] = "none" /\ view[x] = None /\ chan[x] = "off" /\ at[x] = 0
        /\ map[x] = None <=> pc[x] = "lock"
        /\ lfd[x] # None
    BY <1>l, <1>2 DEF PubLocal, AttachLocal, LifecycleTypeOK, TypeOK
  <1>4. CASE LockContention(x)
    <2>1. pc'[x] = "none" /\ lfd'[x] = None /\ held'[x] = "none" /\ apc'[x] = "none"
          /\ jobs' = jobs /\ map[x] = None
      BY <1>l, <1>3, <1>4 DEF LockContention, LifecycleTypeOK
    <2>2. FilesKept /\ NoNewFile(x) /\ BeatKept(x) /\ MadeKept(x)
      BY <1>2, <1>3, <2>1, Quiet
    <2>3. PubLocal(x)' /\ AttachLocal(x)' /\ JobOK(x)' /\ PathOK(x)' /\ InitOK(x)'
      BY <1>l, <1>2, <1>3, <2>1 DEF PubLocal, AttachLocal, JobOK, PathOK, InitOK, Creating, Viewing
    <2> QED
      BY <1>1, <2>2, <2>3 DEF StepOK
  <1>5. CASE ~LockContention(x)
    <2>1. UNCHANGED <<jobs, job, lfd>>
      BY <1>5 DEF LockExclusive, Downgrade, Identify, LockShared
    <2>2. FilesKept /\ NoNewFile(x) /\ BeatKept(x) /\ MadeKept(x)
      BY <1>2, <1>3, <2>1, Quiet
    <2>3. CASE LockExclusive(x)
      <3>1. pc[x] = "lock" /\ pc'[x] = "remove" /\ held'[x] = "exclusive" /\ apc'[x] = "none" /\ Creates(x)
        BY <1>l, <1>3, <2>3 DEF LockExclusive, LifecycleTypeOK
      <3>2. PubLocal(x)' /\ AttachLocal(x)' /\ JobOK(x)' /\ PathOK(x)' /\ InitOK(x)'
        BY <1>l, <1>2, <1>3, <2>1, <3>1 DEF PubLocal, AttachLocal, JobOK, PathOK, InitOK, Viewing, Creates
      <3> QED
        BY <1>1, <2>2, <3>2 DEF StepOK
    <2>4. CASE LockShared(x)
      <3>1. pc[x] = "lock" /\ pc'[x] = "attach" /\ held'[x] = "shared" /\ apc'[x] = "find" /\ ~Creates(x)
        BY <1>l, <1>3, <2>4 DEF LockShared, LifecycleTypeOK
      <3>2. job[x].what \in {"open", "connect"}
        BY <1>l, <3>1, JobFields DEF Creates
      <3>3. PubLocal(x)' /\ AttachLocal(x)' /\ JobOK(x)' /\ PathOK(x)' /\ InitOK(x)'
        BY <1>l, <1>2, <1>3, <2>1, <3>1, <3>2
           DEF PubLocal, AttachLocal, JobOK, PathOK, InitOK, Viewing, Creating
      <3> QED
        BY <1>1, <2>2, <3>3 DEF StepOK
    <2>5. CASE Downgrade(x)
      <3>1. /\ pc[x] = "downgrade" /\ pc'[x] = (IF IsBus(x) THEN "up" ELSE "identify")
            /\ held'[x] = "shared" /\ apc'[x] = "none"
        BY <1>l, <1>3, <2>5 DEF Downgrade, LifecycleTypeOK
      <3>2. PubLocal(x)' /\ AttachLocal(x)' /\ JobOK(x)'
        BY <1>l, <1>2, <1>3, <2>1, <3>1
           DEF PubLocal, AttachLocal, JobOK, Viewing, Creating, Creates, IsBus, Name
      <3>3. PathOK(x)'
        BY <1>l, <1>2, <1>3, <2>1, <3>1 DEF PathOK, Name, Viewing
      <3>4. InitOK(x)'
        BY <1>l, <1>2, <1>3, <2>1, <3>1 DEF InitOK, Name, Viewing, Ready, Parts
      <3> QED
        BY <1>1, <2>2, <3>2, <3>3, <3>4 DEF StepOK
    <2>6. CASE Identify(x)
      <3>1. /\ pc[x] = "identify" /\ pc'[x] = (IF IsBus(x) THEN "downgrade" ELSE "up")
            /\ held'[x] = held[x] /\ apc'[x] = "none"
        BY <1>l, <1>3, <2>6 DEF Identify, LifecycleTypeOK
      <3>2. PubLocal(x)' /\ AttachLocal(x)' /\ JobOK(x)'
        BY <1>l, <1>2, <1>3, <2>1, <3>1
           DEF PubLocal, AttachLocal, JobOK, Viewing, Creating, Creates, IsBus, Name
      <3>3. PathOK(x)'
        BY <1>l, <1>2, <1>3, <2>1, <3>1 DEF PathOK, Name, Viewing
      <3>4. InitOK(x)'
        BY <1>l, <1>2, <1>3, <2>1, <3>1 DEF InitOK, Name, Viewing, Ready, Parts
      <3> QED
        BY <1>1, <2>2, <3>2, <3>3, <3>4 DEF StepOK
    <2> QED
      BY <1>5, <2>3, <2>4, <2>5, <2>6
  <1> QED
    BY <1>4, <1>5

\* The name is cleared: before a create, and by a drop.
LEMMA RemoveOK ==
  ASSUME LifeInv, NEW x \in Procs, ChanStep(x), chan' = chan, RemoveStale(x) \/ Unlink(x)
  PROVE  StepOK(x)
  <1>1. OthersKept(x)
    BY OnlyOwn DEF LifeStep, PubStep
  <1>l. /\ LifecycleTypeOK /\ TypeOK /\ PubLocal(x) /\ AttachLocal(x) /\ JobOK(x)
        /\ PathOK(x) /\ InitOK(x) /\ Name(x) \in Names
    BY LocalFacts
  <1>2. /\ UNCHANGED <<jobs, job, lfd, held, map, at, apc, view, wrote, beat, halfMade, exposed>>
        /\ path' = [path EXCEPT ![Name(x)] = None]
        /\ \/ pc[x] = "remove" /\ pc'[x] = "new"
           \/ pc[x] = "unlink" /\ pc'[x] = "unlinked"
    BY <1>l DEF RemoveStale, Unlink, Step, history, attachVars, LifecycleTypeOK
  <1>3. FilesKept /\ BeatKept(x) /\ MadeKept(x)
    BY <1>l, <1>2 DEF FilesKept, BeatKept, MadeKept, LifecycleTypeOK
  <1>4. NoNewFile(x)
    BY <1>2, Own DEF NoNewFile, Name, Target, IsEndpoint
  <1>5. PubLocal(x)' /\ AttachLocal(x)' /\ JobOK(x)'
    BY <1>l, <1>2 DEF PubLocal, AttachLocal, JobOK, Creating, Creates, IsBus, Name, IsEndpoint, Viewing
  <1>6. PathOK(x)'
    BY <1>l, <1>2 DEF PathOK, Name, LifecycleTypeOK
  <1>7. apc[x] = "none"
    BY <1>l, <1>2 DEF AttachLocal
  <1>8. InitOK(x)'
    BY <1>2, <1>7 DEF InitOK
  <1> QED
    BY <1>1, <1>3, <1>4, <1>5, <1>6, <1>8 DEF StepOK

\* One part of the file is initialised; the heartbeat comes after what Ready names.
LEMMA InitPartOK ==
  ASSUME LifeInv, NEW x \in Procs, ChanStep(x), chan' = chan, InitPart(x)
  PROVE  StepOK(x)
  <1>1. OthersKept(x)
    BY OnlyOwn DEF LifeStep, PubStep
  <1>l. /\ LifecycleTypeOK /\ TypeOK /\ PubLocal(x) /\ AttachLocal(x) /\ JobOK(x)
        /\ PathOK(x) /\ InitOK(x) /\ Name(x) \in Names
    BY LocalFacts
  <1>t. LifecycleTypeOK'
    BY TypeKept DEF LifeStep, PubStep
  <1> DEFINE o == InitOrder(IsBus(x))
             n == at[x] + 1
             f == map[x]
  <1>2. /\ pc[x] = "init"
        /\ wrote' = [wrote EXCEPT ![f] = @ \cup {o[n]}]
        /\ beat' = IF o[n] = "beat" THEN [beat EXCEPT ![f] = "fresh"] ELSE beat
        /\ at' = [at EXCEPT ![x] = IF n < Len(o) THEN n ELSE 0]
        /\ pc' = [pc EXCEPT ![x] = IF n < Len(o) THEN "init"
                                   ELSE IF IsBus(x) THEN "identify" ELSE "downgrade"]
        /\ UNCHANGED <<jobs, path, halfMade, exposed, job, lfd, held, map, apc, view>>
    BY DEF InitPart, history, attachVars
  <1>3. IsBus(x) \in BOOLEAN /\ at[x] \in 0 .. 4 /\ n \in 1 .. 5
    BY <1>l DEF IsBus, PubLocal
  <1>4. /\ Len(o) = 5 /\ o[n] \in Parts
        /\ o[n] = "beat" => \A p \in Ready \ {"beat"} : \E k \in 1 .. n - 1 : o[k] = p
        /\ \A p \in Parts : \E k \in 1 .. 5 : o[k] = p
    BY <1>3, OrderFacts
  <1>5. f \in Files /\ held[x] = "exclusive" /\ apc[x] = "none" /\ view[x] = None
        /\ chan[x] = "off"
    BY <1>l, <1>2 DEF PubLocal, AttachLocal, LifecycleTypeOK, TypeOK
  <1>6. wrote'[f] = wrote[f] \cup {o[n]} /\ \A g \in Files : wrote[g] \subseteq wrote'[g]
    BY <1>l, <1>2, <1>5 DEF LifecycleTypeOK
  <1>7. \A g \in Files : beat'[g] = beat[g] \/ (g = f /\ o[n] = "beat")
    BY <1>l, <1>2 DEF LifecycleTypeOK
  <1>8. Name(x) \notin exposed => \A i \in 1 .. n - 1 : o[i] \in wrote[f]
    BY <1>l, <1>2, <1>3 DEF InitOK
  <1>9. /\ n < 5 => at'[x] = n /\ pc'[x] = "init"
        /\ ~(n < 5) => /\ at'[x] = 0 /\ n = 5
                       /\ pc'[x] = IF IsBus(x) THEN "identify" ELSE "downgrade"
    BY <1>l, <1>2, <1>3, <1>4 DEF LifecycleTypeOK
  <1>i. \A i \in 1 .. n : i \in 1 .. n - 1 \/ i = n
    BY <1>3
  <1> HIDE DEF o, n, f
  <1>10. Name(x) \notin exposed => \A i \in 1 .. n : o[i] \in wrote'[f]
    BY <1>6, <1>8, <1>i
  <1>11. Name(x) \notin exposed /\ o[n] = "beat" => Ready \subseteq wrote'[f]
    BY <1>4, <1>6, <1>8 DEF Ready
  <1>12. Name(x) \notin exposed /\ ~(n < 5) => wrote'[f] = Parts
    <2>1. wrote'[f] \subseteq Parts
      BY <1>t, <1>5 DEF LifecycleTypeOK
    <2> QED
      BY <1>4, <1>9, <1>10, <2>1
  <1>13. FilesKept
    BY <1>2, <1>6 DEF FilesKept
  <1>14. NoNewFile(x)
    BY <1>2, <1>5, Own DEF NoNewFile, Name, Target, IsEndpoint
  <1>15. BeatKept(x)
    BY <1>7, <1>11, Own DEF BeatKept, f
  <1>16. MadeKept(x)
    BY <1>2, <1>9, <1>12 DEF MadeKept, f
  <1>17. PubLocal(x)'
    <2>1. n < 5 => n \in 0 .. 4
      BY <1>3 DEF n
    <2>2. IsBus(x)' = IsBus(x) /\ Creates(x)' = Creates(x) /\ Creates(x)
      BY <1>l, <1>2 DEF IsBus, Name, Creates, PubLocal, Creating
    <2> QED
      BY <1>l, <1>2, <1>9, <2>1, <2>2 DEF PubLocal, Creating
  <1>18. AttachLocal(x)' /\ JobOK(x)'
    BY <1>l, <1>2, <1>5, <1>9 DEF AttachLocal, JobOK, Viewing
  <1>19. PathOK(x)'
    BY <1>l, <1>2, <1>5, <1>9 DEF PathOK, Name
  <1>20. InitOK(x)'
    <2>1. Name(x)' = Name(x) /\ InitOrder(IsBus(x))' = o /\ map'[x] = f
      BY <1>2 DEF Name, IsBus, InitOrder, o, f
    <2>2. apc'[x] = "none"
      BY <1>2, <1>5
    <2> QED
      BY <1>2, <1>9, <1>10, <1>12, <2>1, <2>2 DEF InitOK
  <1> QED
    BY <1>1, <1>13, <1>14, <1>15, <1>16, <1>17, <1>18, <1>19, <1>20 DEF StepOK

\* open_and_validate_region finds the file ...
LEMMA FindOK ==
  ASSUME LifeInv, NEW x \in Procs, ChanStep(x), chan' = chan, Find(x, Target(x))
  PROVE  StepOK(x)
  <1>1. OthersKept(x)
    BY OnlyOwn DEF LifeStep, AttachStep
  <1>l. /\ LifecycleTypeOK /\ TypeOK /\ PubLocal(x) /\ AttachLocal(x) /\ JobOK(x)
        /\ PathOK(x) /\ InitOK(x) /\ Name(x) \in Names /\ Target(x) \in Names
    BY LocalFacts, NamesTyped
  <1>2. /\ apc[x] = "find" /\ view'[x] = path[Target(x)]
        /\ apc'[x] = (IF path[Target(x)] # None THEN "map" ELSE "failed")
        /\ UNCHANGED <<jobs, path, wrote, beat, halfMade, exposed, pc, job, lfd, held, map, at>>
    BY <1>l DEF Find, Attached, files, history, pubVars, LifecycleTypeOK
  <1>3. FilesKept /\ BeatKept(x) /\ MadeKept(x)
    BY <1>2 DEF FilesKept, BeatKept, MadeKept
  <1>4. NoNewFile(x)
    BY <1>l, <1>2, Own, PathRefers DEF NoNewFile, Name, Target, IsEndpoint
  <1>5. PubLocal(x)' /\ JobOK(x)'
    BY <1>l, <1>2 DEF PubLocal, JobOK, Creating, Creates, IsBus, Name
  <1>6. AttachLocal(x)'
    BY <1>l, <1>2 DEF AttachLocal, Viewing, IsEndpoint
  <1>7. pc[x] = "attach" => Target(x) = Name(x)
    BY <1>l DEF AttachLocal, Target, IsEndpoint
  <1>8. PathOK(x)'
    BY <1>l, <1>2, <1>7 DEF PathOK, Name
  <1>9. ASSUME pc[x] = "attach", path[Name(x)] # None, Name(x) \notin exposed
        PROVE  path[Name(x)] \in halfMade \/ wrote[path[Name(x)]] = Parts
    <2>1. ASSUME NEW y \in Procs, pc[y] = "init", map[y] = path[Name(x)]
          PROVE  FALSE
      <3>1. Name(y) = Name(x)
        <4>1. Refers(map[y], Name(y)) /\ Refers(map[y], Name(x))
          BY <1>l, <2>1, Own, PathRefers
        <4>2. map[y] \in Files /\ Name(y) \in Names
          BY <1>l, <1>9, <2>1, NamesTyped DEF LifecycleTypeOK
        <4> QED
          BY <1>l, <4>1, <4>2, InvParts DEF OneName
      <3>2. held[y] = "exclusive" /\ y # x
        BY <1>9, <2>1, InvParts DEF PubLocal
      <3> QED
        BY <1>9, <3>1, <3>2, Excluded
    <2> QED
      BY <1>l, <1>9, <2>1, InvParts DEF MadeOK
  <1>10. InitOK(x)'
    BY <1>l, <1>2, <1>7, <1>9 DEF InitOK, IsBus, Name, Viewing
  <1> QED
    BY <1>1, <1>3, <1>4, <1>5, <1>6, <1>8, <1>10 DEF StepOK

\* ... and looks at its length, header and heartbeat.
LEMMA ValidateOK ==
  ASSUME LifeInv, NEW x \in Procs, ChanStep(x), chan' = chan,
         MapFile(x) \/ CheckHeader(x) \/ CheckBeat(x)
  PROVE  StepOK(x)
  <1>1. OthersKept(x)
    BY OnlyOwn DEF LifeStep, AttachStep
  <1>l. /\ LifecycleTypeOK /\ TypeOK /\ PubLocal(x) /\ AttachLocal(x) /\ JobOK(x)
        /\ PathOK(x) /\ InitOK(x) /\ Name(x) \in Names /\ Target(x) \in Names
    BY LocalFacts, NamesTyped
  <1>2. /\ apc[x] \in {"map", "header", "beat"} /\ apc'[x] \in {"header", "beat", "ok", "failed"}
        /\ apc'[x] = "ok" => beat[view[x]] = "fresh"
        /\ UNCHANGED <<jobs, path, wrote, beat, halfMade, exposed, pc, job, lfd, held, map, at, view>>
    BY <1>l DEF MapFile, CheckHeader, CheckBeat, Attached, files, history, pubVars, LifecycleTypeOK
  <1>3. FilesKept /\ NoNewFile(x) /\ BeatKept(x) /\ MadeKept(x)
    <2>1. FilesKept /\ BeatKept(x) /\ MadeKept(x)
      BY <1>2 DEF FilesKept, BeatKept, MadeKept
    <2>2. NoNewFile(x)
      BY <1>2, Own DEF NoNewFile, Name, Target, IsEndpoint
    <2> QED
      BY <2>1, <2>2
  <1>5. PubLocal(x)' /\ JobOK(x)'
    BY <1>l, <1>2 DEF PubLocal, JobOK, Creating, Creates, IsBus, Name
  <1>6. AttachLocal(x)'
    BY <1>l, <1>2 DEF AttachLocal, Viewing, IsEndpoint
  <1>7. PathOK(x)'
    BY <1>l, <1>2 DEF PathOK, Name, Viewing
  <1>8. ASSUME apc'[x] = "ok", Name(x) \notin exposed
        PROVE  Ready \subseteq wrote[view[x]]
    <2>1. view[x] # None /\ view[x] \in Files
      BY <1>l, <1>2 DEF AttachLocal, Viewing, LifecycleTypeOK
    <2>2. Target(x) \notin exposed
      BY <1>8, <2>1, TargetShut
    <2>3. Refers(view[x], Target(x))
      BY Own
    <2>4. beat[view[x]] = "fresh"
      BY <1>2, <1>8
    <2>5. "fresh" # "zero" /\ BeatOK
      BY InvParts
    <2> QED
      BY <1>l, <2>1, <2>2, <2>3, <2>4, <2>5 DEF BeatOK
  <1>9. InitOK(x)'
    BY <1>l, <1>2, <1>8 DEF InitOK, IsBus, Name, Viewing
  <1> QED
    BY <1>1, <1>3, <1>5, <1>6, <1>7, <1>9 DEF StepOK

\* open returns: the file that was found becomes the publisher's.
LEMMA OpenedOK ==
  ASSUME LifeInv, NEW x \in Procs, ChanStep(x), chan' = chan, Opened(x)
  PROVE  StepOK(x)
  <1>1. OthersKept(x)
    BY OnlyOwn DEF LifeStep, PubStep
  <1>l. /\ LifecycleTypeOK /\ TypeOK /\ PubLocal(x) /\ AttachLocal(x) /\ JobOK(x)
        /\ PathOK(x) /\ InitOK(x) /\ Name(x) \in Names
    BY LocalFacts
  <1>2. /\ pc[x] = "attach" /\ pc'[x] = "up" /\ apc[x] = "ok" /\ apc'[x] = "none"
        /\ job[x].what = "open" /\ map'[x] = view[x] /\ view'[x] = None
        /\ UNCHANGED <<jobs, path, wrote, beat, halfMade, exposed, job, lfd, held, at>>
    BY <1>l DEF Opened, Step, files, history, LifecycleTypeOK
  <1>3. FilesKept /\ BeatKept(x) /\ MadeKept(x)
    BY <1>2 DEF FilesKept, BeatKept, MadeKept
  <1>4. Target(x) = Name(x) /\ view[x] # None /\ chan[x] = "off"
    BY <1>l, <1>2 DEF Target, IsEndpoint, AttachLocal, Viewing, TypeOK
  <1>5. NoNewFile(x)
    BY <1>2, <1>4, Own DEF NoNewFile, Name
  <1>6. PubLocal(x)' /\ JobOK(x)'
    BY <1>l, <1>2, <1>4 DEF PubLocal, JobOK, Creating, IsBus, Name
  <1>7. AttachLocal(x)'
    BY <1>2, <1>4 DEF AttachLocal, Viewing
  <1>8. PathOK(x)' /\ InitOK(x)'
    BY <1>l, <1>2 DEF PathOK, InitOK, Name, Viewing
  <1> QED
    BY <1>1, <1>3, <1>5, <1>6, <1>7, <1>8 DEF StepOK

\* Everything of x goes.
LEMMA LeaveOK ==
  ASSUME LifeInv, NEW x \in Procs, ChanStep(x), chan'[x] = "off",
         DropFields(x) \/ Detach(x) \/ Die(x) \/ BusError(x)
  PROVE  StepOK(x)
  <1>1. OthersKept(x)
    BY OnlyOwn DEF LifeStep, PubStep
  <1>l. /\ LifecycleTypeOK /\ TypeOK /\ PubLocal(x) /\ AttachLocal(x) /\ JobOK(x)
        /\ Name(x) \in Names
    BY LocalFacts
  <1> USE DEF files, history, attachVars, pubVars, Leave, Locked
  <1>2. /\ pc'[x] = "none" /\ lfd'[x] = None /\ held'[x] = "none"
        /\ UNCHANGED <<jobs, path, wrote, beat>> /\ exposed \subseteq exposed'
    BY <1>l DEF DropFields, Detach, Die, BusError, Gone, LifecycleTypeOK
  <1>3. map'[x] = None /\ apc'[x] = "none" /\ view'[x] = None /\ at'[x] = 0
    <2>1. CASE DropFields(x)
      BY <1>l, <2>1 DEF DropFields, PubLocal, AttachLocal, LifecycleTypeOK
    <2>2. CASE Detach(x)
      <3>1. pc[x] # "up" /\ pc[x] \in {"none", "attach"}
        BY <1>l, <2>2 DEF Detach, AttachLocal, IsEndpoint
      <3> QED
        BY <1>l, <2>2, <3>1 DEF Detach, PubLocal, LifecycleTypeOK
    <2>3. CASE Die(x) \/ BusError(x)
      BY <1>l, <2>3 DEF Die, BusError, Gone, LifecycleTypeOK
    <2> QED
      BY <2>1, <2>2, <2>3
  <1>4. halfMade \subseteq halfMade' /\ (pc[x] = "init" => map[x] \in halfMade')
    <2>1. CASE DropFields(x)
      BY <2>1 DEF DropFields
    <2>2. CASE Detach(x)
      BY <1>l, <2>2 DEF Detach, AttachLocal
    <2>3. CASE Die(x) \/ BusError(x)
      BY <1>l, <2>3 DEF Die, BusError, Gone, PubLocal, Creating
    <2> QED
      BY <2>1, <2>2, <2>3
  <1>5. FilesKept /\ BeatKept(x) /\ MadeKept(x) /\ NoNewFile(x)
    BY <1>2, <1>3, <1>4 DEF FilesKept, BeatKept, MadeKept, NoNewFile
  <1>6. PubLocal(x)' /\ AttachLocal(x)' /\ JobOK(x)'
    BY <1>l, <1>2, <1>3 DEF PubLocal, AttachLocal, JobOK, Creating, Viewing
  <1>7. PathOK(x)' /\ InitOK(x)'
    BY <1>2, <1>3 DEF PathOK, InitOK, Viewing
  <1> QED
    BY <1>1, <1>5, <1>6, <1>7 DEF StepOK

\* A publisher is dropped, alone or with its channel.
LEMMA DropOK ==
  ASSUME LifeInv, NEW x \in Procs, ChanStep(x), (Drop(x) /\ chan' = chan) \/ Close(x)
  PROVE  StepOK(x)
  <1>1. OthersKept(x)
    BY OnlyOwn DEF LifeStep, EndStep
  <1>l. /\ LifecycleTypeOK /\ TypeOK /\ PubLocal(x) /\ AttachLocal(x) /\ JobOK(x)
        /\ PathOK(x) /\ InitOK(x) /\ Name(x) \in Names
    BY LocalFacts
  <1>2. /\ pc[x] = "up" /\ pc'[x] \in {"unlink", "unlinked"}
        /\ UNCHANGED <<jobs, path, wrote, beat, halfMade, exposed, job, lfd, held, map, at>>
    BY <1>l DEF Drop, Close, DropPublisher, Step, files, history, LifecycleTypeOK
  <1>3. apc'[x] = "none" /\ view'[x] = None /\ chan'[x] = "off"
    <2>1. CASE Drop(x) /\ chan' = chan
      BY <1>l, <1>2, <2>1 DEF Drop, AttachLocal, IsEndpoint, attachVars, TypeOK
    <2>2. CASE Close(x)
      BY <1>l, <2>2 DEF Close, LifecycleTypeOK, TypeOK
    <2> QED
      BY <2>1, <2>2
  <1>4. FilesKept /\ NoNewFile(x) /\ BeatKept(x) /\ MadeKept(x)
    BY <1>2, <1>3, Quiet
  <1>5. PubLocal(x)' /\ AttachLocal(x)' /\ JobOK(x)'
    BY <1>l, <1>2, <1>3 DEF PubLocal, AttachLocal, JobOK, Creating, Viewing, IsBus, Name
  <1>6. PathOK(x)' /\ InitOK(x)'
    BY <1>l, <1>2, <1>3 DEF PathOK, InitOK, Viewing, Name
  <1> QED
    BY <1>1, <1>4, <1>5, <1>6 DEF StepOK

\* An endpoint begins to look for its peer, or begins again.
LEMMA PollOK ==
  ASSUME LifeInv, NEW x \in Procs, ChanStep(x), RegisterCh(x) \/ PollAgain(x)
  PROVE  StepOK(x)
  <1>1. OthersKept(x)
    BY OnlyOwn DEF EndStep
  <1>l. /\ LifecycleTypeOK /\ TypeOK /\ PubLocal(x) /\ AttachLocal(x) /\ JobOK(x)
        /\ PathOK(x) /\ InitOK(x) /\ Name(x) \in Names
    BY LocalFacts
  <1>2. /\ pc[x] = "up" /\ IsEndpoint(x) /\ apc'[x] = "find" /\ chan'[x] = "poll"
        /\ UNCHANGED <<jobs, path, wrote, beat, halfMade, exposed, pc, job, lfd, held, map, at>>
        /\ view'[x] \in {None, view[x]}
    BY <1>l DEF RegisterCh, PollAgain, AttemptFailed, AttachLocal, files, history, pubVars,
         channelVars, LifecycleTypeOK, TypeOK
  <1>3. view'[x] = None
    <2>1. CASE RegisterCh(x)
      BY <1>l, <1>2, <2>1 DEF RegisterCh, AttachLocal, IsEndpoint
    <2>2. CASE PollAgain(x)
      BY <1>l, <2>2 DEF PollAgain, LifecycleTypeOK
    <2> QED
      BY <2>1, <2>2
  <1>4. FilesKept /\ NoNewFile(x) /\ BeatKept(x) /\ MadeKept(x)
    BY <1>2, <1>3, Quiet
  <1>5. PubLocal(x)' /\ AttachLocal(x)' /\ JobOK(x)'
    BY <1>l, <1>2, <1>3
       DEF PubLocal, AttachLocal, JobOK, Creating, Creates, Viewing, IsBus, Name, IsEndpoint
  <1>6. PathOK(x)' /\ InitOK(x)'
    BY <1>l, <1>2, <1>3 DEF PathOK, InitOK, Viewing, Name, IsBus
  <1> QED
    BY <1>1, <1>4, <1>5, <1>6 DEF StepOK

\* A live publisher's heartbeat goes to an initialised file.
LEMMA HeartbeatOK ==
  ASSUME LifeInv, NEW x \in Procs, ChanStep(x), chan' = chan, Heartbeat(x)
  PROVE  StepOK(x)
  <1>1. OthersKept(x)
    BY OnlyOwn DEF LifeStep
  <1>l. /\ LifecycleTypeOK /\ TypeOK /\ PubLocal(x) /\ AttachLocal(x) /\ JobOK(x)
        /\ PathOK(x) /\ InitOK(x) /\ Name(x) \in Names
    BY LocalFacts
  <1>2. /\ pc[x] = "up" /\ beat' = [beat EXCEPT ![map[x]] = "fresh"]
        /\ UNCHANGED <<jobs, path, wrote, halfMade, exposed, pc, job, lfd, held, map, at, apc, view>>
    BY DEF Heartbeat, history, pubVars, attachVars
  <1>3. FilesKept /\ MadeKept(x)
    BY <1>2 DEF FilesKept, MadeKept
  <1>4. NoNewFile(x)
    BY <1>2, Own DEF NoNewFile, Name, Target, IsEndpoint
  <1>5. BeatKept(x)
    <2>1. Refers(map[x], Name(x)) /\ (Name(x) \notin exposed => Ready \subseteq wrote'[map[x]])
      BY <1>l, <1>2, Own DEF InitOK
    <2> QED
      BY <1>l, <1>2, <2>1 DEF BeatKept, LifecycleTypeOK
  <1>6. PubLocal(x)' /\ AttachLocal(x)' /\ JobOK(x)'
    BY <1>l, <1>2 DEF PubLocal, AttachLocal, JobOK, Creates, IsBus, Name, IsEndpoint
  <1>7. PathOK(x)' /\ InitOK(x)'
    BY <1>l, <1>2 DEF PathOK, InitOK, Name, IsBus
  <1> QED
    BY <1>1, <1>3, <1>4, <1>5, <1>6, <1>7 DEF StepOK

(***************************************************************************)
(* A new file: it is nobody's, or it is that of an exposed name            *)
(***************************************************************************)
LEMMA NewFileOK ==
  ASSUME LifeInv, NEW x \in Procs, ChanStep(x), chan' = chan, NewFile(x), TypeOK'
  PROVE  LifeInv'
  <1>1. OthersKept(x)
    BY OnlyOwn DEF LifeStep, PubStep
  <1>l. /\ LifecycleTypeOK /\ TypeOK /\ PubLocal(x) /\ AttachLocal(x) /\ JobOK(x)
        /\ PathOK(x) /\ Name(x) \in Names /\ LifecycleTypeOK'
    BY LocalFacts DEF TypeOK
  <1>k. LockOK'
    BY LocksKept DEF LifeStep, PubStep
  <1> DEFINE f == IF path[Name(x)] = None THEN FreeFile ELSE path[Name(x)]
  <1>2. /\ path' = [path EXCEPT ![Name(x)] = f] /\ map' = [map EXCEPT ![x] = f]
        /\ wrote' = [wrote EXCEPT ![f] = {}] /\ beat' = [beat EXCEPT ![f] = "zero"]
        /\ halfMade' = halfMade \ {f}
        /\ pc[x] = "new" /\ pc' = [pc EXCEPT ![x] = "init"]
        /\ UNCHANGED <<jobs, exposed, job, lfd, held, at, apc, view>>
    BY DEF NewFile, Step, attachVars
  <1>3. /\ f \in Files
        /\ path[Name(x)] = None => ~InUse(f)
        /\ path[Name(x)] # None => f = path[Name(x)]
    BY <1>l, FreshFile DEF NewFile, LifecycleTypeOK
  <1> HIDE DEF f
  <1>4. held[x] = "exclusive" /\ map[x] = None /\ view[x] = None /\ apc[x] = "none"
        /\ chan[x] = "off" /\ f # None
    BY <1>l, <1>2, <1>3, Consts DEF PubLocal, AttachLocal, TypeOK
  <1>5. path[Name(x)] = None => \A n \in Names : ~Refers(f, n)
    BY <1>3 DEF InUse, Refers
  <1>6. \A n \in Names \ exposed : ~Refers(f, n)
    <2>1. CASE path[Name(x)] = None
      BY <1>5, <2>1
    <2>2. CASE path[Name(x)] # None
      <3>1. Name(x) \in exposed
        BY <1>l, <1>2, <2>2 DEF PathOK
      <3>2. Refers(f, Name(x))
        BY <1>l, <1>3, <2>2, PathRefers
      <3> QED
        BY <1>l, <1>3, <3>1, <3>2, InvParts DEF OneName
    <2> QED
      BY <2>1, <2>2
  <1>7. /\ path'[Name(x)] = f /\ map'[x] = f /\ view'[x] = None
        /\ \A n \in Names \ {Name(x)} : path'[n] = path[n]
        /\ \A g \in Files \ {f} : wrote'[g] = wrote[g] /\ beat'[g] = beat[g]
        /\ beat'[f] = "zero" /\ pc'[x] = "init"
    BY <1>l, <1>2, <1>3, <1>4 DEF LifecycleTypeOK
  <1>8. ASSUME NEW g \in Files, NEW n \in Names, Refers(g, n)'
        PROVE  Refers(g, n) \/ (g = f /\ n = Name(x))
    <2>0. g # None
      BY Consts
    <2>1. CASE path'[n] = g
      BY <1>7, <2>1 DEF Refers
    <2>2. ASSUME NEW y \in Procs, map'[y] = g, Name(y)' = n
          PROVE  Refers(g, n) \/ (g = f /\ n = Name(x))
      <3>1. Name(y)' = Name(y)
        BY <1>2 DEF Name
      <3>2. CASE y = x
        BY <1>7, <2>2, <3>1, <3>2
      <3>3. CASE y # x
        BY <1>1, <2>2, <3>1, <3>3 DEF OthersKept, Refers
      <3> QED
        BY <3>2, <3>3
    <2>3. ASSUME NEW y \in Procs, view'[y] = g, Target(y)' = n
          PROVE  Refers(g, n)
      BY <1>2, <2>3 DEF Refers, Target, IsEndpoint, Name
    <2> QED
      BY <1>8, <2>1, <2>2, <2>3 DEF Refers
  <1>9. OneName'
    <2>1. path[Name(x)] # None => Refers(f, Name(x))
      BY <1>l, <1>3, PathRefers
    <2>2. ASSUME NEW g \in Files, NEW n \in Names, NEW m \in Names, Refers(g, n)', Refers(g, m)'
          PROVE  n = m
      <3>1. /\ Refers(g, n) \/ (g = f /\ n = Name(x))
            /\ Refers(g, m) \/ (g = f /\ m = Name(x))
        BY <1>8, <2>2
      <3>2. CASE path[Name(x)] = None
        BY <1>5, <3>1, <3>2, InvParts DEF OneName
      <3>3. CASE path[Name(x)] # None
        BY <1>l, <2>1, <3>1, <3>3, InvParts DEF OneName
      <3> QED
        BY <3>2, <3>3
    <2> QED
      BY <2>2 DEF OneName
  <1>10. BeatOK'
    <2> SUFFICES ASSUME NEW g \in Files, NEW n \in Names \ exposed, Refers(g, n)',
                        beat'[g] # "zero"
                 PROVE  Ready \subseteq wrote'[g]
      BY <1>2 DEF BeatOK
    <2>1. g # f /\ Refers(g, n)
      BY <1>7, <1>8
    <2> QED
      BY <1>7, <2>1, InvParts DEF BeatOK
  <1>11. MadeOK'
    <2> SUFFICES ASSUME NEW n \in Names \ exposed, path'[n] # None
                 PROVE  \/ path'[n] \in halfMade'
                        \/ wrote'[path'[n]] = Parts
                        \/ \E y \in Procs : pc'[y] = "init" /\ map'[y] = path'[n]
      BY <1>2 DEF MadeOK
    <2>1. CASE n = Name(x)
      BY <1>7, <2>1
    <2>2. CASE n # Name(x)
      <3>1. path'[n] = path[n] /\ path[n] \in Files /\ path[n] # f
        BY <1>l, <1>6, <1>7, <2>2, PathRefers DEF LifecycleTypeOK
      <3>2. CASE path[n] \in halfMade \/ wrote[path[n]] = Parts
        BY <1>2, <1>7, <3>1, <3>2
      <3>3. ASSUME NEW y \in Procs, pc[y] = "init", map[y] = path[n]
            PROVE  pc'[y] = "init" /\ map'[y] = path'[n]
        BY <1>1, <1>2, <3>1, <3>3 DEF OthersKept
      <3> QED
        BY <3>1, <3>2, <3>3, InvParts DEF MadeOK
    <2> QED
      BY <2>1, <2>2
  <1>12. PubLocal(x)' /\ AttachLocal(x)' /\ JobOK(x)' /\ PathOK(x)' /\ InitOK(x)'
    <2>1. PubLocal(x)'
      BY <1>l, <1>2, <1>4, <1>7 DEF PubLocal, Creating, Creates, IsBus, Name
    <2>2. AttachLocal(x)' /\ JobOK(x)'
      BY <1>l, <1>2, <1>4, <1>7 DEF AttachLocal, JobOK, Viewing
    <2>3. PathOK(x)'
      BY <1>2, <1>7 DEF PathOK, Name
    <2>4. at'[x] = 0
      BY <1>l, <1>2 DEF PubLocal
    <2>5. InitOK(x)'
      BY <1>2, <1>4, <1>7, <2>4 DEF InitOK
    <2> QED
      BY <2>1, <2>2, <2>3, <2>5
  <1>13. ASSUME NEW y \in Procs, y # x
         PROVE  PubLocal(y)' /\ AttachLocal(y)' /\ JobOK(y)' /\ PathOK(y)' /\ InitOK(y)'
    <2>1. /\ jobs'[y] = jobs[y] /\ pc'[y] = pc[y] /\ job'[y] = job[y] /\ lfd'[y] = lfd[y]
          /\ held'[y] = held[y] /\ map'[y] = map[y] /\ at'[y] = at[y]
          /\ apc'[y] = apc[y] /\ view'[y] = view[y] /\ chan'[y] = chan[y]
      BY <1>1, <1>13 DEF OthersKept
    <2>2. PubLocal(y) /\ AttachLocal(y) /\ JobOK(y) /\ PathOK(y) /\ InitOK(y)
          /\ Name(y) \in Names /\ Target(y) \in Names
      BY InvParts, NamesTyped
    <2>3. Name(y)' = Name(y) /\ IsBus(y)' = IsBus(y)
      BY <2>1 DEF Name, IsBus
    <2>4. PubLocal(y)'
      BY <2>1, <2>2, <2>3 DEF PubLocal, Creates
    <2>5. AttachLocal(y)' /\ JobOK(y)'
      BY <2>1, <2>2 DEF AttachLocal, JobOK, IsEndpoint
    <2>6. PathOK(y)'
      <3>1. CASE Name(y) # Name(x)
        BY <1>2, <1>7, <2>1, <2>2, <2>3, <3>1 DEF PathOK
      <3>2. CASE Name(y) = Name(x)
        <4>1. Name(y) \notin exposed => pc[y] \in {"none", "lock"}
          BY <1>4, <1>13, <3>2, Excluded
        <4> QED
          BY <1>2, <2>1, <2>3, <4>1 DEF PathOK
      <3> QED
        BY <3>1, <3>2
    <2>7. InitOK(y)'
      <3> SUFFICES ASSUME Name(y) \notin exposed
                   PROVE  InitOK(y)'
        BY <1>2, <2>3 DEF InitOK
      <3>1. map[y] # f
        BY <1>6, <2>2, Own
      <3>2. view[y] # f
        BY <1>4, <1>6, <2>2, Own, TargetShut
      <3>3. /\ map[y] # None => wrote'[map[y]] = wrote[map[y]]
            /\ view[y] # None => wrote'[view[y]] = wrote[view[y]]
                                /\ (view[y] \in halfMade => view[y] \in halfMade')
        BY <1>l, <1>2, <1>7, <3>1, <3>2 DEF LifecycleTypeOK
      <3>4. /\ pc[y] \in {"init", "downgrade", "identify", "up", "unlink"} => map[y] # None
            /\ apc[y] \in Viewing => view[y] # None
        BY <2>2 DEF PubLocal, AttachLocal
      <3>5. "ok" \in Viewing
        BY DEF Viewing
      <3> QED
        BY <1>2, <2>1, <2>2, <2>3, <3>3, <3>4, <3>5 DEF InitOK
    <2> QED
      BY <2>4, <2>5, <2>6, <2>7
  <1> QED
    BY <1>k, <1>9, <1>10, <1>11, <1>12, <1>13 DEF LifeInv

(***************************************************************************)
(* Steps that leave the processes alone                                    *)
(***************************************************************************)
\* Messages change, or nothing; a heartbeat may grow stale.
LEMMA AsideOK ==
  ASSUME LifeInv, TypeOK', UNCHANGED <<jobs, path, lockAt, wrote, history, pubVars, attachVars>>,
         \/ beat' = beat
         \/ \E f \in Files : beat[f] = "fresh" /\ beat' = [beat EXCEPT ![f] = "stale"],
         \A x \in Procs : \/ chan'[x] = chan[x]
                          \/ chan[x] = "poll" /\ chan'[x] = "connected" /\ apc[x] = "ok"
  PROVE  LifeInv'
  <1>l. /\ LifecycleTypeOK /\ LockOK /\ OneName /\ BeatOK /\ MadeOK
        /\ \A x \in Procs : PubLocal(x) /\ AttachLocal(x) /\ JobOK(x) /\ PathOK(x) /\ InitOK(x)
    BY InvParts
  <1>1. /\ UNCHANGED <<jobs, path, lockAt, wrote, halfMade, exposed, pc, job, lfd, held, map, at>>
        /\ UNCHANGED <<ino, apc, view>>
    BY DEF history, pubVars, attachVars
  <1>2. LockOK' /\ MadeOK'
    BY <1>l, <1>1 DEF LockOK, MadeOK, Name
  <1>3. \A f \in Files, n \in Names : Refers(f, n)' = Refers(f, n)
    BY <1>1 DEF Refers, Name, Target, IsEndpoint
  <1>4. OneName'
    BY <1>l, <1>3 DEF OneName
  <1>5. BeatOK'
    <2>1. \A f \in Files : beat'[f] # "zero" => beat[f] # "zero"
      BY <1>l DEF LifecycleTypeOK
    <2> QED
      BY <1>l, <1>1, <1>3, <2>1 DEF BeatOK
  <1>6. ASSUME NEW x \in Procs
        PROVE  PubLocal(x)' /\ AttachLocal(x)' /\ JobOK(x)' /\ PathOK(x)' /\ InitOK(x)'
    <2>1. PubLocal(x)' /\ JobOK(x)'
      BY <1>l, <1>1 DEF PubLocal, JobOK, Creates, IsBus, Name
    <2>2. AttachLocal(x)'
      BY <1>l, <1>1 DEF AttachLocal, IsEndpoint
    <2>3. PathOK(x)' /\ InitOK(x)'
      BY <1>l, <1>1 DEF PathOK, InitOK, Name, IsBus
    <2> QED
      BY <2>1, <2>2, <2>3
  <1> QED
    BY <1>2, <1>4, <1>5, <1>6 DEF LifeInv

(***************************************************************************)
(* The invariant                                                           *)
(***************************************************************************)
ChannelType ==
  /\ chan \in [Procs -> {"off", "poll", "connected"}]
  /\ topics \in SUBSET Files
  /\ sent \in [Files -> 0 .. MaxSend]
  /\ last \in [Procs -> 0 .. MaxSend]
  /\ got \in [Procs -> SUBSET (1 .. MaxSend)]

LEMMA TypeSplit == TypeOK <=> LifecycleTypeOK /\ ChannelType
  BY DEF TypeOK, ChannelType

LEMMA InitHolds == Init => LifeInv
  <1> SUFFICES ASSUME Init PROVE LifeInv
    OBVIOUS
  <1> USE DEF Init, LifecycleInit
  <1>1. LifecycleTypeOK
    <2>1. 0 \in 0 .. Cardinality(Parts)
      BY FivePhases
    <2>2. jobs \in [Procs -> Seq(Jobs)]
      BY LifecycleAssumption
    <2> QED
      BY <2>1, <2>2, IdleIsJob DEF LifecycleTypeOK, PubPC, AttachPC
  <1>2. ChannelType
    BY Consts DEF ChannelType
  <1>3. ASSUME NEW x \in Procs
        PROVE  PubLocal(x) /\ AttachLocal(x) /\ JobOK(x) /\ PathOK(x) /\ InitOK(x)
    <2>1. pc[x] = "none" /\ apc[x] = "none" /\ lfd[x] = None /\ held[x] = "none"
          /\ map[x] = None /\ view[x] = None /\ at[x] = 0 /\ chan[x] = "off"
      OBVIOUS
    <2>2. \A i \in DOMAIN jobs[x] : BusJob(jobs[x][i])
      BY LifecycleAssumption DEF BusJob
    <2> QED
      BY <2>1, <2>2 DEF PubLocal, AttachLocal, JobOK, PathOK, InitOK, Creating, Viewing
  <1>4. LockOK
    BY DEF LockOK
  <1>5. \A f \in Files, n \in Names : ~Refers(f, n)
    BY Consts DEF Refers
  <1>6. OneName /\ BeatOK /\ MadeOK
    BY <1>5 DEF OneName, BeatOK, MadeOK
  <1> QED
    BY <1>1, <1>2, <1>3, <1>4, <1>6, TypeSplit DEF LifeInv

\* The files a process steps on are there.
LEMMA HasFiles ==
  ASSUME LifeInv, NEW x \in Procs
  PROVE  /\ pc[x] = "up" => map[x] \in Files
         /\ chan[x] = "connected" => view[x] \in Files
  BY InvParts DEF PubLocal, AttachLocal, LifecycleTypeOK, Viewing

LEMMA ChannelTyped ==
  ASSUME LifeInv, [Next]_allVars
  PROVE  ChannelType'
  <1>0. ChannelType
    BY InvParts, TypeSplit
  <1> USE DEF ChannelType, channelVars
  <1>1. ASSUME NEW x \in Procs, FileStep(x)
        PROVE  ChannelType'
    <2>1. topics' \in SUBSET Files /\ UNCHANGED <<chan, last, got>>
      BY <1>0, <1>1 DEF FileStep
    <2>2. sent' \in [Files -> 0 .. MaxSend]
      BY <1>0, <1>1, Consts DEF FileStep
    <2> QED
      BY <1>0, <2>1, <2>2
  <1>2. ASSUME NEW x \in Procs, RegisterCh(x) \/ Subscribe(x) \/ PollAgain(x)
        PROVE  ChannelType'
    BY <1>0, <1>2, HasFiles, Consts DEF RegisterCh, Subscribe, PollAgain
  <1>3. ASSUME NEW x \in Procs, TryRecv(x)
        PROVE  ChannelType'
    <2>1. sent[view[x]] \in 0 .. MaxSend /\ last[x] \in 0 .. MaxSend
      BY <1>0, <1>3, HasFiles DEF TryRecv
    <2>2. last[x] + 1 \in 1 .. MaxSend /\ last[x] + 1 \in 0 .. MaxSend
      BY <1>3, <2>1, Consts DEF TryRecv
    <2> QED
      BY <1>0, <1>3, <2>2 DEF TryRecv
  <1>4. ASSUME NEW x \in Procs, Send(x)
        PROVE  ChannelType'
    <2>1. map[x] \in Files
      BY <1>4, HasFiles DEF Send
    <2>2. sent[map[x]] + 1 \in 0 .. MaxSend
      BY <1>0, <1>4, <2>1, Consts DEF Send
    <2> QED
      BY <1>0, <1>4, <2>2 DEF Send
  <1>5. ASSUME NEW x \in Procs, Close(x) \/ ProcessDies(x)
        PROVE  ChannelType'
    BY <1>0, <1>5, Consts DEF Close, ProcessDies
  <1>6. ASSUME NEW x \in Procs, Beat(x) \/ Outside(x)
        PROVE  ChannelType'
    BY <1>0, <1>6 DEF Beat, Outside
  <1>7. CASE UNCHANGED allVars \/ \E f \in Files : Stale(f)
    BY <1>0, <1>7 DEF allVars, Stale
  <1> QED
    BY <1>1, <1>2, <1>3, <1>4, <1>5, <1>6, <1>7 DEF Next, ChannelStep

\* A step of x on the files that leaves its channel alone.
LEMMA LifeStepHolds ==
  ASSUME LifeInv, NEW x \in Procs, chan' = chan, ChannelType',
         \/ PubStep(x) \/ AttachStep(x, Target(x)) \/ Detach(x)
         \/ \E j \in Jobs : OpenLockFile(x, j) \/ ConnectUnlocked(x, j) \/ NoLockFile(x, j)
         \/ Drop(x) \/ Heartbeat(x)
  PROVE  LifeInv'
  <1>0. LifeStep(x) /\ ChanStep(x)
    BY DEF LifeStep, ChanStep
  <1>1. TypeOK' /\ LockOK'
    BY <1>0, TypeKept, LocksKept DEF TypeOK, ChannelType
  <1>2. CASE NewFile(x)
    BY <1>0, <1>1, <1>2, NewFileOK
  <1>3. CASE ~NewFile(x)
    <2>1. StepOK(x)
      <3>1. CASE LockExclusive(x) \/ LockContention(x) \/ Downgrade(x) \/ Identify(x) \/ LockShared(x)
        BY <1>0, <3>1, LockStepOK
      <3>2. CASE RemoveStale(x) \/ Unlink(x)
        BY <1>0, <3>2, RemoveOK
      <3>3. CASE InitPart(x)
        BY <1>0, <3>3, InitPartOK
      <3>4. CASE Opened(x)
        BY <1>0, <3>4, OpenedOK
      <3>5. CASE DropFields(x) \/ Detach(x)
        <4>1. chan[x] = "off"
          BY <3>5, InvParts DEF DropFields, Detach, AttachLocal, TypeOK, IsEndpoint
        <4> QED
          BY <1>0, <3>5, <4>1, LeaveOK
      <3>6. CASE Find(x, Target(x))
        BY <1>0, <3>6, FindOK
      <3>7. CASE MapFile(x) \/ CheckHeader(x) \/ CheckBeat(x)
        BY <1>0, <3>7, ValidateOK
      <3>8. CASE \E j \in Jobs : OpenLockFile(x, j) \/ ConnectUnlocked(x, j) \/ NoLockFile(x, j)
        BY <1>0, <3>8, CallOK
      <3>9. CASE Drop(x)
        BY <1>0, <3>9, DropOK
      <3>10. CASE Heartbeat(x)
        BY <1>0, <3>10, HeartbeatOK
      <3> QED
        BY <1>3, <3>1, <3>2, <3>3, <3>4, <3>5, <3>6, <3>7, <3>8, <3>9, <3>10
           DEF PubStep, AttachStep
    <2> QED
      BY <1>1, <2>1, StepKeeps
  <1> QED
    BY <1>2, <1>3

\* A step of x on its channel, or its death.
LEMMA EndStepHolds ==
  ASSUME LifeInv, NEW x \in Procs, EndStep(x) \/ ProcessDies(x), ChannelType'
  PROVE  LifeInv'
  <1>1. ChanStep(x) /\ (ProcessDies(x) => chan'[x] = "off")
    BY InvParts DEF ChanStep, EndStep, ProcessDies, RegisterCh, PollAgain, Close, channelVars, TypeOK
  <1>2. EndStep(x) \/ LifeStep(x)
    BY DEF ProcessDies, LifeStep
  <1>3. TypeOK' /\ LockOK'
    BY <1>2, TypeKept, LocksKept DEF TypeOK, ChannelType
  <1>4. CASE ProcessDies(x)
    <2>1. StepOK(x)
      BY <1>1, <1>4, LeaveOK DEF ProcessDies
    <2> QED
      BY <1>3, <2>1, StepKeeps
  <1>5. CASE EndStep(x)
    <2>1. StepOK(x)
      BY <1>1, <1>5, DropOK, PollOK DEF EndStep
    <2> QED
      BY <1>3, <2>1, StepKeeps
  <1> QED
    BY <1>4, <1>5

LEMMA StepHolds == LifeInv /\ [Next]_allVars => LifeInv'
  <1> SUFFICES ASSUME LifeInv, [Next]_allVars PROVE LifeInv'
    OBVIOUS
  <1>0. ChannelType' /\ ChannelType /\ LifecycleTypeOK
    BY ChannelTyped, InvParts, TypeSplit
  <1>1. ASSUME NEW x \in Procs, FileStep(x) \/ Beat(x) \/ Outside(x)
        PROVE  LifeInv'
    <2>1. /\ chan' = chan
          /\ \/ PubStep(x) \/ AttachStep(x, Target(x)) \/ Detach(x)
             \/ \E j \in Jobs : OpenLockFile(x, j) \/ ConnectUnlocked(x, j) \/ NoLockFile(x, j)
             \/ Drop(x) \/ Heartbeat(x)
      BY <1>1 DEF FileStep, Beat, Outside, Target, channelVars
    <2> QED
      BY <1>0, <2>1, LifeStepHolds
  <1>2. ASSUME NEW x \in Procs, Subscribe(x) \/ Send(x) \/ TryRecv(x)
        PROVE  LifeInv'
    <2>1. UNCHANGED vars
      BY <1>2 DEF Subscribe, Send, TryRecv
    <2>2. TypeOK' /\ UNCHANGED <<jobs, path, lockAt, wrote, beat, history, pubVars, attachVars>>
      BY <1>0, <2>1
         DEF vars, files, history, pubVars, attachVars, LifecycleTypeOK, TypeOK, ChannelType
    <2>3. \A y \in Procs : \/ chan'[y] = chan[y]
                           \/ chan[y] = "poll" /\ chan'[y] = "connected" /\ apc[y] = "ok"
      BY <1>0, <1>2 DEF Subscribe, Send, TryRecv, ChannelType
    <2> QED
      BY <2>2, <2>3, AsideOK
  <1>3. ASSUME NEW f \in Files, Stale(f)
        PROVE  LifeInv'
    <2>1. /\ UNCHANGED <<jobs, path, lockAt, wrote, history, pubVars, attachVars, channelVars>>
          /\ beat[f] = "fresh" /\ beat' = [beat EXCEPT ![f] = "stale"]
      BY <1>3 DEF Stale, GrowStale
    <2>2. TypeOK'
      <3>1. LifecycleTypeOK'
        BY <1>0, <2>1 DEF history, pubVars, attachVars, LifecycleTypeOK
      <3> QED
        BY <1>0, <3>1 DEF TypeOK, ChannelType
    <2> QED
      BY <2>1, <2>2, AsideOK DEF channelVars
  <1>4. CASE UNCHANGED allVars
    <2>1. TypeOK' /\ UNCHANGED <<jobs, path, lockAt, wrote, beat, history, pubVars, attachVars, chan>>
      BY <1>0, <1>4 DEF allVars, vars, files, history, pubVars, attachVars, channelVars,
           LifecycleTypeOK, TypeOK, ChannelType
    <2> QED
      BY <2>1, AsideOK
  <1> QED
    BY <1>0, <1>1, <1>2, <1>3, <1>4, EndStepHolds DEF Next, ChannelStep, EndStep

LEMMA Invariant == Spec => []LifeInv
  BY InitHolds, StepHolds, PTL DEF Spec

(***************************************************************************)
(* The theorems                                                            *)
(***************************************************************************)
\* Every reachable state of the files, locks and channels is well typed.
THEOREM TypeCorrect == Spec => []TypeOK
  <1>1. LifeInv => TypeOK
    BY DEF LifeInv
  <1> QED
    BY <1>1, Invariant, PTL

\* While a publisher of a name lives, no other file takes the name, as long as no bus
\* has unlinked the name's lock file: create's exclusive lock, its downgrade in place
\* and the shared locks of create, open and drop leave no gap.
THEOREM NamesHeld == Spec => []NameHeld
  <1>1. LifeInv => NameHeld
    BY DEF LifeInv, PathOK, NameHeld, Live
  <1> QED
    BY <1>1, Invariant, PTL

\* Who has attached sees an initialised region: the heartbeat keeps everybody out until
\* header and free list are there, and the lock keeps open out until the rings are.
THEOREM Readiness == Spec => []AttachedReady
  <1>1. ASSUME LifeInv, NEW x \in Procs, apc[x] = "ok", Name(x) \notin exposed
        PROVE  /\ {"len", "header", "pool", "beat"} \subseteq wrote[view[x]]
               /\ pc[x] = "attach" /\ view[x] \notin halfMade => wrote[view[x]] = Parts
    BY <1>1, InvParts DEF InitOK, Ready, Viewing
  <1>2. LifeInv => AttachedReady
    BY <1>1 DEF AttachedReady
  <1> QED
    BY <1>2, Invariant, PTL

=============================================================================
