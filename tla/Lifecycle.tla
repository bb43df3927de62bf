------------------------------ MODULE Lifecycle ------------------------------
(***************************************************************************)
(* The files behind the regions: how Publisher::create and PodBus::create  *)
(* make one, how Publisher::open, Subscriber::connect and                  *)
(* BusSubscriber::connect attach to one, how it goes away, and what the    *)
(* lock file beside it and the heartbeat in it are for.                    *)
(*                                                                         *)
(* A name has a directory entry for its file (`path') and one for its lock *)
(* file (`lockAt').  Files are inodes: an unlinked one lives on for those  *)
(* that map it.  What a file holds is the set of its parts that have been  *)
(* initialised (`wrote').  Every system call and every phase of the        *)
(* initialisation is a step.  flock excludes per lock inode, and a process *)
(* that dies loses its locks and mappings but leaves the files.            *)
(*                                                                         *)
(* Unix only: unlinking a mapped file, and an flock downgraded in place.   *)
(***************************************************************************)
EXTENDS Naturals, FiniteSets, Sequences

CONSTANTS Procs,      \* processes
          Names,      \* names of regions and buses
          BusNames,   \* those that are PodBuses
          Files,      \* inodes of region files
          LockFiles,  \* inodes of lock files
          None,       \* no file, no process
          Scenarios,  \* what the processes set out to do: a sequence of jobs each
          Crashable   \* processes that may die

Jobs == [what : {"create", "open", "connect", "channel"}, name : Names]

ASSUME LifecycleAssumption ==
  /\ Names # {} /\ BusNames \subseteq Names
  /\ None \notin Files \cup LockFiles
  /\ Crashable \subseteq Procs
  /\ Scenarios \subseteq [Procs -> Seq(Jobs)]
  /\ \A s \in Scenarios, x \in Procs : \A i \in DOMAIN s[x] :
       s[x][i].name \in BusNames => s[x][i].what \in {"create", "connect"}

VARIABLES jobs,     \* what each process has yet to do
          path,     \* directory: the file of each name
          lockAt,   \* directory: the lock file of each name
          wrote,    \* parts of each file that are initialised
          beat,     \* heartbeat of each file: "zero", "fresh" or "stale"
          halfMade, \* history: files whose creator failed or died in create
          exposed,  \* history: names whose lock file was unlinked
          pc, job,  \* what the process does as a publisher
          lfd, held, \* the lock file it has open, and its lock on it
          map,      \* the file it publishes to
          at,       \* how far its create has initialised that file
          ino,      \* created_ino; None for a secondary publisher
          apc, view \* open_and_validate_region: its steps, and the file

files == <<path, lockAt, wrote, beat>>
history == <<halfMade, exposed>>
attachVars == <<apc, view>>
pubVars == <<pc, job, lfd, held, map, at, ino>>
vars == <<jobs, files, history, pubVars, attachVars>>

Parts == {"len", "header", "pool", "beat", "rings"}
Creating == {"remove", "new", "init", "downgrade", "identify"}
PubPC == Creating \cup {"none", "lock", "attach", "up", "unlink", "unlinked"}
AttachPC == {"none", "find", "map", "header", "beat", "ok", "failed"}
IdleJob == [what |-> "open", name |-> CHOOSE n \in Names : TRUE]

LifecycleTypeOK ==
  /\ jobs \in [Procs -> Seq(Jobs)]
  /\ path \in [Names -> Files \cup {None}]
  /\ lockAt \in [Names -> LockFiles \cup {None}]
  /\ wrote \in [Files -> SUBSET Parts]
  /\ beat \in [Files -> {"zero", "fresh", "stale"}]
  /\ halfMade \in SUBSET Files
  /\ exposed \in SUBSET Names
  /\ pc \in [Procs -> PubPC]
  /\ job \in [Procs -> Jobs]
  /\ lfd \in [Procs -> LockFiles \cup {None}]
  /\ held \in [Procs -> {"none", "shared", "exclusive"}]
  /\ map \in [Procs -> Files \cup {None}]
  /\ at \in [Procs -> 0 .. Cardinality(Parts)]
  /\ ino \in [Procs -> Files \cup {None}]
  /\ apc \in [Procs -> AttachPC]
  /\ view \in [Procs -> Files \cup {None}]

\* No region exists yet.
LifecycleInit ==
  /\ jobs \in Scenarios
  /\ path = [n \in Names |-> None]
  /\ lockAt = [n \in Names |-> None]
  /\ wrote = [f \in Files |-> {}]
  /\ beat = [f \in Files |-> "zero"]
  /\ halfMade = {}
  /\ exposed = {}
  /\ pc = [x \in Procs |-> "none"]
  /\ job = [x \in Procs |-> IdleJob]
  /\ lfd = [x \in Procs |-> None]
  /\ held = [x \in Procs |-> "none"]
  /\ map = [x \in Procs |-> None]
  /\ at = [x \in Procs |-> 0]
  /\ ino = [x \in Procs |-> None]
  /\ apc = [x \in Procs |-> "none"]
  /\ view = [x \in Procs |-> None]

Name(x) == job[x].name
IsBus(x) == Name(x) \in BusNames

Step(x, from, to) ==
  /\ pc[x] = from
  /\ pc' = [pc EXCEPT ![x] = to]

\* An inode exists while a name or a process refers to it.  Bound: the sets of
\* inodes, which NewFile and OpenLockFile wait for.
InUse(f) == \/ \E n \in Names : path[n] = f
            \/ \E x \in Procs : f \in {map[x], view[x], ino[x]}
FreeFiles == {f \in Files : ~InUse(f)}
FreeLocks == {l \in LockFiles : /\ \A n \in Names : lockAt[n] # l
                                /\ \A x \in Procs : lfd[x] # l}
FreeFile == CHOOSE f \in FreeFiles : TRUE
FreeLock == CHOOSE l \in FreeLocks : TRUE

(***************************************************************************)
(* The lock file                                                           *)
(***************************************************************************)

\* flock(LOCK_EX | LOCK_NB) succeeds; flock(LOCK_SH) does not block.
CanExclude(x) == \A y \in Procs \ {x} : lfd[y] = lfd[x] => held[y] = "none"
CanShare(x) == \A y \in Procs \ {x} : lfd[y] = lfd[x] => held[y] # "exclusive"

Locked(x, mode) == held' = [held EXCEPT ![x] = mode]

\* The call or the drop returns: the lock file's handle goes, and the lock.
Leave(x) ==
  /\ pc' = [pc EXCEPT ![x] = "none"]
  /\ job' = [job EXCEPT ![x] = IdleJob]
  /\ lfd' = [lfd EXCEPT ![x] = None]
  /\ Locked(x, "none")

\* create, open or connect is called; the lock file is opened.  The two
\* publishers create it if need be; Subscriber::connect does without.
Call(x, j) ==
  /\ pc[x] = "none"
  /\ apc[x] = "none"
  /\ jobs[x] # <<>> /\ j = Head(jobs[x])
  /\ job' = [job EXCEPT ![x] = j]
  /\ jobs' = [jobs EXCEPT ![x] = Tail(@)]
  /\ UNCHANGED <<path, wrote, beat, history, held, map, at, ino, view>>

OpenLockFile(x, j) ==
  /\ Call(x, j)
  /\ \/ j.what # "connect"
     \/ j.name \in BusNames /\ lockAt[j.name] # None
  /\ lockAt[j.name] # None \/ FreeLocks # {}
  /\ LET l == IF lockAt[j.name] = None THEN FreeLock ELSE lockAt[j.name]
     IN  /\ lockAt' = [lockAt EXCEPT ![j.name] = l]
         /\ lfd' = [lfd EXCEPT ![x] = l]
  /\ pc' = [pc EXCEPT ![x] = "lock"]
  /\ UNCHANGED apc

ConnectUnlocked(x, j) ==
  /\ Call(x, j)
  /\ j.what = "connect" /\ j.name \notin BusNames
  /\ apc' = [apc EXCEPT ![x] = "find"]
  /\ UNCHANGED <<lockAt, pc, lfd>>

\* BusSubscriber::connect without a lock file returns the I/O error.
NoLockFile(x, j) ==
  /\ pc[x] = "none" /\ apc[x] = "none"
  /\ jobs[x] # <<>> /\ j = Head(jobs[x])
  /\ j.what = "connect" /\ j.name \in BusNames /\ lockAt[j.name] = None
  /\ jobs' = [jobs EXCEPT ![x] = Tail(@)]
  /\ UNCHANGED <<files, history, pubVars, attachVars>>

(***************************************************************************)
(* create: under the exclusive lock                                        *)
(***************************************************************************)
Creates(x) == job[x].what \in {"create", "channel"}

LockExclusive(x) ==
  /\ Step(x, "lock", "remove")
  /\ Creates(x) /\ CanExclude(x)
  /\ Locked(x, "exclusive")
  /\ UNCHANGED <<jobs, files, history, job, lfd, map, at, ino, attachVars>>

\* Error::LockContention.
LockContention(x) ==
  /\ pc[x] = "lock"
  /\ Creates(x) /\ ~CanExclude(x)
  /\ Leave(x)
  /\ UNCHANGED <<jobs, files, history, map, at, ino, attachVars>>

RemoveStale(x) ==
  /\ Step(x, "remove", "new")
  /\ path' = [path EXCEPT ![Name(x)] = None]
  /\ UNCHANGED <<jobs, lockAt, wrote, beat, history, job, lfd, held, map, at, ino, attachVars>>

\* O_CREAT | O_TRUNC: a new, empty file, or the one that has appeared at the
\* name since RemoveStale, emptied.
NewFile(x) ==
  /\ Step(x, "new", "init")
  /\ path[Name(x)] # None \/ FreeFiles # {}
  /\ LET f == IF path[Name(x)] = None THEN FreeFile ELSE path[Name(x)]
     IN  /\ path' = [path EXCEPT ![Name(x)] = f]
         /\ map' = [map EXCEPT ![x] = f]
         /\ wrote' = [wrote EXCEPT ![f] = {}]
         /\ beat' = [beat EXCEPT ![f] = "zero"]
         /\ halfMade' = halfMade \ {f}
  /\ UNCHANGED <<jobs, lockAt, exposed, job, lfd, held, at, ino, attachVars>>

\* Mutant: the heartbeat is written before the pool is initialised.
InitOrder_EarlyBeat(bus) == <<"len", "header", "beat", "pool", "rings">>

\* set_len and mmap, header, free list or subscriber slots, heartbeat, ring
\* entries: a region is given its heartbeat before its rings are initialised, a
\* bus after.  The header's fields are one part: a reader that overtakes the
\* writer among them finds zeros it refuses.
InitOrder(bus) ==
  IF bus THEN <<"len", "header", "pool", "rings", "beat">>
         ELSE <<"len", "header", "pool", "beat", "rings">>

InitPart(x) ==
  /\ pc[x] = "init"
  /\ LET order == InitOrder(IsBus(x))
         n == at[x] + 1
     IN  /\ order[n] # "len" => "len" \in wrote[map[x]]
         /\ wrote' = [wrote EXCEPT ![map[x]] = @ \cup {order[n]}]
         /\ beat' = IF order[n] = "beat" THEN [beat EXCEPT ![map[x]] = "fresh"] ELSE beat
         /\ at' = [at EXCEPT ![x] = IF n < Len(order) THEN n ELSE 0]
         /\ pc' = [pc EXCEPT ![x] = IF n < Len(order) THEN "init"
                                    ELSE IF IsBus(x) THEN "identify" ELSE "downgrade"]
  /\ UNCHANGED <<jobs, path, lockAt, history, job, lfd, held, map, ino, attachVars>>

\* Mutant: the lock is given up instead of downgraded.
Downgrade_Unlock(x) ==
  /\ Step(x, "downgrade", IF IsBus(x) THEN "up" ELSE "identify")
  /\ Locked(x, "none")
  /\ UNCHANGED <<jobs, files, history, job, lfd, map, at, ino, attachVars>>

\* flock(LOCK_SH) on the exclusive lock: a downgrade in place.
Downgrade(x) ==
  /\ Step(x, "downgrade", IF IsBus(x) THEN "up" ELSE "identify")
  /\ Locked(x, "shared")
  /\ UNCHANGED <<jobs, files, history, job, lfd, map, at, ino, attachVars>>

\* created_ino = file_identity(path), after the downgrade (before, for a bus).
Identify(x) ==
  /\ Step(x, "identify", IF IsBus(x) THEN "downgrade" ELSE "up")
  /\ ino' = [ino EXCEPT ![x] = path[Name(x)]]
  /\ UNCHANGED <<jobs, files, history, job, lfd, held, map, at, attachVars>>

(***************************************************************************)
(* open and connect                                                        *)
(***************************************************************************)

\* Publisher::open and BusSubscriber::connect: flock(LOCK_SH), which blocks.
LockShared(x) ==
  /\ Step(x, "lock", "attach")
  /\ ~Creates(x) /\ CanShare(x)
  /\ Locked(x, "shared")
  /\ apc' = [apc EXCEPT ![x] = "find"]
  /\ UNCHANGED <<jobs, files, history, job, lfd, map, at, ino, view>>

Attached(x, ok, then) ==
  /\ apc' = [apc EXCEPT ![x] = IF ok THEN then ELSE "failed"]
  /\ UNCHANGED <<jobs, files, history, pubVars>>

\* The name x attaches to: its own, or the peer's of a channel.
Find(x, n) ==
  /\ apc[x] = "find"
  /\ view' = [view EXCEPT ![x] = path[n]]
  /\ Attached(x, path[n] # None, "map")

MapFile(x) ==
  /\ apc[x] = "map"
  /\ UNCHANGED view
  /\ Attached(x, "len" \in wrote[view[x]], "header")

\* Magic, version, configuration and size.
CheckHeader(x) ==
  /\ apc[x] = "header"
  /\ "len" \in wrote[view[x]]
  /\ UNCHANGED view
  /\ Attached(x, "header" \in wrote[view[x]], "beat")

\* check_heartbeat: Error::PublisherDead when it is zero or too old.
CheckBeat(x) ==
  /\ apc[x] = "beat"
  /\ "len" \in wrote[view[x]]
  /\ UNCHANGED view
  /\ Attached(x, beat[view[x]] = "fresh", "ok")

\* open returns a secondary publisher.
Opened(x) ==
  /\ Step(x, "attach", "up")
  /\ apc[x] = "ok" /\ job[x].what = "open"
  /\ map' = [map EXCEPT ![x] = view[x]]
  /\ view' = [view EXCEPT ![x] = None]
  /\ apc' = [apc EXCEPT ![x] = "none"]
  /\ UNCHANGED <<jobs, files, history, job, lfd, held, at, ino>>

\* open or connect returns its error, or a subscriber is dropped.
Detach(x) ==
  /\ job[x].what \in {"open", "connect"}
  /\ \/ apc[x] = "failed"
     \/ apc[x] = "ok" /\ job[x].what = "connect"
  /\ apc' = [apc EXCEPT ![x] = "none"]
  /\ view' = [view EXCEPT ![x] = None]
  /\ Leave(x)
  /\ UNCHANGED <<jobs, files, history, map, at, ino>>

(***************************************************************************)
(* Life and death                                                          *)
(***************************************************************************)

\* Publisher::heartbeat, and the heartbeats of loan and publish.
Heartbeat(x) ==
  /\ pc[x] = "up"
  /\ "len" \in wrote[map[x]]
  /\ beat' = [beat EXCEPT ![map[x]] = "fresh"]
  /\ UNCHANGED <<jobs, path, lockAt, wrote, history, pubVars, attachVars>>

\* stale_timeout passes without one.
GrowStale(f) ==
  /\ InUse(f) /\ beat[f] = "fresh"
  /\ beat' = [beat EXCEPT ![f] = "stale"]
  /\ UNCHANGED <<jobs, path, lockAt, wrote, history, pubVars, attachVars>>

\* drop: the creator compares the file's identity with the one it made ...
DropPublisher(x) ==
  /\ Step(x, "up", IF ino[x] # None /\ path[Name(x)] = ino[x] THEN "unlink" ELSE "unlinked")
  /\ UNCHANGED <<jobs, files, history, job, lfd, held, map, at, ino>>

Drop(x) ==
  /\ job[x].what # "channel"
  /\ DropPublisher(x)
  /\ UNCHANGED attachVars

\* ... and unlinks what is at the name now.
Unlink(x) ==
  /\ Step(x, "unlink", "unlinked")
  /\ path' = [path EXCEPT ![Name(x)] = None]
  /\ UNCHANGED <<jobs, lockAt, wrote, beat, history, job, lfd, held, map, at, ino, attachVars>>

\* A bus unlinks the lock file as well.  Then the fields are dropped: the
\* mapping and the lock.
DropFields(x) ==
  /\ pc[x] = "unlinked"
  /\ IF IsBus(x)
     THEN /\ lockAt' = [lockAt EXCEPT ![Name(x)] = None]
          /\ exposed' = exposed \cup {Name(x)}
     ELSE UNCHANGED <<lockAt, exposed>>
  /\ Leave(x)
  /\ map' = [map EXCEPT ![x] = None]
  /\ ino' = [ino EXCEPT ![x] = None]
  /\ UNCHANGED <<jobs, path, wrote, beat, halfMade, at, attachVars>>

\* x is gone: its locks and mappings go, the files stay.
Gone(x) ==
  /\ halfMade' = IF pc[x] \in Creating /\ map[x] # None THEN halfMade \cup {map[x]} ELSE halfMade
  /\ Leave(x)
  /\ map' = [map EXCEPT ![x] = None]
  /\ at' = [at EXCEPT ![x] = 0]
  /\ ino' = [ino EXCEPT ![x] = None]
  /\ apc' = [apc EXCEPT ![x] = "none"]
  /\ view' = [view EXCEPT ![x] = None]
  /\ UNCHANGED <<jobs, files, exposed>>

\* It dies, or its create returns an I/O error.
Die(x) ==
  /\ x \in Crashable
  /\ pc[x] # "none" \/ apc[x] # "none"
  /\ Gone(x)

\* The files x reads or writes through a mapping.
Touched(x) ==
  {f \in Files : \/ f = map[x] /\ (pc[x] = "up" \/ at[x] > 0)
                 \/ f = view[x] /\ apc[x] \in {"header", "beat", "ok"}}

\* SIGBUS: a mapped file has been truncated.
BusError(x) ==
  /\ \E f \in Touched(x) : "len" \notin wrote[f]
  /\ Gone(x)

\* What a call under way does next.
PubStep(x) ==
  \/ LockExclusive(x) \/ LockContention(x) \/ RemoveStale(x) \/ NewFile(x)
  \/ InitPart(x) \/ Downgrade(x) \/ Identify(x)
  \/ LockShared(x) \/ Opened(x)
  \/ Unlink(x) \/ DropFields(x)

AttachStep(x, n) == Find(x, n) \/ MapFile(x) \/ CheckHeader(x) \/ CheckBeat(x)

(***************************************************************************)
(* Properties                                                              *)
(***************************************************************************)

\* Live publishers of a name: create or open has returned, drop has not.
Live(x) == pc[x] \in {"up", "unlink"}

\* While a publisher of a name lives, no other file takes that name: create is
\* refused (ARCHITECTURE.md: "All shared locks together prevent a new create()
\* from truncating the region"), so all publishers share one region, and none
\* goes on writing to a file that newcomers cannot find.  Void once a bus has
\* unlinked the lock file, which splits the exclusion between two lock inodes.
NameHeld ==
  \A x \in Procs :
    Live(x) /\ Name(x) \notin exposed => path[Name(x)] \in {map[x], None}

\* Who has attached sees an initialised region: the heartbeat, written after the
\* header and the free list, keeps everybody out before that, and the lock keeps
\* Publisher::open out until the rings are initialised too -- unless the creator
\* died after the heartbeat, when open accepts rings of zeros.
AttachedReady ==
  \A x \in Procs :
    apc[x] = "ok" /\ Name(x) \notin exposed =>
      /\ {"len", "header", "pool", "beat"} \subseteq wrote[view[x]]
      /\ pc[x] = "attach" /\ view[x] \notin halfMade => wrote[view[x]] = Parts

=============================================================================
