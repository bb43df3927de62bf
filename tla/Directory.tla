------------------------------ MODULE Directory ------------------------------
(***************************************************************************)
(* Topic tables and the registry together: Publisher::register goes through *)
(* both, Publisher's drop unregisters, and crossbar::discover opens the    *)
(* registry, prunes it and returns what is left, for subscribe.            *)
(*                                                                         *)
(* Each process follows its script.  Two of Procs with one pid are two     *)
(* publishers of one process.  While the clock ticks publishers that are   *)
(* up send heartbeats; Publisher::heartbeat writes the region's header and *)
(* nothing of what is modelled here.                                       *)
(***************************************************************************)
EXTENDS TopicTable, Registry, Sequences

CONSTANTS Scripts,   \* what the processes do, in order, and what there is at first
          Mortal     \* processes that may be killed

Jobs == [do : {"register"}, uri : Uris]
        \cup [do : {"refresh"}, uri : Uris]
        \cup [do : {"drop", "subscribe"}]
        \cup [do : {"find"}, match : SUBSET (Uris \cup {NoUri})]
        \cup [do : {"since"}, match : SUBSET (Uris \cup {NoUri}), time : Nat]

ASSUME DirectoryAssumption ==
  /\ Scripts \subseteq [file : {"absent", "ready"}, first : [Regions -> Uris \cup {NoUri}],
                         does : [Procs -> Seq(Jobs)]]
  /\ Mortal \subseteq Procs

VARIABLES script,  \* what is left to do
          alive    \* processes that have not dropped their publisher or died

vars == <<tableVars, regVars, script, alive>>

TypeOK ==
  /\ TableTypeOK
  /\ RegTypeOK
  /\ script \in [Procs -> Seq(Jobs)]
  /\ alive \in SUBSET Procs

Init ==
  /\ \E s0 \in Scripts : TableInit(s0.first) /\ file = s0.file /\ script = s0.does
  /\ RegInit
  /\ alive = Procs

Idle(x) == x \in alive /\ tpc[x] = "idle" /\ rpc[x] = "idle"
Todo(x, do) == Idle(x) /\ script[x] # <<>> /\ Head(script[x]).do = do
Job(x) == Head(script[x])
Advance(x) == script' = [script EXCEPT ![x] = Tail(@)]

Op(do, r, u, t, m) == [do |-> do, region |-> r, uri |-> u, time |-> t, match |-> m]

(***************************************************************************)
(* Publishers                                                              *)
(***************************************************************************)
Register(x) ==
  /\ Todo(x, "register")
  /\ RegisterCall(x, Job(x).uri)
  /\ Advance(x)
  /\ UNCHANGED <<regVars, alive>>

\* Mutant: the registry is told before the slot is ACTIVE.
Publicize_Early(x) ==
  /\ OpenCall(x, Op("register", where[x], uri[x], 0, {}))
  /\ WriteTopic(x)
  /\ UNCHANGED <<script, alive>>

\* The slot is ACTIVE; then the registry is opened for the new topic.
Publicize(x) ==
  /\ OpenCall(x, Op("register", where[x], uri[x], 0, {}))
  /\ Activate(x)
  /\ UNCHANGED <<script, alive>>

\* register returns its handle; what the registry said does not matter.
Registered(x) ==
  /\ Close(x)
  /\ RegisterReturn(x)
  /\ UNCHANGED <<script, alive>>

\* Registry::register called by the program itself, for a topic it publishes.
Refresh(x) ==
  /\ Todo(x, "refresh") /\ \E h \in handles[x] : h.uri = Job(x).uri
  /\ OpenCall(x, Op("register", RegionOf[x], Job(x).uri, 0, {}))
  /\ Advance(x)
  /\ UNCHANGED <<tableVars, alive>>

Drop(x) ==
  /\ Todo(x, "drop")
  /\ OpenCall(x, Op("unregister", RegionOf[x], NoUri, 0, {}))
  /\ Advance(x)
  /\ UNCHANGED <<tableVars, alive>>

Dropped(x) ==
  /\ op[x].do = "unregister"
  /\ Close(x)
  /\ alive' = alive \ {x}
  /\ handles' = [handles EXCEPT ![x] = {}]
  /\ UNCHANGED <<slot, counted, tpc, ti, uri, where, stream, seen, script>>

(***************************************************************************)
(* Who looks for topics                                                    *)
(***************************************************************************)

\* crossbar::discover.
Find(x) ==
  /\ Todo(x, "find")
  /\ OpenCall(x, Op("prune", NoRegion, NoUri, 0, Job(x).match))
  /\ Advance(x)
  /\ UNCHANGED <<tableVars, alive>>

FindPruned(x) ==
  /\ op[x].do = "prune"
  /\ Then(x, [op[x] EXCEPT !.do = "discover"])
  /\ UNCHANGED <<tableVars, script, alive>>

FindSince(x) ==
  /\ Todo(x, "since")
  /\ OpenCall(x, Op("since", NoRegion, NoUri, Job(x).time, Job(x).match))
  /\ Advance(x)
  /\ UNCHANGED <<tableVars, alive>>

Results(x) == At(x, "done") /\ op[x].do \in {"discover", "since"}

\* discover returns its results, or the program's own Registry::register is done.
Returned(x) ==
  /\ \/ Results(x)
     \/ At(x, "done") /\ op[x].do = "register" /\ tpc[x] = "idle"
  /\ Close(x)
  /\ UNCHANGED <<tableVars, script, alive>>

\* The program goes on to subscribe to a topic it has found.
SubscribeTo(x) ==
  /\ Results(x)
  /\ script[x] # <<>> /\ Job(x).do = "subscribe"
  /\ \E f \in found[x], r \in Regions, u \in Uris \cup {NoUri} :
       /\ f.got.region \in {r, Torn} /\ f.got.uri \in {u, Torn}
       /\ SubscribeCall(x, r, u)
  /\ Close(x)
  /\ Advance(x)
  /\ UNCHANGED alive

Unsubscribe(x) ==
  /\ Idle(x)
  /\ DropStream(x)
  /\ UNCHANGED <<regVars, script, alive>>

(***************************************************************************)
(* Time and death                                                          *)
(***************************************************************************)
ClockTick == Tick /\ UNCHANGED <<tableVars, script, alive>>

\* Killed, or SIGBUS: all threads of the process.
Die(x) ==
  /\ x \in alive
  /\ x \in Mortal \/ Unmapped(x)
  /\ LET xs == {y \in Procs : Pid[y] = Pid[x]}
     IN  /\ RegGone(xs)
         /\ alive' = alive \ xs
         /\ script' = [y \in Procs |-> IF y \in xs THEN <<>> ELSE script[y]]
         /\ tpc' = [y \in Procs |-> IF y \in xs THEN "idle" ELSE tpc[y]]
         /\ ti' = [y \in Procs |-> IF y \in xs THEN 0 ELSE ti[y]]
         /\ uri' = [y \in Procs |-> IF y \in xs THEN NoUri ELSE uri[y]]
         /\ handles' = [y \in Procs |-> IF y \in xs THEN {} ELSE handles[y]]
         /\ stream' = [y \in Procs |-> IF y \in xs THEN NoStream ELSE stream[y]]
         /\ seen' = [y \in Procs |-> IF y \in xs THEN {} ELSE seen[y]]
         /\ UNCHANGED <<slot, counted, where>>

Step(x) ==
  \/ TableStep(x) /\ UNCHANGED <<regVars, script, alive>>
  \/ RegStep(x) /\ UNCHANGED <<tableVars, script, alive>>
  \/ Publicize(x) \/ Registered(x) \/ Dropped(x) \/ FindPruned(x) \/ Returned(x) \/ SubscribeTo(x)

Next ==
  \/ \E x \in Procs : \/ Step(x)
                      \/ Register(x) \/ Refresh(x) \/ Drop(x) \/ Find(x) \/ FindSince(x)
                      \/ Unsubscribe(x) \/ Die(x)
  \/ ClockTick

Spec == Init /\ [][Next]_vars

(***************************************************************************)
(* Properties                                                              *)
(***************************************************************************)

\* What discover returns was registered.  From an entry that has been claimed once,
\* a result with a URI, even one read while it was being copied (Torn), has the
\* region and the process of a publisher and a timestamp of register; and a URI that
\* was read whole is in the table of that region, as long as no publisher of the
\* region has been dropped or died, so that subscribe finds it.  (The URI is the last
\* field register writes and the first discover reads.  An entry with a former owner
\* may show fields of both; a URI read too early is cut short.)
DiscoveredRegistered ==
  \A x \in Procs : \A f \in found[x] :
    ~erased /\ uses[f.at] = 1 /\ f.at \notin stolen /\ f.got.uri # NoUri =>
      /\ \E y \in Procs : Pid[y] = f.got.pid /\ RegionOf[y] = f.got.region
      /\ f.got.ts >= StartTime
      /\ f.got.uri # Torn /\ (\A y \in Procs : RegionOf[y] = f.got.region => y \in alive) =>
           \E i \in Slots : slot[f.got.region][i] = [state |-> "ACTIVE", uri |-> f.got.uri]

\* A publisher that has been dropped is no longer listed: all its entries are gone
\* once unregister returns, although prune_stale and other publishers free and
\* claim entries meanwhile.  (An entry claimed anew shows its former owner until
\* it is written.)  Void where an entry was freed under its writer, and while the
\* process has another publisher of the region.
DropDelists ==
  \A x \in Procs : \A i \in Entries :
    /\ At(x, "done") /\ op[x].do = "unregister" /\ i \notin stolen /\ ~erased
    /\ entry[i].active /\ entry[i].region = RegionOf[x] /\ entry[i].pid = Pid[x]
    => \/ \E y \in Procs : ri[y] = i /\ IsWriting(y)
       \/ \E y \in Procs \ {x} : Pid[y] = Pid[x] /\ RegionOf[y] = RegionOf[x] /\ y \in alive

\* "Prune entries from dead publishers (stale heartbeat)": the entry prune_stale
\* has just freed is not one of a publisher that is up, and so sends heartbeats.
PruneSparesLive ==
  \A x \in Procs : At(x, "sub") /\ op[x].do = "prune" /\ ri[x] \notin stolen =>
    ~ \E y \in alive : \E h \in handles[y] :
        E(x).pid = Pid[y] /\ E(x).region = RegionOf[y] /\ E(x).uri = h.uri

=============================================================================
