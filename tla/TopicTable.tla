------------------------------ MODULE TopicTable ------------------------------
(***************************************************************************)
(* The topic table of a region: Publisher::register and                    *)
(* Subscriber::subscribe look a URI up in a fixed array of slots; register *)
(* claims a FREE slot when it finds none, subscribe fails.  The table has  *)
(* no lock: a slot goes FREE -> INIT by compare-and-swap, is written, and  *)
(* goes INIT -> ACTIVE; it is never given back.                            *)
(*                                                                         *)
(* A slot's hash, length and bytes are its URI here, written in one step;  *)
(* nobody reads them before it is ACTIVE.  The size of the topic's type    *)
(* and its sequence number are left out.                                   *)
(***************************************************************************)
EXTENDS Naturals, FiniteSets, Parties

CONSTANTS RegionOf,  \* the region each publisher publishes in
          MaxTopics, \* slots of a table
          Hash       \* uri_hash, which may collide

ASSUME TableAssumption ==
  /\ RegionOf \in [Procs -> Regions]
  /\ MaxTopics \in Nat \ {0}
  /\ DOMAIN Hash = Uris \cup {NoUri}

VARIABLES slot,      \* the tables
          counted,   \* TE_SUBSCRIBER_COUNT of each slot
          tpc,       \* what each process does: scan, claim, write ...
          ti,        \* the slot it looks at
          uri,       \* the URI it registers or subscribes to
          where,     \* the region it subscribes in
          handles,   \* Topic handles a publisher has
          stream,    \* a subscriber's Stream
          seen       \* history: slots ACTIVE when the call began

tableVars == <<slot, counted, tpc, ti, uri, where, handles, stream, seen>>

Slots == 0 .. MaxTopics - 1
FreeSlot == [state |-> "FREE", uri |-> NoUri]
NoStream == [at |-> 0, region |-> NoUri, uri |-> NoUri]

TableTypeOK ==
  /\ slot \in [Regions -> [Slots -> [state : {"FREE", "INIT", "ACTIVE"}, uri : Uris \cup {NoUri}]]]
  /\ counted \in [Regions -> [Slots -> Nat]]
  /\ tpc \in [Procs -> {"idle", "scan", "claim", "write", "activate", "registry", "find", "count"}]
  /\ ti \in [Procs -> Slots]
  /\ uri \in [Procs -> Uris \cup {NoUri}]
  /\ where \in [Procs -> Regions]
  /\ handles \in [Procs -> SUBSET [at : Slots, uri : Uris]]
  /\ stream \in [Procs -> [at : Slots, region : Regions, uri : Uris] \cup {NoStream}]
  /\ seen \in [Procs -> SUBSET Slots]

\* A table is new, or its publishers have registered first[r] before.
TableInit(first) ==
  /\ slot = [r \in Regions |-> [i \in Slots |->
       IF i = 0 /\ first[r] # NoUri THEN [state |-> "ACTIVE", uri |-> first[r]] ELSE FreeSlot]]
  /\ counted = [r \in Regions |-> [i \in Slots |-> 0]]
  /\ tpc = [x \in Procs |-> "idle"]
  /\ ti = [x \in Procs |-> 0]
  /\ uri = [x \in Procs |-> NoUri]
  /\ where = RegionOf
  /\ handles = [x \in Procs |-> {[at |-> 0, uri |-> u] : u \in {first[RegionOf[x]]} \cap Uris}]
  /\ stream = [x \in Procs |-> NoStream]
  /\ seen = [x \in Procs |-> {}]

Table(x) == slot[where[x]]
Go(x, to, i) == tpc' = [tpc EXCEPT ![x] = to] /\ ti' = [ti EXCEPT ![x] = i]

\* Mutant: the hash alone identifies the URI.
Holds_HashOnly(s, u) == s.state = "ACTIVE" /\ Hash[s.uri] = Hash[u]

\* The slot is ACTIVE and holds u: hash first, then length and bytes.
Holds(s, u) == s.state = "ACTIVE" /\ Hash[s.uri] = Hash[u] /\ s.uri = u

Begin(x, r, u, pc0) ==
  /\ tpc[x] = "idle"
  /\ Go(x, pc0, 0)
  /\ uri' = [uri EXCEPT ![x] = u]
  /\ where' = [where EXCEPT ![x] = r]
  /\ seen' = [seen EXCEPT ![x] = {i \in Slots : slot[r][i].state = "ACTIVE"}]
  /\ UNCHANGED <<slot, counted, handles, stream>>

Finish(x) ==
  /\ Go(x, "idle", 0)
  /\ uri' = [uri EXCEPT ![x] = NoUri]
  /\ seen' = [seen EXCEPT ![x] = {}]
  /\ UNCHANGED where

(***************************************************************************)
(* Publisher::register                                                     *)
(***************************************************************************)
Handle(x) == [at |-> ti[x], uri |-> uri[x]]

\* Mutant: phase 1 begins at the second slot.
RegisterCall_Second(x, u) ==
  /\ tpc[x] = "idle"
  /\ Go(x, "scan", IF MaxTopics > 1 THEN 1 ELSE 0)
  /\ uri' = [uri EXCEPT ![x] = u]
  /\ where' = [where EXCEPT ![x] = RegionOf[x]]
  /\ seen' = [seen EXCEPT ![x] = {i \in Slots : slot[RegionOf[x]][i].state = "ACTIVE"}]
  /\ UNCHANGED <<slot, counted, handles, stream>>

RegisterCall(x, u) == Begin(x, RegionOf[x], u, "scan")

\* Phase 1: the URI is registered already; its handle is returned, and the
\* directory of all regions is not told.
ScanMatch(x) ==
  /\ tpc[x] = "scan" /\ Holds(Table(x)[ti[x]], uri[x])
  /\ handles' = [handles EXCEPT ![x] = @ \cup {Handle(x)}]
  /\ Finish(x)
  /\ UNCHANGED <<slot, counted, stream>>

ScanNext(x) ==
  /\ tpc[x] = "scan" /\ ~Holds(Table(x)[ti[x]], uri[x])
  /\ IF ti[x] + 1 \in Slots THEN Go(x, "scan", ti[x] + 1) ELSE Go(x, "claim", 0)
  /\ UNCHANGED <<slot, counted, uri, where, handles, stream, seen>>

\* Phase 2: compare_exchange(FREE, INIT).
ClaimSlot(x) ==
  /\ tpc[x] = "claim" /\ Table(x)[ti[x]].state = "FREE"
  /\ slot' = [slot EXCEPT ![where[x]][ti[x]].state = "INIT"]
  /\ Go(x, "write", ti[x])
  /\ UNCHANGED <<counted, uri, where, handles, stream, seen>>

ClaimNext(x) ==
  /\ tpc[x] = "claim" /\ Table(x)[ti[x]].state # "FREE"
  /\ ti[x] + 1 \in Slots
  /\ Go(x, "claim", ti[x] + 1)
  /\ UNCHANGED <<slot, counted, uri, where, handles, stream, seen>>

\* Error::MaxTopicsReached.
MaxTopicsReached(x) ==
  /\ tpc[x] = "claim" /\ Table(x)[ti[x]].state # "FREE"
  /\ ti[x] + 1 \notin Slots
  /\ Finish(x)
  /\ UNCHANGED <<slot, counted, handles, stream>>

WriteTopic(x) ==
  /\ tpc[x] = "write"
  /\ slot' = [slot EXCEPT ![where[x]][ti[x]].uri = uri[x]]
  /\ Go(x, "activate", ti[x])
  /\ UNCHANGED <<counted, uri, where, handles, stream, seen>>

\* INIT -> ACTIVE; register goes on to the directory.
Activate(x) ==
  /\ tpc[x] = "activate"
  /\ slot' = [slot EXCEPT ![where[x]][ti[x]].state = "ACTIVE"]
  /\ Go(x, "registry", ti[x])
  /\ UNCHANGED <<counted, uri, where, handles, stream, seen>>

RegisterReturn(x) ==
  /\ tpc[x] = "registry"
  /\ handles' = [handles EXCEPT ![x] = @ \cup {Handle(x)}]
  /\ Finish(x)
  /\ UNCHANGED <<slot, counted, stream>>

(***************************************************************************)
(* Subscriber::subscribe and the Stream's drop                             *)
(***************************************************************************)
SubscribeCall(x, r, u) == stream[x] = NoStream /\ Begin(x, r, u, "find")

FindMatch(x) ==
  /\ tpc[x] = "find" /\ Holds(Table(x)[ti[x]], uri[x])
  /\ Go(x, "count", ti[x])
  /\ UNCHANGED <<slot, counted, uri, where, handles, stream, seen>>

FindNext(x) ==
  /\ tpc[x] = "find" /\ ~Holds(Table(x)[ti[x]], uri[x])
  /\ ti[x] + 1 \in Slots
  /\ Go(x, "find", ti[x] + 1)
  /\ UNCHANGED <<slot, counted, uri, where, handles, stream, seen>>

\* Error::TopicNotFound.
TopicNotFound(x) ==
  /\ tpc[x] = "find" /\ ~Holds(Table(x)[ti[x]], uri[x])
  /\ ti[x] + 1 \notin Slots
  /\ Finish(x)
  /\ UNCHANGED <<slot, counted, handles, stream>>

CountIn(x) ==
  /\ tpc[x] = "count"
  /\ counted' = [counted EXCEPT ![where[x]][ti[x]] = @ + 1]
  /\ stream' = [stream EXCEPT ![x] = [at |-> ti[x], region |-> where[x], uri |-> uri[x]]]
  /\ Finish(x)
  /\ UNCHANGED <<slot, handles>>

DropStream(x) ==
  /\ tpc[x] = "idle" /\ stream[x] # NoStream
  /\ counted' = [counted EXCEPT ![stream[x].region][stream[x].at] = @ - 1]
  /\ stream' = [stream EXCEPT ![x] = NoStream]
  /\ UNCHANGED <<slot, tpc, ti, uri, where, handles, seen>>

\* Steps of the calls, up to Activate.
TableStep(x) ==
  \/ ScanMatch(x) \/ ScanNext(x) \/ ClaimSlot(x) \/ ClaimNext(x) \/ MaxTopicsReached(x)
  \/ WriteTopic(x)
  \/ FindMatch(x) \/ FindNext(x) \/ TopicNotFound(x) \/ CountIn(x)

(***************************************************************************)
(* Properties                                                              *)
(***************************************************************************)

\* A handle and a stream resolve: the slot register or subscribe returned is
\* ACTIVE and holds the URI that was asked for, and stays so, whatever other
\* publishers register meanwhile and however hashes collide.
HandleResolves ==
  /\ \A x \in Procs : \A h \in handles[x] :
       slot[RegionOf[x]][h.at] = [state |-> "ACTIVE", uri |-> h.uri]
  /\ \A x \in Procs : stream[x] # NoStream =>
       slot[stream[x].region][stream[x].at] = [state |-> "ACTIVE", uri |-> stream[x].uri]

\* A URI gets a second slot only from a register that overlaps the first one:
\* who claims a slot for a URI found it in no slot that was ACTIVE when its call
\* began.  (Two that overlap do both claim one, and their messages part ways.)
RegisterOnce ==
  \A x \in Procs : tpc[x] = "write" =>
    \A i \in seen[x] : Table(x)[i].uri # uri[x]

=============================================================================
