------------------------------- MODULE Registry -------------------------------
(***************************************************************************)
(* The global registry: one file for all regions, an array of entries and  *)
(* a count of them, without a lock.  register claims a free entry by       *)
(* compare-and-swap and THEN writes its fields; unregister and prune_stale *)
(* look at the fields and free the entry by compare-and-swap; discover and *)
(* discover_since read field after field.  open makes the file when there  *)
(* is none, or none that is valid, by truncating it.                       *)
(*                                                                         *)
(* Loads and stores that other processes can tell apart are steps of their *)
(* own.  A pattern is the set of URIs it matches; "" (NoUri) is what an    *)
(* entry holds before its URI is written.  Names of regions and URIs are   *)
(* copied byte by byte: while one is being copied the field is Torn, and   *)
(* who reads it then may find any string.  Time is a number; 0 is the      *)
(* timestamp of an entry never written.                                    *)
(***************************************************************************)
EXTENDS Naturals, FiniteSets, Parties

CONSTANTS NoRegion, Pids, NoPid, Pid, \* the process each of Procs is a thread of
          TooLong,      \* URIs that do not fit in an entry
          Torn, Mixed,  \* a string half written; one two writers have made
          MaxEntries,   \* REG_MAX_ENTRIES
          CountMod,     \* bound: the count wraps here, instead of at 2^32
          StaleTimeout, \* of prune_stale
          StartTime, MaxTime  \* bound: the clock

ASSUME RegistryAssumption ==
  /\ MaxEntries \in Nat \ {0}
  /\ IsFiniteSet(Procs)
  /\ CountMod \in Nat /\ CountMod > MaxEntries + Cardinality(Procs)
  /\ StaleTimeout \in Nat /\ StartTime \in Nat /\ MaxTime \in Nat
  /\ StartTime > StaleTimeout /\ MaxTime >= StartTime
  /\ NoRegion \notin Regions /\ NoPid \notin Pids
  /\ Pid \in [Procs -> Pids]
  /\ TooLong \subseteq Uris
  /\ Torn # Mixed
  /\ {Torn, Mixed} \cap (Uris \cup {NoUri} \cup Regions \cup {NoRegion}) = {}

VARIABLES file,    \* "absent", "empty", "blank" (its length is set) or "ready"
          entry,   \* the entries
          count,   \* entry_count
          clock,
          rpc, ri, \* what each process does in the registry, and at which entry
          op,      \* the operation and its arguments
          read,    \* fields discover has read of this entry
          found,   \* its results so far
          due,     \* history: entries discover has to return
          uses,    \* history: entries that have been claimed more than once
          stolen,  \* history: entries freed that were not whole or not stale
          skewed,  \* history: the count has lost something
          erased   \* history: a valid registry was truncated

regHistory == <<due, uses, stolen, skewed, erased>>
regLocal == <<rpc, ri, op, read, found>>
regVars == <<file, entry, count, clock, regLocal, regHistory>>

Entries == 0 .. MaxEntries - 1
Garbled == {Torn, Mixed}
Blank == [active |-> FALSE, pid |-> NoPid, ts |-> 0, region |-> NoRegion, uri |-> NoUri]
Fields == [active : BOOLEAN, pid : Pids \cup {NoPid}, ts : 0 .. MaxTime,
           region : Regions \cup {NoRegion} \cup Garbled, uri : Uris \cup {NoUri} \cup Garbled]
NoOp == [do |-> "none", region |-> NoRegion, uri |-> NoUri, time |-> 0, match |-> {}]
Writing == {"owner", "region", "uri"}
RegPC == Writing \cup
         {"idle", "open", "magic", "truncate", "len", "header", "start", "look", "compare",
          "touch", "claim", "add", "ts", "free", "sub", "clamp", "get_uri", "get_region",
          "get_owner", "done"}

RegTypeOK ==
  /\ file \in {"absent", "empty", "blank", "ready"}
  /\ entry \in [Entries -> Fields]
  /\ count \in 0 .. CountMod - 1
  /\ clock \in StartTime .. MaxTime
  /\ rpc \in [Procs -> RegPC]
  /\ ri \in [Procs -> Entries]
  /\ \A x \in Procs : op[x].do \in {"none", "register", "unregister", "prune", "discover", "since"}
  /\ read \in [Procs -> Fields]
  /\ \A x \in Procs : \A f \in found[x] : f.at \in Entries /\ f.got \in Fields
  /\ due \in [Procs -> SUBSET Entries]
  /\ uses \in [Entries -> 0 .. 2]
  /\ stolen \in SUBSET Entries
  /\ skewed \in BOOLEAN /\ erased \in BOOLEAN

\* The registry is there, or there is none yet (file).
RegInit ==
  /\ entry = [i \in Entries |-> Blank]
  /\ count = 0
  /\ clock = StartTime
  /\ rpc = [x \in Procs |-> "idle"]
  /\ ri = [x \in Procs |-> 0]
  /\ op = [x \in Procs |-> NoOp]
  /\ read = [x \in Procs |-> Blank]
  /\ found = [x \in Procs |-> {}]
  /\ due = [x \in Procs |-> {}]
  /\ uses = [i \in Entries |-> 0]
  /\ stolen = {}
  /\ skewed = FALSE
  /\ erased = FALSE

To(x, pc0) == rpc' = [rpc EXCEPT ![x] = pc0]
At(x, pc0) == rpc[x] = pc0
E(x) == entry[ri[x]]

\* The mapped file may be touched; when it is empty, that is SIGBUS.
Mapped == file # "empty"

\* Mutant: the loop runs past the last entry.
NextEntry_Past(x, loop, after) ==
  IF ri[x] + 1 <= MaxEntries
  THEN To(x, loop) /\ ri' = [ri EXCEPT ![x] = @ + 1]
  ELSE To(x, after) /\ ri' = [ri EXCEPT ![x] = 0]

\* The loop's next entry, or what follows the loop.
NextEntry(x, loop, after) ==
  IF ri[x] + 1 \in Entries
  THEN To(x, loop) /\ ri' = [ri EXCEPT ![x] = @ + 1]
  ELSE To(x, after) /\ ri' = [ri EXCEPT ![x] = 0]

\* register's first loop is followed by its second, the others return.
NextLook(x) == NextEntry(x, "look", IF op[x].do = "register" THEN "claim" ELSE "done")

(***************************************************************************)
(* Registry::open                                                          *)
(***************************************************************************)
OpenCall(x, o) ==
  /\ At(x, "idle")
  /\ op' = [op EXCEPT ![x] = o]
  /\ To(x, "open")
  /\ UNCHANGED <<file, entry, count, clock, ri, read, found, regHistory>>

OpenExisting(x) ==
  /\ At(x, "open")
  /\ To(x, IF file \in {"absent", "empty"} THEN "truncate" ELSE "magic")
  /\ UNCHANGED <<file, entry, count, clock, ri, op, read, found, regHistory>>

CheckMagic(x) ==
  /\ At(x, "magic") /\ Mapped
  /\ To(x, IF file = "ready" THEN "start" ELSE "truncate")
  /\ UNCHANGED <<file, entry, count, clock, ri, op, read, found, regHistory>>

\* create_new: O_CREAT | O_TRUNC, whatever has become of the file since.
Truncate(x) ==
  /\ At(x, "truncate")
  /\ To(x, "len")
  /\ file' = "empty"
  /\ entry' = [i \in Entries |-> Blank]
  /\ count' = 0
  /\ erased' = (erased \/ file = "ready")
  /\ due' = [y \in Procs |-> {}]
  /\ UNCHANGED <<clock, ri, op, read, found, uses, stolen, skewed>>

SetLen(x) ==
  /\ At(x, "len")
  /\ To(x, "header")
  /\ file' = IF file = "empty" THEN "blank" ELSE file
  /\ UNCHANGED <<entry, count, clock, ri, op, read, found, regHistory>>

WriteHeader(x) ==
  /\ At(x, "header") /\ Mapped
  /\ To(x, "start")
  /\ file' = "ready"
  /\ UNCHANGED <<entry, count, clock, ri, op, read, found, regHistory>>

(***************************************************************************)
(* The operations                                                          *)
(***************************************************************************)
IsWriting(x) == rpc[x] \in Writing
IsAdding(x) == IsWriting(x) \/ At(x, "add")
IsSubtracting(x) == At(x, "sub")

\* What discover is asked for and is there in full.
Due(o) ==
  {i \in Entries : /\ entry[i].active /\ entry[i].uri \in o.match
                   /\ o.do = "since" => entry[i].ts > o.time
                   /\ \A y \in Procs : ri[y] = i => ~IsWriting(y)}

\* The time is taken, before the first entry.  A URI that does not fit is
\* skipped without an error.
Start(x) ==
  /\ At(x, "start")
  /\ To(x, IF op[x].do = "register" /\ op[x].uri \in TooLong THEN "done" ELSE "look")
  /\ op' = [op EXCEPT ![x].time =
              CASE op[x].do = "register" -> clock
                [] op[x].do = "prune" -> IF clock > StaleTimeout THEN clock - StaleTimeout ELSE 0
                [] OTHER -> @]
  /\ due' = [due EXCEPT ![x] = IF op[x].do \in {"discover", "since"} THEN Due(op[x]) ELSE {}]
  /\ UNCHANGED <<file, entry, count, clock, ri, read, found, uses, stolen, skewed, erased>>

\* Mutant: the search ends at the first free entry.
LookFree_Ends(x) ==
  /\ At(x, "look") /\ Mapped /\ ~E(x).active
  /\ To(x, IF op[x].do = "register" THEN "claim" ELSE "done")
  /\ ri' = [ri EXCEPT ![x] = 0]
  /\ UNCHANGED <<file, entry, count, clock, op, read, found, regHistory>>

LookFree(x) ==
  /\ At(x, "look") /\ Mapped /\ ~E(x).active
  /\ NextLook(x)
  /\ UNCHANGED <<file, entry, count, clock, op, read, found, regHistory>>

LookActive(x) ==
  /\ At(x, "look") /\ Mapped /\ E(x).active
  /\ To(x, CASE op[x].do \in {"register", "unregister"} -> "compare"
             [] op[x].do \in {"prune", "since"} -> "ts"
             [] OTHER -> "get_uri")
  /\ UNCHANGED <<file, entry, count, clock, ri, op, read, found, regHistory>>

\* read_fixed_str, of a field that holds `f': what is half written is some string,
\* and is not told from others.
ReadStr(f) == IF f \in Garbled THEN Torn ELSE f

\* register: pid, region and URI; unregister: pid and region.
Same(x) ==
  /\ E(x).pid = Pid[x] /\ E(x).region = op[x].region
  /\ op[x].do = "register" => E(x).uri = op[x].uri

MayLookSame(x) ==
  /\ E(x).pid = Pid[x] /\ ReadStr(E(x).region) \in {op[x].region, Torn}
  /\ op[x].do = "register" => ReadStr(E(x).uri) \in {op[x].uri, Torn}

Compare(x) ==
  /\ At(x, "compare") /\ Mapped
  /\ \/ /\ MayLookSame(x)
        /\ To(x, IF op[x].do = "register" THEN "touch" ELSE "free")
        /\ UNCHANGED ri
     \/ ~Same(x) /\ NextLook(x)
  /\ UNCHANGED <<file, entry, count, clock, op, read, found, regHistory>>

\* Registered already: the timestamp of this call, which may be older than the
\* one it replaces and hide the entry from discover_since.
Touch(x) ==
  /\ At(x, "touch") /\ Mapped
  /\ entry' = [entry EXCEPT ![ri[x]].ts = op[x].time]
  /\ To(x, "done")
  /\ ri' = [ri EXCEPT ![x] = 0]
  /\ due' = [y \in Procs |-> IF op[y].do = "since" /\ op[x].time <= op[y].time
                             THEN due[y] \ {ri[x]} ELSE due[y]]
  /\ UNCHANGED <<file, count, clock, op, read, found, uses, stolen, skewed, erased>>

\* compare_exchange(FREE, ACTIVE): the entry can be seen before it is written.
Claim(x) ==
  /\ At(x, "claim") /\ Mapped /\ ~E(x).active
  /\ entry' = [entry EXCEPT ![ri[x]].active = TRUE]
  /\ To(x, "owner")
  /\ uses' = [uses EXCEPT ![ri[x]] = IF @ < 2 THEN @ + 1 ELSE @]
  /\ UNCHANGED <<file, count, clock, ri, op, read, found, due, stolen, skewed, erased>>

\* The last one taken too: the registry is full, without an error.
ClaimTaken(x) ==
  /\ At(x, "claim") /\ Mapped /\ E(x).active
  /\ NextEntry(x, "claim", "done")
  /\ UNCHANGED <<file, entry, count, clock, op, read, found, regHistory>>

\* write_fixed_str begins, perhaps while another process is at the same field ...
Begun(x, copying) ==
  IF \E y \in Procs \ {x} : At(y, copying) /\ ri[y] = ri[x] THEN Mixed ELSE Torn

\* ... and ends: `f' is what the field has become in the meantime.
Copied(f, str) == IF f = Torn THEN str ELSE Mixed

\* pid and timestamp, region, URI, in this order.  A step ends with the first byte
\* of the next field.
WriteField(x) ==
  /\ IsWriting(x) /\ Mapped
  /\ entry' = [entry EXCEPT ![ri[x]] =
       CASE At(x, "owner")  -> [@ EXCEPT !.pid = Pid[x], !.ts = op[x].time,
                                         !.region = Begun(x, "region")]
         [] At(x, "region") -> [@ EXCEPT !.region = Copied(E(x).region, op[x].region),
                                         !.uri = Begun(x, "uri")]
         [] At(x, "uri")    -> [@ EXCEPT !.uri = Copied(E(x).uri, op[x].uri)]]
  /\ To(x, CASE At(x, "owner") -> "region" [] At(x, "region") -> "uri" [] At(x, "uri") -> "add")
  /\ UNCHANGED <<file, count, clock, ri, op, read, found, regHistory>>

Add(x) ==
  /\ At(x, "add") /\ Mapped
  /\ count' = (count + 1) % CountMod
  /\ To(x, "done")
  /\ ri' = [ri EXCEPT ![x] = 0]
  /\ UNCHANGED <<file, entry, clock, op, read, found, regHistory>>

\* prune_stale: older than the cutoff; discover_since: newer than its argument.
ReadTs(x) ==
  /\ At(x, "ts") /\ Mapped
  /\ IF op[x].do = "prune"
     THEN IF E(x).ts < op[x].time THEN To(x, "free") /\ UNCHANGED ri ELSE NextLook(x)
     ELSE IF E(x).ts > op[x].time THEN To(x, "get_uri") /\ UNCHANGED ri ELSE NextLook(x)
  /\ read' = [read EXCEPT ![x].ts = IF op[x].do = "since" THEN E(x).ts ELSE @]
  /\ UNCHANGED <<file, entry, count, clock, op, found, regHistory>>

\* The entry is given up for another reason than the one freeing it has read.
IsStolen(x) ==
  \/ \E y \in Procs : ri[y] = ri[x] /\ IsAdding(y)
  \/ op[x].do = "prune" /\ E(x).ts >= op[x].time
  \/ op[x].do = "unregister" /\ ~Same(x)

Freed(x) ==
  /\ entry' = [entry EXCEPT ![ri[x]].active = FALSE]
  /\ To(x, "sub")
  /\ due' = [y \in Procs |-> due[y] \ {ri[x]}]
  /\ stolen' = IF IsStolen(x) THEN stolen \cup {ri[x]} ELSE stolen

\* Mutant: a store instead of the compare-and-swap.
Free_Store(x) ==
  /\ At(x, "free") /\ Mapped
  /\ Freed(x)
  /\ UNCHANGED <<file, count, clock, ri, op, read, found, uses, skewed, erased>>

\* compare_exchange(ACTIVE, FREE), whatever the fields are by now.
Free(x) ==
  /\ At(x, "free") /\ Mapped /\ E(x).active
  /\ Freed(x)
  /\ UNCHANGED <<file, count, clock, ri, op, read, found, uses, skewed, erased>>

FreeLost(x) ==
  /\ At(x, "free") /\ Mapped /\ ~E(x).active
  /\ NextLook(x)
  /\ UNCHANGED <<file, entry, count, clock, op, read, found, regHistory>>

Sub(x) ==
  /\ At(x, "sub") /\ Mapped
  /\ count' = (count + CountMod - 1) % CountMod
  /\ IF count = 0 THEN To(x, "clamp") /\ UNCHANGED ri ELSE NextLook(x)
  /\ UNCHANGED <<file, entry, clock, op, read, found, regHistory>>

\* The count wrapped: store 0, whatever others have made of it.  The one counted
\* down is lost, unless who has to count it up has done so.
Clamp(x) ==
  /\ At(x, "clamp") /\ Mapped
  /\ count' = 0
  /\ skewed' = (skewed \/ count # 0)
  /\ NextLook(x)
  /\ UNCHANGED <<file, entry, clock, op, read, found, due, uses, stolen, erased>>

\* A string half written may match the pattern or not.
GetUri(x) ==
  /\ At(x, "get_uri") /\ Mapped
  /\ LET u == ReadStr(E(x).uri)
     IN  /\ \/ u \in op[x].match \cup {Torn} /\ To(x, "get_region") /\ UNCHANGED ri
            \/ u \notin op[x].match /\ NextLook(x)
         /\ read' = [read EXCEPT ![x].uri = u]
  /\ UNCHANGED <<file, entry, count, clock, op, found, regHistory>>

GetRegion(x) ==
  /\ At(x, "get_region") /\ Mapped
  /\ To(x, "get_owner")
  /\ read' = [read EXCEPT ![x].region = ReadStr(E(x).region)]
  /\ UNCHANGED <<file, entry, count, clock, ri, op, found, regHistory>>

\* pid and, unless it was read before, timestamp: a result.
GetOwner(x) ==
  /\ At(x, "get_owner") /\ Mapped
  /\ LET r == [read[x] EXCEPT !.active = TRUE, !.pid = E(x).pid,
                              !.ts = IF op[x].do = "since" THEN @ ELSE E(x).ts]
     IN  found' = [found EXCEPT ![x] = @ \cup {[at |-> ri[x], got |-> r]}]
  /\ read' = [read EXCEPT ![x] = Blank]
  /\ NextLook(x)
  /\ UNCHANGED <<file, entry, count, clock, op, regHistory>>

\* The call returns and the mapping goes.
Close(x) ==
  /\ At(x, "done")
  /\ To(x, "idle")
  /\ op' = [op EXCEPT ![x] = NoOp]
  /\ found' = [found EXCEPT ![x] = {}]
  /\ due' = [due EXCEPT ![x] = {}]
  /\ UNCHANGED <<file, entry, count, clock, ri, read, uses, stolen, skewed, erased>>

\* The next operation on the same Registry.
Then(x, o) ==
  /\ At(x, "done")
  /\ To(x, "start")
  /\ op' = [op EXCEPT ![x] = o]
  /\ UNCHANGED <<file, entry, count, clock, ri, read, found, regHistory>>

Tick ==
  /\ clock < MaxTime
  /\ clock' = clock + 1
  /\ UNCHANGED <<file, entry, count, regLocal, regHistory>>

\* The threads in xs are no more, wherever they were.
RegGone(xs) ==
  /\ rpc' = [x \in Procs |-> IF x \in xs THEN "idle" ELSE rpc[x]]
  /\ ri' = [x \in Procs |-> IF x \in xs THEN 0 ELSE ri[x]]
  /\ op' = [x \in Procs |-> IF x \in xs THEN NoOp ELSE op[x]]
  /\ read' = [x \in Procs |-> IF x \in xs THEN Blank ELSE read[x]]
  /\ found' = [x \in Procs |-> IF x \in xs THEN {} ELSE found[x]]
  /\ due' = [x \in Procs |-> IF x \in xs THEN {} ELSE due[x]]
  /\ stolen' = stolen \cup {ri[x] : x \in {y \in xs : IsAdding(y)}}
  /\ skewed' = (skewed \/ \E x \in xs : IsAdding(x) \/ IsSubtracting(x))
  /\ UNCHANGED <<file, entry, count, clock, uses, erased>>

\* Touching the file while it is empty.
Unmapped(x) ==
  /\ file = "empty"
  /\ rpc[x] \notin {"idle", "open", "truncate", "len", "start", "done"}

RegStep(x) ==
  \/ OpenExisting(x) \/ CheckMagic(x) \/ Truncate(x) \/ SetLen(x) \/ WriteHeader(x)
  \/ Start(x) \/ LookFree(x) \/ LookActive(x) \/ Compare(x) \/ Touch(x)
  \/ Claim(x) \/ ClaimTaken(x) \/ WriteField(x) \/ Add(x)
  \/ ReadTs(x) \/ Free(x) \/ FreeLost(x) \/ Sub(x) \/ Clamp(x)
  \/ GetUri(x) \/ GetRegion(x) \/ GetOwner(x)

(***************************************************************************)
(* Properties                                                              *)
(***************************************************************************)
Adding == {x \in Procs : IsAdding(x)}
Subtracting == {x \in Procs : IsSubtracting(x)}
Active == {i \in Entries : entry[i].active}

\* The count is right but for the steps under way: prune_stale and unregister do not
\* both count one entry down ("preventing a double-decrement race").  When an entry
\* is freed and counted down before the register that claimed it counts it up, the
\* count wraps, and is right modulo its width.  Void once it was clamped to 0 while
\* wrapped (it is then too high for good), once a process died between claim and
\* count or free and count, and once the file was truncated.
CountAgrees ==
  LET listed == Cardinality(Active) + Cardinality(Subtracting)
      uncounted == Cardinality(Adding)
  IN  ~skewed /\ ~erased =>
        count + uncounted = listed + (IF listed < uncounted THEN CountMod ELSE 0)

\* discover and discover_since return every topic that was listed in full when
\* they were called and was not taken off the list, or set back in time, before
\* they returned, wherever free and half-written entries lie between.
DiscoverFindsAll ==
  \A x \in Procs : At(x, "done") => \A i \in due[x] : \E f \in found[x] : f.at = i

=============================================================================
