# Crossbar in TLA+

Crossbar moves messages between processes through a memory-mapped file. Its
shared state is a set of atomic words that several processes update without
locks, and its hard questions are about the order in which they do so: is a
block reused while somebody reads it, do two writers meet in one slot, does a
process that dies leave the others stuck. These modules answer such questions
from the code: every access to shared memory is a step of its own, steps of all
processes interleave, and a process may stop between any two of them.

Paths below are relative to the repository; `region.rs` is
`src/protocol/region.rs`, the other files are in `src/platform/`.

## The system: inventory

| Part | State | Operations | Works with | Hard behaviour | Correct when |
|---|---|---|---|---|---|
| Block pool (`region.rs`) | `pool_head` (generation, index), a link per free block | `alloc_block`, `free_block` | publishers, streams | CAS retry loops of several processes, ABA | no block is handed out twice or lost |
| Ring, publishing (`region.rs`, `loan.rs`, `shm.rs`) | per topic `write_seq`, slots (seq, block, length); per block a refcount; per publisher a cache and a recycled block | `loan`, `publish`, drops of loan and publisher | pool, streams | slots claimed by store, CAS or force; death mid-commit | one writer per slot; counts exact; each block in one place; a commit ends |
| Ring, receiving (`subscription.rs`) | `last_seq` per stream, samples handed out | `try_recv`, drop of a sample | ring, pool | slot reused between the two checks; being lapped | a sample keeps its message; only lapped messages are skipped |
| Pinned topic (same files) | one block per publisher and topic, readers word, packed (seq, length) | `loan_pinned`, `publish`, `try_recv_pinned`, drops | pool | reader and writer meet on the readers word; stale sequence | guards and loans never overlap; a guard shows one message |
| PodBus (`pod_bus.rs`) | ring of stamped slots, `write_seq`, a table of subscriber slots (state and cursor, pid) | `publish`, `try_publish`, `connect`, `try_recv`, drops | processes by pid | seqlock reads, backpressure by scan, pruning of the dead | each value is received or counted; bounded mode loses nothing; publish returns |
| Blocking receive (`subscription.rs`, `notify.rs`, `src/wait.rs`) | `waiters`, the futex word | `recv*`, wake-up in a commit | ring, pinned topic | check-then-sleep against write-then-wake | a sleeper wakes |
| Topic table (`shm.rs`) | per region an array of slots FREE / INIT / ACTIVE with a URI, a subscriber count each | `register`, `subscribe`, drop of a stream | registry, ring | scan, then claim by CAS, without a lock; equal hashes; death half-way | a handle leads to its URI; one slot per URI |
| Registry (`registry.rs`, `src/lib.rs`) | one mapped file for all regions: entries (active, pid, timestamp, region, URI) and a count | `open`, `register`, `unregister`, `prune_stale`, `discover`, `discover_since`, `crossbar::discover` | publishers, topic tables | an entry is visible before it is written, freed on what was read before, and the file is truncated by who finds none | the count agrees; what is listed is found; what is found was registered |
| Region lifecycle (`shm.rs`, `pod_bus.rs`, `mmap.rs`) | per name a file and a lock file, flock, heartbeat | `create`, `open`, `connect`, `heartbeat`, drop of publishers and buses | all of the above | creation against attachment, unlinking under others, death half-way, staleness | no region is replaced under a publisher; who attaches sees an initialised one |
| Channel (`channel.rs`) | two regions, a stream on the peer's | `listen`, `connect`, `send`, `try_recv`, `heartbeat` | lifecycle, topic table, ring | handshake by polling, restart of one end, staleness | both sides meet; early messages arrive |
| Rest: `ffi.rs`, Python and C++ bindings, `pod.rs`, `error.rs`, `layout.rs`, `config.rs` | none of its own | forwarding, conversions, constants | | | |

All parts but the last row carry protocols of the program's own and are modelled here.
Hazards, each with its line and the properties aimed at it, are in
`PROJECT.json`.

## Modules

```
BlockPool: what the pool promises, one set, Take and Give
   ^ implemented by      ^ used through INSTANCE by
TreiberPool          PubSubRing      PinnedTopic
MCTreiberPool        MCPubSubRing    MCPinnedTopic

Broadcast: what a bus promises, a log and its readers
   ^ implemented by
PodBus               Waiting
MCPodBus             MCWaiting

Parties            names of processes, regions and URIs
   ^ extended by
TopicTable   Registry              Lifecycle    files, locks, heartbeats
     ^ composed by ^                   ^ extended by
     Directory                     Channel      the two ends on top of them
     MCDirectory                   MCChannel
```

The proofs about a module `M` are in `M_proofs`: TreiberPool, PubSubRing,
PinnedTopic, PodBus, Waiting, Channel (with Lifecycle) and Directory (with
TopicTable and Registry) have one. `PubSubRingBlocks_proofs` extends that of the
ring with what concerns blocks and messages.

`BlockPool` is the abstract specification. `TreiberPool` is `alloc_block` and
`free_block` access by access and is shown to implement it (`ImplementsPool`),
which is what lets the two topic modules take a block in one step. The `MC`
modules declare model values and symmetry sets for TLC; the `.cfg` files give the
constants their values.

**TreiberPool.** `AllocLoad`, `AllocReadNext`, `AllocCas`/`AllocRetry` are the
three accesses of the pop loop, `FreeLoad`, `FreeLink`, `FreeCas`/`FreeRetry`
those of the push loop; a failed weak CAS keeps the value it read, as
`Err(current)` does. The generation counts modulo `GenMod` (2^32 in the code).
A tag of finite width protects only against fewer than `GenMod` changes during
one operation: `lag` counts them and the actions that change the head keep it
below `GenMod`. `stack` is a history variable; the set of free blocks that maps to
`BlockPool` is `OnList`, what head and links in shared memory lead to.

**PubSubRing.** A publisher takes a block (`LoanRecycled`, `LoanCached`, or
`LoanMiss`, `Refill`, `RefillDone`, `PoolExhausted`), may drop it (`DropLoan`),
and commits: `ClaimSeq` (`fetch_add`), then the slot is marked by `MarkStore`
(owner), `MarkCas`, or `SpinOut` (the last of the spins) and `ForceClaim` (the
store), then `ReadOld`, `SetRefcount`, `StoreIdx`, `StoreLen`, `CloseSlot`, and
the displaced block is released (`ReleaseNone`, `ReleaseShared`, `ReleaseLast`,
`Recycle`). A stream runs `TryRecv` (where to start), `Check1`, `ReadBlk`,
`ReadLen`, `Acquire`, `Check2` and on failure `Undo`, `UndoFree`; `DropSample` and
`DropSampleFree` end a sample. `Crash` stops a process for good. `Handles[p]` are
the topics publisher `p` holds. `ForceOnLive` says whether a forced store may find
a live publisher in the slot. With FALSE it waits for those, which is what the
code's comment assumes; that leaves out a holder that is alive and slow, and also
two publishers that time out together on one that died. The wake-up at the end of
a commit is in Waiting.

**PinnedTopic.** `AllocPinned` and `SetPinnedBlock` or `ReusePinned`, then
`EnterWriter` or `ReadersActive`, `ClaimSeq`, `StorePinned`, `LeaveWriter`; a
stream runs `LoadPacked`, `ReadPinnedBlk`, `Register` or `WriterActive`,
`Recheck`, or `RecheckFails` and `UndoRegister`; `DropGuard`, `DropPinnedLoan` and
`DropPublisher` are the drops. `OtherLoan` is a loan elsewhere that takes and
writes a free block. `mishaps` records which of three events that void this
mode's guarantees have happened, so that each property says exactly under which
of them it holds. There is no fairness, so a process may stop anywhere.

**PodBus.** `Publish` starts a publish; `CheckCached` is the fast path of the
watermark check, `StartScan` to `ScanRoom`/`ScanFull` the scan over the slots with
its pruning (`ScanStaleClaim`, `ScanDead`, `Prune`, `PrunePid`), `MarkSlot` to
`Advance` the seqlock write. A subscriber runs `Connect`, `ClaimSlot`,
`ClaimNext`, `ClaimFails`, `WritePid`, `Activate`, then `TryRecv`, `ReadStamp`,
`ReadData` and one of `StampChanged`, `Overwritten`, `Receive`, `UpdateCursor`;
`DropSub`, `ClearPid` and `Crash` end it. A `Local` subscriber is made by
`PodBus::subscriber`, which borrows the bus and so cannot overlap a publish; the
others connect from another process at any time. `Broadcast` is the abstract
specification: a log, a position per subscriber, `Skip` only for who is more than
a ring behind, and only to the oldest value of the ring or, from a slot that was
overwritten under the reader, past the value that took it; and in bounded mode a
`Publish` that waits for Local subscribers until it may `LoseTrack` of them. That
happens when the publisher frees a slot under a living remote subscriber, which
the history variable `robbed` records. It takes either a claimant that was slow
for five seconds (`ScanStaleClaim`), or three subscribers: one of another process
gives its slot up and dies before it clears the pid, a second claims the slot, and
the publisher, which has read the dead pid, prunes the slot under the second
(`pod_bus.rs:642` stores without comparing). The slot is then claimed again, by a
subscriber of the publisher's own process for instance, and two advance one
cursor: a bounded publish no longer waits for the slower of the two. Until then
bounded mode loses nothing. The refinement mapping takes a value to be in the log
when its slot gets the even stamp (`Published`), and a subscriber to be in from
its read of `write_seq` until it gives up its slot (`View`).

**Waiting.** One topic, ring or pinned (`mode`). Publishers: `ClaimSeq`, `Mark`,
`Close`, or `LoanPinned`, `DropPinnedLoan`, `BumpPinned`, `StorePinned`,
`LeaveWriter`, and in both `CheckWaiters` and `WakeAll`, in the order of the code:
the futex word changes before the message is readable, and a pinned message only
becomes readable after the wake. Receivers: `Recv`, `TrySucceeds`/`TryFails`,
`Spin`, and for the adaptive strategy `LoadWord`, the second try, `Enlist`,
`WordChanged`, `FutexWait`, `SleepEnds`, `Deadline`, `Delist`; `Alive` or
`PublisherDead` is the heartbeat check. A try, which the two topic modules split,
is one step here; `Overlapped` lets it miss a message while a ring commit is under
way, as a scan can.

**Lifecycle.** A name has a directory entry for its file and one for its lock
file; files are inodes with the set of their parts that are initialised. `create`
is `OpenLockFile`, `LockExclusive` or `LockContention`, `RemoveStale`, `NewFile`,
five times `InitPart` in the order of `InitOrder` (a region gets its heartbeat
before its rings, a bus after), `Downgrade`, `Identify` (the other way round for
a bus). `Publisher::open` and `BusSubscriber::connect` take the shared lock
(`LockShared`) and go on as `Subscriber::connect` does without one: `Find`,
`MapFile`, `CheckHeader`, `CheckBeat`, then `Opened`, or `Detach`. A drop compares
the inode (`Drop`), unlinks by name (`Unlink`) and closes (`DropFields`, which for a
bus unlinks the lock file too). `Heartbeat` and `GrowStale` are time; `Die` takes a
process away with its locks and mappings, `BusError` when a file it has mapped is
truncated.

**Channel.** `RegisterCh` follows a create; `FileStep` is the polling connect,
`Subscribe` its success, `PollAgain` a failure before the deadline, `Close` one
after it, or the end of a connected channel. `Send`, `TryRecv` and `Beat` are the
operations of a connected one: an endpoint that waits cannot send heartbeats.

**TopicTable.** `register` is `RegisterCall`, `ScanMatch`/`ScanNext` (phase 1),
`ClaimSlot`/`ClaimNext`/`MaxTopicsReached` (phase 2), `WriteTopic`, `Activate`,
`RegisterReturn`; `subscribe` is `SubscribeCall`, `FindMatch`/`FindNext`/
`TopicNotFound`, `CountIn`. `Hash` may map two URIs to one value.

**Registry.** `OpenExisting`, `CheckMagic`, `Truncate`, `SetLen`, `WriteHeader`
are `open`. The five operations share the loop over the entries: `LookFree` and
`LookActive` read the state, `Compare` and `ReadTs` what decides, `Touch`,
`Claim`, `ClaimTaken`, `WriteField`, `Add` are `register`, `Free`, `FreeLost`,
`Sub`, `Clamp` are `unregister` and `prune_stale`, `GetUri`, `GetRegion`,
`GetOwner` the two `discover`s. `write_fixed_str` copies a name byte by byte into
an entry that is ACTIVE already: from its first byte to its last the field is
`Torn`, or `Mixed` when two processes copy at once, and `read_fixed_str` of such a
field may give any string: `Compare` and the match of a pattern may then go either
way, and the result of a `discover` keeps `Torn`. History variables record what
voids a guarantee: `stolen` (entries freed under their writer or against what the
freeing process had read), `skewed` (a count that had wrapped was set to 0, or a
process died before it had counted what it claimed or freed), `erased` (a valid
registry was truncated). `due` holds the entries a search has to return; `Touch`
takes one out for `discover_since` when a `register` that has been slow sets its
timestamp back.

**Directory.** Both together. `Publicize` activates a slot and opens the registry,
`Registered` returns the handle, `Drop` and `Dropped` are Publisher's drop, `Find`
and `FindPruned` `crossbar::discover`, `SubscribeTo` what a program does with its
results (a `Torn` name may be any of the names there are). `Refresh` is a program
that calls the public `Registry::register` itself. `Die` ends all threads of a
process.

### Abstractions

- Memory is sequentially consistent: one total order of atomic accesses. The
  `Relaxed` accesses and fences of the seqlocks are outside these models.
- A payload is the message it belongs to; a block under somebody's pen holds
  `Dirty` (`Torn` in PodBus). Lengths are tied to the message.
- A wide counter keeps its width as a modulus (`GenMod`, `RcMod`, `SeqMod`).
- Dropping a publisher frees its blocks one step at a time in PubSubRing, and
  only the pinned block matters in PinnedTopic. Removing the file is left out.
- Lifecycle: a file's header is one part (who reads it half-written finds zeros
  and refuses it), and so are the pool and the rings. `create` of a region or bus
  is called with a valid configuration and name. A creation takes an inode that
  nobody uses (`FreeFiles`, `FreeLocks`) and waits while there is none; the runs
  have enough. The peer of a region's name is not the name of a bus.
- TopicTable: hash, length and bytes are one value, which nobody reads before the
  slot is ACTIVE. A URI longer than 64 bytes is refused before any step; one of
  exactly 64 fits in the table and not in the registry (`TooLong`).
- Registry: pid and timestamp are written, and read, in one step, and so are the
  fields that `Compare` looks at. Split, they could match on the fields of two
  owners of a reused entry; what follows, that an entry is freed or touched which is
  no longer the one looked at, happens in the model too, as `Free` and `Touch` are
  later steps. A string is whole, half
  written (`Torn`) or made by two writers (`Mixed`); a pattern is the set of URIs it
  matches. A region's table stays after its publishers are dropped, where the code
  unlinks the file: `DiscoveredRegistered` speaks of the table only while all
  publishers of the region are up. A clock
  tick is longer than the timeout of `prune_stale`, and all publishers that are up
  send heartbeats between two ticks. In what a program does it follows a script;
  the order in which the processes take their steps is free.
- Lifecycle: the change of an exclusive flock into a shared one is one step, as
  `shm.rs:83-89` takes it to be; flock(2) does not promise that.
- Channel: registering "/ch" in a region that nobody else knows is one step.
- Spinning and timeouts are enabledness: a forced claim or a stale claim is a
  step that may be taken when its condition holds.
- Corrupt indices (the `Err(())` of `alloc_block`, bounds checks on a block
  index) cannot arise in these states and have no action.

## Runs

| Run | Instance | What it shows |
|---|---|---|
| `treiber` | 3 blocks, 3 clients, 5 generations | the free list is intact, a block has one holder, every step is a step of BlockPool |
| `ring_owner` | owner alone, 1 stream, 2 topics, depth 2, cache 2, 4 messages, 2 samples held | samples keep their message, counts are exact, only lapped messages are skipped, a committed message is received or superseded |
| `ring_multi` | 2 secondary publishers, one may die, 1 stream that may die, 1 topic, depth 1, 3 blocks, 2 messages | one writer per slot, samples, counts, and each block in exactly one place, with deaths anywhere; a claimed sequence is committed although another publisher died in the slot |
| `pinned` | 2 publishers, 2 streams, 2 blocks, lengths 0 and 1, sequence modulo 2, 3 messages | guard and loan exclude each other; a guard shows one whole message; the bytes under it do not change |
| `waiting` | 1 publisher that may die, 2 receivers, one adaptive and one adaptive or spinning, ring and pinned, futex word modulo 2, 2 messages | a sleeper is counted; a receive beside a readable message returns, lost wake-ups and a word that came round included; a death is reported unless the iteration counter has saturated |
| `bus` | 1 local and 1 remote subscriber that may die, ring 2, watermark 0 and unbounded, slot table of 1 and 2, 3 values | every step is a step of Broadcast (each value received once and in order, or skipped by a subscriber that was lapped, and counted); nothing lost and no slot lost by the local subscriber; publish ends |
| `lifecycle` | 3 processes, one may die anywhere; a region (two creators, one open, one connect), a bus (the same), or a channel whose server is restarted; 1 message per end | a name keeps its file while a publisher lives; who attaches sees an initialised region; two ends that poll meet; early messages arrive |
| `directory` | 2 publishers of one process and region, 1 of another, 1 that looks; table and registry of 2, 3 URIs of which 2 collide and 1 is too long, 2 times; 5 scripts | handles and streams resolve; a second slot only for overlapping registers; count and entries agree, wrapped or not; discover finds what is listed, and what it finds was registered; a dropped publisher is delisted |

The bounds are the smallest at which the interesting cases occur. Three clients
are needed for ABA on the list (one sleeping, two cycling the block), and fewer
generations than operations make the tag wrap. Ring depth 1 makes every two
consecutive sequences meet in one slot; depth 2 with 4 messages laps a stream
twice and makes the scan start in the middle. `RcMod` 8 exceeds every possible
count, so a count below zero shows. Two blocks fewer than the places that want
one make the pool run dry. Bus ring 2 with 3 values wraps and fills.
Three processes are a creator, one that replaces or joins it, and one that comes
between; the creations of the scenarios need four inodes at most. Two slots
and two entries are filled, freed and claimed anew, with a free one before and
behind; the five scripts are two publishers that register the same and different
URIs, one that comes and goes under a search, three in the registry at once, one
that takes another's place, and a registry that is created by two.
`MaxSeq`, `MaxHeld`, `MaxSend`, `MaxTime`, `RcMod` and `CountMod` are the bounds on
otherwise unbounded data.

Deadlock is checked in `treiber` and `ring_owner`. In the other passing runs all
processes may be dead or dropped, or the message bound reached, and
`CHECK_DEADLOCK FALSE` says so.

### Disagreements between the code and what it says of itself

| Run | Property violated | The line it contradicts |
|---|---|---|
| `ring_force_live` | `HeldBlockUntouched` | `region.rs:347` "The CAS ensures only one wins": 1024 spins on a slow publisher put two in the slot; both release the old block and a held sample is freed |
| `bus_stall` | `PublishCompletes` | `pod_bus.rs:490` "spin-waits until the slowest subscriber has advanced enough": a lapped subscriber advances without saying so |
| `bus_lap` | `SkipsToOldest` | `pod_bus.rs:910` "its cursor to the oldest still-available data": when the slot is overwritten between the load of `write_seq` and that of the stamp, `try_recv` goes past the value that replaced the wanted one, and loses values that are in the ring |
| `discover_live` | `PruneSparesLive` | `registry.rs:487` "Prune entries from dead publishers (stale heartbeat)": no heartbeat renews an entry, and the first `discover` ten seconds after a registration removes it |

Met on the way and not given a run; where a property above has a proviso, it
fails without it:

- Ring: `shm.rs:784` lets the owner take the fast path that `ARCHITECTURE.md:122`
  reserves for "When only one publisher exists" after others have opened the
  region, and two publishers are in one slot (`OwnerAlone`).
- Pinned: a loan that is written and dropped leaves its bytes under the old
  sequence, where `loan.rs:477` says "subscribers won't see the partial data".
- Waiting: a spinning receive stops looking at the heartbeat once its counter
  saturates at `u32::MAX` (`subscription.rs:429`, no multiple of 1024).
- Lifecycle: PodBus's drop unlinks the lock file, after which a second `create` of
  the name succeeds beside one that is under way (`exposed`; `pod_bus.rs:34`
  promises `LockContention`). A creator that dies between heartbeat and rings
  leaves a region that `open` accepts (`halfMade`). BusSubscribers hold the shared
  lock, so a bus whose publisher died cannot be created anew before they are gone.
  Names that differ after the last dot share a lock file (`lock_path` replaces the
  extension).
- Channel: an endpoint that waits longer than `stale_timeout` (5 s) is dead to its
  peer although its own timeout runs on. One that polls while a dead
  predecessor's region is still fresh subscribes to that.
- Topic table: two overlapping registers of one URI get a slot each, although
  `ARCHITECTURE.md:279` says the states prevent "concurrent register races". A
  publisher that dies with its slot in INIT loses it for the region.
- Registry: an entry is claimed before it is written, so `prune_stale` may free it
  on an old timestamp and a second publisher claim it (`stolen`), against
  `ARCHITECTURE.md:175` "only one thread wins the CAS and gets to write the
  entry". When the first one's count is subtracted before it is added, the counter
  wraps and is set to 0 (`registry.rs:381`, which suspects a "double-decrement
  bug"), and from then on it is one too high (`skewed`). A URI read while it is
  copied is cut short, and `discover` returns it. Two processes that find no
  registry truncate it twice (`erased`), and whoever has it mapped meanwhile gets
  SIGBUS. `discover` can mix the fields of two owners of an entry.
- Further: with two publishers a stream that receives a later commit first never
  returns the earlier one (so `CommittedIsReceived` is checked for one publisher;
  the changelog calls it latest-value semantics); a block recycled into
  `last_freed` never finds an unclaimed one there, because every loan takes it
  first; a remote PodBus subscriber can lose its slot to the pruning of its
  predecessor (`pod_bus.rs:642` stores where the branch above it compares first),
  after which a bounded bus can overrun the publisher's own subscribers
  (`robbed`); past 2^32 pinned publishes a stream takes news for old
  (`subscription.rs:304`); and a wake-up can be lost (`CheckWaiters` before
  `Enlist`, or a pinned wake before the sentinel is cleared), which costs a sleep
  of at most 10 ms: `RecvReturns` fails as soon as sleeps have no limit.

### Fairness

`FairSpec` of PubSubRing: a commit that has begun continues (`commit_to_ring`
blocks nowhere but in its bounded spin), and a stream's user keeps polling and
dropping samples, without which the repository's promise of delivery means
nothing. No publisher is assumed to publish. `FairSpec` of PodBus: `publish` is a
loop in a running thread, and live subscribers keep calling `try_recv`. `FairSpec`
of Waiting: commits and receives under way run on; a receive that looks at its
deadline again and again finds it passed at last (strong fairness of `Deadline`,
since each sleep takes 10 ms at most); the heartbeat grows stale when no publisher
is left. Nobody is assumed to publish or to call `recv`. `FairSpec` of Channel: a
call that has begun runs on, a polling endpoint polls (`wait_for_peer` is a loop)
and a connected one keeps calling `try_recv`; nobody has to start, send, send
heartbeats or give up, and a fresh heartbeat may grow stale at any time. A process
in `crashed` has no enabled step, so fairness asks nothing of it.

## Proofs

The theorems hold for every value of the constants that satisfies the `ASSUME`s of
the modules: any number of processes, topics, slots, blocks and messages. The
assumptions are what the code's types give (sizes are positive, special values are
none of the ordinary ones) and finiteness of the sets that something counts. The
bounds on data (`MaxSeq`, `MaxTime` ...) stay in the specifications, as arbitrary
numbers. An invariant of the runs is seldom inductive; each proof module defines
the conjunction that is, shows that every action preserves it, in one step per
action and with a lemma for what an action leaves of the other processes' part, and
derives the theorems from it. TLC has checked each inductive invariant on a small
instance.

| Module | Theorem | Property |
|---|---|---|
| `PubSubRing_proofs` | `TypeCorrect`, `MutualExclusion` | `TypeOK`, `SlotMutex` |
| `PubSubRingBlocks_proofs` | `Refcounts`, `OnePlace`, `SamplesIntact`, `SkipsAreLapped` | `RefcountExact`, `OnePlacePerBlock`, `SampleIntegrity`, `SkipOnlyLapped` |
| `TreiberPool_proofs` | `TypeCorrect`, `ListIntact`, `Exclusive`, `PoolRefinement` | `TypeOK`, `FreeListIntact`, `ExclusiveAllocation`, `ImplementsPool` |
| `PinnedTopic_proofs` | `TypeCorrect`, `Exclusion`, `GuardsIntact`, `GuardsStable` | `TypeOK`, `PinnedExclusion`, `GuardIntegrity`, `GuardStable` |
| `PodBus_proofs` | `TypeCorrect`, `Lossless`, `SlotKept`, `BusRefinement` | `TypeOK`, `LosslessLocal`, `LocalSlotKept`, `ImplementsBroadcast` |
| `Waiting_proofs` | `TypeCorrect`, `Counting` | `TypeOK`, `SleepersCounted` |
| `Channel_proofs` | `TypeCorrect`, `NamesHeld`, `Readiness` | `TypeOK`, `NameHeld`, `AttachedReady` |
| `Directory_proofs` | `TypeCorrect`, `Handles`, `Once`, `Counts`, `FindsAll`, `Discovered`, `Delisted` | `TypeOK`, `HandleResolves`, `RegisterOnce`, `CountAgrees`, `DiscoverFindsAll`, `DiscoveredRegistered`, `DropDelists` |

- **PubSubRing.** `TypeOK` alone is not inductive: a step that uses a local needs
  to know what it holds at that program counter (`LocalsOK`). `MutualExclusion`
  assumes `OwnerAlone` and `~ForceOnLive` and follows from the mark: `SlotMarked`
  says that the slot of a live publisher inside it reads `SEQ_WRITING`, so a CAS by
  another cannot succeed, and `HandleHeld` that a publisher commits to a topic it
  has a handle of, so the owner's plain store meets nobody. Both assumptions are
  needed: `ring_force_live` shows what a forced claim on a live holder does, and an
  owner that shares its region breaks `SlotMutex` as well.
- **The ring's blocks.** Under the same two assumptions, one invariant, `RingInv`,
  carries all four theorems, and none of its parts is inductive without the others.
  `BalanceInv` counts: the places of a block sum up to one, and its refcount is the
  sum of the references to it; a step of one process changes a sum by what that
  process has before and after (`PubAccount`, `StreamAccount`). `SeqInv` is the life
  of a seq: one publisher commits it, and once a slot has been closed with it no slot
  ever is again, so that a receive which passes check 2 has looked at an unchanged
  slot since check 1. `ContentInv` says that a closed slot names a block with the
  payload and length of its seq. They meet in `PrivateBlock`: a publisher writes only
  to a block that is its own, hence not referenced, hence no sample's. In return
  `SampleIntegrity` keeps two samples of a stream from being one block, which bounds
  the references a stream can have. `RingAssumption` asks that the refcount exceeds
  the ring slots, publishers and twice the streams together, so that acquiring
  never wraps it; it is 2^32 in the code. For `SkipsAreLapped`, `SoloSlots` says that
  the single publisher of a topic commits the newest seq and that every other one of
  the last lap is in its slot, and `LappedBefore` that the seqs a scan has passed are
  older. Each exit of `try_read_slot_raw` is shown to have missed the message: a slot
  that held it would have a block with a positive count.
- **TreiberPool.** `PoolInv` ties head and links to the history variable `stack`
  and says what a loaded head is worth (`CopyOK`): its generation is `lag` changes
  behind. `CopyFresh` is the ABA argument: a copy that equals the head has lag 0,
  as fewer than `GenMod` changes fit in one operation. So a successful CAS pops or
  pushes the list it has read, which gives the refinement too.
- **PinnedTopic.** `CounterOK` says that the readers word is the sentinel beside
  exactly one writer, or the number of registered streams and guards. `Undisturbed`,
  under the proviso `mishaps = {}`, says that every guard is about the block and
  the sequence that are current. No assumption on the width of the sequence.
- **PodBus.** `RingOK` says which value each ring slot holds, `ReadOK` that the
  stamp a subscriber has read is that of its value or of one whole rings later,
  `SlotOK` that a living owner has its slot to itself, and `LocalOK` that the cached
  cursor is a lower bound of a local subscriber's, the scan included; the last two
  as long as nobody is `robbed`. The proviso is a result of the proof: without it
  `LosslessLocal` and the refinement are false with three subscribers (see PodBus
  above), which a run with two does not show.
- **Waiting.** `SleepersCounted` is an inequality; inductive is that `TE_WAITERS`
  is the number of streams between `Enlist` and `Delist`.
- **Channel.** `LockOK` is the exclusion by the lock file while nobody has unlinked
  it (`exposed`), `PathOK` that who has a file of a name finds that file there or
  none, `BeatOK`, `InitOK` and `MadeOK` how far files are initialised: a heartbeat
  implies header and free list, the lock keeps `open` out until the rings are there,
  or their creator died (`halfMade`).
- **Directory.** For the tables: what a call knows of its slot (`CallOK`), one
  owner per slot in INIT (`OwnSlot`), what a scan has passed (`SeenOK`); an ACTIVE
  slot never changes, so topics stay. For the registry: who claimed an entry has
  it alone until it has counted it (`SoleOK`), how far its fields are written, a
  half-copied string included (`StageOK`), an entry claimed once holds nothing or
  one registration whose topic exists (`WholeOK`, `ReadOK`, `FoundOK`), what a
  search has passed it has returned (`DueOK`), and the account of the count,
  modulo its width (`CountAgrees` itself, with the arithmetic in `CountUp` and
  `CountDown`). `DropDelists` needs `ListedOK`: an entry that is listed has a
  publisher of its process and region that is up and has not passed it in
  `unregister`.

Only model-checked: all liveness (`CommitCompletes`, `CommittedIsReceived`,
`RecvReturns`, `DeathReported`, `PublishCompletesLocal`, `PeersMeet`,
`SentIsReceived`), which needs fairness and `ENABLED` and is out of this prover's
reach. Every other property of the passing runs is a theorem.

## Plan

What could follow: the inductive lemmas that a proof of `CommitCompletes` and
`RecvReturns` would need (that the helpful step is always there), as invariants; and
the provisos `robbed` and `skewed`, which void a property as a whole, sharpened to the
slot or entry they are about, as `stolen` is.

## Not modelled

The C API, the C++ header and the Python bindings forward calls and keep no
protocol state. The Windows locks, file identity and mappings are left out, and so
are I/O errors other than a missing file: a failed system call in `create` is the
death of the process after that call, and a registry that cannot be opened is not
used. Layout and configuration are constants, except the packing of the pool head.
`type_size` is left out: registering an existing URI with another type is not
noticed by `register_typed` either. Weak memory is outside this method.
