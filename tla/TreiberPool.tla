----------------------------- MODULE TreiberPool -----------------------------
(***************************************************************************)
(* The lock-free block pool of a region: pool_head packs a generation      *)
(* counter and the index of the first free block, and the first word of a  *)
(* free block is the index of the next one.  alloc_block and free_block    *)
(* are retry loops around one compare-exchange of pool_head; they are      *)
(* split here at every access to shared memory, so that the operations of  *)
(* several handles interleave as they do between processes.                *)
(*                                                                         *)
(* The generation counter has finite width and wraps.  What keeps a stale  *)
(* head from comparing equal (ABA) is that no operation stays between its  *)
(* load and its compare-exchange while the head changes GenMod or more     *)
(* times; `lag' counts the changes and the actions that change the head    *)
(* respect that bound.  `stack' is the list that head and next represent:  *)
(* a history variable, read by no guard.                                   *)
(***************************************************************************)
EXTENDS Naturals, Sequences, Functions

CONSTANTS BlockCount, \* block_count
          Clients,    \* handles (publishers, streams) that allocate and free
          NoBlock,    \* NO_BLOCK
          GenMod      \* 2^32 in the code: the generation counts modulo GenMod

\* Publisher::create rejects block_count = 0.
ASSUME BlockCountAssumption == BlockCount \in Nat \ {0}
ASSUME NoBlockAssumption == NoBlock \notin Nat
ASSUME GenModAssumption == GenMod \in Nat \ {0}

VARIABLES head,      \* pool_head: [gen, idx]
          next,      \* the free-list link in the first word of each block
          held,      \* the blocks each client has been given
          pc,        \* where each client is in alloc_block or free_block
          old,       \* each client's local copy of pool_head
          blk,       \* the block a client is freeing
          link,      \* the next index a client has read (alloc_block)
          lag,       \* changes of pool_head since the client loaded it
          stack      \* history: the free blocks, first one first

vars == <<head, next, held, pc, old, blk, link, lag, stack>>

Blocks == 0 .. BlockCount - 1
Links == Blocks \cup {NoBlock}
Heads == [gen : 0 .. GenMod - 1, idx : Links]

TypeOK ==
  /\ head \in Heads
  /\ next \in [Blocks -> Links]
  /\ held \in [Clients -> SUBSET Blocks]
  /\ pc \in [Clients -> {"idle", "read", "alloc", "link", "free"}]
  /\ old \in [Clients -> Heads]
  /\ blk \in [Clients -> Links]
  /\ link \in [Clients -> Links]
  /\ lag \in [Clients -> 0 .. GenMod - 1]
  /\ stack \in Seq(Blocks)

(***************************************************************************)
(* init_free_list: every block is free, in index order, generation 0.      *)
(***************************************************************************)
Init ==
  /\ head = [gen |-> 0, idx |-> 0]
  /\ next = [b \in Blocks |-> IF b + 1 < BlockCount THEN b + 1 ELSE NoBlock]
  /\ held = [c \in Clients |-> {}]
  /\ pc = [c \in Clients |-> "idle"]
  /\ old = [c \in Clients |-> [gen |-> 0, idx |-> NoBlock]]
  /\ blk = [c \in Clients |-> NoBlock]
  /\ link = [c \in Clients |-> NoBlock]
  /\ lag = [c \in Clients |-> 0]
  /\ stack = [i \in 1 .. BlockCount |-> i - 1]

\* Mutants of WrapInc: no ABA protection; no wrap-around.
WrapInc_Frozen(g) == g
WrapInc_Wider(g) == g + 1

\* gen.wrapping_add(1)
WrapInc(g) == IF g = GenMod - 1 THEN 0 ELSE g + 1

\* A client between its load of pool_head and its compare-exchange.
InFlight(c) == pc[c] \in {"read", "alloc", "link", "free"}

\* Client c takes a copy of pool_head.
LoadHead(c) ==
  /\ old' = [old EXCEPT ![c] = head]
  /\ lag' = [lag EXCEPT ![c] = 0]

\* A successful compare-exchange by c: pool_head still is what c loaded, and
\* becomes [gen + 1, i].  Its guard on lag is the width assumption above.
SwingHead(c, i) ==
  /\ head = old[c]
  /\ \A d \in Clients \ {c} : InFlight(d) => lag[d] + 1 < GenMod
  /\ head' = [gen |-> WrapInc(old[c].gen), idx |-> i]
  /\ lag' = [d \in Clients |-> IF d # c /\ InFlight(d) THEN lag[d] + 1 ELSE 0]

\* The client is back with its caller; its locals are gone.
Return(c) ==
  /\ pc' = [pc EXCEPT ![c] = "idle"]
  /\ old' = [old EXCEPT ![c] = [gen |-> 0, idx |-> NoBlock]]
  /\ blk' = [blk EXCEPT ![c] = NoBlock]
  /\ link' = [link EXCEPT ![c] = NoBlock]

(***************************************************************************)
(* alloc_block                                                             *)
(***************************************************************************)

\* The first load.  An empty list returns Ok(None) at once and changes nothing.
AllocLoad(c) ==
  /\ pc[c] = "idle"
  /\ head.idx # NoBlock
  /\ LoadHead(c)
  /\ pc' = [pc EXCEPT ![c] = "read"]
  /\ UNCHANGED <<head, next, held, blk, link, stack>>

\* Read the link of the block that was first.  Another client may have taken
\* that block, and even freed it again, since the load.
AllocReadNext(c) ==
  /\ pc[c] = "read"
  /\ link' = [link EXCEPT ![c] = next[old[c].idx]]
  /\ pc' = [pc EXCEPT ![c] = "alloc"]
  /\ UNCHANGED <<head, next, held, old, blk, lag, stack>>

\* The compare-exchange succeeds: the caller owns the block.
AllocCas(c) ==
  /\ pc[c] = "alloc"
  /\ SwingHead(c, link[c])
  /\ held' = [held EXCEPT ![c] = @ \cup {old[c].idx}]
  /\ stack' = Tail(stack)
  /\ Return(c)
  /\ UNCHANGED next

\* The compare-exchange fails, because the head changed or spuriously
\* (compare_exchange_weak): go on with the head it returned, which may say
\* that the list is empty now.
AllocRetry(c) ==
  /\ pc[c] = "alloc"
  /\ \/ /\ head.idx # NoBlock
        /\ LoadHead(c)
        /\ pc' = [pc EXCEPT ![c] = "read"]
        /\ link' = [link EXCEPT ![c] = NoBlock]
        /\ UNCHANGED blk
     \/ /\ head.idx = NoBlock
        /\ lag' = [lag EXCEPT ![c] = 0]
        /\ Return(c)
  /\ UNCHANGED <<head, next, held, stack>>

(***************************************************************************)
(* free_block                                                              *)
(***************************************************************************)

\* The caller gives up a block it holds; the first load.
FreeLoad(c, b) ==
  /\ pc[c] = "idle"
  /\ b \in held[c]
  /\ held' = [held EXCEPT ![c] = @ \ {b}]
  /\ blk' = [blk EXCEPT ![c] = b]
  /\ LoadHead(c)
  /\ pc' = [pc EXCEPT ![c] = "link"]
  /\ UNCHANGED <<head, next, link, stack>>

\* Write the loaded head's index into the block's link.
FreeLink(c) ==
  /\ pc[c] = "link"
  /\ next' = [next EXCEPT ![blk[c]] = old[c].idx]
  /\ pc' = [pc EXCEPT ![c] = "free"]
  /\ UNCHANGED <<head, held, old, blk, link, lag, stack>>

\* The compare-exchange succeeds: the block is the first of the list.
FreeCas(c) ==
  /\ pc[c] = "free"
  /\ SwingHead(c, blk[c])
  /\ stack' = <<blk[c]>> \o stack
  /\ Return(c)
  /\ UNCHANGED <<next, held>>

\* The compare-exchange fails: link the block to the head it returned.
FreeRetry(c) ==
  /\ pc[c] = "free"
  /\ LoadHead(c)
  /\ pc' = [pc EXCEPT ![c] = "link"]
  /\ UNCHANGED <<head, next, held, blk, link, stack>>

Next ==
  \E c \in Clients :
    \/ AllocLoad(c) \/ AllocReadNext(c) \/ AllocCas(c) \/ AllocRetry(c)
    \/ \E b \in Blocks : FreeLoad(c, b)
    \/ FreeLink(c) \/ FreeCas(c) \/ FreeRetry(c)

Spec == Init /\ [][Next]_vars

(***************************************************************************)
(* Properties                                                              *)
(***************************************************************************)

\* The list in shared memory is intact whatever operations are in flight: it
\* starts at pool_head, each link names the following block, the last link
\* is NO_BLOCK, and no block is on it twice.
FreeListIntact ==
  /\ head.idx = IF stack = <<>> THEN NoBlock ELSE stack[1]
  /\ \A i \in 1 .. Len(stack) :
       next[stack[i]] = IF i = Len(stack) THEN NoBlock ELSE stack[i + 1]
  /\ IsInjective(stack)

\* The blocks that the list in shared memory leads to: the least set that has
\* the first block and the successor of each of its members.
Chain(S) ==
  /\ head.idx \in S \cup {NoBlock}
  /\ \A b \in S : next[b] \in S \cup {NoBlock}
OnList == {b \in Blocks : \A S \in SUBSET Blocks : Chain(S) => b \in S}

\* No block is given to two clients, and none is lost: every block is on the
\* free list, or with exactly one client (handed out, or being freed).
Returning(c) == IF blk[c] = NoBlock THEN {} ELSE {blk[c]}
ExclusiveAllocation ==
  /\ \A c \in Clients : held[c] \cap Returning(c) = {}
  /\ \A c, d \in Clients :
       c # d => (held[c] \cup Returning(c)) \cap (held[d] \cup Returning(d)) = {}
  /\ OnList = Blocks \ UNION {held[c] \cup Returning(c) : c \in Clients}

\* The list in shared memory implements the abstract pool: every step takes
\* one free block, gives one back, or leaves the set of free blocks alone.
Pool == INSTANCE BlockPool WITH Blocks <- Blocks, free <- OnList
ImplementsPool == Pool!Spec

=============================================================================
