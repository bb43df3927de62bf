------------------------------ MODULE BlockPool ------------------------------
(***************************************************************************)
(* What the block pool of a region promises its users: a set of free       *)
(* blocks from which one block at a time is taken and to which one block   *)
(* at a time is given back.  src/src/protocol/region.rs implements it as a *)
(* Treiber stack (module TreiberPool); the modules that only use the pool  *)
(* (PubSubRing, PinnedTopic) are written against this abstraction.         *)
(***************************************************************************)
CONSTANT Blocks     \* the block indices 0 .. block_count-1

VARIABLE free       \* the blocks on the free list

Init == free = Blocks

\* alloc_block() returns Ok(Some(b)).  Which free block is returned (the one
\* pushed last) is left open: no user of the pool relies on it.
Take(b) == b \in free /\ free' = free \ {b}

\* alloc_block() returns Ok(None).
Exhausted == free = {}

\* free_block(b).
Give(b) == free' = free \cup {b}

Next == \E b \in Blocks : Take(b) \/ (b \notin free /\ Give(b))

Spec == Init /\ [][Next]_free

=============================================================================
