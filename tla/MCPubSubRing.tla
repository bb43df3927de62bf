---------------------------- MODULE MCPubSubRing -----------------------------
(* PubSubRing for TLC: who holds a handle of which topic. *)
EXTENDS PubSubRing, TLC

\* Every publisher publishes on every topic.
AllHandles == [p \in Pubs |-> Topics]

Symmetry == Permutations(Blocks)

=============================================================================
