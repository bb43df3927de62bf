--------------------------- MODULE MCPinnedTopic ---------------------------
(* Small instances of PinnedTopic for TLC. *)
EXTENDS PinnedTopic, TLC

CONSTANTS p1, p2, s1, s2, b1, b2

Symmetry == Permutations(Blocks) \cup Permutations(Streams)
=============================================================================
