---------------------------- MODULE MCTreiberPool ----------------------------
(* TreiberPool for TLC. *)
EXTENDS TreiberPool, TLC

Symmetry == Permutations(Clients)

=============================================================================
