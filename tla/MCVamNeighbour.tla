--------------------------- MODULE MCVamNeighbour ---------------------------
(* VamNeighbour on small instances for TLC. *)
EXTENDS VamNeighbour, TLC

(* Nodes, pids and walkers are interchangeable. *)
Sym == Permutations(Nodes) \cup Permutations(Pids) \cup Permutations(Readers)
=============================================================================
