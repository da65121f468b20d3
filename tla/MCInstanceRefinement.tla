------------------------ MODULE MCInstanceRefinement ------------------------
(* A small instance of InstanceRefinement for TLC. *)
EXTENDS InstanceRefinement, TLC

Symmetry == Permutations(Threads) \cup Permutations(Instances)
                \cup Permutations(Files) \cup Permutations(Handles)
                \cup Permutations(Dbs)

=============================================================================
