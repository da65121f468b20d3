------------------------ MODULE MCInstanceRegistry ------------------------
(* A small instance of InstanceRaces for TLC. *)
EXTENDS InstanceRaces, TLC

Symmetry == Permutations(Threads) \cup Permutations(Instances)
                \cup Permutations(Dbs) \cup Permutations(Handles)
                \cup Permutations(Files) \cup Permutations(Paths)

=============================================================================
