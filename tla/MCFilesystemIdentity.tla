------------------------ MODULE MCFilesystemIdentity ------------------------
EXTENDS FilesystemIdentity, TLC

Symmetry == Permutations(Owners) \cup Permutations(Paths) \cup Permutations(Files)

=============================================================================
