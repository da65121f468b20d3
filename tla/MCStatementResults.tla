------------------------- MODULE MCStatementResults -------------------------
(* Results without chunks, of a chunk of two rows, and with a chunk without *)
(* rows between two others.                                                 *)
EXTENDS StatementResults, TLC

Sizes == {<<>>, <<2>>, <<1, 0, 1>>}

Symmetry == Permutations(Statements) \cup Permutations(Addresses)

=============================================================================
