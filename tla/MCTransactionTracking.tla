----------------------- MODULE MCTransactionTracking -----------------------
(* Every batch of up to three of these statements, all of which DuckDB      *)
(* parses, with one the scanner miscounts; and one it misreads as a single  *)
(* statement: EXPLAIN of a query in parentheses.                            *)
EXTENDS TransactionTracking

Pieces == {<<"BEGIN">>, <<"COMMIT">>, <<"SELECT">>,
           <<"EXPLAIN", "COMMIT">>, <<"EXPLAIN", "ANALYZE", "BEGIN">>,
           <<"EXPLAIN", "(", "word", ",", "qANALYZE", ")", "ROLLBACK">>}

Joined(a, b) == a \o <<";">> \o b

Miscounted == <<"EXPLAIN", "(", "SELECT", ")", ";", "SELECT", ";", "BEGIN">>

Plain == Pieces \cup {Joined(a, b) : a, b \in Pieces}
            \cup {Joined(a, Joined(b, c)) : a, b, c \in Pieces}
            \cup {<<";">> \o a : a \in Pieces} \cup {Miscounted}

\* The scanner reads all of these as DuckDB does.
ASSUME PlainUnderstood == \A b \in Plain : Understood(b)

Parenthesised == {<<"EXPLAIN", "(", "SELECT", ")", ";", "BEGIN">>}

=============================================================================
