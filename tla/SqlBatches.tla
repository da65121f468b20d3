----------------------------- MODULE SqlBatches -----------------------------
(***************************************************************************)
(* The transaction scanner's effects of a batch against DuckDB's, on every *)
(* batch of up to MaxPieces phrases.                                       *)
(***************************************************************************)
EXTENDS SqlScanner, SqlGrammar

CONSTANTS
    Pieces,      \* the phrases a batch is made of, each a sequence of tokens
    MaxPieces

ASSUME PiecesAssumption == \A piece \in Pieces : piece \in Seq(STRING)

VARIABLES batch, pieces

batchVars == <<batch, pieces>>

InitBatch == batch = <<>> /\ pieces = 0

Extend(piece) ==
    /\ pieces < MaxPieces
    /\ batch' = batch \o piece
    /\ pieces' = pieces + 1

-----------------------------------------------------------------------------
EffectsOfStatements ==
    LET all == Statements(batch)
    IN Parses(batch) /\ (\A i \in 1..Len(all) : ~ExplainsParentheses(all[i])) =>
           Effects(batch) = [i \in 1..Len(all) |-> Effect(Command(all[i]))]

EntryPointsAgree ==
    FirstEffect(batch) = (IF Effects(batch) = <<>> THEN "none"
                          ELSE Effects(batch)[1])

\* On a batch DuckDB accepts, the scanner finds its statements and the effect
\* of each, except after an EXPLAIN of a query in parentheses, which it takes
\* for an option list (duckdb_driver.c:1028); and both entry points judge the
\* first statement alike, whatever the batch: exec() picks one of them by its
\* cheap test, prepare() always the other (duckdb_driver.c:1002 and :1174).
EffectsAgree == EffectsOfStatements /\ EntryPointsAgree

=============================================================================
