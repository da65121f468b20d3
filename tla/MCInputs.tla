------------------------------ MODULE MCInputs ------------------------------
(* What the driver reads of its callers and of DuckDB, on every input up to *)
(* a size: a text for the two lexers, a batch for the transaction scanner,  *)
(* the placeholders of a statement, a scalar for a column of an appender,   *)
(* or a number of a result to be written as text.  A behaviour grows one    *)
(* input, piece by piece.                                                   *)
EXTENDS SqlPlanLexer, SqlBatches, SqlPlan, AppenderChecks, NumberRendering

Use(style, name, spelling) == [style |-> style, name |-> name, spelling |-> spelling]

\* Placeholders in every style, some in two spellings.
MCPlacements ==
    {Use("positional", 0, "plain"), Use("named", "a", "plain"),
     Use("named", "a", "other"), Use("dollar", "x", "plain"),
     Use("dollar", "x", "other"), Use("dollar", "y", "plain"),
     Use("number", 1, "other")}
        \cup {Use("number", n, "plain") : n \in 0..3}

\* Literals, comments, dollar quotes, dollars that begin placeholders, names
\* that end before a dollar or a literal, bytes >= 0x80 and backticks.
MCAlphabets ==
    {<<{"'", "dq", "bs", "E", "a", ";", "?"}, 6>>,
     <<{"/", "*", "-", ";", "?"}, 7>>,
     <<{"-", "nl", "us", "a", ";", "?"}, 6>>,
     <<{"$", "a", "1", ";", "'"}, 7>>,
     <<{"$", "a", "1", ":", "?", "dq"}, 6>>,
     <<{"$", "a", "E", "sp", ":", "?", "'"}, 6>>,
     <<{"$", "a", "E", "hi", "us", "?", "'"}, 6>>,
     <<{"$", "1", "hi", "us", "?", ":"}, 6>>,
     <<{"$", "E", "hi", "us", ";", "'"}, 6>>,
     <<{"$", "a", "bq", ";", "?", "'"}, 6>>}

\* Tokens, and phrases that would take several of them: options of an EXPLAIN,
\* a query in parentheses.
MCPieces ==
    {<<t>> : t \in {"BEGIN", "COMMIT", "EXPLAIN", "ANALYZE", "SELECT", "word",
                    "(", ")", ",", ";"}}
        \cup {<<"EXPLAIN", "(", "ANALYZE", ")">>,
              <<"EXPLAIN", "(", "word", "word", ",", "qANALYZE", ")">>,
              <<"EXPLAIN", "(", "word", "ANALYZE", ")">>,
              <<"(", "SELECT", "(", "word", ")", ",", "BEGIN", ")">>,
              <<"EXPLAIN", "ANALYZE", "ROLLBACK", ";">>}

Column(type, width, scale) ==
    [type : {type}, width : {width}, scale : {scale}, probed : BOOLEAN]

\* Integers of 4, 11 and 13 bits, DECIMALs whose limits a long and a double can
\* pass, and a type of each other class; a probe may fail to be prepared.
MCColumns ==
    UNION ({Column("int", 4, 0), Column("uint", 4, 0), Column("float", 0, 0),
            Column("any", 0, 0), Column("text", 0, 0), Column("blob", 0, 0),
            Column("nested", 0, 0)}
              \cup {Column(type, width, 0) : type \in {"bigint", "ubigint"},
                                            width \in {11, 13}}
              \cup {Column("decimal", d[1], d[2]) :
                       d \in {<<1, 0>>, <<1, 1>>, <<2, 1>>, <<2, 2>>, <<3, 0>>, <<3, 2>>}})

Init == InitText /\ InitBatch /\ InitPlan /\ InitCell /\ InitNumber

\* The grammar that reads a statement only matters for its placeholders.
Next ==
    \/ /\ batch = <<>> /\ uses = <<>> /\ cell = <<>> /\ given = <<>> /\ ~legacy
       /\ \E c \in alphabet[1] : Read(c)
       /\ UNCHANGED <<batchVars, planVars, cell, given>>
    \/ /\ text = <<>> /\ uses = <<>> /\ cell = <<>> /\ given = <<>> /\ ~legacy
       /\ \E piece \in Pieces : Extend(piece)
       /\ UNCHANGED <<textVars, planVars, cell, given>>
    \/ /\ text = <<>> /\ batch = <<>> /\ cell = <<>> /\ given = <<>>
       /\ \E use \in Placements : AddToText(use)
       /\ UNCHANGED <<textVars, batchVars, cell, given>>
    \/ /\ text = <<>> /\ batch = <<>> /\ uses = <<>> /\ cell = <<>> /\ given = <<>>
       /\ ~legacy /\ alphabet = CHOOSE a \in Alphabets : TRUE
       /\ \E column \in Columns, value \in Values : Offer(column, value)
       /\ UNCHANGED <<textVars, batchVars, planVars, given>>
    \/ /\ text = <<>> /\ batch = <<>> /\ uses = <<>> /\ cell = <<>> /\ given = <<>>
       /\ ~legacy /\ alphabet = CHOOSE a \in Alphabets : TRUE
       /\ \E g \in Numbers : OfferNumber(g)
       /\ UNCHANGED <<textVars, batchVars, planVars, cell>>

Spec == Init /\ [][Next]_<<textVars, batchVars, planVars, cell, given>>

=============================================================================
