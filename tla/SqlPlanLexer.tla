---------------------------- MODULE SqlPlanLexer ----------------------------
(***************************************************************************)
(* Where prepare() finds placeholders in a text: the loop of               *)
(* pdo_duckdb_sql_plan_create over the abstract characters of SqlScanner.  *)
(* pdo_duckdb_sql.c and duckdb_driver.c each have a lexer of their own;    *)
(* exec() and the transaction flag follow the other one.                   *)
(***************************************************************************)
EXTENDS SqlReference

IdentifierStart(c) == c \in Letters \cup High

\* Mutant: a dollar ends a name.
IdentifierContinue_Dollar(c) == IdentifierStart(c) \/ c \in Digits

IdentifierContinue(c) == IdentifierStart(c) \/ c \in Digits \cup {"$"}
ParameterChar(c) == c \in Letters \cup Digits

\* Mutant: a doubled quote ends the literal.
SkipString_Single(s, start, quote, escapes) ==
    LET Quote(q) == s[q] = quote
        Escaped(q) == escapes /\ s[q - 1] = "bs"
        close == FirstFrom(s, start + 1, LAMBDA q : Quote(q) /\ ~Escaped(q))
    IN IF close > Len(s) THEN close ELSE close + 1

\* Pairs that do not end a literal are stepped over as one.
SkipString(s, start, quote, escapes) ==
    LET Pair(q) == q < Len(s) /\ (\/ escapes /\ s[q] = "bs"
                                  \/ s[q] = quote /\ s[q + 1] = quote)
        skip[q \in start + 1 .. Len(s) + 1] ==
            CASE q > Len(s) -> q
              [] q <= Len(s) /\ Pair(q) -> skip[q + 2]
              [] q <= Len(s) /\ ~Pair(q) /\ s[q] = quote -> q + 1
              [] OTHER -> skip[q + 1]
    IN skip[start + 1]

\* After the comment at start; the two kinds share their loops with
\* skip_trivia, which repeats them.
SkipComment(s, start) ==
    LET Opens(q) == s[q] = "/" /\ At(s, q + 1) = "*"
        Closes(q) == s[q] = "*" /\ At(s, q + 1) = "/"
        skip[q \in start .. Len(s) + 1] ==
            [open \in Nat |->
                CASE open = 0 \/ q > Len(s) -> q
                  [] open > 0 /\ q <= Len(s) /\ Opens(q) -> skip[q + 2][open + 1]
                  [] open > 0 /\ q <= Len(s) /\ Closes(q) -> skip[q + 2][open - 1]
                  [] OTHER -> skip[q + 1][open]]
    IN IF s[start] = "-" THEN FirstFrom(s, start + 2, LAMBDA q : s[q] = "nl")
       ELSE skip[start + 2][1]

CommentAt(s, p) == <<At(s, p), At(s, p + 1)>> \in {<<"-", "-">>, <<"/", "*">>}

SkipTrivia(s, start) ==
    LET skip[p \in start .. Len(s) + 1] ==
            IF At(s, p) \in Spaces THEN skip[p + 1]
            ELSE IF CommentAt(s, p) THEN skip[SkipComment(s, p)] ELSE p
    IN skip[start]

\* After the dollar-quoted literal at start, or start if there is none.
SkipDollarString(s, start) ==
    LET named == IdentifierStart(At(s, start + 1))
        end == IF ~named THEN start + 1
               ELSE FirstFrom(s, start + 2, LAMBDA q :
                       ~(IdentifierStart(s[q]) \/ s[q] \in Digits))
        delimiter == SubSeq(s, start, end)
        Closes(q) == SubSeq(s, q, Min({q + end - start, Len(s)})) = delimiter
        close == FirstFrom(s, end + 1, Closes)
    IN IF At(s, end) # "$" THEN start
       ELSE IF close > Len(s) THEN close ELSE close + Len(delimiter)

\* The name or number of a native placeholder starts after a dollar that opens
\* no literal, or after trivia; a Unicode space right after it is of the name.
DollarName(s, dollar) == IF At(s, dollar + 1) \in High THEN dollar + 1
                         ELSE SkipTrivia(s, dollar + 1)

NameChar(c) == ParameterChar(c) \/ c \in High

SkipDollarName(s, start) ==
    LET name == DollarName(s, start)
    IN IF At(s, name) \in Digits
       THEN FirstFrom(s, name, LAMBDA q : s[q] \notin Digits)
       ELSE IF At(s, name) \in {"dq", "bq"} THEN SkipString(s, name, s[name], FALSE)
       ELSE FirstFrom(s, name, LAMBDA q : ~NameChar(s[q]))

NamedAt(s, p) ==
    /\ s[p] = ":" /\ ParameterChar(At(s, p + 1))
    /\ p = 1 \/ ~IdentifierContinue(At(s, p - 1))

\* After the token, or the comment or space, at p.
SkipToken(s, p) ==
    LET c == s[p]
        next == At(s, p + 1)
        Run == FirstFrom(s, p, LAMBDA q : s[q] # c)
    IN CASE c \in Spaces -> p + 1
         [] CommentAt(s, p) -> SkipComment(s, p)
         [] c = "E" /\ next = "'" -> SkipString(s, p + 1, "'", TRUE)
         [] c \in {"'", "dq", "bq"} -> SkipString(s, p, c, FALSE)
         [] c = "$" -> IF SkipDollarString(s, p) # p THEN SkipDollarString(s, p)
                       ELSE SkipDollarName(s, p)
         [] IdentifierStart(c) /\ c \notin Spaces /\ ~(c = "E" /\ next = "'") ->
                FirstFrom(s, p + 1, LAMBDA q : ~IdentifierContinue(s[q]))
         [] c \in {":", "?"} /\ next = c -> Run
         [] c = ":" /\ next # c /\ NamedAt(s, p) ->
                FirstFrom(s, p + 1, LAMBDA q : ~ParameterChar(s[q]))
         [] OTHER -> p + 1

\* Where PDO's placeholders start.
Placeholders(s) ==
    LET from[p \in 1 .. Len(s) + 1] ==
            IF p > Len(s) THEN {}
            ELSE (IF At(s, p + 1) # s[p] /\ (s[p] = "?" \/ NamedAt(s, p))
                  THEN {p} ELSE {}) \cup from[SkipToken(s, p)]
    IN from[1]

-----------------------------------------------------------------------------
\* The two lexers part at a placeholder whose name ends where the other one goes
\* on, in a word with a dollar or in an escape literal.  No grammar accepts :a$,
\* :E'...' or $E'...', and none accepts $ a$, which DuckDB reads as the name a$,
\* beside a placeholder of PDO's.
Ambiguous ==
    \E p \in TokenStarts(text) :
        LET name == IF text[p] = ":" THEN p + 1 ELSE DollarName(text, p)
            end == FirstFrom(text, name, LAMBDA q :
                      ~(ParameterChar(text[q]) \/ (text[p] = "$" /\ NameChar(text[q]))))
        IN /\ text[p] = "$" \/ NamedAt(text, p)
           /\ \/ /\ At(text, end) = "$" /\ end > name
                 /\ text[p] = ":" \/ name > p + 1
              \/ /\ At(text, end) = "'" /\ At(text, end - 1) = "E" /\ end > name
                 /\ \A q \in name .. end - 2 : text[p] = ":" /\ text[q] \in Digits

\* A question mark is a placeholder exactly where the transaction scanner
\* sees a token that is a single question mark, and no placeholder starts in
\* what that scanner takes for a literal or a comment, unless the scanner
\* splits one of this lexer's names
\* (pdo_duckdb_sql.c:273, duckdb_driver.c:804).
PlaceholdersAgree ==
    LET lone == {p \in TokenStarts(text) :
                    text[p] = "?" /\ "?" \notin {At(text, p - 1), At(text, p + 1)}}
    IN ~Ambiguous /\ ~Splits(text, High) =>
           /\ {p \in Placeholders(text) : text[p] = "?"} = lone
           /\ Placeholders(text) \subseteq TokenStarts(text)

\* Placeholders in what DuckDB reads as comments, literals and quoted names are
\* left untouched (README.md:320).
QuotedIsUntouched == Placeholders(text) \subseteq code

\* They are, and every single question mark that DuckDB reads as code is a
\* placeholder, unless a Unicode space follows a name, of which only this lexer
\* makes it a part (pdo_duckdb_sql.c:9, :291).
PlaceholdersAreCode ==
    ~Ambiguous /\ (\A p \in 1..Len(text) :
                      text[p] = "us" => ~IdentifierContinue(At(text, p - 1)))
        => /\ QuotedIsUntouched
           /\ \A p \in code :
                 text[p] = "?" /\ "?" \notin {At(text, p - 1), At(text, p + 1)}
                     => p \in Placeholders(text)

=============================================================================
