----------------------------- MODULE SqlScanner -----------------------------
(***************************************************************************)
(* The transaction scanner of duckdb_driver.c, which decides what exec()   *)
(* and prepare() do to PDO's transaction flag: where tokens end (over      *)
(* abstract characters) and which effect each statement of a batch has     *)
(* (over tokens).  A text is a sequence of characters, a batch a sequence  *)
(* of tokens; positions count from 1 and p + 1 follows p.                  *)
(*                                                                         *)
(* "a" is any ASCII letter but E, or the underscore; "hi" a character of   *)
(* bytes >= 0x80 and "us" one that is a Unicode space; "bq" a backtick,    *)
(* which DuckDB quotes identifiers with from series 2.0 on (in 1.5 it is   *)
(* like any other character).                                              *)
(***************************************************************************)
EXTENDS Naturals, Sequences, FiniteSets, FiniteSetsExt, SequencesExt

Letters == {"a", "E"}
Digits == {"1"}
Spaces == {"sp", "nl", "us"}
High == {"hi", "us"}

At(s, p) == IF p \in 1..Len(s) THEN s[p] ELSE "end"

\* The first position from p on that satisfies P, or the end of the text.
FirstFrom(s, p, P(_)) == Min({q \in p..Len(s) : P(q)} \cup {Len(s) + 1})

-----------------------------------------------------------------------------
(* Tokens of a text.                                                        *)

WordStart(c) == c \in Letters
WordContinue(c) == c \in Letters \cup Digits \cup {"$"}

\* The characters of a dollar quote's tag, the first one or a later one.
TagChar(c, first) == c \in Letters \cup High \/ (~first /\ c \in Digits)

\* Mutant: a backslash escapes in every literal.
AfterQuoted_Escapes(s, open, quote, escapes) ==
    LET after[p \in open + 1 .. Len(s) + 1] ==
            IF p > Len(s) THEN p
            ELSE IF At(s, p) = "bs" /\ p < Len(s) THEN after[p + 2]
            ELSE IF s[p] # quote THEN after[p + 1]
            ELSE IF At(s, p + 1) = quote THEN after[p + 2]
            ELSE p + 1
    IN after[open + 1]

\* The position after the literal that opens at `open`; a doubled quote does
\* not close it, an escaped one only if it is an E'...' literal.
AfterQuoted(s, open, quote, escapes) ==
    LET after[p \in open + 1 .. Len(s) + 1] ==
            IF p > Len(s) THEN p
            ELSE IF escapes /\ At(s, p) = "bs" /\ p < Len(s) THEN after[p + 2]
            ELSE IF s[p] # quote THEN after[p + 1]
            ELSE IF At(s, p + 1) = quote THEN after[p + 2]
            ELSE p + 1
    IN after[open + 1]

\* After the dollar-quoted literal at p, or p if there is none.
AfterDollarQuote(s, p) ==
    LET tagEnd == FirstFrom(s, p + 1, LAMBDA q : ~TagChar(s[q], q = p + 1))
        size == tagEnd - p + 1
        Closes(q) == q + size - 1 <= Len(s)
                         /\ SubSeq(s, q, q + size - 1) = SubSeq(s, p, tagEnd)
        close == FirstFrom(s, tagEnd + 1, Closes)
    IN IF At(s, tagEnd) # "$" THEN p
       ELSE IF close > Len(s) THEN close ELSE close + size

AfterLineComment(s, p) == FirstFrom(s, p + 2, LAMBDA q : s[q] = "nl")

AfterBlockComment(s, p) ==
    LET after[q \in p .. Len(s) + 1] ==
            [depth \in Nat |->
                IF depth = 0 \/ q > Len(s) THEN q
                ELSE IF s[q] = "/" /\ At(s, q + 1) = "*"
                     THEN after[q + 2][depth + 1]
                ELSE IF s[q] = "*" /\ At(s, q + 1) = "/"
                     THEN after[q + 2][depth - 1]
                ELSE after[q + 1][depth]]
    IN after[p + 2][1]

AfterTrivia(s, start) ==
    LET after[p \in start .. Len(s) + 1] ==
            IF At(s, p) \in Spaces THEN after[p + 1]
            ELSE IF At(s, p) = "-" /\ At(s, p + 1) = "-"
                 THEN after[AfterLineComment(s, p)]
            ELSE IF At(s, p) = "/" /\ At(s, p + 1) = "*"
                 THEN after[AfterBlockComment(s, p)]
            ELSE p
    IN after[start]

\* The position after the token at p, which is not trivia.
AfterToken(s, p) ==
    IF s[p] = "E" /\ At(s, p + 1) = "'" THEN AfterQuoted(s, p + 1, "'", TRUE)
    ELSE IF s[p] = "'" THEN AfterQuoted(s, p, "'", FALSE)
    ELSE IF s[p] = "dq" THEN AfterQuoted(s, p, "dq", FALSE)
    ELSE IF s[p] = "$" /\ AfterDollarQuote(s, p) # p
         THEN AfterDollarQuote(s, p)
    ELSE IF WordStart(s[p])
         THEN FirstFrom(s, p + 1, LAMBDA q : ~WordContinue(s[q]))
    ELSE p + 1

\* Where the tokens of s start.
TokenStarts(s) ==
    LET from[p \in 1 .. Len(s) + 1] ==
            LET q == AfterTrivia(s, p)
            IN IF q > Len(s) THEN {} ELSE {q} \cup from[AfterToken(s, q)]
    IN from[1]

\* The semicolons that can end a statement.
Separators(s) == {p \in TokenStarts(s) : s[p] = ";"}

\* Mutant: only what follows the last semicolon counts.
MayHaveMultiple_Last(s) ==
    \E p \in 1..Len(s) :
        /\ s[p] = ";" /\ \A q \in p + 1 .. Len(s) : s[q] # ";"
        /\ \E q \in p + 1 .. Len(s) : s[q] \notin Spaces

\* The cheap test exec() makes first: anything but space after a semicolon.
MayHaveMultiple(s) ==
    \E p \in 1..Len(s) :
        /\ s[p] = ";"
        /\ \E q \in p + 1 .. Len(s) : s[q] \notin Spaces \cup {";"}

-----------------------------------------------------------------------------
(* Effects of a batch of tokens.  "ANALYZE" and "qANALYZE" are the bare and *)
(* the quoted word, "SELECT" starts a query, "word" is any other word.      *)

Effect(token) == CASE token = "BEGIN" -> "open"
                   [] token \in {"COMMIT", "ROLLBACK"} -> "close"
                   [] OTHER -> "none"

\* After EXPLAIN at p - 1: where the wrapped statement starts, and whether
\* ANALYZE is said, or is the first word of an option of a list.  The list is
\* read at a depth of parentheses and from a word of an option, counting from 1.
ScanExplain(b, p) ==
    LET q == IF At(b, p) = "ANALYZE" THEN p + 1 ELSE p
        list[i \in 1..Len(b) + 1] ==
            [depth \in Nat |-> [word \in Nat |->
                LET rest == list[i + 1][1][2]
                IN IF depth = 0 \/ At(b, i) \in {"end", ";"}
                   THEN [after |-> i, first |-> {}]
                   ELSE IF b[i] = "(" THEN list[i + 1][depth + 1][word]
                   ELSE IF b[i] = ")" THEN list[i + 1][depth - 1][word]
                   ELSE IF depth > 1 THEN list[i + 1][depth][word]
                   ELSE IF b[i] = "," THEN list[i + 1][1][1]
                   ELSE IF word # 1 THEN rest
                   ELSE [after |-> rest.after, first |-> {b[i]} \cup rest.first]]]
        options == list[q + 1][1][1]
    IN IF At(b, q) # "(" THEN [wrapped |-> q, analyze |-> q # p]
       ELSE [wrapped |-> options.after,
             analyze |-> q # p \/ \E w \in options.first : w \in {"ANALYZE", "qANALYZE"}]

\* The position after the statement's semicolon at depth 0.
AfterStatement(b, p, d) ==
    LET after[i \in 1..Len(b) + 1] ==
            [depth \in Nat |->
                IF i > Len(b) THEN i
                ELSE IF b[i] = "(" THEN after[i + 1][depth + 1]
                ELSE IF b[i] = ")"
                     THEN after[i + 1][IF depth > 0 THEN depth - 1 ELSE 0]
                ELSE IF b[i] = ";" /\ depth = 0 THEN i + 1
                ELSE after[i + 1][depth]]
    IN after[p][d]

ParenDepth(token) == IF token = "(" THEN 1 ELSE 0

\* Mutant: EXPLAIN ANALYZE is taken for a query.
StatementEffect_Explain(b, p) == Effect(b[p])

StatementEffect(b, p) ==
    IF b[p] # "EXPLAIN" THEN Effect(b[p])
    ELSE LET e == ScanExplain(b, p + 1)
         IN IF e.analyze THEN Effect(At(b, e.wrapped)) ELSE "none"

\* first_transaction_effect: of the first statement, after empty ones.
FirstEffect(b) ==
    LET p == FirstFrom(b, 1, LAMBDA q : b[q] # ";")
    IN IF p > Len(b) THEN "none" ELSE StatementEffect(b, p)

\* transaction_flags: the effects of the statements it counts.
Effects(b) ==
    LET from[p \in 1 .. Len(b) + 1] ==
            IF p > Len(b) THEN <<>>
            ELSE IF b[p] = ";" THEN from[p + 1]
            ELSE LET body == IF b[p] = "EXPLAIN"
                             THEN ScanExplain(b, p + 1).wrapped ELSE p
                     next == AfterStatement(b, Min({body + 1, Len(b) + 1}),
                                            ParenDepth(At(b, body)))
                 IN <<StatementEffect(b, p)>> \o from[next]
    IN from[1]

=============================================================================
