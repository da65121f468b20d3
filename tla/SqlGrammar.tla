----------------------------- MODULE SqlGrammar -----------------------------
(***************************************************************************)
(* DuckDB's own reading of a batch of tokens, as far as the driver's       *)
(* transaction scanner depends on it: the statements, which of them parse, *)
(* and what each does to the transaction.                                  *)
(***************************************************************************)
EXTENDS Naturals, Sequences, FiniteSets, SequencesExt

Control == {"BEGIN", "COMMIT", "ROLLBACK"}

Opened(s) == Cardinality({i \in 1..Len(s) : s[i] = "("})
Closed(s) == Cardinality({i \in 1..Len(s) : s[i] = ")"})

Balanced(s) ==
    /\ Opened(s) = Closed(s)
    /\ \A i \in 1..Len(s) :
          Opened(SubSeq(s, 1, i)) >= Closed(SubSeq(s, 1, i))

\* A query, or one in parentheses.
IsQuery(s) ==
    /\ s # <<>> /\ Balanced(s)
    /\ \/ s[1] = "SELECT"
       \/ /\ s[1] = "(" /\ s[2] \in {"(", "SELECT"}
          /\ \A i \in 1 .. Len(s) - 1 :
                Opened(SubSeq(s, 1, i)) > Closed(SubSeq(s, 1, i))

IsPlain(s) == IsQuery(s) \/ (Len(s) = 1 /\ s[1] \in Control)

IsOption(o) ==
    /\ Len(o) \in {1, 2}
    /\ \A i \in 1..Len(o) : o[i] \in {"word", "ANALYZE", "qANALYZE"}

\* The parts of s between tokens t.
Parts(s, t) ==
    LET cuts == {0, Len(s) + 1} \cup {i \in 1..Len(s) : s[i] = t}
    IN {SubSeq(s, between[1] + 1, between[2] - 1) : between \in
           {c \in cuts \X cuts : /\ c[1] < c[2]
                                 /\ \A k \in cuts : k <= c[1] \/ k >= c[2]}}

\* EXPLAIN with a parenthesised option list: where the list closes.
OptionsEnd(s) ==
    CHOOSE c \in 3..Len(s) \cup {0} :
        \/ c # 0 /\ s[c] = ")" /\ \A o \in Parts(SubSeq(s, 3, c - 1), ",") : IsOption(o)
        \/ c = 0 /\ \A d \in 3..Len(s) : s[d] = ")" =>
               \E o \in Parts(SubSeq(s, 3, d - 1), ",") : ~IsOption(o)

HasOptions(s) == Len(s) > 2 /\ s[2] = "(" /\ OptionsEnd(s) # 0

\* The statement an EXPLAIN wraps, and whether it is executed.
Wrapped(s) ==
    IF HasOptions(s) THEN SubSeq(s, OptionsEnd(s) + 1, Len(s))
    ELSE IF Len(s) > 1 /\ s[2] = "ANALYZE" THEN SubSeq(s, 3, Len(s))
    ELSE Tail(s)

Analyzes(s) ==
    IF HasOptions(s)
    THEN \E o \in Parts(SubSeq(s, 3, OptionsEnd(s) - 1), ",") :
            o[1] \in {"ANALYZE", "qANALYZE"}
    ELSE Len(s) > 1 /\ s[2] = "ANALYZE"

IsStatement(s) ==
    IF s # <<>> /\ s[1] = "EXPLAIN" THEN IsPlain(Wrapped(s)) ELSE IsPlain(s)

\* The nonempty statements of a batch, in order.
Statements(b) ==
    LET from[p \in 1 .. Len(b) + 1] ==
            LET ends == {q \in p..Len(b) : b[q] = ";"}
                end == CHOOSE q \in ends \cup {Len(b) + 1} :
                           \A r \in ends : q <= r
            IN IF p > Len(b) THEN <<>>
               ELSE IF end = p THEN from[p + 1]
               ELSE <<SubSeq(b, p, end - 1)>>
                        \o from[IF end > Len(b) THEN end ELSE end + 1]
    IN from[1]

Parses(b) == \A i \in 1..Len(Statements(b)) : IsStatement(Statements(b)[i])

\* The transaction command a statement executes, or "other".
Command(s) ==
    LET run == IF s[1] # "EXPLAIN" THEN s
               ELSE IF Analyzes(s) THEN Wrapped(s) ELSE <<"SELECT">>
    IN IF run[1] \in Control THEN run[1] ELSE "other"

\* EXPLAIN of a query in parentheses, which no option list precedes.
ExplainsParentheses(s) ==
    s[1] = "EXPLAIN" /\ ~HasOptions(s) /\ Wrapped(s)[1] = "("

=============================================================================
