---------------------------- MODULE SqlReference ----------------------------
(***************************************************************************)
(* What DuckDB makes of a text or a batch, as the driver relies on it: a   *)
(* lexer that reads one character at a time, and the statements of a batch *)
(* with their effects.  The scanner is checked against it on every text    *)
(* and batch up to a length.                                               *)
(***************************************************************************)
EXTENDS SqlScanner

CONSTANT Alphabets   \* sets of characters, each with a length: <<chars, length>>

VARIABLES
    alphabet,    \* the characters of this text, and how many of them
    text,        \* what was read
    lexer,       \* where the lexer is
    code         \* positions after which it is outside words, literals and comments

textVars == <<alphabet, text, lexer, code>>

Modes == {"code", "word", "E", "dash", "slash", "line", "block", "block*",
          "block/", "'", "''", "e", "ebs", "e'", "dq", "dqdq", "bq", "bqbq", "$",
          "dollar"}

\* The lexer as it enters a mode, with the tag of a dollar quote, and how many
\* block comments are open or characters of the dollar quote were read.
Entered(mode) == [mode |-> mode, tag |-> IF mode = "$" THEN <<"$">> ELSE <<>>,
                  depth |-> IF mode = "block" THEN 1 ELSE 0]

\* Outside literals and comments.
CodeMode(c) == CASE c \in {"'", "dq", "bq", "$"} -> c
                 [] c = "-" -> "dash" [] c = "/" -> "slash"
                 [] c = "E" -> "E" [] c \in {"a", "hi"} -> "word"
                 [] OTHER -> "code"

\* A name takes bytes >= 0x80 too, but no Unicode space.
NameContinue(c) == WordContinue(c) \/ c = "hi"

\* The mode after c, except inside block comments and dollar quotes.
After(mode, c) ==
    CASE mode = "word" /\ NameContinue(c) -> "word"
      [] mode = "E" /\ NameContinue(c) -> "word"
      [] mode = "E" /\ c = "'" -> "e"
      [] mode = "dash" /\ c = "-" -> "line"
      [] mode = "slash" /\ c = "*" -> "block"
      [] mode = "line" /\ c # "nl" -> "line"
      [] mode = "'" -> IF c = "'" THEN "''" ELSE "'"
      [] mode = "''" /\ c = "'" -> "'"
      [] mode = "dq" -> IF c = "dq" THEN "dqdq" ELSE "dq"
      [] mode = "dqdq" /\ c = "dq" -> "dq"
      [] mode = "bq" -> IF c = "bq" THEN "bqbq" ELSE "bq"
      [] mode = "bqbq" /\ c = "bq" -> "bq"
      [] mode = "e" -> CASE c = "'" -> "e'" [] c = "bs" -> "ebs" [] OTHER -> "e"
      [] mode = "ebs" -> "e"
      [] mode = "e'" /\ c = "'" -> "e"
      [] OTHER -> CodeMode(c)

BlockModes == {"block", "block*", "block/"}

\* In block comments, depth of which are open.
Commented(mode, depth) == [mode |-> mode, tag |-> <<>>, depth |-> depth]

InBlock(mode, depth, c) ==
    CASE mode = "block*" /\ c = "/" ->
             IF depth = 1 THEN Entered("code") ELSE Commented("block", depth - 1)
      [] mode = "block/" /\ c = "*" -> Commented("block", depth + 1)
      [] OTHER -> Commented(CASE c = "*" -> "block*" [] c = "/" -> "block/"
                              [] OTHER -> "block", depth)

\* In a dollar quote: reading its tag, or depth characters after it.
Tagging(tag) == [mode |-> "$", tag |-> tag, depth |-> 0]
Quoting(tag, depth) == [mode |-> "dollar", tag |-> tag, depth |-> depth]

\* A dollar, then letters (and digits but not first), then a dollar open a
\* literal; anything else makes the first dollar an operator and the letters
\* after it a name, in which a Unicode space is a letter.
InTag(tag, c) == TagChar(c, Len(tag) = 1)

AfterTag(tag, c) ==
    CASE c = "$" -> Quoting(Append(tag, c), 0)
      [] InTag(tag, c) -> Tagging(Append(tag, c))
      [] tag = <<"$", "E">> /\ c = "'" -> Entered("e")
      [] OTHER -> Entered(CodeMode(c))

\* The delimiter ends at p, and starts after the one that opened.
TagEnds(s, p, tag, depth) ==
    /\ depth + 1 >= Len(tag)
    /\ \A k \in 1..Len(tag) : At(s, p - Len(tag) + k) = tag[k]

\* The lexer after the character at p of s.
Lexed(s, p, l) ==
    CASE l.mode \in BlockModes -> InBlock(l.mode, l.depth, s[p])
      [] l.mode = "$" -> AfterTag(l.tag, s[p])
      [] l.mode = "dollar" -> IF TagEnds(s, p, l.tag, l.depth) THEN Entered("code")
                              ELSE Quoting(l.tag, l.depth + 1)
      [] OTHER -> Entered(After(l.mode, s[p]))

InitText ==
    /\ alphabet \in Alphabets
    /\ text = <<>> /\ lexer = Entered("code") /\ code = {}

Read(c) ==
    /\ c \in alphabet[1] /\ Len(text) < alphabet[2]
    /\ UNCHANGED alphabet
    /\ text' = Append(text, c)
    /\ lexer' = Lexed(text', Len(text'), lexer)
    /\ code' = IF lexer'.mode = "code" THEN code \cup {Len(text')} ELSE code

TextSpec == InitText /\ [][\E c \in alphabet[1] : Read(c)]_textVars

\* Semicolons read as code.
separators == {p \in code : text[p] = ";"}

-----------------------------------------------------------------------------
\* Where a literal opens to the scanner that a name would not end.
LiteralAt(s, r) == \/ s[r] = "$" /\ AfterDollarQuote(s, r) # r
                   \/ s[r] = "E" /\ At(s, r + 1) = "'"

\* The tokens from p to r are one name if `joins` continue words, which in a
\* parameter's name after a dollar all bytes >= 0x80 do.
OneName(s, joins, p, r) ==
    /\ p < r
    /\ s[p] \in Letters \cup joins \/ (s[p] = "$" /\ p + 1 < r /\ s[p + 1] \notin Digits)
    /\ \A q \in p + 1 .. r - 1 :
          WordContinue(s[q]) \/ s[q] \in IF s[p] = "$" THEN High ELSE joins

\* The scanner knows no name with bytes >= 0x80 and no name in backticks: it
\* takes a part of one for a literal.
Splits(s, joins) ==
    \E r \in TokenStarts(s) :
        s[r] = "bq" \/ (LiteralAt(s, r) /\ \E p \in TokenStarts(s) : OneName(s, joins, p, r))

\* Unless it splits a name, the scanner and a character-at-a-time lexer agree
\* on which semicolons end statements, whatever literals and comments surround
\* them (duckdb_driver.c:807, comment at :782).
SeparatorsAgree == ~Splits(text, {"hi"}) => Separators(text) = separators

\* A text the cheap first test takes for one statement has one
\* (duckdb_driver.c:472).
MultipleIsSeen ==
    (\E p \in separators : \E q \in TokenStarts(text) :
        q > p /\ q \notin separators) => MayHaveMultiple(text)

=============================================================================
