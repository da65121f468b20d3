-------------------------- MODULE NumberRendering --------------------------
(***************************************************************************)
(* The text PHP receives of wide integers, DECIMALs, times of day,         *)
(* intervals and time zone offsets, written by hand from DuckDB's vectors  *)
(* (duckdb_statement.c).                                                   *)
(*                                                                         *)
(* A word has WordBits bits in place of 64 and a wide integer two words.   *)
(* A DECIMAL of at most WordDigits digits is stored in a word, else, up to *)
(* WideDigits, in two (DuckDB: 18 and 38).  A second has 10^FracDigits     *)
(* ticks, a minute and an hour Sixty of the smaller unit.  A text is a     *)
(* record of its sign and its digits; blanks, colons and the padding of    *)
(* hours, minutes and seconds are left out.                                *)
(***************************************************************************)
EXTENDS Integers, Sequences, SequencesExt

CONSTANTS
    WordBits,       \* bound: the bits of a word
    WordDigits,     \* the digits of a DECIMAL that fits in a word
    WideDigits,     \* the digits of the widest DECIMAL
    FracDigits,     \* bound: the digits of the fraction of a second
    Sixty,          \* bound: in place of sixty
    HoursOfDay      \* bound: in place of 24

VARIABLE given      \* <<>>, or a number of a vector

Word == 2^WordBits
Wide == Word * Word
Second == 10^FracDigits
Hour == Sixty * Sixty * Second

\* Negates n + 1, so that the least long does not overflow.
AbsI64(n) == IF n < 0 THEN -(n + 1) + 1 ELSE n

-----------------------------------------------------------------------------
(* The numbers of a vector.                                                 *)

Decimals(width, scale, internal) ==
    [type : {"decimal"}, width : {width}, scale : {scale}, internal : {internal},
     n : -(10^width) + 1..10^width - 1]

\* DECIMALs whose metadata only a damaged file has.
Damaged ==
    [type : {"decimal"}, width : 0..WideDigits + 1, scale : 0..WideDigits + 2,
     internal : {"word", "wide", "other"}, n : {-1, 0, 1}]

Numbers ==
    [type : {"hugeint"}, n : -(Wide \div 2)..Wide \div 2 - 1]
        \cup [type : {"uhugeint"}, n : 0..Wide - 1]
        \cup UNION {UNION {Decimals(width, scale,
                                    IF width <= WordDigits THEN "word" ELSE "wide") :
                              scale \in 0..width} : width \in 1..WideDigits}
        \cup Damaged
        \cup [type : {"time"}, n : -1..HoursOfDay * Hour]
        \cup [type : {"interval"}, n : -(Wide \div 2)..Wide \div 2 - 1,
              days : {-1, 0, 2}, months : 0..1]
        \cup [type : {"offset"}, n : -(2 * Sixty * Sixty)..2 * Sixty * Sixty]

\* Two's complement in two words.
Stored(n) == [upper |-> (n % Wide) \div Word, lower |-> n % Word]

-----------------------------------------------------------------------------
(* Digits.                                                                  *)

FormatWord[n \in Nat] ==
    IF n < 10 THEN <<n>> ELSE Append(FormatWord[n \div 10], n % 10)

\* One division by ten, bit by bit, where the compiler has no 128-bit integer.
Divide(words) ==
    LET Pass[bit \in 0..2 * WordBits] ==
            IF bit = 2 * WordBits THEN [upper |-> 0, lower |-> 0, rem |-> 0]
            ELSE LET above == Pass[bit + 1]
                     place == 2^(bit % WordBits)
                     b == ((IF bit >= WordBits THEN words.upper ELSE words.lower)
                               \div place) % 2
                     rem == 2 * above.rem + b
                 IN IF rem < 10 THEN [above EXCEPT !.rem = rem]
                    ELSE IF bit >= WordBits
                    THEN [above EXCEPT !.rem = rem - 10, !.upper = @ + place]
                    ELSE [above EXCEPT !.rem = rem - 10, !.lower = @ + place]
    IN Pass[0]

Builds == {"int128", "words"}

FormatWide(words, build) ==
    LET Native[n \in Nat] ==
            IF n = 0 THEN <<>> ELSE Append(Native[n \div 10], n % 10)
        ByWords[w \in [upper : 0..Word - 1, lower : 0..Word - 1]] ==
            IF w.upper = 0 /\ w.lower = 0 THEN <<>>
            ELSE LET quotient == Divide(w)
                 IN Append(ByWords[[upper |-> quotient.upper, lower |-> quotient.lower]],
                           quotient.rem)
    IN IF words.upper = 0 THEN FormatWord[words.lower]
       ELSE IF build = "int128" THEN Native[words.upper * Word + words.lower]
       ELSE ByWords[words]

IsNegative(words) == words.upper >= Word \div 2

\* Mutant: the carry into the upper word is forgotten.
Magnitude_NoCarry(words) ==
    IF IsNegative(words)
    THEN [upper |-> Word - 1 - words.upper,
          lower |-> (Word - words.lower) % Word]
    ELSE words

\* The absolute value: the complement plus one, with its carry.
Magnitude(words) ==
    IF IsNegative(words)
    THEN LET lower == (Word - words.lower) % Word
         IN [upper |-> (Word - 1 - words.upper + (IF lower = 0 THEN 1 ELSE 0)) % Word,
             lower |-> lower]
    ELSE words

-----------------------------------------------------------------------------
(* Texts.  "slow" is left to DuckDB's cast.                                 *)

Text(negative, int, dot, frac) ==
    [negative |-> negative, int |-> int, dot |-> dot, frac |-> frac]

Slow == [slow |-> TRUE]

Zeros(n) == [i \in 1..n |-> 0]

\* The decimal point is put among the digits.
PlacePoint(digits, negative, width, scale) ==
    IF scale = 0 THEN Text(negative, digits, FALSE, <<>>)
    ELSE IF Len(digits) <= scale
    THEN Text(negative, IF width > scale THEN <<0>> ELSE <<>>, TRUE,
              Zeros(scale - Len(digits)) \o digits)
    ELSE Text(negative, SubSeq(digits, 1, Len(digits) - scale), TRUE,
              SubSeq(digits, Len(digits) - scale + 1, Len(digits)))

MetaOk(width, scale) == width \in 1..WideDigits /\ scale <= width

\* A column with valid metadata may be cached; then a word is written as such.
DecimalText(g, build, cached) ==
    LET words == Stored(g.n)
        digits == IF cached /\ g.internal = "word" THEN FormatWord[AbsI64(g.n)]
                  ELSE FormatWide(Magnitude(words), build)
    IN IF ~MetaOk(g.width, g.scale) \/ g.internal = "other" THEN Slow
       ELSE PlacePoint(digits, IsNegative(words), g.width, g.scale)

\* The fraction of a second without the zeros at its end.
Fraction(ticks) ==
    LET padded == Zeros(FracDigits - Len(FormatWord[ticks])) \o FormatWord[ticks]
        keep == CHOOSE k \in 0..FracDigits :
                   /\ \A i \in k + 1..FracDigits : padded[i] = 0
                   /\ k > 0 => padded[k] # 0
    IN IF ticks = 0 THEN <<>> ELSE SubSeq(padded, 1, keep)

Clock(negative, ticks) ==
    [negative |-> negative,
     hours |-> ticks \div Hour,
     minutes |-> (ticks % Hour) \div (Sixty * Second),
     seconds |-> (ticks % (Sixty * Second)) \div Second,
     frac |-> Fraction(ticks % Second)]

TimeText(g) ==
    IF g.n < 0 \/ g.n >= HoursOfDay * Hour THEN Slow ELSE Clock(FALSE, g.n)

\* The days unless zero, and the time unless it is zero after days.
IntervalText(g) ==
    IF g.months # 0 THEN Slow
    ELSE [days |-> IF g.days # 0 THEN <<g.days>> ELSE <<>>,
          time |-> IF g.days # 0 /\ g.n = 0 THEN <<>>
                   ELSE <<Clock(g.n < 0, AbsI64(g.n))>>]

\* Hours, then minutes unless both they and the seconds are zero, then seconds
\* unless zero.
OffsetText(g) ==
    LET off == AbsI64(g.n)
        hours == off \div (Sixty * Sixty)
        minutes == (off % (Sixty * Sixty)) \div Sixty
        seconds == off % Sixty
    IN [negative |-> g.n < 0,
        fields |-> IF seconds # 0 THEN <<hours, minutes, seconds>>
                   ELSE IF minutes # 0 THEN <<hours, minutes>> ELSE <<hours>>]

IntegerText(g, build) ==
    LET words == Stored(g.n)
        negative == g.type = "hugeint" /\ IsNegative(words)
    IN Text(negative, FormatWide(IF negative THEN Magnitude(words) ELSE words, build),
            FALSE, <<>>)

-----------------------------------------------------------------------------
InitNumber == given = <<>>

OfferNumber(g) == given = <<>> /\ given' = <<g>>

-----------------------------------------------------------------------------
(* What a reader makes of a text.                                           *)

ValueOf(digits) == FoldLeft(LAMBDA value, d : 10 * value + d, 0, digits)

Plain(int) == int # <<>> /\ (int[1] = 0 => Len(int) = 1)

Reads(text, n) ==
    /\ ValueOf(text.int \o text.frac) = AbsI64(n)
    /\ text.negative <=> n < 0

ReadsTime(text, n) ==
    /\ text.minutes < Sixty /\ text.seconds < Sixty
    /\ (text.frac # <<>>) => text.frac[Len(text.frac)] # 0
    /\ ((text.hours * Sixty + text.minutes) * Sixty + text.seconds) * Second
          + ValueOf(text.frac) * 10^(FracDigits - Len(text.frac)) = AbsI64(n)
    /\ text.negative <=> n < 0

DecimalReads(text, g) ==
    IF g.width \in 1..WideDigits /\ g.scale <= g.width /\ g.internal # "other"
    THEN /\ text # Slow
         /\ Reads(text, g.n)
         /\ Len(text.frac) = g.scale
         /\ text.dot <=> g.scale > 0
         /\ IF g.width = g.scale THEN text.int = <<>> ELSE Plain(text.int)
    ELSE text = Slow

\* Every number reads back from its text: the magnitude of the least integer and
\* a carry between words included, whichever division the build has and whether
\* the column is cached or not; a DECIMAL shows its scale, and an integer digit
\* only if its type has one (duckdb_statement.c:1173); what cannot be written
\* is left to DuckDB (duckdb_statement.c:985).
RenderedExactly ==
    given # <<>> =>
        LET g == given[1]
        IN CASE g.type \in {"hugeint", "uhugeint"} ->
                  \A build \in Builds :
                     LET text == IntegerText(g, build)
                     IN Reads(text, g.n) /\ Plain(text.int) /\ ~text.dot
             [] g.type = "decimal" ->
                  \A build \in Builds, cached \in BOOLEAN :
                     DecimalReads(DecimalText(g, build, cached), g)
             [] g.type = "time" ->
                  IF g.n \in 0..HoursOfDay * Hour - 1 THEN ReadsTime(TimeText(g), g.n)
                  ELSE TimeText(g) = Slow
             [] g.type = "interval" ->
                  LET text == IntervalText(g)
                  IN IF g.months # 0 THEN text = Slow
                     ELSE /\ IF g.days # 0 THEN text.days = <<g.days>>
                             ELSE text.days = <<>> /\ text.time # <<>>
                          /\ IF text.time # <<>> THEN ReadsTime(text.time[1], g.n)
                             ELSE g.n = 0
             [] g.type = "offset" ->
                  LET text == OffsetText(g)
                      field(i) == IF i <= Len(text.fields) THEN text.fields[i] ELSE 0
                  IN /\ (field(1) * Sixty + field(2)) * Sixty + field(3) = AbsI64(g.n)
                     /\ text.negative <=> g.n < 0

=============================================================================
