--------------------------- MODULE AppenderChecks ---------------------------
(***************************************************************************)
(* The checks that appendRow() makes of a scalar before any native append  *)
(* touches the row (duckdb_appender.c).  A failed native append loses the  *)
(* buffered rows, so each value DuckDB might refuse is judged first: by a  *)
(* range, by bounds inside which no probe is needed, or by a probe, the    *)
(* prepared CAST of the column's type.                                     *)
(*                                                                         *)
(* Every width is scaled down alike: integers of 4, 11 and 13 bits stand   *)
(* for 8, 64 and 128, doubles have Mantissa significant bits and floats    *)
(* FloatMantissa, and the margins inside the limits are 1/Margin of them.  *)
(* Numbers are integers that count the Unit-th parts of one.               *)
(***************************************************************************)
EXTENDS Integers, FiniteSetsExt

CONSTANTS
    Columns,        \* the columns: [type, width, scale, probed]
    Mantissa,       \* bound: significant bits of a double
    FloatMantissa,  \* bound: significant bits of a FLOAT
    Exponents       \* bound: a FLOAT is below 2^Exponents

VARIABLE cell       \* <<>>, or a column and the value given for it

Unit == 64
Margin == 16
LongBits == 11

Abs(n) == IF n < 0 THEN -n ELSE n
Bits(n) == Min({b \in 0..24 : Abs(n) < 2^b})

\* The closest number with so many significant bits, ties to the even one.
Nearest(n, bits) ==
    LET ulp == 2^Max({0, Bits(n) - bits})
        down == Abs(n) \div ulp
        rest == 2 * (Abs(n) % ulp)
        up == rest > ulp \/ (rest = ulp /\ down % 2 = 1)
        size == (IF up THEN down + 1 ELSE down) * ulp
    IN IF n < 0 THEN -size ELSE size

Double(n) == Nearest(n, Mantissa)

-----------------------------------------------------------------------------
(* Values and columns.                                                      *)

\* NaN and the infinities are "special"; a string casts to the column or not.
Values ==
    LET Magnitudes == 0..2^Mantissa
            \cup {m * 2^e : m \in 2^(Mantissa - 1)..2^Mantissa, e \in 1..(19 - Mantissa)}
        Numbers(kind, all) == [kind : {kind}, n : all]
    IN Numbers("bool", {0, Unit})
           \cup Numbers("long", {l * Unit : l \in -2^(LongBits - 1)..2^(LongBits - 1) - 1})
           \cup Numbers("double", Magnitudes \cup {-m : m \in Magnitudes})
           \cup Numbers("special", {0})
           \cup Numbers("string", {0, 1})

Signed(column) == column.type \in {"int", "bigint"}
Unsigned(column) == column.type \in {"uint", "ubigint"}

\* The limits of an integer type.
Least(column) == IF Signed(column) THEN -(2^(column.width - 1)) ELSE 0
Greatest(column) == IF Signed(column) THEN 2^(column.width - 1) - 1
                    ELSE 2^column.width - 1

-----------------------------------------------------------------------------
(* What is checked.                                                         *)

\* Mutant: only one unit of the last digit is kept.
Inside_OneDigit(limit) == limit - Unit

\* What stays below a limit by one unit of the last digit and by the margin.
Inside(limit) == limit - Max({limit \div Margin, Unit})

\* Bounds strictly inside the limits of the type, as doubles.
Bounds(column) ==
    CASE column.type = "int" -> <<(Least(column) + 1) * Unit, (Greatest(column) - 1) * Unit>>
      [] column.type = "uint" -> <<0, (Greatest(column) - 1) * Unit>>
      [] column.type \in {"bigint", "ubigint"} ->
             LET most == ((Greatest(column) + 1) * Unit * (Margin - 1)) \div Margin
             IN <<IF Signed(column) THEN Double(-most) ELSE 0, Double(most)>>
      [] column.type = "decimal" ->
             LET scale == 10^column.scale
                 bound == Double((2 * Inside(10^column.width * Unit) + scale)
                                     \div (2 * scale))
             IN <<-bound, bound>>

\* The check planned for the values of a kind.
Check(column, kind) ==
    LET probe == IF column.probed THEN "probe" ELSE "none"
        bounded == IF column.probed THEN "bounds" ELSE "none"
    IN CASE column.type = "nested" -> "refuse"
         [] column.type = "blob" -> IF kind = "string" THEN "none" ELSE "refuse"
         [] column.type \notin {"nested", "blob"} /\ kind = "string" -> probe
         [] column.type = "any" /\ kind # "string" -> "none"
         [] column.type = "float" /\ kind # "string" ->
                IF kind \in {"double", "special"} THEN "float" ELSE "none"
         [] (Signed(column) \/ Unsigned(column)) /\ kind = "long" ->
                IF column.type = "bigint" THEN "none" ELSE "range"
         [] (Signed(column) \/ Unsigned(column)) /\ kind \notin {"long", "string"} ->
                bounded
         [] column.type = "decimal" /\ kind # "string" -> bounded
         [] column.type = "text" /\ kind # "string" -> probe

InRange(column, value) ==
    Least(column) * Unit <= value.n /\ value.n <= Greatest(column) * Unit

\* Half an ulp past the greatest FLOAT, the smallest double that becomes infinite.
FloatRoundsToInf == (2^Exponents - 2^(Exponents - FloatMantissa - 1)) * Unit

WithinBounds(column, value) ==
    LET d == IF value.kind = "double" THEN value.n ELSE Double(value.n)
        b == Bounds(column)
    IN value.kind # "special" /\ b[1] <= d /\ d <= b[2]

-----------------------------------------------------------------------------
(* DuckDB's cast, which the native append and the probe make alike.  A      *)
(* number is exact if it is an integer of PHP; a double is cut off or       *)
(* rounded, which DuckDB does differently from type to type.                *)

Roundings == {"cut", "round"}

\* Is the number n / parts, made an integer, between the two?
Fits(n, parts, least, most, rounding) ==
    LET whole == IF rounding = "cut" THEN Abs(n) \div parts
                 ELSE (2 * Abs(n) + parts) \div (2 * parts)
        result == IF n < 0 THEN -whole ELSE whole
    IN least <= result /\ result <= most

Casts(column, value, rounding) ==
    CASE value.kind = "string" -> value.n = 1
      [] column.type = "any" /\ value.kind # "string" -> TRUE
      [] column.type = "text" /\ value.kind # "string" -> FALSE
      [] column.type = "float" /\ value.kind # "string" ->
             Abs(Nearest(value.n, FloatMantissa)) < 2^Exponents * Unit
      [] (Signed(column) \/ Unsigned(column)) /\ value.kind # "string" ->
             /\ value.kind # "special"
             /\ Fits(value.n, Unit, Least(column), Greatest(column), rounding)
      [] column.type = "decimal" /\ value.kind # "string" ->
             /\ value.kind # "special"
             /\ IF value.kind = "double"
                THEN Fits(value.n * 10^column.scale, Unit,
                          -(10^column.width) + 1, 10^column.width - 1, rounding)
                ELSE Abs(value.n) * 10^column.scale < 10^column.width * Unit

-----------------------------------------------------------------------------
\* Whether a scalar reaches the native append.
Passes(column, value, rounding) ==
    LET check == Check(column, value.kind)
    IN CASE check = "none" -> TRUE
         [] check = "refuse" -> FALSE
         [] check = "range" -> InRange(column, value)
         [] check = "float" -> value.kind = "special" \/ Abs(value.n) < FloatRoundsToInf
         [] check = "probe" -> Casts(column, value, rounding)
         [] check = "bounds" -> WithinBounds(column, value)
                                    \/ Casts(column, value, rounding)

InitCell == cell = <<>>

Offer(column, value) == cell = <<>> /\ cell' = <<column, value>>

\* The columns and values of which the driver promises a check before the
\* append: those with a probe, and those it judges by itself.
Judged(column, kind) ==
    \/ column.probed /\ column.type \notin {"nested", "blob"}
    \/ column.type = "float" /\ kind # "string"
    \/ (Signed(column) \/ Unsigned(column)) /\ kind = "long"

\* A scalar that was checked reaches the native append exactly if DuckDB casts
\* it, however it rounds: no checked value loses the rows buffered before it
\* (duckdb_appender.c:589 and :622), and none DuckDB would take is refused.
ChecksDecideTheCast ==
    cell # <<>> =>
        LET column == cell[1]
            value == cell[2]
        IN Judged(column, value.kind) =>
               \A rounding \in Roundings :
                  Passes(column, value, rounding) <=> Casts(column, value, rounding)

=============================================================================
