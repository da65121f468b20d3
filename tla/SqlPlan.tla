------------------------------ MODULE SqlPlan ------------------------------
(***************************************************************************)
(* The placeholders of a statement (pdo_duckdb_sql.c).  A statement is     *)
(* bound in one of two ways: DuckDB binds the prepared text, in which PDO's *)
(* placeholders were renamed to $1, $2, ..., or, for a deferred query, the *)
(* driver writes the values into the text.  A value array with one slot    *)
(* per binding serves the second way.                                      *)
(*                                                                         *)
(* A statement is the sequence of its placeholders: ?, :name, $number and  *)
(* $name, each in one of several spellings (:a and :A, $1 and $01).        *)
(* Positions and slots count from 0, DuckDB's numbers from 1.              *)
(***************************************************************************)
EXTENDS Naturals, Sequences, FiniteSets, FiniteSetsExt

CONSTANTS
    NoSlot,           \* no style, no slot
    Placements,     \* the placeholders a statement may have
    MaxUses         \* bound: placeholders in a statement

Styles == {"positional", "named", "number", "dollar"}

ASSUME PlacementsAssumption ==
    /\ \A use \in Placements : use.style \in Styles
    /\ \A use \in Placements : use.style = "number" => use.name \in Nat
    /\ NoSlot \notin Styles /\ NoSlot \notin Nat

VARIABLES
    uses,           \* the placeholders, in the order of the text
    legacy          \* the grammar that reads the statement

planVars == <<uses, legacy>>

IsNative(use) == use.style \in {"number", "dollar"}

\* PDO's names differ when their spelling does, DuckDB's fold case.
PdoKey(use) == <<use.name, use.spelling>>
NativeKey(use) == IF use.style = "number" THEN <<use.name, use.spelling>>
                  ELSE <<use.name>>

-----------------------------------------------------------------------------
(* Building the plan.                                                       *)

EmptyPlan ==
    [style |-> NoSlot, mixed |-> FALSE, parameters |-> 0,
     names |-> {}, nativeNames |-> {}, positions |-> {},
     nativeCount |-> 0, next |-> 0, indices |-> <<>>]

\* A hash table is a set of entries with distinct keys.
Has(table, key) == \E e \in table : e[1] = key
Get(table, key) == (CHOOSE e \in table : e[1] = key)[2]
Put(table, key, value) == IF Has(table, key) THEN table
                          ELSE table \cup {<<key, value>>}

\* Mutant: a repeated name is a new parameter.
AddPlaceholder_Anew(plan, use) ==
    [plan EXCEPT !.style = use.style, !.parameters = @ + 1,
                 !.indices = Append(@, plan.parameters),
                 !.next = Max({@, plan.parameters + 1})]

AddPlaceholder(plan, use) ==
    LET known == use.style = "named" /\ Has(plan.names, PdoKey(use))
        index == IF known THEN Get(plan.names, PdoKey(use)) ELSE plan.parameters
    IN IF plan.style \notin {NoSlot, use.style}
       THEN [plan EXCEPT !.mixed = TRUE]
       ELSE [plan EXCEPT !.style = use.style,
                         !.parameters = IF known THEN @ ELSE @ + 1,
                         !.names = IF use.style = "named"
                                   THEN Put(@, PdoKey(use), index) ELSE @,
                         !.indices = Append(@, index),
                         !.next = Max({@, index + 1})]

\* $0 is refused, or is the next free position if the legacy parser reads it.
Anonymous(use) == use.style = "number" /\ use.name = 0

\* The position a native placeholder names.
Position(plan, use) ==
    CASE Anonymous(use) -> plan.next
      [] ~Anonymous(use) /\ Has(plan.nativeNames, NativeKey(use)) ->
             Get(plan.nativeNames, NativeKey(use))
      [] use.style = "number" /\ ~Anonymous(use)
             /\ ~Has(plan.nativeNames, NativeKey(use)) -> use.name - 1
      [] OTHER -> plan.nativeCount

\* Mutant: a position spelled in two ways gets two slots.
AddNative_ByKey(plan, use) ==
    LET position == Position(plan, use)
        known == Has(plan.nativeNames, NativeKey(use))
    IN [plan EXCEPT
          !.nativeCount = IF known THEN @ ELSE @ + 1,
          !.nativeNames = IF Anonymous(use) THEN @
                          ELSE Put(@, NativeKey(use), position),
          !.positions = Put(@, position, plan.nativeCount),
          !.next = Max({@, position + 1}),
          !.indices = Append(@, position)]

AddNative(plan, use) ==
    LET position == Position(plan, use)
    IN IF Anonymous(use) /\ ~legacy
       THEN [plan EXCEPT !.indices = Append(@, NoSlot)]
       ELSE [plan EXCEPT
               !.nativeCount = IF Has(plan.positions, position) THEN @ ELSE @ + 1,
               !.nativeNames = IF Anonymous(use) THEN @
                               ELSE Put(@, NativeKey(use), position),
               !.positions = Put(@, position, plan.nativeCount),
               !.next = Max({@, position + 1}),
               !.indices = Append(@, position)]

AddUse(plan, use) ==
    IF plan.mixed THEN plan
    ELSE IF IsNative(use) THEN AddNative(plan, use) ELSE AddPlaceholder(plan, use)

\* Once the text is read, PDO's parameters take the first slots, in order, and
\* the numbers not among them the slots after those.
Numbered(plan, all) ==
    LET table[i \in 0..Len(all)] ==
           IF i = 0 THEN {<<k, k>> : k \in 0..plan.parameters - 1}
           ELSE IF all[i].style = "number" /\ plan.indices[i] # NoSlot
           THEN Put(table[i - 1], plan.indices[i], Cardinality(table[i - 1]))
           ELSE table[i - 1]
    IN table

Slots(plan, all) == IF plan.parameters = 0 THEN plan.positions
                    ELSE Numbered(plan, all)[Len(all)]

\* The plan after each of the placeholders.
Reading == LET plan[i \in 0..Len(uses)] ==
                  IF i = 0 THEN EmptyPlan ELSE AddUse(plan[i - 1], uses[i])
           IN plan

\* The plan of a statement; one that mixes ? and :name has none.
Plan == LET read == Reading[Len(uses)]
        IN [read EXCEPT !.positions = IF read.mixed THEN {} ELSE Slots(read, uses)]

BindingCount == Cardinality(Plan.positions)

\* Where the value bound at a position is kept.
BindingSlot(position) ==
    IF position < BindingCount /\ Has(Plan.positions, position)
    THEN Get(Plan.positions, position) ELSE NoSlot

\* The slot whose value replaces the i-th placeholder when the text is
\* expanded, or NoSlot if the placeholder stays as it is.
RenderSlot(i) ==
    LET plan == Plan
    IN CASE ~IsNative(uses[i]) -> plan.indices[i]
         [] IsNative(uses[i]) /\ plan.indices[i] = NoSlot -> NoSlot
         [] uses[i].style = "dollar" /\ plan.parameters > 0 -> NoSlot
         [] OTHER -> BindingSlot(plan.indices[i])

-----------------------------------------------------------------------------
(* DuckDB: the numbers it gives the placeholders of the prepared text.      *)

\* In the prepared text PDO's placeholders are $1, $2, ...; a name takes the
\* next free number, and so does $0 of the legacy grammar.
DuckNumbers ==
    LET number[i \in 1..Len(uses)] ==
           LET same == {j \in 1..i - 1 : uses[j].style = "dollar"
                                         /\ uses[j].name = uses[i].name}
               taken == {number[j] : j \in 1..i - 1}
           IN CASE ~IsNative(uses[i]) -> Plan.indices[i] + 1
                [] uses[i].style = "dollar" /\ same # {} -> number[Min(same)]
                [] uses[i].style = "number" /\ uses[i].name # 0 -> uses[i].name
                [] OTHER -> Max(taken \cup {0}) + 1
    IN number

\* DuckDB takes names or numbers, and numbers without a gap.
Accepted ==
    LET numbered == {i \in 1..Len(uses) : uses[i].style # "dollar"}
    IN /\ ~Plan.mixed
       /\ numbered \in {{}, 1..Len(uses)}
       /\ legacy \/ \A i \in numbered : ~Anonymous(uses[i])
       /\ LET numbers == {DuckNumbers[i] : i \in 1..Len(uses)}
          IN numbers = 1..Cardinality(numbers)

-----------------------------------------------------------------------------
InitPlan == uses = <<>> /\ legacy \in BOOLEAN

AddToText(use) == Len(uses) < MaxUses /\ uses' = Append(uses, use)
                      /\ UNCHANGED legacy

-----------------------------------------------------------------------------
\* Every slot is inside the value array, which has one entry per binding, and
\* no two positions share one (pdo_duckdb_sql.c:419 and duckdb_driver.c:583),
\* whatever placeholders a text mixes.
SlotsFitTheArray ==
    LET slots == {e[2] : e \in Plan.positions}
    IN /\ slots = 0..BindingCount - 1
       /\ ~Plan.mixed =>
             \A i \in 1..Len(uses) : RenderSlot(i) \in slots \cup {NoSlot}

\* Expanding a statement gives each placeholder the value that DuckDB would
\* have given it: the one bound at the number DuckDB gives the placeholder;
\* and PDO's placeholders share a value exactly if they share a name
\* (pdo_duckdb_sql.c:479, duckdb_statement.c:3274).
ExpansionBindsAlike ==
    Accepted =>
        /\ \A i \in 1..Len(uses) : /\ RenderSlot(i) # NoSlot
                                   /\ RenderSlot(i) = BindingSlot(DuckNumbers[i] - 1)
        /\ \A i, j \in {k \in 1..Len(uses) : ~IsNative(uses[k])} :
              RenderSlot(i) = RenderSlot(j) <=>
                  \/ i = j
                  \/ uses[i].style = "named" /\ PdoKey(uses[i]) = PdoKey(uses[j])

=============================================================================
