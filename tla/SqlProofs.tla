------------------------------- MODULE SqlProofs ------------------------------
(***************************************************************************)
(* What is proved of the SQL the driver reads.  PDO's transaction flag     *)
(* covers DuckDB's transaction for any set of texts that the transaction   *)
(* scanner reads as DuckDB does: theorems about TransactionTracking for    *)
(* every series it is built against.  The scanner meets the separators     *)
(* that a character-at-a-time lexer meets, and the lexer of prepare() the  *)
(* placeholders that the scanner's tokens show: theorems about every text  *)
(* in which the scanner splits no name.  It finds the statements of a      *)
(* batch that DuckDB finds, and the effect of each: theorems about every   *)
(* batch, from which the first ones follow for all texts that explain no   *)
(* query in parentheses.                                                   *)
(***************************************************************************)
EXTENDS TransactionTracking, SqlBatches, SqlPlanLexer, Recursion,
        FiniteSetTheorems, SequenceTheorems, TLAPS

\* DuckDB has a transaction only if the flag says so, and a flag without a
\* transaction is one a failed COMMIT left.
Covers(flag) == native # "none" => flag
Explained(flag) == flag /\ native = "none" => lost
Aligned(flag) == Covers(flag) /\ Explained(flag)

\* Between statements run one by one the flag is exact, and the effects to come
\* are those of the statements to come.
StepByStep ==
    /\ Aligned(inTxn)
    /\ Len(run.effects) = Len(run.left)
    /\ \A i \in 1..Len(run.left) : run.effects[i] = Effect(run.left[i])

\* A text that runs in one call has the effect of its only statement, or none;
\* once it has run, the flag is exact with that effect applied.
InOneCall ==
    \/ /\ Aligned(inTxn)
       /\ \/ /\ run.last = "none"
             /\ \A i \in 1..Len(run.left) : run.left[i] = "other"
          \/ Len(run.left) = 1 /\ run.last = Effect(run.left[1])
    \/ run.left = <<>> /\ Aligned(Applied(inTxn, run.last))

\* The bridge owes the flag the last effect it has executed.
Owed ==
    /\ Aligned(Applied(inTxn, run.last))
    /\ run.last = "open" => native # "none"

IInv ==
    /\ native \in {"none", "open", "aborted"}
    /\ inTxn \in BOOLEAN /\ lost \in BOOLEAN
    /\ run \in Runs \cup {None}
    /\ run = None => Aligned(inTxn)
    /\ run # None /\ run.path = "multi" => StepByStep
    /\ run # None /\ run.path = "query" => InOneCall
    /\ run # None /\ run.path = "bridge" => Owed

-----------------------------------------------------------------------------

\* What the driver takes a command for.
LEMMA EffectFacts ==
    /\ \A c \in Commands : Effect(c) \in Effects3
    /\ Effect("BEGIN") = "open" /\ Effect("other") = "none"
    /\ Effect("COMMIT") = "close" /\ Effect("ROLLBACK") = "close"
BY DEF Commands, Control, Effect, Effects3

LEMMA AppliedFacts ==
    ASSUME NEW f \in BOOLEAN, NEW e \in Effects3
    PROVE  /\ Applied(f, e) \in BOOLEAN
           /\ e = "none" => Applied(f, e) = f
           /\ e = "open" => Applied(f, e) = TRUE
           /\ e = "close" => Applied(f, e) = FALSE
BY DEF Applied, Effects3

\* A command that succeeds does to DuckDB's transaction what its effect says;
\* one that fails begins none, and ends one only as a failed COMMIT.
LEMMA OutcomeFacts ==
    ASSUME native \in {"none", "open", "aborted"}, NEW c \in Commands,
           NEW o \in Outcomes(c)
    PROVE  /\ o.native \in {"none", "open", "aborted"}
           /\ o.ok \in BOOLEAN /\ o.lost \in BOOLEAN
           /\ o.ok /\ Effect(c) = "open" => o.native = "open"
           /\ o.ok /\ Effect(c) = "close" => native # "none" /\ o.native = "none"
           /\ o.ok /\ Effect(c) = "none" => o.native = native
           /\ ~o.ok /\ native = "none" => o.native = "none"
           /\ ~o.ok /\ native # "none" /\ o.native = "none" => o.lost
<1> DEFINE failed == {Outcome(IF native = "none" THEN "none" ELSE n, FALSE, FALSE) :
                         n \in IF engine = "2.0" THEN {"aborted"}
                              ELSE {native, "aborted"}}
<1>1. ASSUME o \in failed
      PROVE  /\ o.native \in {"none", "open", "aborted"}
             /\ o.ok = FALSE /\ o.lost = FALSE
             /\ o.native = "none" <=> native = "none"
  <2>1. PICK n \in {native, "aborted"} :
          o = Outcome(IF native = "none" THEN "none" ELSE n, FALSE, FALSE)
    BY <1>1
  <2>2. /\ o.native = IF native = "none" THEN "none" ELSE n
        /\ o.ok = FALSE /\ o.lost = FALSE
    BY <2>1 DEF Outcome
  <2> QED
    BY <2>2
<1>2. CASE c = "BEGIN"
  <2>1. o \in {Outcome("open", TRUE, FALSE)} \cup failed
    BY <1>2 DEF Outcomes
  <2>2. CASE o = Outcome("open", TRUE, FALSE)
    BY <1>2, <2>2, EffectFacts DEF Outcome
  <2> QED
    BY <1>1, <1>2, <2>1, <2>2, EffectFacts
<1>3. CASE c = "ROLLBACK"
  <2>1. o \in failed \/ (native # "none" /\ o = Outcome("none", TRUE, FALSE))
    BY <1>3 DEF Outcomes
  <2>2. CASE o = Outcome("none", TRUE, FALSE) /\ native # "none"
    BY <1>3, <2>2, EffectFacts DEF Outcome
  <2> QED
    BY <1>1, <1>3, <2>1, <2>2, EffectFacts
<1>4. CASE c = "COMMIT"
  <2>1. \/ o \in failed
        \/ native # "none" /\ o = Outcome("none", TRUE, FALSE)
        \/ native # "none" /\ o = Outcome("none", FALSE, TRUE)
    BY <1>4 DEF Outcomes
  <2>2. CASE o = Outcome("none", TRUE, FALSE) /\ native # "none"
    BY <1>4, <2>2, EffectFacts DEF Outcome
  <2>3. CASE o = Outcome("none", FALSE, TRUE) /\ native # "none"
    BY <1>4, <2>3, EffectFacts DEF Outcome
  <2> QED
    BY <1>1, <1>4, <2>1, <2>2, <2>3, EffectFacts
<1>5. CASE c = "other"
  <2>1. o \in failed \/ o = Outcome(native, TRUE, FALSE)
    BY <1>5 DEF Outcomes
  <2>2. CASE o = Outcome(native, TRUE, FALSE)
    BY <1>5, <2>2, EffectFacts DEF Outcome
  <2> QED
    BY <1>1, <1>5, <2>1, <2>2, EffectFacts
<1> QED
  BY <1>2, <1>3, <1>4, <1>5 DEF Commands, Control

\* A flag f that is exact before a command that succeeds is exact after it with
\* its effect applied.
LEMMA SuccessAligns ==
    ASSUME native \in {"none", "open", "aborted"}, lost \in BOOLEAN,
           NEW f \in BOOLEAN, Aligned(f), NEW flag \in BOOLEAN,
           NEW c \in Commands, NEW o \in Outcomes(c), o.ok,
           native' = o.native, lost' = Lost(o, flag),
           flag = Applied(f, Effect(c)) \/ (f /\ native = "none" => flag)
    PROVE  LET g == Applied(f, Effect(c))
           IN  (native' # "none" => g) /\ (g /\ native' = "none" => lost')
<1>1. Effect(c) \in Effects3
  BY EffectFacts
<1>2. CASE Effect(c) = "open"
  BY <1>1, <1>2, OutcomeFacts, AppliedFacts
<1>3. CASE Effect(c) = "close"
  BY <1>1, <1>3, OutcomeFacts, AppliedFacts
<1>4. CASE Effect(c) = "none"
  <2>1. native' = native /\ Applied(f, Effect(c)) = f
    BY <1>1, <1>4, OutcomeFacts, AppliedFacts
  <2>2. f /\ native = "none" => flag
    <3>1. CASE flag = Applied(f, Effect(c))
      <4>1. flag = f
        BY <2>1, <3>1
      <4> QED
        BY <4>1
    <3> QED
      BY <3>1
  <2>3. f /\ native = "none" => lost
    BY DEF Aligned, Explained
  <2> QED
    BY <2>1, <2>2, <2>3 DEF Aligned, Covers, Lost
<1> QED
  BY <1>1, <1>2, <1>3, <1>4 DEF Effects3

\* A flag that is exact before a command that fails stays exact.
LEMMA FailureAligns ==
    ASSUME native \in {"none", "open", "aborted"}, lost \in BOOLEAN,
           NEW f \in BOOLEAN, Aligned(f),
           NEW c \in Commands, NEW o \in Outcomes(c), ~o.ok,
           native' = o.native, lost' = Lost(o, f)
    PROVE  (native' # "none" => f) /\ (f /\ native' = "none" => lost')
<1>1. native' # "none" => native # "none"
  BY OutcomeFacts
<1>2. f /\ native' = "none" => lost \/ o.lost
  BY OutcomeFacts DEF Aligned, Explained
<1> QED
  BY <1>1, <1>2 DEF Aligned, Covers, Lost

-----------------------------------------------------------------------------

\* DuckDB performs a command of the grammar's control set, or another one.
LEMMA CommandTyped == \A s : Command(s) \in Commands
BY DEF Command, Commands

LEMMA FunctionSequence ==
    ASSUME NEW S, NEW n \in Nat, NEW f \in [1..n -> S]
    PROVE  f \in Seq(S) /\ Len(f) = n
OBVIOUS

\* beginTransaction, commit and rollBack: PDO core sets the flag the command
\* has the effect of, when it succeeds.
LEMMA SimpleAligns ==
    ASSUME IInv, NEW c \in Commands, NEW flag \in BOOLEAN,
           flag = Applied(inTxn, Effect(c)), Simple(c, flag)
    PROVE  IInv'
<1>1. CASE Denied
  BY <1>1 DEF IInv, Denied, vars, Aligned, Covers, Explained, StepByStep,
     InOneCall, Owed
<1>2. ASSUME NEW o \in Outcomes(c),
             native' = o.native, inTxn' = IF o.ok THEN flag ELSE inTxn,
             lost' = Lost(o, inTxn'), UNCHANGED run
      PROVE  IInv'
  <2>1. /\ run = None /\ Aligned(inTxn) /\ inTxn \in BOOLEAN
        /\ native \in {"none", "open", "aborted"} /\ lost \in BOOLEAN
    BY DEF IInv, Simple
  <2>2. /\ native' \in {"none", "open", "aborted"} /\ o.ok \in BOOLEAN
        /\ o.lost \in BOOLEAN
    BY <1>2, <2>1, OutcomeFacts
  <2>3. inTxn' \in BOOLEAN /\ lost' \in BOOLEAN
    BY <1>2, <2>1, <2>2 DEF Lost
  <2>4. Aligned(inTxn)'
    <3>1. CASE o.ok
      <4>1. inTxn' = flag /\ lost' = Lost(o, flag)
        BY <1>2, <3>1
      <4>2. /\ native' # "none" => flag
            /\ flag /\ native' = "none" => lost'
        BY <1>2, <2>1, <3>1, <4>1, SuccessAligns
      <4> QED
        BY <4>1, <4>2 DEF Aligned, Covers, Explained
    <3>2. CASE ~o.ok
      <4>1. inTxn' = inTxn /\ lost' = Lost(o, inTxn)
        BY <1>2, <3>2
      <4>2. /\ native' # "none" => inTxn
            /\ inTxn /\ native' = "none" => lost'
        BY <1>2, <2>1, <3>2, <4>1, FailureAligns
      <4> QED
        BY <4>1, <4>2 DEF Aligned, Covers, Explained
    <3> QED
      BY <3>1, <3>2
  <2> QED
    BY <1>2, <2>1, <2>2, <2>3, <2>4 DEF IInv
<1> QED
  BY <1>1, <1>2 DEF Simple

\* execute() of a prepared statement applies the effect of its only statement.
LEMMA ExecuteAligns ==
    ASSUME IInv, NEW b \in Batches, Understood(b), Execute(b)
    PROVE  IInv'
<1> DEFINE c == Command(Statements(b)[1])
<1>1. PICK o \in Outcomes(c), described \in BOOLEAN :
        /\ native' = o.native
        /\ inTxn' = IF o.ok THEN ExecutedFlag(b, described) ELSE inTxn
        /\ lost' = Lost(o, inTxn')
  BY DEF Execute
<1>2. /\ run = None /\ UNCHANGED run /\ Aligned(inTxn) /\ inTxn \in BOOLEAN
      /\ native \in {"none", "open", "aborted"} /\ lost \in BOOLEAN
  BY DEF IInv, Execute
<1>3. c \in Commands
  BY CommandTyped
<1>4. FirstEffect(b) = Effect(c) /\ Effect(c) \in Effects3
  BY <1>3, EffectFacts DEF Understood, Execute
<1> HIDE DEF c
<1>5. /\ native' \in {"none", "open", "aborted"} /\ o.ok \in BOOLEAN
      /\ o.lost \in BOOLEAN
  BY <1>1, <1>2, <1>3, OutcomeFacts
<1> DEFINE flag == Applied(inTxn, Effect(c))
<1>6. flag \in BOOLEAN /\ ExecutedFlag(b, described) = flag
  BY <1>2, <1>4, AppliedFacts DEF ExecutedFlag
<1> HIDE DEF flag
<1>7. inTxn' \in BOOLEAN /\ lost' \in BOOLEAN
  BY <1>1, <1>2, <1>5, <1>6 DEF Lost
<1>8. Aligned(inTxn)'
  <2>1. CASE o.ok
    <3>1. inTxn' = flag /\ lost' = Lost(o, flag)
      BY <1>1, <1>6, <2>1
    <3>2. flag = Applied(inTxn, Effect(c))
      BY DEF flag
    <3>3. /\ native' # "none" => flag
          /\ flag /\ native' = "none" => lost'
      BY <1>1, <1>2, <1>3, <1>6, <2>1, <3>1, <3>2, SuccessAligns
    <3> QED
      BY <3>1, <3>3 DEF Aligned, Covers, Explained
  <2>2. CASE ~o.ok
    <3>1. inTxn' = inTxn /\ lost' = Lost(o, inTxn)
      BY <1>1, <2>2
    <3>2. /\ native' # "none" => inTxn
          /\ inTxn /\ native' = "none" => lost'
      BY <1>1, <1>2, <1>3, <2>2, <3>1, FailureAligns
    <3> QED
      BY <3>1, <3>2 DEF Aligned, Covers, Explained
  <2> QED
    BY <2>1, <2>2
<1> QED
  BY <1>2, <1>5, <1>7, <1>8 DEF IInv, Execute

\* exec() takes a text apart as DuckDB does, or runs it in one call.
LEMMA ExecAligns ==
    ASSUME IInv, NEW b \in Batches, Understood(b), Exec(b)
    PROVE  IInv'
<1>1. CASE Denied
  BY <1>1 DEF IInv, Denied, vars, Aligned, Covers, Explained, StepByStep,
     InOneCall, Owed
<1> DEFINE n == Len(Statements(b))
           Does(i) == Effect(Command(Statements(b)[i]))
           left == [i \in 1..n |-> Command(Statements(b)[i])]
<1>2. ASSUME NEW path \in Paths(b), path = "multi" => Agreed(b),
             run' = [path |-> path, left |-> left, effects |-> Effects(b),
                     last |-> IF path = "query" THEN WholeEffect(b)
                              ELSE "none"],
             UNCHANGED <<native, inTxn, lost>>
      PROVE  IInv'
  <2>1. path \in {"query", "multi", "bridge"}
    BY <1>2 DEF Paths
  <2>2. n \in Nat /\ Effects(b) \in Seq(Effects3)
    BY DEF Understood
  <2>3. left \in Seq(Commands) /\ Len(left) = n
          /\ \A i \in 1..n : left[i] = Command(Statements(b)[i])
    <3>1. left \in [1..n -> Commands]
      BY CommandTyped
    <3> QED
      BY <2>2, <3>1, FunctionSequence
  <2>4. path = "multi" => Multiple(b) /\ Controls(b)
    BY <1>2 DEF Paths
  <2>5. path = "query" => ~(Multiple(b) /\ Controls(b))
    BY <1>2 DEF Paths
  <2>6. path = "query" => \/ n = 1 /\ WholeEffect(b) = Does(1)
                          \/ /\ WholeEffect(b) = "none"
                             /\ \A i \in 1..n :
                                  Command(Statements(b)[i]) = "other"
    BY <2>5 DEF Understood
  <2>7. path = "query" => WholeEffect(b) \in Effects3
    BY <2>6, CommandTyped, EffectFacts DEF Effects3
  <2>8. path = "multi" => /\ Len(Effects(b)) = n
                          /\ \A i \in 1..n : Effects(b)[i] = Does(i)
    BY <1>2, <2>4 DEF Understood, Agreed
  <2> HIDE DEF left, n
  <2>9. run' \in Runs
    BY <1>2, <2>1, <2>2, <2>3, <2>7 DEF Runs, Effects3
  <2>10. run' # None
    BY <2>9, NoneAssumption
  <2>11. /\ run'.path = path /\ run'.left = left /\ run'.effects = Effects(b)
         /\ run'.last = IF path = "query" THEN WholeEffect(b) ELSE "none"
    BY <1>2
  <2>12. Aligned(inTxn) /\ Aligned(inTxn)' /\ inTxn \in BOOLEAN
    BY <1>2 DEF IInv, Exec, Aligned, Covers, Explained
  <2>13. path = "multi" => StepByStep'
    BY <2>3, <2>8, <2>11, <2>12 DEF StepByStep
  <2>14. path = "query" => InOneCall'
    BY <2>3, <2>6, <2>11, <2>12 DEF InOneCall
  <2>15. path = "bridge" => Owed'
    <3>1. Applied(inTxn, "none") = inTxn
      BY DEF Applied
    <3>2. path = "bridge" => run'.last = "none" /\ Applied(inTxn, run.last)' = inTxn'
      BY <2>11, <1>2, <3>1 DEF Applied
    <3> QED
      BY <2>12, <3>2 DEF Owed
  <2> QED
    BY <1>2, <2>9, <2>10, <2>11, <2>13, <2>14, <2>15 DEF IInv
<1> QED
  BY <1>1, <1>2 DEF Exec

\* What a call in progress knows before its next statement.
LEMMA Running ==
    ASSUME IInv, run # None, run.left # <<>>
    PROVE  /\ run \in Runs /\ inTxn \in BOOLEAN /\ lost \in BOOLEAN
           /\ native \in {"none", "open", "aborted"}
           /\ run.left \in Seq(Commands) /\ Len(run.left) \in Nat \ {0}
           /\ Head(run.left) = run.left[1] /\ run.left[1] \in Commands
           /\ Tail(run.left) \in Seq(Commands)
           /\ Len(Tail(run.left)) = Len(run.left) - 1
           /\ \A i \in 1..Len(Tail(run.left)) :
                Tail(run.left)[i] = run.left[i + 1]
           /\ run.effects \in Seq(Effects3) /\ run.last \in Effects3
<1>1. run \in Runs /\ inTxn \in BOOLEAN /\ lost \in BOOLEAN
        /\ native \in {"none", "open", "aborted"}
  BY DEF IInv
<1>2. /\ run.left \in Seq(Commands) /\ run.effects \in Seq(Effects3)
      /\ run.last \in Effects3
  BY <1>1 DEF Runs
<1>3. /\ Head(run.left) \in Commands /\ Tail(run.left) \in Seq(Commands)
      /\ Len(Tail(run.left)) = Len(run.left) - 1
      /\ \A i \in 1..Len(Tail(run.left)) : Tail(run.left)[i] = run.left[i + 1]
  BY <1>2, HeadTailProperties
<1>4. Head(run.left) = run.left[1] /\ Len(run.left) \in Nat \ {0}
  BY <1>2
<1> QED
  BY <1>1, <1>2, <1>3, <1>4

\* A statement that succeeds on its own moves the flag as it moves DuckDB.
LEMMA StepByStepNext ==
    ASSUME IInv, run # None, run.path = "multi", RunStatement
    PROVE  IInv'
<1> DEFINE c == Head(run.left)
<1>1. run.left # <<>> /\ run # None
  BY DEF RunStatement
<1>2. PICK o \in Outcomes(c) :
        /\ o.ok /\ native' = o.native
        /\ inTxn' = Applied(inTxn, Head(run.effects))
        /\ lost' = Lost(o, inTxn')
        /\ run' = [run EXCEPT !.left = Tail(@), !.effects = Tail(@),
                              !.last = run.last]
  BY DEF RunStatement, StepFlag
<1>3. StepByStep
  BY DEF IInv
<1>4. /\ Head(run.effects) = Effect(c) /\ c \in Commands
      /\ Tail(run.effects) \in Seq(Effects3)
      /\ Len(Tail(run.effects)) = Len(run.effects) - 1
      /\ \A i \in 1..Len(Tail(run.effects)) :
           Tail(run.effects)[i] = run.effects[i + 1]
  <2>1. run.effects \in Seq(Effects3) /\ run.effects # <<>>
    BY <1>1, <1>3, Running DEF StepByStep
  <2>2. Head(run.effects) = run.effects[1] /\ run.effects[1] = Effect(run.left[1])
    BY <1>1, <1>3, <2>1, Running DEF StepByStep
  <2> QED
    BY <1>1, <2>1, <2>2, Running, HeadTailProperties
<1>5. /\ run' \in Runs /\ run'.path = "multi"
      /\ run'.left = Tail(run.left) /\ run'.effects = Tail(run.effects)
  BY <1>1, <1>2, <1>4, Running DEF Runs
<1>6. inTxn' = Applied(inTxn, Effect(c)) /\ inTxn' \in BOOLEAN
  BY <1>1, <1>2, <1>4, Running, AppliedFacts, EffectFacts
<1>7. /\ native' \in {"none", "open", "aborted"} /\ lost' \in BOOLEAN
  BY <1>1, <1>2, <1>4, <1>6, Running, OutcomeFacts DEF Lost
<1>8. Aligned(inTxn)'
  <2>1. Aligned(inTxn)
    BY <1>3 DEF StepByStep
  <2> DEFINE flag == Applied(inTxn, Effect(c))
  <2>2. flag \in BOOLEAN
    BY <1>6
  <2>3. lost' = Lost(o, flag)
    BY <1>2, <1>6
  <2>4. /\ native' # "none" => flag
        /\ flag /\ native' = "none" => lost'
    BY <1>1, <1>2, <1>4, <2>1, <2>2, <2>3, Running, SuccessAligns
  <2> QED
    BY <1>6, <2>4 DEF Aligned, Covers, Explained
<1>9. StepByStep'
  <2>1. Len(run'.effects) = Len(run'.left)
    BY <1>1, <1>3, <1>4, <1>5, Running DEF StepByStep
  <2>2. \A i \in 1..Len(run'.left) : run'.effects[i] = Effect(run'.left[i])
    BY <1>1, <1>3, <1>4, <1>5, <2>1, Running DEF StepByStep
  <2> QED
    BY <1>8, <2>1, <2>2 DEF StepByStep
<1>10. run' # None
  BY <1>5, NoneAssumption
<1> QED
  BY <1>5, <1>6, <1>7, <1>9, <1>10 DEF IInv

\* A statement of a text run in one call moves DuckDB only; if it is the text's
\* only one, its effect is the one to be applied.
LEMMA InOneCallNext ==
    ASSUME IInv, run # None, run.path = "query", RunStatement
    PROVE  IInv'
<1> DEFINE c == Head(run.left)
<1>1. run.left # <<>> /\ run # None
  BY DEF RunStatement
<1>2. PICK o \in Outcomes(c) :
        /\ o.ok /\ native' = o.native /\ inTxn' = inTxn
        /\ lost' = Lost(o, inTxn)
        /\ run' = [run EXCEPT !.left = Tail(@), !.effects = @, !.last = @]
  BY DEF RunStatement
<1>3. /\ run' \in Runs /\ run'.path = "query"
      /\ run'.left = Tail(run.left) /\ run'.last = run.last
  BY <1>1, <1>2, Running DEF Runs
<1>4. /\ Aligned(inTxn)
      /\ \/ /\ run.last = "none"
            /\ \A i \in 1..Len(run.left) : run.left[i] = "other"
         \/ Len(run.left) = 1 /\ run.last = Effect(run.left[1])
  BY <1>1 DEF IInv, InOneCall
<1>5. /\ native' \in {"none", "open", "aborted"} /\ lost' \in BOOLEAN
      /\ inTxn' \in BOOLEAN /\ c \in Commands
  BY <1>1, <1>2, Running, OutcomeFacts DEF Lost
<1>6. Effect(c) = run.last
  BY <1>1, <1>4, Running, EffectFacts
<1>7. /\ native' # "none" => Applied(inTxn, run.last)
      /\ Applied(inTxn, run.last) /\ native' = "none" => lost'
  BY <1>1, <1>2, <1>4, <1>5, <1>6, Running, SuccessAligns
<1>8. InOneCall'
  <2>1. CASE Len(run.left) = 1
    <3>1. Tail(run.left) = <<>>
      <4>1. Tail(run.left) \in Seq(Commands) /\ Len(Tail(run.left)) = 0
        BY <1>1, <2>1, Running
      <4> QED
        BY <4>1, EmptySeq
    <3> QED
      BY <1>2, <1>3, <1>7, <3>1
         DEF InOneCall, Aligned, Covers, Explained, Applied
  <2>2. CASE run.last = "none"
               /\ \A i \in 1..Len(run.left) : run.left[i] = "other"
    <3>1. \A i \in 1..Len(Tail(run.left)) : Tail(run.left)[i] = "other"
      BY <1>1, <2>2, Running
    <3>2. Applied(inTxn, run.last) = inTxn
      BY <1>1, <2>2, Running, AppliedFacts
    <3>3. Aligned(inTxn)'
      BY <1>2, <1>7, <3>2 DEF Aligned, Covers, Explained
    <3> QED
      BY <1>3, <2>2, <3>1, <3>3 DEF InOneCall
  <2> QED
    BY <1>4, <2>1, <2>2
<1>9. run' # None
  BY <1>3, NoneAssumption
<1> QED
  BY <1>3, <1>5, <1>8, <1>9 DEF IInv

\* The bridge notes what it has executed.
LEMMA BridgeNext ==
    ASSUME IInv, run # None, run.path = "bridge", RunStatement
    PROVE  IInv'
<1> DEFINE c == Head(run.left)
           last == BridgeLast(c)
           f == Applied(inTxn, run.last)
<1>1. run.left # <<>> /\ run # None
  BY DEF RunStatement
<1>2. PICK o \in Outcomes(c) :
        /\ o.ok /\ native' = o.native /\ inTxn' = inTxn
        /\ lost' = Lost(o, inTxn)
        /\ run' = [run EXCEPT !.left = Tail(@), !.effects = @, !.last = last]
  BY DEF RunStatement
<1>3. c \in Commands /\ last \in Effects3
  BY <1>1, Running, EffectFacts DEF BridgeLast
<1>4. /\ run' \in Runs /\ run'.path = "bridge" /\ run'.last = last
  BY <1>1, <1>2, <1>3, Running DEF Runs
<1>5. Aligned(f) /\ (run.last = "open" => native # "none") /\ f \in BOOLEAN
  BY <1>1, Running, AppliedFacts DEF IInv, Owed
<1>6. /\ native' \in {"none", "open", "aborted"} /\ lost' \in BOOLEAN
      /\ inTxn' \in BOOLEAN
  BY <1>1, <1>2, <1>3, Running, OutcomeFacts DEF Lost
<1>7. f /\ native = "none" => inTxn
  BY <1>1, <1>5, Running, AppliedFacts DEF Effects3
<1>8. Applied(f, Effect(c)) = Applied(inTxn, last)
  <2>1. CASE c = "other"
    BY ZenonT(60), <1>1, <1>5, <2>1, Running, EffectFacts, AppliedFacts DEF BridgeLast
  <2>2. CASE c # "other"
    <3>1. last = Effect(c) /\ Effect(c) \in {"open", "close"}
      BY <1>3, <2>2, EffectFacts DEF BridgeLast, Commands, Control
    <3> QED
      BY <3>1 DEF Applied
  <2> QED
    BY <2>1, <2>2
<1>9. /\ native' # "none" => Applied(f, Effect(c))
      /\ Applied(f, Effect(c)) /\ native' = "none" => lost'
  <2> HIDE DEF f, c, last
  <2>1. inTxn \in BOOLEAN /\ lost \in BOOLEAN
          /\ native \in {"none", "open", "aborted"}
    BY DEF IInv
  <2> QED
    BY <1>2, <1>3, <1>5, <1>7, <2>1, SuccessAligns
<1>10. last = "open" => native' # "none"
  <2>1. CASE c = "other"
    BY <1>1, <1>2, <1>3, <1>5, <2>1, Running, OutcomeFacts, EffectFacts
       DEF BridgeLast
  <2>2. CASE c # "other"
    BY <1>1, <1>2, <1>3, <2>2, Running, OutcomeFacts DEF BridgeLast
  <2> QED
    BY <2>1, <2>2
<1>11. Owed'
  <2>1. Applied(inTxn, run.last)' = Applied(inTxn, last)
    BY <1>2, <1>4 DEF Applied
  <2> QED
    BY <1>4, <1>8, <1>9, <1>10, <2>1 DEF Owed, Aligned, Covers, Explained
<1>12. run' # None
  BY <1>4, NoneAssumption
<1> QED
  BY <1>4, <1>6, <1>11, <1>12 DEF IInv

\* A statement that fails ends the call; the bridge still pays what it owes.
LEMMA FailAligns ==
    ASSUME IInv, FailStatement
    PROVE  IInv'
<1>1. run.left # <<>> /\ run # None /\ run' = None
  BY DEF FailStatement
<1> DEFINE c == Head(run.left)
           f == IF run.path = "bridge" THEN Applied(inTxn, run.last) ELSE inTxn
<1>2. PICK o \in Outcomes(c) :
        ~o.ok /\ native' = o.native /\ inTxn' = f /\ lost' = Lost(o, f)
  BY DEF FailStatement, BridgeFlag
<1>3. Aligned(f) /\ f \in BOOLEAN
  <2>1. run.path \in {"query", "multi", "bridge"}
    BY <1>1, Running DEF Runs
  <2>2. CASE run.path = "bridge"
    BY <1>1, <2>2, Running, AppliedFacts DEF IInv, Owed
  <2>3. CASE run.path = "multi"
    BY <1>1, <2>3, Running DEF IInv, StepByStep
  <2>4. CASE run.path = "query"
    BY <1>1, <2>4, Running DEF IInv, InOneCall
  <2> QED
    BY <2>1, <2>2, <2>3, <2>4
<1>4. c \in Commands /\ lost \in BOOLEAN /\ native \in {"none", "open", "aborted"}
  BY <1>1, Running
<1> HIDE DEF f, c
<1>5. /\ native' \in {"none", "open", "aborted"} /\ lost' \in BOOLEAN
  BY <1>2, <1>3, <1>4, OutcomeFacts DEF Lost
<1>6. /\ native' # "none" => f
      /\ f /\ native' = "none" => lost'
  BY <1>2, <1>3, <1>4, FailureAligns
<1>7. Aligned(inTxn)'
  BY <1>2, <1>6 DEF Aligned, Covers, Explained
<1> QED
  BY <1>1, <1>2, <1>3, <1>5, <1>7 DEF IInv

\* So it does when it cannot read the result.
LEMMA UnreadableAligns ==
    ASSUME IInv, UnreadableResult
    PROVE  IInv'
<1>1. /\ run # None /\ run.path = "bridge" /\ run' = None
      /\ inTxn' = Applied(inTxn, run.last) /\ lost' = (inTxn' /\ lost)
      /\ native' = native
  BY DEF UnreadableResult, BridgeFlag
<1>2. run.last \in Effects3 /\ inTxn \in BOOLEAN /\ lost \in BOOLEAN
  BY <1>1 DEF IInv, Runs
<1>3. inTxn' \in BOOLEAN
  BY <1>1, <1>2, AppliedFacts
<1>4. Aligned(Applied(inTxn, run.last))
  BY <1>1 DEF IInv, Owed
<1>5. Aligned(inTxn)'
  BY <1>1, <1>4 DEF Aligned, Covers, Explained
<1> QED
  BY <1>1, <1>2, <1>3, <1>5 DEF IInv

\* A call denied between two statements leaves an exact flag.
LEMMA DeniedAligns ==
    ASSUME IInv, DeniedMidway
    PROVE  IInv'
<1>1. Aligned(inTxn)
  BY DEF IInv, StepByStep, DeniedMidway
<1> QED
  BY <1>1 DEF IInv, DeniedMidway, Aligned, Covers, Explained

\* The end of a text applies what is owed or expected of it.
LEMMA EndAligns ==
    ASSUME IInv, EndBatch
    PROVE  IInv'
<1>1. /\ run # None /\ run.left = <<>> /\ run' = None /\ native' = native
      /\ lost' = (inTxn' /\ lost)
  BY DEF EndBatch
<1>2. /\ run.last \in Effects3 /\ run.path \in {"query", "multi", "bridge"}
      /\ inTxn \in BOOLEAN /\ lost \in BOOLEAN
  BY <1>1 DEF IInv, Runs
<1> DEFINE f == IF run.path = "multi" THEN inTxn ELSE Applied(inTxn, run.last)
<1>3. inTxn' = f /\ f \in BOOLEAN
  BY <1>2, AppliedFacts DEF EndBatch, BridgeFlag
<1>4. Aligned(f)
  <2>1. CASE run.path = "multi"
    BY <1>1, <2>1 DEF IInv, StepByStep
  <2>2. CASE run.path = "bridge"
    BY <1>1, <2>2 DEF IInv, Owed
  <2>3. CASE run.path = "query"
    <3>1. \/ Aligned(inTxn) /\ run.last = "none"
          \/ Aligned(Applied(inTxn, run.last))
      BY <1>1, <2>3 DEF IInv, InOneCall
    <3>2. run.last = "none" => Applied(inTxn, run.last) = inTxn
      BY <1>2, AppliedFacts
    <3>3. Aligned(Applied(inTxn, run.last))
      BY <3>1, <3>2
    <3> QED
      BY <2>3, <3>3
  <2> QED
    BY <1>2, <2>1, <2>2, <2>3
<1> HIDE DEF f
<1>5. Aligned(inTxn)'
  BY <1>1, <1>3, <1>4 DEF Aligned, Covers, Explained
<1> QED
  BY <1>1, <1>2, <1>3, <1>5 DEF IInv

-----------------------------------------------------------------------------

\* The invariant, when the scanner reads every text exec() and prepare() are
\* given as DuckDB does.
THEOREM Invariance ==
    ASSUME \A b \in Batches : Understood(b)
    PROVE  Spec => []IInv
<1>1. Init => IInv
  BY DEF Init, IInv, Aligned, Covers, Explained
<1>2. IInv /\ [Next]_vars => IInv'
  <2> SUFFICES ASSUME IInv, [Next]_vars
               PROVE  IInv'
    OBVIOUS
  <2>1. CASE Begin
    <3>1. TRUE = Applied(inTxn, Effect("BEGIN")) /\ Simple("BEGIN", TRUE)
            /\ "BEGIN" \in Commands
      BY <2>1 DEF Begin, Applied, Effect, Commands, Control
    <3> QED
      BY <3>1, SimpleAligns
  <2>2. CASE Commit
    <3>1. FALSE = Applied(inTxn, Effect("COMMIT")) /\ Simple("COMMIT", FALSE)
            /\ "COMMIT" \in Commands
      BY <2>2 DEF Commit, Applied, Effect, Commands, Control
    <3> QED
      BY <3>1, SimpleAligns
  <2>3. CASE Rollback
    <3>1. FALSE = Applied(inTxn, Effect("ROLLBACK"))
            /\ Simple("ROLLBACK", FALSE) /\ "ROLLBACK" \in Commands
      BY <2>3 DEF Rollback, Applied, Effect, Commands, Control
    <3> QED
      BY <3>1, SimpleAligns
  <2>4. ASSUME NEW b \in Batches, Exec(b) \/ Execute(b)
        PROVE  IInv'
    BY <2>4, ExecAligns, ExecuteAligns
  <2>5. CASE RunStatement
    <3>1. run # None /\ run.path \in {"query", "multi", "bridge"}
      BY <2>5 DEF IInv, Runs, RunStatement
    <3> QED
      BY <2>5, <3>1, StepByStepNext, InOneCallNext, BridgeNext
  <2>6. CASE UNCHANGED vars
    BY <2>6 DEF vars, IInv, Aligned, Covers, Explained, StepByStep, InOneCall,
       Owed
  <2> QED
    BY <2>1, <2>2, <2>3, <2>4, <2>5, <2>6, FailAligns, UnreadableAligns,
       DeniedAligns, EndAligns DEF Next
<1> QED
  BY <1>1, <1>2, PTL DEF Spec

\* No invisible transaction (duckdb_driver.c, transaction_flags and
\* exec_transaction_multi): PDO's flag covers DuckDB's transaction between
\* calls, and between the statements of a batch run one by one.
THEOREM NoInvisibleTransactions ==
    ASSUME \A b \in Batches : Understood(b)
    PROVE  Spec => []FlagCoversTransaction
<1>1. IInv => FlagCoversTransaction
  BY DEF IInv, FlagCoversTransaction, StepByStep, Aligned, Covers
<1> QED
  BY <1>1, Invariance, PTL

\* The flag outlives its transaction only after a COMMIT that failed, for which
\* the driver waits for a rollBack().
THEOREM PhantomsAreLostCommits ==
    ASSUME \A b \in Batches : Understood(b)
    PROVE  Spec => []PhantomOnlyAfterLostCommit
<1>1. IInv => PhantomOnlyAfterLostCommit
  BY DEF IInv, PhantomOnlyAfterLostCommit, Aligned, Explained
<1> QED
  BY <1>1, Invariance, PTL

-----------------------------------------------------------------------------
(* The lexer's steps.                                                       *)

\* After a character of each mode.
LEMMA AfterFacts ==
  ASSUME NEW c
  PROVE  /\ After("code", c) = CodeMode(c)
         /\ NameContinue(c) => After("word", c) = "word" /\ After("E", c) = "word"
         /\ ~NameContinue(c) => After("word", c) = CodeMode(c)
         /\ ~NameContinue(c) /\ c # "'" => After("E", c) = CodeMode(c)
         /\ After("E", "'") = "e"
         /\ After("dash", "-") = "line"
         /\ c # "-" => After("dash", c) = CodeMode(c)
         /\ After("slash", "*") = "block"
         /\ c # "*" => After("slash", c) = CodeMode(c)
         /\ c # "nl" => After("line", c) = "line"
         /\ After("line", "nl") = "code"
<1>1. NameContinue(c) <=> c \in {"a", "E", "1", "$", "hi"}
  BY DEF NameContinue, WordContinue, Letters, Digits
<1>2. ~NameContinue("'")
  BY DEF NameContinue, WordContinue, Letters, Digits
<1> QED  BY <1>1, <1>2 DEF After, CodeMode

\* A literal's quote, whether a backslash escapes in it, the mode inside it and
\* the mode after a quote.
Literal(quote, escapes, mode, closing) ==
  \/ quote = "'" /\ escapes = FALSE /\ mode = "'" /\ closing = "''"
  \/ quote = "dq" /\ escapes = FALSE /\ mode = "dq" /\ closing = "dqdq"
  \/ quote = "'" /\ escapes = TRUE /\ mode = "e" /\ closing = "e'"

\* What a literal's characters do.
LEMMA AfterLiteralFacts ==
  ASSUME NEW quote, NEW escapes, NEW mode, NEW closing,
         Literal(quote, escapes, mode, closing)
  PROVE  /\ After(mode, quote) = closing /\ After(closing, quote) = mode
         /\ quote # "bs" /\ quote # "end" /\ escapes \in BOOLEAN
         /\ mode \notin BlockModes \cup {"$", "dollar", "code"}
         /\ closing \notin BlockModes \cup {"$", "dollar", "code"}
         /\ \A c : c # quote => After(closing, c) = CodeMode(c)
         /\ \A c : (c # quote /\ ~(escapes /\ c = "bs")) => After(mode, c) = mode
         /\ escapes => /\ After(mode, "bs") = "ebs"
                       /\ \A c : After("ebs", c) = mode
<1>1. CASE quote = "'" /\ escapes = FALSE /\ mode = "'" /\ closing = "''"
  BY <1>1 DEF After, BlockModes
<1>2. CASE quote = "dq" /\ escapes = FALSE /\ mode = "dq" /\ closing = "dqdq"
  BY <1>2 DEF After, BlockModes
<1>3. CASE quote = "'" /\ escapes = TRUE /\ mode = "e" /\ closing = "e'"
  BY <1>3 DEF After, BlockModes
<1> QED  BY <1>1, <1>2, <1>3 DEF Literal

\* Outside block comments and dollar quotes only the mode counts.
LEMMA LexedPlainly ==
  ASSUME NEW s, NEW p, NEW mode, mode \notin BlockModes \cup {"$", "dollar"}
  PROVE  Lexed(s, p, Entered(mode)) = Entered(After(mode, s[p]))
<1>1. Entered(mode).mode = mode  BY DEF Entered
<1> QED  BY <1>1 DEF Lexed

\* In a block comment.
LEMMA InBlockFacts ==
  ASSUME NEW mode \in BlockModes, NEW d, NEW c
  PROVE  /\ (c = "/" /\ mode # "block*") => InBlock(mode, d, c) = Commented("block/", d)
         /\ (c = "*" /\ mode # "block/") => InBlock(mode, d, c) = Commented("block*", d)
         /\ (c # "*" /\ c # "/") => InBlock(mode, d, c) = Commented("block", d)
         /\ InBlock("block*", d, "/") =
               IF d = 1 THEN Entered("code") ELSE Commented("block", d - 1)
         /\ InBlock("block/", d, "*") = Commented("block", d + 1)
BY DEF InBlock, BlockModes

\* The lexer's step in a block comment.
LEMMA LexedInBlock ==
  ASSUME NEW s, NEW p, NEW mode \in BlockModes, NEW d
  PROVE  Lexed(s, p, Commented(mode, d)) = InBlock(mode, d, s[p])
<1>1. Commented(mode, d).mode = mode /\ Commented(mode, d).depth = d  BY DEF Commented
<1> QED  BY <1>1 DEF Lexed, BlockModes

\* What begins at a character of code.
LEMMA CodeModes ==
  ASSUME NEW c
  PROVE  /\ CodeMode(c) \in {"code", "'", "dq", "bq", "$", "dash", "slash", "E", "word"}
         /\ CodeMode("'") = "'" /\ CodeMode("dq") = "dq" /\ CodeMode("$") = "$"
         /\ CodeMode("-") = "dash" /\ CodeMode("/") = "slash"
         /\ CodeMode("E") = "E" /\ CodeMode("a") = "word" /\ CodeMode("hi") = "word"
         /\ c \notin {"'", "dq", "bq", "$", "-", "/", "E", "a", "hi"} => CodeMode(c) = "code"
BY DEF CodeMode

Chars == UNION {a[1] : a \in Alphabets}

\* h[i] is the lexer after i characters of s.
History(s, h) ==
  /\ s \in Seq(Chars)
  /\ h[0] = Entered("code")
  /\ \A i \in 1..Len(s) : h[i] = Lexed(s, i, h[i - 1])

\* The character at p is read as code.
Fresh(s, h, p) == p \in 1..Len(s) => h[p] = Entered(CodeMode(s[p]))

\* The lexer reads a semicolon as code at i.
Separates(s, h, i) == s[i] = ";" /\ h[i].mode = "code"

\* No separator from a on before b.
Silent(s, h, a, b) == \A i \in a..b - 1 : ~Separates(s, h, i)

\* From a the text goes on as code at r, past no separator.
Lands(s, h, a, r) == r \in a..Len(s) + 1 /\ Fresh(s, h, r) /\ Silent(s, h, a, r)

\* One more character before, which is no separator.
LEMMA LandsLater ==
  ASSUME NEW s \in Seq(Chars), NEW h, NEW p \in 1..Len(s), NEW r,
         Lands(s, h, p + 1, r), ~Separates(s, h, p)
  PROVE  Lands(s, h, p, r)
<1>1. PICK n \in Nat : n = Len(s)  OBVIOUS
<1>2. r \in p + 1 .. n + 1 /\ Fresh(s, h, r) /\ Silent(s, h, p + 1, r)  BY <1>1 DEF Lands
<1>3. Silent(s, h, p, r)
  <2> SUFFICES ASSUME NEW i \in p..r - 1  PROVE i = p \/ i \in p + 1 .. r - 1
    BY <1>2 DEF Silent
  <2> QED  BY <1>1, <1>2
<1>4. r \in p..n + 1  BY <1>1, <1>2
<1> QED  BY <1>1, <1>2, <1>3, <1>4 DEF Lands

\* No separator is read in another mode.
LEMMA NotInCode ==
  ASSUME NEW s, NEW h, NEW p, NEW mode, mode # "code", h[p] = Entered(mode)
  PROVE  ~Separates(s, h, p)
<1>1. h[p].mode = mode  BY DEF Entered
<1> QED  BY <1>1, Zenon DEF Separates

\* Where the text goes on as code.
LEMMA LandsHere ==
  ASSUME NEW s \in Seq(Chars), NEW h, NEW p \in 1..Len(s) + 1, Fresh(s, h, p)
  PROVE  Lands(s, h, p, p)
<1>1. p \in p..Len(s) + 1  OBVIOUS
<1>2. p..p - 1 = {}  OBVIOUS
<1>3. Silent(s, h, p, p)  BY <1>2 DEF Silent
<1> QED  BY <1>1, <1>3 DEF Lands

\* The next character outside block comments and dollar quotes.
LEMMA NextPlain ==
  ASSUME NEW s, NEW h, History(s, h), NEW p \in 1..Len(s),
         NEW mode, mode \notin BlockModes \cup {"$", "dollar"},
         h[p - 1] = Entered(mode)
  PROVE  h[p] = Entered(After(mode, s[p]))
<1>1. h[p] = Lexed(s, p, Entered(mode))  BY DEF History
<1> QED  BY <1>1, LexedPlainly

\* The first of some positions, or the end of the text.
LEMMA FirstOf ==
  ASSUME NEW n \in Nat, NEW p \in 1..n + 1, NEW T, T \subseteq p..n
  PROVE  /\ Min(T \cup {n + 1}) \in p..n + 1
         /\ Min(T \cup {n + 1}) <= n => Min(T \cup {n + 1}) \in T
         /\ \A q \in p..Min(T \cup {n + 1}) - 1 : q \notin T
<1> DEFINE S == T \cup {n + 1}
<1>1. S \in SUBSET Nat /\ S # {} /\ S \subseteq p..n + 1  OBVIOUS
<1>2. \A x \in S : x = n + 1 \/ x \in T  OBVIOUS
<1>3. T \subseteq S  OBVIOUS
<1> HIDE DEF S
<1>4. PICK m : m = Min(S)  OBVIOUS
<1>5. m \in S /\ \A x \in S : m <= x  BY <1>1, <1>4, LeastIn, NoneBelow
<1>6. \A q \in p..m - 1 : q \notin T  BY <1>1, <1>3, <1>5
<1>7. m \in p..n + 1 /\ (m <= n => m \in T)  BY <1>1, <1>2, <1>5
<1> QED  BY <1>4, <1>6, <1>7 DEF S

-----------------------------------------------------------------------------
(* Quoted literals.                                                         *)

QuotedValue(s, quote, escapes, after, p) ==
  IF p > Len(s) THEN p
  ELSE IF escapes /\ At(s, p) = "bs" /\ p < Len(s) THEN after[p + 2]
  ELSE IF s[p] # quote THEN after[p + 1]
  ELSE IF At(s, p + 1) = quote THEN after[p + 2]
  ELSE p + 1

\* The function AfterQuoted chooses.
LEMMA QuotedFunction ==
  ASSUME NEW s \in Seq(Chars), NEW open \in 1..Len(s), NEW quote, quote # "end",
         NEW escapes \in BOOLEAN
  PROVE  \E after :
           /\ AfterQuoted(s, open, quote, escapes) = after[open + 1]
           /\ \A p \in open + 1 .. Len(s) + 1 :
                 /\ after[p] \in p..Len(s) + 1
                 /\ after[p] = QuotedValue(s, quote, escapes, after, p)
           /\ after = [p \in open + 1 .. Len(s) + 1 |-> QuotedValue(s, quote, escapes, after, p)]
<1> DEFINE n == Len(s)
           S == open + 1 .. n + 1
           Value(f, p) == IF p > n THEN p
                          ELSE IF escapes /\ At(s, p) = "bs" /\ p < n THEN f[p + 2]
                          ELSE IF s[p] # quote THEN f[p + 1]
                          ELSE IF At(s, p + 1) = quote THEN f[p + 2]
                          ELSE p + 1
           E(f) == [p \in S |-> Value(f, p)]
           D == [f \in [S -> Nat] |-> E(f)]
<1>0. n \in Nat /\ open \in 1..n  OBVIOUS
<1>1. \A p \in 1..n + 1 : At(s, p + 1) = quote => p + 1 <= n
  BY <1>0 DEF At
<1>2. ASSUME NEW p \in S, NEW f, \A q \in p + 1 .. n + 1 : f[q] \in q..n + 1
      PROVE  Value(f, p) \in p..n + 1
  <2>1. ASSUME NEW q \in p + 1 .. n + 1  PROVE f[q] \in p..n + 1
    <3>1. f[q] \in q..n + 1  BY <1>2
    <3> QED  BY <3>1, <1>0
  <2>2. p \in 1..n + 1 /\ (p <= n => p + 1 \in p + 1 .. n + 1 /\ p + 1 \in p..n + 1)
    BY <1>0
  <2>3. p < n => p + 2 \in p + 1 .. n + 1  BY <1>0
  <2>4. At(s, p + 1) = quote => p < n  BY <1>0, <1>1, <2>2
  <2> HIDE DEF n, S
  <2> QED  BY <1>0, <2>1, <2>2, <2>3, <2>4
<1>3. ASSUME NEW p \in S, NEW g, NEW f, \A q \in p + 1 .. n + 1 : g[q] = f[q]
      PROVE  Value(g, p) = Value(f, p)
  <2>1. p \in 1..n + 1 /\ (p <= n => p + 1 \in p + 1 .. n + 1)  BY <1>0
  <2>2. p < n => p + 2 \in p + 1 .. n + 1  BY <1>0
  <2>3. At(s, p + 1) = quote => p < n  BY <1>0, <1>1, <2>1
  <2> HIDE DEF n, S
  <2> QED  BY <1>0, <1>3, <2>1, <2>2, <2>3
<1>4. ASSUME NEW f \in [S -> Nat], NEW p \in S  PROVE Value(f, p) \in Nat
  <2>1. p \in 1..n + 1 /\ p \in Nat /\ p + 1 \in Nat /\ (p <= n => p + 1 \in S)  BY <1>0
  <2>2. p < n => p + 2 \in S  BY <1>0
  <2>3. At(s, p + 1) = quote => p < n  BY <1>0, <1>1, <2>1
  <2> HIDE DEF n, S
  <2> QED  BY <1>0, <2>1, <2>2, <2>3
<1> HIDE DEF Value
<1>5. \A f \in [S -> Nat] : E(f) \in [S -> Nat]
  <2> HIDE DEF S
  <2> QED  BY <1>4
<1>6. \A f \in [S -> Nat] : D[f] = E(f)
  <2> HIDE DEF S, E
  <2> QED  OBVIOUS
<1>7. \A p \in S : \A g, f \in [S -> Nat] :
         (\A q \in p + 1 .. n + 1 : g[q] = f[q]) => D[g][p] = D[f][p]
  <2> SUFFICES ASSUME NEW p \in S, NEW g \in [S -> Nat], NEW f \in [S -> Nat],
                      \A q \in p + 1 .. n + 1 : g[q] = f[q]
               PROVE  D[g][p] = D[f][p]
    OBVIOUS
  <2>1. Value(g, p) = Value(f, p)  BY <1>3
  <2>2. E(g)[p] = Value(g, p) /\ E(f)[p] = Value(f, p)  OBVIOUS
  <2> HIDE DEF S, n, D, E
  <2> QED  BY <2>1, <2>2, <1>6
<1>8. Descends(D, open + 1, n + 1, Nat)
  <2>1. open + 1 \in Nat /\ n + 1 \in Nat /\ Nat # {}  BY <1>0
  <2> HIDE DEF D, E, n
  <2> QED  BY <2>1, <1>5, <1>6, <1>7 DEF Descends
<1> DEFINE P(f) == f = [p \in S |-> Value(f, p)]
           after == CHOOSE f : P(f)
<1>9. \E f : P(f)
  <2>1. PICK f \in [S -> Nat] : f = D[f]
    <3> HIDE DEF D
    <3> QED  BY <1>8, Descent
  <2>2. f = E(f)  BY <1>6, <2>1, Zenon
  <2> QED  BY <2>2
<1>10. P(after)  BY <1>9, Zenon
<1>11. AfterQuoted(s, open, quote, escapes) = after[open + 1]
  BY Zenon DEF AfterQuoted, Value
<1> HIDE DEF after
<1>12. \A p \in S : after[p] = Value(after, p)
  <2> HIDE DEF S
  <2> QED  BY <1>10
<1> DEFINE T == {p \in S : after[p] \in p..n + 1}
<1>13. ASSUME NEW p \in S, \A q \in p + 1 .. n + 1 : q \in T
       PROVE  p \in T
  <2>1. \A q \in p + 1 .. n + 1 : after[q] \in q..n + 1  BY <1>13
  <2> HIDE DEF S, n
  <2>2. Value(after, p) \in p..n + 1  BY <1>2, <2>1
  <2> QED  BY <1>12, <2>2
<1>14. \A p \in S : p \in T
  <2>1. open + 1 \in Nat /\ n + 1 \in Nat  BY <1>0
  <2> HIDE DEF T, n
  <2> QED  BY <1>13, <2>1, Downward
<1>15. \A p \in S : Value(after, p) = QuotedValue(s, quote, escapes, after, p)
  BY DEF Value, QuotedValue
<1>16. after = [p \in S |-> QuotedValue(s, quote, escapes, after, p)]
  <2> HIDE DEF S
  <2> QED  BY <1>10, <1>15
<1> QED  BY <1>11, <1>12, <1>14, <1>15, <1>16

\* The text goes on as code after a literal.
LEMMA AfterQuotedLands ==
  ASSUME NEW s, NEW h, History(s, h), NEW open \in 1..Len(s),
         NEW quote, NEW escapes, NEW mode, NEW closing,
         Literal(quote, escapes, mode, closing), h[open] = Entered(mode)
  PROVE  Lands(s, h, open + 1, AfterQuoted(s, open, quote, escapes))
<1> DEFINE n == Len(s)
           S == open + 1 .. n + 1
<1>0. s \in Seq(Chars) /\ n \in Nat /\ open \in 1..n  BY DEF History
<1>1. /\ After(mode, quote) = closing /\ After(closing, quote) = mode
      /\ quote # "bs" /\ quote # "end" /\ escapes \in BOOLEAN
      /\ mode \notin BlockModes \cup {"$", "dollar", "code"}
      /\ closing \notin BlockModes \cup {"$", "dollar", "code"}
      /\ \A c : c # quote => After(closing, c) = CodeMode(c)
      /\ \A c : (c # quote /\ ~(escapes /\ c = "bs")) => After(mode, c) = mode
      /\ escapes => /\ After(mode, "bs") = "ebs"
                    /\ \A c : After("ebs", c) = mode
  BY AfterLiteralFacts
<1>2. PICK after :
        /\ AfterQuoted(s, open, quote, escapes) = after[open + 1]
        /\ \A p \in S :
              /\ after[p] \in p..n + 1
              /\ after[p] = QuotedValue(s, quote, escapes, after, p)
  <2>1. s \in Seq(Chars) /\ open \in 1..Len(s) /\ quote # "end" /\ escapes \in BOOLEAN
    BY <1>0, <1>1
  <2> QED  BY <2>1, QuotedFunction
<1> DEFINE T == {p \in S : (p <= n => h[p - 1] = Entered(mode)) => Lands(s, h, p, after[p])}
<1>4. ASSUME NEW p \in S, \A q \in p + 1 .. n + 1 : q \in T
      PROVE  p \in T
  <2> SUFFICES ASSUME p <= n => h[p - 1] = Entered(mode)
               PROVE  Lands(s, h, p, after[p])
    OBVIOUS
  <2>0. p \in 2..n + 1 /\ p \in Nat /\ after[p] \in p..n + 1  BY <1>0, <1>2
  <2>1. CASE p > n
    <3>1. after[p] = p /\ p = n + 1 /\ p \in 1..n + 1  BY <1>0, <1>2, <2>0, <2>1
    <3>2. Fresh(s, h, p)  BY <1>0, <3>1 DEF Fresh
    <3> QED  BY <1>0, <3>1, <3>2, LandsHere
  <2> SUFFICES ASSUME p <= n  PROVE Lands(s, h, p, after[p])
    BY <1>0, <2>0, <2>1
  <2>2. p \in 1..n /\ p + 1 \in p + 1 .. n + 1 /\ At(s, p) = s[p] /\ h[p - 1] = Entered(mode)
        /\ ~(p > n)
    BY <1>0, <2>0 DEF At
  <2>3. mode \notin BlockModes \cup {"$", "dollar"} /\ closing \notin BlockModes \cup {"$", "dollar"}
        /\ mode # "code" /\ closing # "code"
    BY <1>1
  <2>4. h[p] = Entered(After(mode, s[p]))  BY <2>2, <2>3, NextPlain
  <2>5. CASE escapes /\ s[p] = "bs"
    <3>1. h[p] = Entered("ebs")  BY <1>1, <2>4, <2>5
    <3>2. ~Separates(s, h, p)  BY <3>1, NotInCode
    <3>3. CASE p < n
      <4>1. p + 1 \in 1..n /\ p + 2 \in p + 1 .. n + 1 /\ (p + 1) - 1 = p /\ (p + 2) - 1 = p + 1
            /\ (p + 1) + 1 = p + 2
        BY <1>0, <2>0, <3>3
      <4>2. after[p] = after[p + 2]
        <5> QED  BY <1>2, <2>2, <2>5, <3>3 DEF QuotedValue
      <4>3. h[p + 1] = Entered(mode)
        <5>1. h[(p + 1) - 1] = Entered("ebs")  BY <3>1, <4>1
        <5>2. "ebs" \notin BlockModes \cup {"$", "dollar"}  BY DEF BlockModes
        <5>3. h[p + 1] = Entered(After("ebs", s[p + 1]))  BY <4>1, <5>1, <5>2, NextPlain
        <5> QED  BY <1>1, <2>5, <5>3
      <4>4. ~Separates(s, h, p + 1)  BY <2>3, <4>3, NotInCode
      <4>5. Lands(s, h, p + 2, after[p + 2])  BY <1>4, <4>1, <4>3
      <4>6. Lands(s, h, p + 1, after[p + 2])  BY <1>0, <4>1, <4>4, <4>5, LandsLater
      <4> QED  BY <1>0, <2>2, <3>2, <4>2, <4>6, LandsLater
    <3>4. CASE ~(p < n)
      <4>1. ~(p + 1 <= n)  BY <1>0, <2>0, <3>4
      <4>2. after[p] = after[p + 1]
        <5>1. s[p] # quote  BY <1>1, <2>5
        <5> QED  BY <1>2, <2>2, <3>4, <5>1 DEF QuotedValue
      <4>3. Lands(s, h, p + 1, after[p + 1])  BY <1>4, <2>2, <4>1
      <4> QED  BY <1>0, <2>2, <3>2, <4>2, <4>3, LandsLater
    <3> QED  BY <3>3, <3>4
  <2>6. CASE ~(escapes /\ s[p] = "bs") /\ s[p] # quote
    <3>1. after[p] = after[p + 1]
      <4> QED  BY <1>2, <2>2, <2>6 DEF QuotedValue
    <3>2. h[p] = Entered(mode)  BY <1>1, <2>4, <2>6
    <3>3. (p + 1) - 1 = p  BY <2>0
    <3>4. Lands(s, h, p + 1, after[p + 1])  BY <1>4, <2>2, <3>2, <3>3
    <3>5. ~Separates(s, h, p)  BY <2>3, <3>2, NotInCode
    <3> QED  BY <1>0, <2>2, <3>1, <3>4, <3>5, LandsLater
  <2>7. CASE s[p] = quote
    <3>1. At(s, p) # "bs"  BY <1>1, <2>2, <2>7
    <3>2. h[p] = Entered(closing)  BY <1>1, <2>4, <2>7
    <3>3. ~Separates(s, h, p) /\ (p + 1) - 1 = p  BY <2>0, <2>3, <3>2, NotInCode
    <3>4. CASE At(s, p + 1) = quote
      <4>1. p + 1 \in 1..n /\ s[p + 1] = quote  BY <1>0, <1>1, <2>0, <3>4 DEF At
      <4>2. p + 2 \in p + 1 .. n + 1 /\ (p + 2) - 1 = p + 1 /\ (p + 1) + 1 = p + 2  BY <1>0, <2>0, <4>1
      <4>3. after[p] = after[p + 2]
        <5> QED  BY <1>2, <2>2, <2>7, <3>1, <3>4 DEF QuotedValue
      <4>4. h[p + 1] = Entered(mode)
        <5>1. h[(p + 1) - 1] = Entered(closing)  BY <3>2, <3>3
        <5>2. h[p + 1] = Entered(After(closing, s[p + 1]))  BY <2>3, <4>1, <5>1, NextPlain
        <5> QED  BY <1>1, <4>1, <5>2
      <4>5. Lands(s, h, p + 2, after[p + 2])  BY <1>4, <4>2, <4>4
      <4>6. ~Separates(s, h, p + 1)  BY <2>3, <4>4, NotInCode
      <4>7. Lands(s, h, p + 1, after[p + 2])  BY <1>0, <4>1, <4>2, <4>5, <4>6, LandsLater
      <4> QED  BY <1>0, <2>2, <3>3, <4>3, <4>7, LandsLater
    <3>5. CASE At(s, p + 1) # quote
      <4>1. after[p] = p + 1
        <5> QED  BY <1>2, <2>2, <2>7, <3>1, <3>5 DEF QuotedValue
      <4>2. Fresh(s, h, p + 1)
        <5> SUFFICES ASSUME p + 1 \in 1..Len(s)  PROVE h[p + 1] = Entered(CodeMode(s[p + 1]))
          BY DEF Fresh
        <5>1. s[p + 1] # quote  BY <3>5 DEF At
        <5>2. h[(p + 1) - 1] = Entered(closing)  BY <3>2, <3>3
        <5>3. h[p + 1] = Entered(After(closing, s[p + 1]))  BY <2>3, <5>2, NextPlain
        <5> QED  BY <1>1, <5>1, <5>3
      <4>3. p + 1 \in 1..n + 1  BY <1>0, <2>0
      <4>4. Lands(s, h, p + 1, p + 1)  BY <1>0, <4>2, <4>3, LandsHere
      <4> QED  BY <1>0, <2>2, <3>3, <4>1, <4>4, LandsLater
    <3> QED  BY <3>4, <3>5
  <2> QED  BY <2>5, <2>6, <2>7
<1>5. \A p \in S : p \in T
  <2>1. open + 1 \in Nat /\ n + 1 \in Nat  BY <1>0
  <2> HIDE DEF T, n
  <2> QED  BY ZenonT(60), <1>4, <2>1, Downward
<1>6. open + 1 \in S /\ (open + 1) - 1 = open  BY <1>0
<1> QED  BY <1>2, <1>5, <1>6

-----------------------------------------------------------------------------
(* Comments.                                                                *)

\* A line comment ends at a line break, or with the text.
LEMMA LineCommentRange ==
  ASSUME NEW s \in Seq(Chars), NEW p \in 1..Len(s), p + 1 <= Len(s)
  PROVE  /\ AfterLineComment(s, p) \in p + 2 .. Len(s) + 1
         /\ AfterLineComment(s, p) <= Len(s) => s[AfterLineComment(s, p)] = "nl"
         /\ \A q \in p + 2 .. AfterLineComment(s, p) - 1 : s[q] # "nl"
<1> DEFINE n == Len(s)
           T == {q \in p + 2 .. n : s[q] = "nl"}
<1>1. n \in Nat /\ p + 2 \in 1..n + 1 /\ T \subseteq p + 2 .. n  OBVIOUS
<1>2. AfterLineComment(s, p) = Min(T \cup {n + 1})  BY DEF AfterLineComment, FirstFrom
<1>3. PICK m : m = Min(T \cup {n + 1})  OBVIOUS
<1>4. m \in p + 2 .. n + 1 /\ (m <= n => m \in T) /\ \A q \in p + 2 .. m - 1 : q \notin T
  <2> HIDE DEF T, n
  <2> QED  BY <1>1, <1>3, FirstOf
<1>5. \A q \in p + 2 .. m - 1 : s[q] # "nl"  BY <1>4
<1> QED  BY <1>2, <1>3, <1>4, <1>5

\* The text goes on as code after a line comment.
LEMMA LineCommentLands ==
  ASSUME NEW s, NEW h, History(s, h), NEW p \in 1..Len(s), p + 1 <= Len(s),
         h[p + 1] = Entered("line")
  PROVE  Lands(s, h, p + 2, AfterLineComment(s, p))
<1>0. s \in Seq(Chars) /\ Len(s) \in Nat  BY DEF History
<1>1. PICK r : r = AfterLineComment(s, p)  OBVIOUS
<1>2. r \in p + 2 .. Len(s) + 1 /\ (r <= Len(s) => s[r] = "nl")
      /\ \A q \in p + 2 .. r - 1 : s[q] # "nl"
  BY <1>0, <1>1, LineCommentRange
<1>3. "line" \notin BlockModes \cup {"$", "dollar"}  BY DEF BlockModes
<1> DEFINE T == {i \in Nat : h[i - 1] = Entered("line")}
<1>4. \A i \in p + 2 .. r : i \in T
  <2>1. p + 2 \in T
    <3>1. (p + 2) - 1 = p + 1 /\ p + 2 \in Nat  OBVIOUS
    <3> QED  BY <3>1
  <2>2. ASSUME NEW i \in p + 2 .. r - 1, i \in T  PROVE i + 1 \in T
    <3>1. i \in 1..Len(s) /\ (i + 1) - 1 = i /\ i + 1 \in Nat /\ h[i - 1] = Entered("line")
      BY <1>0, <1>2, <2>2
    <3>2. h[i] = Entered(After("line", s[i]))  BY <1>3, <3>1, NextPlain
    <3>3. s[i] # "nl"  BY <1>2
    <3>4. h[i] = Entered("line")  BY <3>2, <3>3, AfterFacts
    <3> QED  BY <3>1, <3>4
  <2>3. p + 2 \in Nat /\ r \in Nat  BY <1>0, <1>2
  <2> HIDE DEF T
  <2> QED  BY <2>1, <2>2, <2>3, Upward
<1>5. Silent(s, h, p + 2, r)
  <2> SUFFICES ASSUME NEW i \in p + 2 .. r - 1  PROVE ~Separates(s, h, i)
    BY DEF Silent
  <2>1. i + 1 \in p + 2 .. r /\ (i + 1) - 1 = i  BY <1>0, <1>2
  <2>2. h[i] = Entered("line")  BY <1>4, <2>1
  <2> QED  BY <2>2, NotInCode
<1>6. Fresh(s, h, r)
  <2> SUFFICES ASSUME r \in 1..Len(s)  PROVE h[r] = Entered(CodeMode(s[r]))
    BY DEF Fresh
  <2>1. h[r - 1] = Entered("line") /\ s[r] = "nl"  BY <1>2, <1>4
  <2>2. h[r] = Entered(After("line", "nl"))  BY <1>3, <2>1, NextPlain
  <2>3. CodeMode("nl") = "code"  BY CodeModes
  <2> QED  BY <2>1, <2>2, <2>3, AfterFacts
<1> QED  BY <1>1, <1>2, <1>5, <1>6 DEF Lands

BlockValue(s, after, q, depth) ==
  IF depth = 0 \/ q > Len(s) THEN q
  ELSE IF s[q] = "/" /\ At(s, q + 1) = "*" THEN after[q + 2][depth + 1]
  ELSE IF s[q] = "*" /\ At(s, q + 1) = "/" THEN after[q + 2][depth - 1]
  ELSE after[q + 1][depth]

\* The function AfterBlockComment chooses.
LEMMA BlockFunction ==
  ASSUME NEW s \in Seq(Chars), NEW p \in 1..Len(s)
  PROVE  \E after :
           /\ AfterBlockComment(s, p) = after[p + 2][1]
           /\ \A q \in p..Len(s) + 1 : \A depth \in Nat :
                 /\ after[q][depth] \in q..Len(s) + 1
                 /\ after[q][depth] = BlockValue(s, after, q, depth)
           /\ after = [q \in p..Len(s) + 1 |->
                         [depth \in Nat |-> BlockValue(s, after, q, depth)]]
<1> DEFINE n == Len(s)
           S == p..n + 1
           V == [Nat -> Nat]
           Value(f, q, depth) ==
              IF depth = 0 \/ q > n THEN q
              ELSE IF s[q] = "/" /\ At(s, q + 1) = "*" THEN f[q + 2][depth + 1]
              ELSE IF s[q] = "*" /\ At(s, q + 1) = "/" THEN f[q + 2][depth - 1]
              ELSE f[q + 1][depth]
           E(f) == [q \in S |-> [depth \in Nat |-> Value(f, q, depth)]]
           D == [f \in [S -> V] |-> E(f)]
<1>0. n \in Nat /\ p \in 1..n /\ S \in SUBSET Nat  OBVIOUS
<1>1. \A q \in 1..n + 1 : At(s, q + 1) \in {"*", "/"} => q + 1 <= n
  BY <1>0 DEF At
<1>2. ASSUME NEW q \in S, NEW depth \in Nat, NEW f,
             \A r \in q + 1 .. n + 1 : \A e \in Nat : f[r][e] \in r..n + 1
      PROVE  Value(f, q, depth) \in q..n + 1
  <2>1. ASSUME NEW r \in q + 1 .. n + 1, NEW e \in Nat  PROVE f[r][e] \in q..n + 1
    <3>1. f[r][e] \in r..n + 1  BY <1>2
    <3> QED  BY <3>1, <1>0
  <2>2. q \in 1..n + 1 /\ q \in q..n + 1 /\ (q <= n => q + 1 \in q + 1 .. n + 1)
    BY <1>0
  <2>3. At(s, q + 1) \in {"*", "/"} => q + 2 \in q + 1 .. n + 1  BY <1>0, <1>1, <2>2
  <2>4. depth + 1 \in Nat /\ (depth # 0 => depth - 1 \in Nat)  OBVIOUS
  <2> HIDE DEF n, S
  <2> QED  BY <1>0, <2>1, <2>2, <2>3, <2>4
<1>3. ASSUME NEW q \in S, NEW depth \in Nat, NEW g, NEW f,
             \A r \in q + 1 .. n + 1 : g[r] = f[r]
      PROVE  Value(g, q, depth) = Value(f, q, depth)
  <2>1. q \in 1..n + 1 /\ (q <= n => q + 1 \in q + 1 .. n + 1)  BY <1>0
  <2>2. At(s, q + 1) \in {"*", "/"} => q + 2 \in q + 1 .. n + 1  BY <1>0, <1>1, <2>1
  <2> HIDE DEF n, S
  <2> QED  BY <1>0, <1>3, <2>1, <2>2
<1>4. ASSUME NEW f \in [S -> V], NEW q \in S, NEW depth \in Nat  PROVE Value(f, q, depth) \in Nat
  <2>1. q \in 1..n + 1 /\ q \in Nat /\ (q <= n => q + 1 \in S)  BY <1>0
  <2>2. At(s, q + 1) \in {"*", "/"} => q + 2 \in S  BY <1>0, <1>1, <2>1
  <2>3. \A r \in S : \A e \in Nat : f[r][e] \in Nat
    <3> HIDE DEF S
    <3> QED  OBVIOUS
  <2>4. depth + 1 \in Nat /\ (depth # 0 => depth - 1 \in Nat)  OBVIOUS
  <2> HIDE DEF n, S, V
  <2> QED  BY <1>0, <2>1, <2>2, <2>3, <2>4
<1> HIDE DEF Value
<1>5. \A f \in [S -> V] : E(f) \in [S -> V]
  <2> HIDE DEF S
  <2> QED  BY <1>4
<1>6. \A f \in [S -> V] : D[f] = E(f)
  <2> HIDE DEF S, E, V
  <2> QED  OBVIOUS
<1>7. \A q \in S : \A g, f \in [S -> V] :
         (\A r \in q + 1 .. n + 1 : g[r] = f[r]) => D[g][q] = D[f][q]
  <2> SUFFICES ASSUME NEW q \in S, NEW g \in [S -> V], NEW f \in [S -> V],
                      \A r \in q + 1 .. n + 1 : g[r] = f[r]
               PROVE  D[g][q] = D[f][q]
    OBVIOUS
  <2>1. \A depth \in Nat : Value(g, q, depth) = Value(f, q, depth)  BY <1>3
  <2>2. E(g)[q] = [depth \in Nat |-> Value(g, q, depth)]
        /\ E(f)[q] = [depth \in Nat |-> Value(f, q, depth)]
    OBVIOUS
  <2>3. E(g)[q] = E(f)[q]
    <3> HIDE DEF E, S, V
    <3> QED  BY <2>1, <2>2
  <2> HIDE DEF S, n, D, E
  <2> QED  BY <2>3, <1>6
<1>8. Descends(D, p, n + 1, V)
  <2>1. p \in Nat /\ n + 1 \in Nat  BY <1>0
  <2>2. V # {}
    <3>1. [e \in Nat |-> 0] \in V  OBVIOUS
    <3> QED  BY <3>1
  <2> HIDE DEF D, E, V, n
  <2> QED  BY <2>1, <2>2, <1>5, <1>6, <1>7 DEF Descends
<1> DEFINE P(f) == f = [q \in S |-> [depth \in Nat |-> Value(f, q, depth)]]
           after == CHOOSE f : P(f)
<1>9. \E f : P(f)
  <2>1. PICK f \in [S -> V] : f = D[f]
    <3> HIDE DEF D, V, n
    <3> QED  BY <1>8, Descent
  <2>2. f = E(f)  BY <1>6, <2>1, Zenon
  <2> QED  BY <2>2
<1>10. P(after)  BY <1>9, Zenon
<1>11. AfterBlockComment(s, p) = after[p + 2][1]
  BY Zenon DEF AfterBlockComment, Value
<1> HIDE DEF after
<1>12. \A q \in S : \A depth \in Nat : after[q][depth] = Value(after, q, depth)
  <2> SUFFICES ASSUME NEW q \in S, NEW depth \in Nat
               PROVE  after[q][depth] = Value(after, q, depth)
    OBVIOUS
  <2>1. after[q] = [e \in Nat |-> Value(after, q, e)]
    <3> HIDE DEF S
    <3> QED  BY <1>10
  <2> QED  BY <2>1
<1> DEFINE T == {q \in S : \A depth \in Nat : after[q][depth] \in q..n + 1}
<1>13. ASSUME NEW q \in S, \A r \in q + 1 .. n + 1 : r \in T
       PROVE  q \in T
  <2>1. \A r \in q + 1 .. n + 1 : \A e \in Nat : after[r][e] \in r..n + 1  BY <1>13
  <2> HIDE DEF S, n
  <2>2. \A depth \in Nat : Value(after, q, depth) \in q..n + 1  BY <1>2, <2>1
  <2> QED  BY <1>12, <2>2
<1>14. \A q \in S : q \in T
  <2>1. p \in Nat /\ n + 1 \in Nat  BY <1>0
  <2> HIDE DEF T, n
  <2> QED  BY <1>13, <2>1, Downward
<1>15. \A q \in S : \A depth \in Nat : Value(after, q, depth) = BlockValue(s, after, q, depth)
  BY DEF Value, BlockValue
<1>16. after = [q \in S |-> [depth \in Nat |-> BlockValue(s, after, q, depth)]]
  <2>1. \A q \in S : [depth \in Nat |-> Value(after, q, depth)]
                        = [depth \in Nat |-> BlockValue(s, after, q, depth)]
    <3> HIDE DEF S
    <3> QED  BY <1>15
  <2> HIDE DEF S
  <2> QED  BY <1>10, <2>1
<1>17. \A q \in S : \A depth \in Nat :
          after[q][depth] \in q..n + 1 /\ after[q][depth] = BlockValue(s, after, q, depth)
  BY <1>12, <1>14, <1>15
<1> QED  BY <1>11, <1>16, <1>17, Zenon

\* A block comment ends in the text, or with it.
LEMMA BlockCommentRange ==
  ASSUME NEW s \in Seq(Chars), NEW p \in 1..Len(s), p + 1 <= Len(s)
  PROVE  AfterBlockComment(s, p) \in p + 2 .. Len(s) + 1
<1>1. p + 2 \in p..Len(s) + 1 /\ 1 \in Nat  OBVIOUS
<1> QED  BY ZenonT(60), <1>1, BlockFunction

\* Before q, d block comments are open and no delimiter is half read.
InComment(s, h, q, d) ==
  q \in 1..Len(s) => \E mode \in BlockModes :
     /\ h[q - 1] = Commented(mode, d)
     /\ ~(mode = "block*" /\ s[q] = "/") /\ ~(mode = "block/" /\ s[q] = "*")

\* The next character of a block comment.
LEMMA NextInBlock ==
  ASSUME NEW s, NEW h, History(s, h), NEW p \in 1..Len(s),
         NEW mode \in BlockModes, NEW d, h[p - 1] = Commented(mode, d)
  PROVE  h[p] = InBlock(mode, d, s[p])
<1>1. h[p] = Lexed(s, p, Commented(mode, d))  BY DEF History
<1> QED  BY <1>1, LexedInBlock

\* No separator is read in a block comment.
LEMMA NotInComment ==
  ASSUME NEW s, NEW h, NEW p, NEW mode, NEW d, mode # "code", h[p] = Commented(mode, d)
  PROVE  ~Separates(s, h, p)
<1>1. h[p].mode = mode  BY DEF Commented
<1> QED  BY <1>1, Zenon DEF Separates

\* The text goes on as code after a block comment.
LEMMA BlockCommentLands ==
  ASSUME NEW s, NEW h, History(s, h), NEW p \in 1..Len(s), p + 1 <= Len(s),
         h[p + 1] = Commented("block", 1)
  PROVE  Lands(s, h, p + 2, AfterBlockComment(s, p))
<1> DEFINE n == Len(s)
           S == p..n + 1
<1>0. s \in Seq(Chars) /\ n \in Nat /\ p \in 1..n  BY DEF History
<1>1. PICK after :
        /\ AfterBlockComment(s, p) = after[p + 2][1]
        /\ \A q \in S : \A depth \in Nat :
              /\ after[q][depth] \in q..n + 1
              /\ after[q][depth] = BlockValue(s, after, q, depth)
  BY <1>0, BlockFunction
<1>2. BlockModes = {"block", "block*", "block/"}  BY DEF BlockModes
<1>3. \A mode \in BlockModes : mode # "code"  BY <1>2
<1> DEFINE T == {q \in S : \A d \in Nat : d # 0 /\ InComment(s, h, q, d) =>
                              Lands(s, h, q, after[q][d])}
<1>4. ASSUME NEW q \in S, \A r \in q + 1 .. n + 1 : r \in T
      PROVE  q \in T
  <2> SUFFICES ASSUME NEW d \in Nat, d # 0, InComment(s, h, q, d)
               PROVE  Lands(s, h, q, after[q][d])
    OBVIOUS
  <2>0. q \in 1..n + 1 /\ q \in Nat /\ after[q][d] \in q..n + 1
        /\ after[q][d] = BlockValue(s, after, q, d)
    BY <1>0, <1>1
  <2>1. CASE q > n
    <3>1. after[q][d] = q /\ q \in 1..n + 1  BY <2>0, <2>1 DEF BlockValue
    <3>2. Fresh(s, h, q)  BY <1>0, <2>0, <2>1 DEF Fresh
    <3> QED  BY <1>0, <3>1, <3>2, LandsHere
  <2> SUFFICES ASSUME q <= n  PROVE Lands(s, h, q, after[q][d])
    BY <1>0, <2>0, <2>1
  <2>2. q \in 1..n /\ ~(q > n) /\ q + 1 \in q + 1 .. n + 1 /\ (q + 1) - 1 = q
        /\ (q + 2) - 1 = q + 1 /\ (q + 1) + 1 = q + 2
    BY <1>0, <2>0
  <2>3. PICK mode \in BlockModes :
           /\ h[q - 1] = Commented(mode, d)
           /\ ~(mode = "block*" /\ s[q] = "/") /\ ~(mode = "block/" /\ s[q] = "*")
    BY <2>2 DEF InComment
  <2>4. h[q] = InBlock(mode, d, s[q])  BY <2>2, <2>3, NextInBlock
  <2>5. At(s, q + 1) \in {"*", "/"} => q + 1 \in 1..n /\ s[q + 1] = At(s, q + 1)
          /\ q + 2 \in q + 1 .. n + 1
    BY <1>0, <2>0 DEF At
  <2>6. At(s, q + 1) \notin {"*", "/"} => (q + 1 \in 1..n => s[q + 1] \notin {"*", "/"})
    BY <1>0 DEF At
  <2>7. q + 1 \in 1..n => At(s, q + 1) = s[q + 1]  BY DEF At
  <2>8. CASE s[q] = "/"
    <3>1. h[q] = Commented("block/", d)  BY <2>3, <2>4, <2>8, InBlockFacts
    <3>2. ~Separates(s, h, q)  BY <3>1, NotInComment
    <3>3. "block/" \in BlockModes  BY <1>2
    <3>4. CASE At(s, q + 1) = "*"
      <4>1. after[q][d] = after[q + 2][d + 1]  BY <2>0, <2>2, <2>8, <3>4 DEF BlockValue
      <4>2. h[(q + 1) - 1] = Commented("block/", d)  BY <2>2, <3>1
      <4>3. h[q + 1] = InBlock("block/", d, "*")  BY <2>5, <3>3, <3>4, <4>2, NextInBlock
      <4>4. h[q + 1] = Commented("block", d + 1)  BY <3>3, <4>3, InBlockFacts
      <4>5. "block" \in BlockModes  BY <1>2
      <4>6. InComment(s, h, q + 2, d + 1)  BY <2>2, <4>4, <4>5 DEF InComment
      <4>7. d + 1 \in Nat /\ d + 1 # 0  OBVIOUS
      <4>8. Lands(s, h, q + 2, after[q + 2][d + 1])  BY <1>4, <2>5, <3>4, <4>6, <4>7
      <4>9. ~Separates(s, h, q + 1)  BY <4>4, NotInComment
      <4>10. Lands(s, h, q + 1, after[q + 2][d + 1])
        BY <1>0, <2>2, <2>5, <3>4, <4>8, <4>9, LandsLater
      <4> QED  BY <1>0, <2>2, <3>2, <4>1, <4>10, LandsLater
    <3>5. CASE At(s, q + 1) # "*"
      <4>1. after[q][d] = after[q + 1][d]  BY <2>0, <2>2, <2>8, <3>5 DEF BlockValue
      <4>2. h[(q + 1) - 1] = Commented("block/", d)  BY <2>2, <3>1
      <4>3. q + 1 \in 1..n => s[q + 1] # "*"  BY <2>7, <3>5
      <4>4. InComment(s, h, q + 1, d)  BY <3>3, <4>2, <4>3 DEF InComment
      <4>5. Lands(s, h, q + 1, after[q + 1][d])  BY <1>4, <2>2, <4>4
      <4> QED  BY <1>0, <2>2, <3>2, <4>1, <4>5, LandsLater
    <3> QED  BY <3>4, <3>5
  <2>9. CASE s[q] = "*"
    <3>1. h[q] = Commented("block*", d)  BY <2>3, <2>4, <2>9, InBlockFacts
    <3>2. ~Separates(s, h, q)  BY <3>1, NotInComment
    <3>3. "block*" \in BlockModes  BY <1>2
    <3>4. CASE At(s, q + 1) = "/"
      <4>1. after[q][d] = after[q + 2][d - 1]  BY <2>0, <2>2, <2>9, <3>4 DEF BlockValue
      <4>2. h[(q + 1) - 1] = Commented("block*", d)  BY <2>2, <3>1
      <4>3. h[q + 1] = InBlock("block*", d, "/")  BY <2>5, <3>3, <3>4, <4>2, NextInBlock
      <4>4. h[q + 1] = IF d = 1 THEN Entered("code") ELSE Commented("block", d - 1)
        BY <3>3, <4>3, InBlockFacts
      <4>5. ~Separates(s, h, q + 1)
        <5>1. s[q + 1] = "/"  BY <2>5, <3>4
        <5> QED  BY <5>1, Zenon DEF Separates
      <4>6. Lands(s, h, q + 2, after[q + 2][d - 1])
        <5>1. CASE d = 1
          <6>1. q + 2 \in S /\ d - 1 = 0 /\ q + 2 \in 1..n + 1  BY <1>0, <2>0, <2>5, <3>4, <5>1
          <6>2. after[q + 2][d - 1] = q + 2  BY <1>1, <6>1 DEF BlockValue
          <6>3. Fresh(s, h, q + 2)
            <7> SUFFICES ASSUME q + 2 \in 1..Len(s)  PROVE h[q + 2] = Entered(CodeMode(s[q + 2]))
              BY DEF Fresh
            <7>1. h[(q + 2) - 1] = Entered("code")  BY <2>2, <4>4, <5>1
            <7>2. "code" \notin BlockModes \cup {"$", "dollar"}  BY <1>2
            <7>3. h[q + 2] = Entered(After("code", s[q + 2]))  BY <7>1, <7>2, NextPlain
            <7> QED  BY <7>3, AfterFacts
          <6> QED  BY <1>0, <6>1, <6>2, <6>3, LandsHere
        <5>2. CASE d # 1
          <6>1. d - 1 \in Nat /\ d - 1 # 0  BY <5>2
          <6>2. "block" \in BlockModes  BY <1>2
          <6>3. InComment(s, h, q + 2, d - 1)  BY <2>2, <4>4, <5>2, <6>2 DEF InComment
          <6> QED  BY <1>4, <2>5, <3>4, <6>1, <6>3
        <5> QED  BY <5>1, <5>2
      <4>7. Lands(s, h, q + 1, after[q + 2][d - 1])
        BY <1>0, <2>2, <2>5, <3>4, <4>5, <4>6, LandsLater
      <4> QED  BY <1>0, <2>2, <3>2, <4>1, <4>7, LandsLater
    <3>5. CASE At(s, q + 1) # "/"
      <4>1. after[q][d] = after[q + 1][d]  BY <2>0, <2>2, <2>9, <3>5 DEF BlockValue
      <4>2. h[(q + 1) - 1] = Commented("block*", d)  BY <2>2, <3>1
      <4>3. q + 1 \in 1..n => s[q + 1] # "/"  BY <2>7, <3>5
      <4>4. InComment(s, h, q + 1, d)  BY <3>3, <4>2, <4>3 DEF InComment
      <4>5. Lands(s, h, q + 1, after[q + 1][d])  BY <1>4, <2>2, <4>4
      <4> QED  BY <1>0, <2>2, <3>2, <4>1, <4>5, LandsLater
    <3> QED  BY <3>4, <3>5
  <2>10. CASE s[q] \notin {"*", "/"}
    <3>1. h[q] = Commented("block", d)  BY <2>3, <2>4, <2>10, InBlockFacts
    <3>2. ~Separates(s, h, q)  BY <3>1, NotInComment
    <3>3. "block" \in BlockModes  BY <1>2
    <3>4. after[q][d] = after[q + 1][d]  BY <2>0, <2>2, <2>10 DEF BlockValue
    <3>5. InComment(s, h, q + 1, d)  BY <2>2, <3>1, <3>3 DEF InComment
    <3>6. Lands(s, h, q + 1, after[q + 1][d])  BY <1>4, <2>2, <3>5
    <3> QED  BY <1>0, <2>2, <3>2, <3>4, <3>6, LandsLater
  <2> QED  BY <2>8, <2>9, <2>10
<1>5. \A q \in S : q \in T
  <2>1. p \in Nat /\ n + 1 \in Nat  BY <1>0
  <2> HIDE DEF T, n
  <2> QED  BY <1>4, <2>1, Downward
<1>6. p + 2 \in S /\ (p + 2) - 1 = p + 1  BY <1>0
<1>7. InComment(s, h, p + 2, 1)  BY <1>2, <1>6 DEF InComment
<1> QED  BY <1>1, <1>5, <1>6, <1>7
-----------------------------------------------------------------------------
(* Dollar quotes.                                                           *)

\* What no tag has.
LEMMA NotTagChars ==
  ASSUME NEW c, NEW first, TagChar(c, first)
  PROVE  c \notin {"$", "'", ";", "-", "/", "dq", "bq"} /\ c \in Letters \cup High \cup Digits
BY DEF TagChar, Letters, High, Digits

\* The lexer's steps in a dollar quote.
LEMMA TagFacts ==
  ASSUME NEW s, NEW p, NEW tag, NEW depth
  PROVE  /\ Lexed(s, p, Tagging(tag)) = AfterTag(tag, s[p])
         /\ Lexed(s, p, Quoting(tag, depth)) =
              IF TagEnds(s, p, tag, depth) THEN Entered("code") ELSE Quoting(tag, depth + 1)
<1>1. Tagging(tag).mode = "$" /\ Tagging(tag).tag = tag  BY DEF Tagging
<1>2. /\ Quoting(tag, depth).mode = "dollar" /\ Quoting(tag, depth).tag = tag
      /\ Quoting(tag, depth).depth = depth
  BY DEF Quoting
<1>3. Lexed(s, p, Tagging(tag)) = AfterTag(tag, s[p])  BY <1>1 DEF Lexed, BlockModes
<1>4. Lexed(s, p, Quoting(tag, depth)) =
        IF TagEnds(s, p, tag, depth) THEN Entered("code") ELSE Quoting(tag, depth + 1)
  BY <1>2 DEF Lexed, BlockModes
<1> QED  BY <1>3, <1>4

\* No separator is read in a dollar quote.
LEMMA NotInTag ==
  ASSUME NEW s, NEW h, NEW p
  PROVE  /\ \A tag : h[p] = Tagging(tag) => ~Separates(s, h, p)
         /\ \A tag, depth : h[p] = Quoting(tag, depth) => ~Separates(s, h, p)
<1>1. \A tag : Tagging(tag).mode = "$"  BY DEF Tagging
<1>2. \A tag, depth : Quoting(tag, depth).mode = "dollar"  BY DEF Quoting
<1>3. "$" # "code" /\ "dollar" # "code"  OBVIOUS
<1>4. ASSUME NEW tag, h[p] = Tagging(tag)  PROVE ~Separates(s, h, p)
  <2>1. h[p].mode = "$"  BY <1>1, <1>4
  <2> QED  BY <1>3, <2>1, Zenon DEF Separates
<1>5. ASSUME NEW tag, NEW depth, h[p] = Quoting(tag, depth)  PROVE ~Separates(s, h, p)
  <2>1. h[p].mode = "dollar"  BY <1>2, <1>5
  <2> QED  BY <1>3, <2>1, Zenon DEF Separates
<1> QED  BY <1>4, <1>5

\* What may belong to the tag of the dollar at p.
InTagAt(s, p, q) == TagChar(s[q], q = p + 1)

\* The dollar at p and what of its tag is read before t.
TagRead(s, p, t) == /\ p \in 1..Len(s) /\ s[p] = "$" /\ t \in p + 1 .. Len(s) + 1
                    /\ \A q \in p + 1 .. t - 1 : InTagAt(s, p, q)

\* A piece of a text, and one character more of it.
LEMMA SubSeqGrows ==
  ASSUME NEW s \in Seq(Chars), NEW p \in 1..Len(s), NEW q \in p..Len(s)
  PROVE  /\ SubSeq(s, p, q) \in Seq(Chars) /\ Len(SubSeq(s, p, q)) = q - p + 1
         /\ \A i \in 1..q - p + 1 : SubSeq(s, p, q)[i] = s[p + i - 1]
         /\ q + 1 <= Len(s) => SubSeq(s, p, q + 1) = Append(SubSeq(s, p, q), s[q + 1])
<1>1. \A i \in p..q : s[i] \in Chars  OBVIOUS
<1>2. p \in Int /\ q \in Int /\ p <= q  OBVIOUS
<1>3. /\ SubSeq(s, p, q) \in Seq(Chars) /\ Len(SubSeq(s, p, q)) = q - p + 1
      /\ \A i \in 1..q - p + 1 : SubSeq(s, p, q)[i] = s[p + i - 1]
  BY <1>1, <1>2, SubSeqProperties
<1>4. ASSUME q + 1 <= Len(s)
      PROVE  SubSeq(s, p, q + 1) = Append(SubSeq(s, p, q), s[q + 1])
  <2>1. q + 1 \in p..Len(s) /\ (q + 1) - 1 = q /\ s[q + 1] \in Chars  BY <1>4
  <2>2. SubSeq(s, p, q + 1) = SubSeq(s, p, (q + 1) - 1) \o <<s[q + 1]>>
    BY <2>1, SubSeqRecursiveSecond
  <2>3. Append(SubSeq(s, p, q), s[q + 1]) = SubSeq(s, p, q) \o <<s[q + 1]>>
    BY <1>3, <2>1, AppendIsConcat
  <2> QED  BY <2>1, <2>2, <2>3
<1> QED  BY <1>3, <1>4

\* While a tag may go on, the lexer has read what there is of it.
LEMMA TagLexed ==
  ASSUME NEW s, NEW h, History(s, h), NEW p, NEW t, TagRead(s, p, t), h[p] = Entered("$")
  PROVE  \A q \in p..t - 1 : h[q] = Tagging(SubSeq(s, p, q))
<1>0. s \in Seq(Chars) /\ Len(s) \in Nat /\ p \in 1..Len(s) /\ s[p] = "$"
      /\ t \in p + 1 .. Len(s) + 1 /\ \A q \in p + 1 .. t - 1 : InTagAt(s, p, q)
  BY DEF History, TagRead
<1> DEFINE T == {q \in Nat : h[q] = Tagging(SubSeq(s, p, q))}
<1>1. p \in T
  <2>1. SubSeq(s, p, p) = <<"$">>
    <3>1. s[p] \in Chars /\ <<"$">> \in Seq(Chars)  BY <1>0
    <3>2. p \in p..Len(s) /\ p - p + 1 = 1  BY <1>0
    <3>3. SubSeq(s, p, p) \in Seq(Chars) /\ Len(SubSeq(s, p, p)) = 1
          /\ SubSeq(s, p, p)[1] = s[p + 1 - 1]
      BY <1>0, <3>2, SubSeqGrows
    <3>4. p + 1 - 1 = p  BY <1>0
    <3>5. \A i \in 1..Len(SubSeq(s, p, p)) : SubSeq(s, p, p)[i] = <<"$">>[i]
      BY <1>0, <3>3, <3>4
    <3>6. Len(<<"$">>) = 1  OBVIOUS
    <3> QED  BY <3>1, <3>3, <3>5, <3>6, SeqEqual
  <2>2. Entered("$") = Tagging(<<"$">>)  BY DEF Entered, Tagging
  <2>3. h[p] = Tagging(SubSeq(s, p, p))  BY <2>1, <2>2, Zenon
  <2>4. p \in Nat  BY <1>0
  <2> QED  BY <2>3, <2>4
<1>2. ASSUME NEW q \in p..(t - 1) - 1, q \in T  PROVE q + 1 \in T
  <2>1. q \in p..Len(s) /\ q + 1 \in p + 1 .. t - 1 /\ q + 1 \in 1..Len(s) /\ q + 1 <= Len(s)
        /\ (q + 1) - 1 = q /\ q + 1 \in Nat
    BY <1>0
  <2>2. h[q] = Tagging(SubSeq(s, p, q))  BY <1>2
  <2>3. PICK tag : tag = SubSeq(s, p, q)  OBVIOUS
  <2>4. h[q + 1] = AfterTag(tag, s[q + 1])
    <3>1. h[q + 1] = Lexed(s, q + 1, h[(q + 1) - 1])  BY <2>1 DEF History
    <3>2. h[q + 1] = Lexed(s, q + 1, Tagging(tag))  BY <2>1, <2>2, <2>3, <3>1
    <3> QED  BY <3>2, TagFacts
  <2>5. InTagAt(s, p, q + 1)  BY <1>0, <2>1
  <2>6. Len(tag) = q - p + 1  BY <1>0, <2>1, <2>3, SubSeqGrows
  <2>7. InTag(tag, s[q + 1])
    <3>1. Len(tag) = 1 <=> q + 1 = p + 1  BY <1>0, <2>1, <2>6
    <3> QED  BY <2>5, <3>1 DEF InTag, InTagAt
  <2>8. s[q + 1] # "$"  BY <2>5, NotTagChars DEF InTagAt
  <2>9. s[q + 1] # "'"  BY <2>5, NotTagChars DEF InTagAt
  <2>10. h[q + 1] = Tagging(Append(tag, s[q + 1]))  BY <2>4, <2>7, <2>8, <2>9 DEF AfterTag
  <2>11. SubSeq(s, p, q + 1) = Append(tag, s[q + 1])  BY <1>0, <2>1, <2>3, SubSeqGrows
  <2> QED  BY <2>1, <2>10, <2>11
<1>3. p \in Nat /\ t - 1 \in Nat  BY <1>0
<1>4. \A q \in p..t - 1 : q \in T
  <2> HIDE DEF T
  <2> QED  BY <1>1, <1>2, <1>3, Upward
<1> QED  BY <1>4
TagEnd(s, p) == FirstFrom(s, p + 1, LAMBDA q : ~TagChar(s[q], q = p + 1))

\* The delimiter from p to t occurs again at q.
Repeats(s, p, t, q) == /\ q + (t - p + 1) - 1 <= Len(s)
                       /\ SubSeq(s, q, q + (t - p + 1) - 1) = SubSeq(s, p, t)

Repeated(s, p, t) == FirstFrom(s, t + 1, LAMBDA q : Repeats(s, p, t, q))

\* AfterDollarQuote in terms of the names above.
LEMMA DollarQuoteIs ==
  ASSUME NEW s, NEW p
  PROVE  AfterDollarQuote(s, p) =
           LET t == TagEnd(s, p)
           IN IF At(s, t) # "$" THEN p
              ELSE IF Repeated(s, p, t) > Len(s) THEN Repeated(s, p, t)
              ELSE Repeated(s, p, t) + (t - p + 1)
BY Zenon DEF AfterDollarQuote, TagEnd, Repeated, Repeats

\* Where a tag ends.
LEMMA TagEndRange ==
  ASSUME NEW s \in Seq(Chars), NEW p \in 1..Len(s)
  PROVE  /\ TagEnd(s, p) \in p + 1 .. Len(s) + 1
         /\ TagEnd(s, p) <= Len(s) => ~InTagAt(s, p, TagEnd(s, p))
         /\ \A q \in p + 1 .. TagEnd(s, p) - 1 : InTagAt(s, p, q)
<1> DEFINE n == Len(s)
           T == {q \in p + 1 .. n : ~TagChar(s[q], q = p + 1)}
<1>1. n \in Nat /\ p + 1 \in 1..n + 1 /\ T \subseteq p + 1 .. n  OBVIOUS
<1>2. TagEnd(s, p) = Min(T \cup {n + 1})  BY DEF TagEnd, FirstFrom
<1>3. PICK m : m = Min(T \cup {n + 1})  OBVIOUS
<1>4. m \in p + 1 .. n + 1 /\ (m <= n => m \in T) /\ \A q \in p + 1 .. m - 1 : q \notin T
  <2> HIDE DEF T, n
  <2> QED  BY <1>1, <1>3, FirstOf
<1>5. \A q \in p + 1 .. m - 1 : InTagAt(s, p, q)  BY <1>4 DEF InTagAt
<1>6. m <= n => ~InTagAt(s, p, m)  BY <1>4 DEF InTagAt
<1> QED  BY <1>2, <1>3, <1>4, <1>5, <1>6

\* Where a delimiter comes again.
LEMMA RepeatedRange ==
  ASSUME NEW s \in Seq(Chars), NEW p \in 1..Len(s), NEW t \in p + 1 .. Len(s)
  PROVE  /\ Repeated(s, p, t) \in t + 1 .. Len(s) + 1
         /\ Repeated(s, p, t) <= Len(s) => Repeats(s, p, t, Repeated(s, p, t))
         /\ \A q \in t + 1 .. Repeated(s, p, t) - 1 : ~Repeats(s, p, t, q)
<1> DEFINE n == Len(s)
           T == {q \in t + 1 .. n : Repeats(s, p, t, q)}
<1>1. n \in Nat /\ t + 1 \in 1..n + 1 /\ T \subseteq t + 1 .. n  OBVIOUS
<1>2. Repeated(s, p, t) = Min(T \cup {n + 1})  BY DEF Repeated, FirstFrom
<1>3. PICK m : m = Min(T \cup {n + 1})  OBVIOUS
<1>4. m \in t + 1 .. n + 1 /\ (m <= n => m \in T) /\ \A q \in t + 1 .. m - 1 : q \notin T
  <2> HIDE DEF T, n
  <2> QED  BY <1>1, <1>3, FirstOf
<1>5. \A q \in t + 1 .. m - 1 : ~Repeats(s, p, t, q)  BY <1>1, <1>4
<1> QED  BY <1>2, <1>3, <1>4, <1>5

\* A dollar quote is empty or ends further on.
LEMMA DollarQuoteRange ==
  ASSUME NEW s \in Seq(Chars), NEW p \in 1..Len(s)
  PROVE  AfterDollarQuote(s, p) \in {p} \cup (p + 1 .. Len(s) + 1)
<1>1. PICK t : t = TagEnd(s, p)  OBVIOUS
<1>2. t \in p + 1 .. Len(s) + 1  BY <1>1, TagEndRange
<1>3. AfterDollarQuote(s, p) = IF At(s, t) # "$" THEN p
              ELSE IF Repeated(s, p, t) > Len(s) THEN Repeated(s, p, t)
              ELSE Repeated(s, p, t) + (t - p + 1)
  BY <1>1, DollarQuoteIs
<1>4. CASE At(s, t) # "$"  BY <1>3, <1>4
<1>5. CASE At(s, t) = "$"
  <2>1. t \in p + 1 .. Len(s)  BY <1>2, <1>5 DEF At
  <2>2. PICK r : r = Repeated(s, p, t)  OBVIOUS
  <2>3. r \in t + 1 .. Len(s) + 1 /\ (r <= Len(s) => Repeats(s, p, t, r))
    BY <2>1, <2>2, RepeatedRange
  <2>4. r <= Len(s) => r + (t - p + 1) - 1 <= Len(s)  BY <2>3 DEF Repeats
  <2>5. Len(s) \in Nat  OBVIOUS
  <2>6. r + (t - p + 1) > p /\ r > p  BY <2>1, <2>3, <2>5
  <2>7. AfterDollarQuote(s, p) = IF r > Len(s) THEN r ELSE r + (t - p + 1)
    BY <1>3, <1>5, <2>2
  <2> QED  BY <2>1, <2>3, <2>4, <2>5, <2>6, <2>7
<1> QED  BY <1>4, <1>5

\* The text goes on as code after a dollar quote.
LEMMA DollarQuoteLands ==
  ASSUME NEW s, NEW h, History(s, h), NEW p \in 1..Len(s), s[p] = "$",
         h[p] = Entered("$"), At(s, TagEnd(s, p)) = "$"
  PROVE  Lands(s, h, p + 1, AfterDollarQuote(s, p))
<1>0. s \in Seq(Chars) /\ Len(s) \in Nat  BY DEF History
<1>1. PICK t : t = TagEnd(s, p)  OBVIOUS
<1>2. t \in p + 1 .. Len(s) /\ \A q \in p + 1 .. t - 1 : InTagAt(s, p, q)
  <2>1. t \in p + 1 .. Len(s) + 1 /\ \A q \in p + 1 .. t - 1 : InTagAt(s, p, q)
    BY <1>0, <1>1, TagEndRange
  <2>2. t \in 1..Len(s)  BY <1>1 DEF At
  <2> QED  BY <1>0, <2>1, <2>2
<1>3. s[t] = "$"  BY <1>1, <1>2 DEF At
<1>4. PICK size : size = t - p + 1  OBVIOUS
<1>5. size \in Nat /\ size >= 2 /\ t = p + size - 1  BY <1>0, <1>2, <1>4
<1>6. PICK tag : tag = SubSeq(s, p, t)  OBVIOUS
<1>7. tag \in Seq(Chars) /\ Len(tag) = size /\ \A k \in 1..size : tag[k] = s[p + k - 1]
  <2>1. t \in p..Len(s)  BY <1>0, <1>2
  <2> QED  BY <1>0, <1>4, <1>6, <2>1, SubSeqGrows
<1>8. PICK r : r = Repeated(s, p, t)  OBVIOUS
<1>9. /\ r \in t + 1 .. Len(s) + 1 /\ (r <= Len(s) => Repeats(s, p, t, r))
      /\ \A q \in t + 1 .. r - 1 : ~Repeats(s, p, t, q)
  BY <1>0, <1>2, <1>8, RepeatedRange
<1>10. AfterDollarQuote(s, p) = IF r > Len(s) THEN r ELSE r + size
  BY <1>1, <1>3, <1>4, <1>8, DollarQuoteIs
<1>11. TagRead(s, p, t)
  <2>1. t \in p + 1 .. Len(s) + 1  BY <1>0, <1>2
  <2> QED  BY <1>2, <2>1 DEF TagRead
<1>12. \A q \in p..t - 1 : h[q] = Tagging(SubSeq(s, p, q))  BY <1>11, TagLexed
<1>13. h[t] = Quoting(tag, 0)
  <2>1. t - 1 \in p..t - 1 /\ t \in 1..Len(s) /\ t - 1 \in p..Len(s) /\ (t - 1) + 1 = t
        /\ (t - 1) + 1 <= Len(s)
    BY <1>0, <1>2
  <2>2. h[t - 1] = Tagging(SubSeq(s, p, t - 1))  BY <1>12, <2>1
  <2>3. h[t] = AfterTag(SubSeq(s, p, t - 1), s[t])
    <3>1. h[t] = Lexed(s, t, h[t - 1])  BY <2>1 DEF History
    <3> QED  BY <2>2, <3>1, TagFacts
  <2>4. tag = Append(SubSeq(s, p, t - 1), s[t])
    <3>1. SubSeq(s, p, (t - 1) + 1) = Append(SubSeq(s, p, t - 1), s[(t - 1) + 1])
      BY <1>0, <2>1, SubSeqGrows
    <3> QED  BY <1>6, <2>1, <3>1
  <2>5. AfterTag(SubSeq(s, p, t - 1), "$") = Quoting(Append(SubSeq(s, p, t - 1), "$"), 0)
    <3>1. ~InTag(SubSeq(s, p, t - 1), "$")  BY NotTagChars DEF InTag
    <3> QED  BY <3>1 DEF AfterTag
  <2> QED  BY <1>3, <2>3, <2>4, <2>5
\* A delimiter that ends at a position is a repetition.
<1>14. ASSUME NEW i \in 1..Len(s), NEW depth \in Nat, i = t + depth + 1
       PROVE  TagEnds(s, i, tag, depth) <=>
                 i - size + 1 >= t + 1 /\ Repeats(s, p, t, i - size + 1)
  <2>1. i \in Nat /\ (depth + 1 >= size <=> i - size + 1 >= t + 1)  BY <1>0, <1>2, <1>5, <1>14
  <2> SUFFICES ASSUME i - size + 1 >= t + 1
               PROVE  (\A k \in 1..Len(tag) : At(s, i - Len(tag) + k) = tag[k])
                         <=> Repeats(s, p, t, i - size + 1)
    BY <1>7, <2>1 DEF TagEnds
  <2>2. PICK q : q = i - size + 1  OBVIOUS
  <2>3. q \in 1..Len(s) /\ q + size - 1 = i /\ i \in q..Len(s) /\ i - q + 1 = size /\ q \in Nat
        /\ q + (t - p + 1) - 1 = i /\ i <= Len(s)
    BY <1>0, <1>2, <1>4, <1>5, <2>1, <2>2
  <2>4. SubSeq(s, q, i) \in Seq(Chars) /\ Len(SubSeq(s, q, i)) = size
        /\ \A k \in 1..size : SubSeq(s, q, i)[k] = s[q + k - 1]
    BY <1>0, <2>3, SubSeqGrows
  <2>5. \A k \in 1..size : At(s, i - size + k) = SubSeq(s, q, i)[k]
    <3> SUFFICES ASSUME NEW k \in 1..size  PROVE At(s, i - size + k) = SubSeq(s, q, i)[k]
      OBVIOUS
    <3>1. i - size + k = q + k - 1 /\ q + k - 1 \in 1..Len(s)  BY <1>0, <1>5, <2>1, <2>2, <2>3
    <3>2. At(s, q + k - 1) = s[q + k - 1]  BY <3>1 DEF At
    <3> QED  BY <2>4, <3>1, <3>2
  <2>6. SubSeq(s, q, i) = tag <=> \A k \in 1..size : SubSeq(s, q, i)[k] = tag[k]
    <3>1. ASSUME \A k \in 1..size : SubSeq(s, q, i)[k] = tag[k]  PROVE SubSeq(s, q, i) = tag
      BY <1>7, <2>4, <3>1, SeqEqual
    <3> QED  BY <3>1
  <2>7. Repeats(s, p, t, q) <=> SubSeq(s, q, i) = tag  BY <1>6, <2>3 DEF Repeats
  <2> QED  BY <1>7, <2>2, <2>5, <2>6, <2>7
<1> DEFINE last == IF r > Len(s) THEN Len(s) ELSE r + size - 2
           T == {i \in Nat : h[i] = Quoting(tag, i - t)}
<1>15. last \in t..Len(s) /\ last \in Nat /\ (r <= Len(s) => r + size - 1 \in 1..Len(s))
  <2>1. r <= Len(s) => r + size - 1 <= Len(s)  BY <1>4, <1>9 DEF Repeats
  <2> QED  BY <1>0, <1>2, <1>5, <1>9, <2>1
<1>16. \A i \in t..last : i \in T
  <2>1. t \in T
    <3>1. t \in Nat /\ t - t = 0  BY <1>0, <1>2
    <3> QED  BY <1>13, <3>1
  <2>2. ASSUME NEW i \in t..last - 1, i \in T  PROVE i + 1 \in T
    <3>1. PICK d : d = i - t  OBVIOUS
    <3>2. /\ i \in Nat /\ d \in Nat /\ i + 1 \in 1..Len(s) /\ (i + 1) - 1 = i
          /\ i + 1 = t + d + 1 /\ (i + 1) - t = d + 1 /\ i + 1 <= last
      BY <1>0, <1>2, <1>15, <2>2, <3>1
    <3>3. h[(i + 1) - 1] = Quoting(tag, d)  BY <2>2, <3>1, <3>2
    <3>4. h[i + 1] = Lexed(s, i + 1, Quoting(tag, d))  BY <3>2, <3>3 DEF History
    <3>5. ~TagEnds(s, i + 1, tag, d)
      <4> SUFFICES ASSUME TagEnds(s, i + 1, tag, d)  PROVE FALSE
        OBVIOUS
      <4>1. (i + 1) - size + 1 >= t + 1 /\ Repeats(s, p, t, (i + 1) - size + 1)
        BY <1>14, <3>2
      <4>2. (i + 1) - size + 1 \in t + 1 .. r - 1
        BY <1>0, <1>2, <1>5, <1>9, <3>2, <4>1
      <4> QED  BY <1>9, <4>1, <4>2
    <3>6. h[i + 1] = Quoting(tag, d + 1)  BY <3>4, <3>5, TagFacts
    <3> QED  BY <3>2, <3>6
  <2>3. t \in Nat /\ last \in Nat  BY <1>0, <1>2, <1>15
  <2> HIDE DEF T, last
  <2> QED  BY <2>1, <2>2, <2>3, Upward
<1>17. Silent(s, h, p + 1, last + 1)
  <2> SUFFICES ASSUME NEW i \in p + 1 .. (last + 1) - 1  PROVE ~Separates(s, h, i)
    BY DEF Silent
  <2>1. i \in p..t - 1 \/ i \in t..last  BY <1>0, <1>2, <1>15
  <2>2. i \in p..t - 1 => h[i] = Tagging(SubSeq(s, p, i))  BY <1>12
  <2>3. i \in t..last => h[i] = Quoting(tag, i - t)  BY <1>16
  <2> HIDE DEF last
  <2> QED  BY <2>1, <2>2, <2>3, NotInTag
<1>18. CASE r > Len(s)
  <2>1. AfterDollarQuote(s, p) = Len(s) + 1 /\ last = Len(s)  BY <1>0, <1>9, <1>10, <1>18
  <2>2. Fresh(s, h, Len(s) + 1)
    <3>1. Len(s) + 1 \notin 1..Len(s)  BY <1>0
    <3> QED  BY <3>1 DEF Fresh
  <2>3. Len(s) + 1 \in p + 1 .. Len(s) + 1  BY <1>0
  <2>4. Silent(s, h, p + 1, Len(s) + 1)  BY <1>17, <2>1
  <2> QED  BY <2>1, <2>2, <2>3, <2>4 DEF Lands
<1>19. CASE r <= Len(s)
  <2>1. PICK e : e = r + size - 1  OBVIOUS
  <2>2. /\ e \in 1..Len(s) /\ last = e - 1 /\ AfterDollarQuote(s, p) = e + 1
        /\ e \in p + 1 .. Len(s) /\ e - 1 \in t..last /\ (e - 1) - t \in Nat
        /\ e = t + ((e - 1) - t) + 1 /\ e - size + 1 = r /\ (e + 1) - 1 = e
        /\ e \in Nat
    BY <1>0, <1>2, <1>5, <1>9, <1>10, <1>15, <1>19, <2>1
  <2>3. h[e - 1] = Quoting(tag, (e - 1) - t)  BY <1>16, <2>2
  <2>4. TagEnds(s, e, tag, (e - 1) - t)
    <3>1. r >= t + 1 /\ Repeats(s, p, t, r)  BY <1>0, <1>2, <1>9, <1>19
    <3> HIDE DEF last
    <3> QED  BY <1>14, <2>2, <3>1
  <2>5. h[e] = Entered("code")
    <3>1. h[e] = Lexed(s, e, h[e - 1])  BY <2>2 DEF History
    <3> HIDE DEF last
    <3> QED  BY <2>3, <2>4, <3>1, TagFacts
  <2>6. s[e] = "$"
    <3>1. \A k \in 1..Len(tag) : At(s, e - Len(tag) + k) = tag[k]  BY <2>4 DEF TagEnds
    <3>2. size \in 1..Len(tag) /\ e - Len(tag) + size = e  BY <1>5, <1>7, <2>2
    <3>3. At(s, e) = tag[size]  BY <3>1, <3>2
    <3>4. p + size - 1 = t /\ size \in 1..size  BY <1>5
    <3>5. tag[size] = s[t]  BY <1>7, <3>4
    <3> QED  BY <1>3, <2>2, <3>3, <3>5 DEF At
  <2>7. ~Separates(s, h, e)
    <3>1. s[e] # ";"  BY <2>6, Zenon
    <3> QED  BY <3>1, Zenon DEF Separates
  <2>8. Silent(s, h, p + 1, e + 1)
    <3> SUFFICES ASSUME NEW i \in p + 1 .. (e + 1) - 1
                 PROVE  i = e \/ i \in p + 1 .. (last + 1) - 1
      BY <1>17, <2>7 DEF Silent
    <3> QED  BY <2>2
  <2>9. Fresh(s, h, e + 1)
    <3> SUFFICES ASSUME e + 1 \in 1..Len(s)  PROVE h[e + 1] = Entered(CodeMode(s[e + 1]))
      BY DEF Fresh
    <3>1. h[(e + 1) - 1] = Entered("code")  BY <2>2, <2>5
    <3>2. "code" \notin BlockModes \cup {"$", "dollar"}  BY DEF BlockModes
    <3>3. h[e + 1] = Entered(After("code", s[e + 1]))  BY <3>1, <3>2, NextPlain
    <3> QED  BY <3>3, AfterFacts
  <2>10. e + 1 \in p + 1 .. Len(s) + 1  BY <1>0, <2>2
  <2> QED  BY <2>2, <2>8, <2>9, <2>10 DEF Lands
<1> QED  BY <1>0, <1>9, <1>18, <1>19

\* A tag without its dollar opens nothing.
LEMMA NoDollarQuote ==
  ASSUME NEW s \in Seq(Chars), NEW p \in 1..Len(s)
  PROVE  AfterDollarQuote(s, p) # p <=> At(s, TagEnd(s, p)) = "$"
<1>1. PICK t : t = TagEnd(s, p)  OBVIOUS
<1>2. t \in p + 1 .. Len(s) + 1  BY <1>1, TagEndRange
<1>3. AfterDollarQuote(s, p) = IF At(s, t) # "$" THEN p
              ELSE IF Repeated(s, p, t) > Len(s) THEN Repeated(s, p, t)
              ELSE Repeated(s, p, t) + (t - p + 1)
  BY <1>1, DollarQuoteIs
<1>4. CASE At(s, t) # "$"  BY <1>1, <1>3, <1>4
<1>5. CASE At(s, t) = "$"
  <2>1. t \in p + 1 .. Len(s)  BY <1>2, <1>5 DEF At
  <2>2. PICK r : r = Repeated(s, p, t)  OBVIOUS
  <2>3. r \in t + 1 .. Len(s) + 1  BY <2>1, <2>2, RepeatedRange
  <2>5. Len(s) \in Nat  OBVIOUS
  <2>6. r + (t - p + 1) > p /\ r > p  BY <2>1, <2>3, <2>5
  <2>7. AfterDollarQuote(s, p) = IF r > Len(s) THEN r ELSE r + (t - p + 1)
    BY <1>3, <1>5, <2>2
  <2> QED  BY <1>1, <1>5, <2>1, <2>3, <2>5, <2>6, <2>7
<1> QED  BY <1>4, <1>5

-----------------------------------------------------------------------------
(* Words.                                                                   *)

WordEnd(s, p) == FirstFrom(s, p + 1, LAMBDA q : ~WordContinue(s[q]))

\* Where a word ends.
LEMMA WordRange ==
  ASSUME NEW s \in Seq(Chars), NEW p \in 1..Len(s)
  PROVE  /\ WordEnd(s, p) \in p + 1 .. Len(s) + 1
         /\ WordEnd(s, p) <= Len(s) => ~WordContinue(s[WordEnd(s, p)])
         /\ \A q \in p + 1 .. WordEnd(s, p) - 1 : WordContinue(s[q])
<1> DEFINE n == Len(s)
           T == {q \in p + 1 .. n : ~WordContinue(s[q])}
<1>1. n \in Nat /\ p + 1 \in 1..n + 1 /\ T \subseteq p + 1 .. n  OBVIOUS
<1>2. WordEnd(s, p) = Min(T \cup {n + 1})  BY DEF WordEnd, FirstFrom
<1>3. PICK m : m = Min(T \cup {n + 1})  OBVIOUS
<1>4. m \in p + 1 .. n + 1 /\ (m <= n => m \in T) /\ \A q \in p + 1 .. m - 1 : q \notin T
  <2> HIDE DEF T, n
  <2> QED  BY <1>1, <1>3, FirstOf
<1>5. \A q \in p + 1 .. m - 1 : WordContinue(s[q])  BY <1>4
<1> QED  BY <1>2, <1>3, <1>4, <1>5

\* The text goes on as code after a word.
\* A character of code.
LEMMA FreshOn ==
  ASSUME NEW s, NEW h, NEW p \in 1..Len(s), Fresh(s, h, p)
  PROVE  h[p] = Entered(CodeMode(s[p]))
BY DEF Fresh

\* A name that starts at q has been read before p.
InName(s, h, q, p) ==
  /\ q \in 1..Len(s) /\ s[q] \in Letters \cup {"hi"} /\ Fresh(s, h, q)
  /\ p \in q + 1 .. Len(s) + 1 /\ \A i \in q + 1 .. p - 1 : NameContinue(s[i])
  /\ ~(p = q + 1 /\ s[q] = "E" /\ At(s, p) = "'")

\* So has a dollar at q, and what follows it as the tag of no literal.
InDollar(s, h, q, p) ==
  /\ TagRead(s, q, p) /\ Fresh(s, h, q) /\ AfterDollarQuote(s, q) = q
  /\ ~(p = q + 2 /\ s[q + 1] = "E" /\ At(s, p) = "'")

\* At p is a character of code, or a name or a tag may go on.
Resumes(s, h, p) ==
  \/ Fresh(s, h, p)
  \/ \E q \in TokenStarts(s) : InName(s, h, q, p) \/ InDollar(s, h, q, p)

\* From a the text resumes at r, past no separator.
Goes(s, h, a, r) == r \in a..Len(s) + 1 /\ Resumes(s, h, r) /\ Silent(s, h, a, r)

\* What no name has.
LEMMA NameChars ==
  ASSUME NEW c
  PROVE  /\ NameContinue(c) <=> c \in Letters \cup Digits \cup {"$", "hi"}
         /\ NameContinue(c) => c \notin {"'", ";", "-", "/", "dq", "bq"}
         /\ c \in Letters => c \notin {"'", ";", "$"} /\ WordContinue(c) /\ \A f : TagChar(c, f)
         /\ c \in Digits => c \notin Letters \cup {"'", ";", "$"}
         /\ "hi" \notin Letters \cup Digits /\ NameContinue("hi") /\ \A f : TagChar("hi", f)
         /\ WordContinue(c) => NameContinue(c)
BY DEF NameContinue, WordContinue, TagChar, Letters, Digits, High

\* A name holds no separator, and code goes on where it ends.
LEMMA NameRead ==
  ASSUME NEW s, NEW h, History(s, h), NEW q, NEW p, InName(s, h, q, p)
  PROVE  /\ \A i \in q..p - 1 : ~Separates(s, h, i)
         /\ p \in 1..Len(s) /\ ~NameContinue(s[p]) => Fresh(s, h, p)
<1>0. s \in Seq(Chars) /\ Len(s) \in Nat  BY DEF History
<1>1. /\ q \in 1..Len(s) /\ s[q] \in Letters \cup {"hi"} /\ Fresh(s, h, q)
      /\ p \in q + 1 .. Len(s) + 1 /\ \A i \in q + 1 .. p - 1 : NameContinue(s[i])
      /\ ~(p = q + 1 /\ s[q] = "E" /\ At(s, p) = "'")
  BY DEF InName
<1>2. "word" \notin BlockModes \cup {"$", "dollar"} /\ "E" \notin BlockModes \cup {"$", "dollar"}
  BY DEF BlockModes
<1>3. h[q] = Entered("word") \/ (s[q] = "E" /\ h[q] = Entered("E"))
  <2>1. h[q] = Entered(CodeMode(s[q]))  BY <1>1, FreshOn
  <2> QED  BY <1>1, <2>1, CodeModes DEF Letters
<1> DEFINE T == {i \in Nat : h[i] = Entered("word") \/ (i = q /\ s[q] = "E" /\ h[i] = Entered("E"))}
<1>4. \A i \in q..p - 1 : i \in T
  <2>1. q \in T  BY <1>0, <1>1, <1>3
  <2>2. ASSUME NEW i \in q..(p - 1) - 1, i \in T  PROVE i + 1 \in T
    <3>1. i + 1 \in 1..Len(s) /\ (i + 1) - 1 = i /\ i + 1 \in q + 1 .. p - 1 /\ i + 1 \in Nat
      BY <1>0, <1>1, <2>2
    <3>2. PICK mode \in {"word", "E"} : h[i] = Entered(mode)  BY <2>2
    <3>3. h[(i + 1) - 1] = Entered(mode)  BY <3>1, <3>2
    <3>4. h[i + 1] = Entered(After(mode, s[i + 1]))  BY <1>2, <3>1, <3>3, NextPlain
    <3>5. After(mode, s[i + 1]) = "word"  BY <1>1, <3>1, AfterFacts
    <3> QED  BY <3>1, <3>4, <3>5
  <2>3. q \in Nat /\ p - 1 \in Nat  BY <1>0, <1>1
  <2> HIDE DEF T
  <2> QED  BY <2>1, <2>2, <2>3, Upward
<1>5. ASSUME NEW i \in q..p - 1  PROVE ~Separates(s, h, i)
  <2>1. PICK mode \in {"word", "E"} : h[i] = Entered(mode)  BY <1>4
  <2>2. mode # "code"  OBVIOUS
  <2> QED  BY <2>1, <2>2, NotInCode
<1>6. ASSUME p \in 1..Len(s), ~NameContinue(s[p])  PROVE h[p] = Entered(CodeMode(s[p]))
  <2>1. p - 1 \in T  BY <1>0, <1>1, <1>4
  <2>2. CASE h[p - 1] = Entered("word")
    <3>1. h[p] = Entered(After("word", s[p]))  BY <1>2, <1>6, <2>2, NextPlain
    <3> QED  BY <1>6, <3>1, AfterFacts
  <2>3. CASE p - 1 = q /\ s[q] = "E" /\ h[p - 1] = Entered("E")
    <3>1. h[p] = Entered(After("E", s[p]))  BY <1>2, <1>6, <2>3, NextPlain
    <3>2. At(s, p) = s[p] /\ p = q + 1  BY <1>0, <1>1, <1>6, <2>3 DEF At
    <3>3. s[p] # "'"  BY <1>1, <2>3, <3>2
    <3> QED  BY <1>6, <3>1, <3>3, AfterFacts
  <2> QED  BY <2>1, <2>2, <2>3
<1> QED  BY <1>5, <1>6 DEF Fresh

\* So it is with a dollar and its letters.
LEMMA DollarRead ==
  ASSUME NEW s, NEW h, History(s, h), NEW q, NEW p, InDollar(s, h, q, p)
  PROVE  /\ \A i \in q..p - 1 : ~Separates(s, h, i)
         /\ p \in 1..Len(s) => s[p] # "$" /\ (~InTagAt(s, q, p) => Fresh(s, h, p))
<1>0. s \in Seq(Chars) /\ Len(s) \in Nat  BY DEF History
<1>1. /\ TagRead(s, q, p) /\ Fresh(s, h, q) /\ AfterDollarQuote(s, q) = q
      /\ ~(p = q + 2 /\ s[q + 1] = "E" /\ At(s, p) = "'")
      /\ q \in 1..Len(s) /\ s[q] = "$" /\ p \in q + 1 .. Len(s) + 1
      /\ \A i \in q + 1 .. p - 1 : InTagAt(s, q, i)
  BY DEF InDollar, TagRead
<1>2. h[q] = Entered("$")  BY <1>1, FreshOn, CodeModes
<1>3. \A i \in q..p - 1 : h[i] = Tagging(SubSeq(s, q, i))  BY <1>1, <1>2, TagLexed
<1>4. \A i \in q..p - 1 : ~Separates(s, h, i)  BY <1>3, NotInTag
<1>5. ASSUME p \in 1..Len(s)  PROVE s[p] # "$"
  <2> SUFFICES ASSUME s[p] = "$"  PROVE FALSE
    OBVIOUS
  <2>1. PICK t : t = TagEnd(s, q)  OBVIOUS
  <2>2. t \in q + 1 .. Len(s) + 1 /\ (t <= Len(s) => ~InTagAt(s, q, t))
        /\ \A i \in q + 1 .. t - 1 : InTagAt(s, q, i)
    BY <1>0, <1>1, <2>1, TagEndRange
  <2>3. ~InTagAt(s, q, p)  BY NotTagChars DEF InTagAt
  <2>4. t = p
    <3>1. ~(t < p)  BY <1>0, <1>1, <2>2
    <3>2. ~(p < t)  BY <1>0, <1>1, <2>2, <2>3
    <3> QED  BY <1>0, <1>1, <2>2, <3>1, <3>2
  <2>5. At(s, TagEnd(s, q)) = "$"  BY <1>5, <2>1, <2>4 DEF At
  <2> QED  BY <1>0, <1>1, <2>5, NoDollarQuote
<1>6. ASSUME p \in 1..Len(s), ~InTagAt(s, q, p)  PROVE h[p] = Entered(CodeMode(s[p]))
  <2>1. PICK tag : tag = SubSeq(s, q, p - 1)  OBVIOUS
  <2>2. p - 1 \in q..Len(s) /\ p - 1 \in q..p - 1 /\ (p - 1) - q + 1 = p - q  BY <1>0, <1>1
  <2>3. tag \in Seq(Chars) /\ Len(tag) = p - q /\ \A i \in 1..p - q : tag[i] = s[q + i - 1]
    BY <1>0, <1>1, <2>1, <2>2, SubSeqGrows
  <2>4. h[p] = AfterTag(tag, s[p])
    <3>1. h[p] = Lexed(s, p, h[p - 1])  BY <1>6 DEF History
    <3> QED  BY <1>3, <2>1, <2>2, <3>1, TagFacts
  <2>5. ~InTag(tag, s[p])
    <3>1. Len(tag) = 1 <=> p = q + 1  BY <1>0, <1>1, <2>3
    <3> QED  BY <1>6, <3>1 DEF InTag, InTagAt
  <2>6. ~(tag = <<"$", "E">> /\ s[p] = "'")
    <3> SUFFICES ASSUME tag = <<"$", "E">>, s[p] = "'"  PROVE FALSE
      OBVIOUS
    <3>1. Len(<<"$", "E">>) = 2 /\ <<"$", "E">>[2] = "E"  OBVIOUS
    <3>2. p = q + 2  BY <1>0, <1>1, <2>3, <3>1
    <3>3. 2 \in 1..p - q /\ q + 2 - 1 = q + 1  BY <1>0, <1>1, <3>2
    <3>4. s[q + 1] = "E"  BY <2>3, <3>1, <3>3
    <3>5. At(s, p) = "'"  BY <1>6 DEF At
    <3> QED  BY <1>1, <3>2, <3>4, <3>5
  <2> QED  BY <1>5, <1>6, <2>4, <2>5, <2>6 DEF AfterTag
<1> QED  BY <1>4, <1>5, <1>6 DEF Fresh

\* Other characters than those of names are read as code.
LEMMA OtherIsFresh ==
  ASSUME NEW s, NEW h, History(s, h), NEW p \in 1..Len(s), Resumes(s, h, p),
         s[p] \notin Letters \cup Digits \cup High \cup {"$"}
  PROVE  Fresh(s, h, p)
<1> SUFFICES ASSUME NEW q \in TokenStarts(s), InName(s, h, q, p) \/ InDollar(s, h, q, p)
             PROVE  Fresh(s, h, p)
  BY DEF Resumes
<1>1. s[p] \notin Letters \cup Digits \cup {"$", "hi"}  BY DEF High
<1>2. CASE InName(s, h, q, p)
  <2>1. ~NameContinue(s[p])  BY <1>1, NameChars, Zenon
  <2> QED  BY <1>2, <2>1, NameRead
<1>3. CASE InDollar(s, h, q, p)
  <2>1. ~InTagAt(s, q, p)  BY NotTagChars DEF InTagAt
  <2> QED  BY <1>3, <2>1, DollarRead
<1> QED  BY <1>2, <1>3

\* After a space, which only a dollar's letters may hold, the text resumes.
LEMMA SpaceResumes ==
  ASSUME NEW s, NEW h, History(s, h), NEW p \in 1..Len(s), s[p] \in Spaces, Resumes(s, h, p)
  PROVE  Resumes(s, h, p + 1) /\ ~Separates(s, h, p)
<1>0. s \in Seq(Chars) /\ Len(s) \in Nat /\ (p + 1) - 1 = p /\ p + 1 \in 1..Len(s) + 1
  BY DEF History
<1>1. s[p] \in {"sp", "nl", "us"} /\ s[p] \notin Letters \cup Digits \cup {"$", "hi", "E", ";"}
  BY DEF Spaces, Letters, Digits
<1>2. ~Separates(s, h, p)
  <2>1. s[p] # ";"  BY <1>1, Zenon
  <2> QED  BY <2>1, Zenon DEF Separates
<1>3. ASSUME Fresh(s, h, p)  PROVE Fresh(s, h, p + 1)
  <2> SUFFICES ASSUME p + 1 \in 1..Len(s)  PROVE h[p + 1] = Entered(CodeMode(s[p + 1]))
    BY DEF Fresh
  <2>1. CodeMode(s[p]) = "code"  BY <1>1, CodeModes
  <2>2. h[p] = Entered("code")  BY <1>3, <2>1, FreshOn
  <2>3. h[(p + 1) - 1] = Entered("code")  BY <1>0, <2>2
  <2>4. "code" \notin BlockModes \cup {"$", "dollar"}  BY DEF BlockModes
  <2>5. h[p + 1] = Entered(After("code", s[p + 1]))  BY <2>3, <2>4, NextPlain
  <2> QED  BY <2>5, AfterFacts
<1>4. ASSUME NEW q \in TokenStarts(s), InName(s, h, q, p)  PROVE Fresh(s, h, p)
  <2>1. ~NameContinue(s[p])  BY <1>1, NameChars
  <2> QED  BY <1>4, <2>1, NameRead
<1>5. ASSUME NEW q \in TokenStarts(s), InDollar(s, h, q, p)
      PROVE  Fresh(s, h, p) \/ InDollar(s, h, q, p + 1)
  <2>1. CASE ~InTagAt(s, q, p)  BY <1>5, <2>1, DollarRead
  <2>2. CASE InTagAt(s, q, p)
    <3>1. /\ TagRead(s, q, p) /\ Fresh(s, h, q) /\ AfterDollarQuote(s, q) = q
          /\ q \in 1..Len(s) /\ s[q] = "$" /\ p \in q + 1 .. Len(s) + 1
          /\ \A i \in q + 1 .. p - 1 : InTagAt(s, q, i)
      BY <1>5 DEF InDollar, TagRead
    <3>2. p + 1 \in q + 1 .. Len(s) + 1 /\ \A i \in q + 1 .. (p + 1) - 1 : i = p \/ i \in q + 1 .. p - 1
      BY <1>0, <3>1
    <3>3. TagRead(s, q, p + 1)  BY <2>2, <3>1, <3>2 DEF TagRead
    <3>4. p + 1 = q + 2 => q + 1 = p  BY <1>0, <3>1
    <3>5. ~(p + 1 = q + 2 /\ s[q + 1] = "E" /\ At(s, p + 1) = "'")  BY <1>1, <3>4
    <3> QED  BY <3>1, <3>3, <3>5 DEF InDollar
  <2> QED  BY <2>1, <2>2
<1> QED  BY <1>2, <1>3, <1>4, <1>5 DEF Resumes

IsComment(s, p) == \/ At(s, p) = "-" /\ At(s, p + 1) = "-"
                   \/ At(s, p) = "/" /\ At(s, p + 1) = "*"

TriviaValue(s, after, p) ==
  IF At(s, p) \in Spaces THEN after[p + 1]
  ELSE IF At(s, p) = "-" /\ At(s, p + 1) = "-" THEN after[AfterLineComment(s, p)]
  ELSE IF At(s, p) = "/" /\ At(s, p + 1) = "*" THEN after[AfterBlockComment(s, p)]
  ELSE p

\* Trivia at p end further on.
LEMMA TriviaAdvances ==
  ASSUME NEW s \in Seq(Chars), NEW p \in 1..Len(s) + 1
  PROVE  /\ At(s, p) \in Spaces => p \in 1..Len(s) /\ p + 1 \in p + 1 .. Len(s) + 1
         /\ At(s, p) = "-" /\ At(s, p + 1) = "-" =>
               /\ p \in 1..Len(s) /\ p + 1 \in 1..Len(s)
               /\ AfterLineComment(s, p) \in p + 1 .. Len(s) + 1
         /\ At(s, p) = "/" /\ At(s, p + 1) = "*" =>
               /\ p \in 1..Len(s) /\ p + 1 \in 1..Len(s)
               /\ AfterBlockComment(s, p) \in p + 1 .. Len(s) + 1
<1>0. Len(s) \in Nat /\ p \in Nat  OBVIOUS
<1>1. \A q : At(s, q) # "end" => q \in 1..Len(s)  BY DEF At
<1>2. At(s, p) \in Spaces => At(s, p) # "end"  BY DEF Spaces
<1>3. At(s, p) \in Spaces => p \in 1..Len(s) /\ p + 1 \in p + 1 .. Len(s) + 1
  BY <1>0, <1>1, <1>2
<1>4. ASSUME At(s, p) = "-" /\ At(s, p + 1) = "-"
      PROVE  /\ p \in 1..Len(s) /\ p + 1 \in 1..Len(s)
             /\ AfterLineComment(s, p) \in p + 1 .. Len(s) + 1
  <2>1. p \in 1..Len(s) /\ p + 1 \in 1..Len(s)  BY <1>1, <1>4
  <2>2. AfterLineComment(s, p) \in p + 2 .. Len(s) + 1  BY <1>0, <2>1, LineCommentRange
  <2> QED  BY <1>0, <2>1, <2>2
<1>5. ASSUME At(s, p) = "/" /\ At(s, p + 1) = "*"
      PROVE  /\ p \in 1..Len(s) /\ p + 1 \in 1..Len(s)
             /\ AfterBlockComment(s, p) \in p + 1 .. Len(s) + 1
  <2>1. p \in 1..Len(s) /\ p + 1 \in 1..Len(s)  BY <1>1, <1>5
  <2>2. AfterBlockComment(s, p) \in p + 2 .. Len(s) + 1  BY <1>0, <2>1, BlockCommentRange
  <2> QED  BY <1>0, <2>1, <2>2
<1> QED  BY <1>3, <1>4, <1>5

\* The function AfterTrivia chooses.
LEMMA TriviaFunction ==
  ASSUME NEW s \in Seq(Chars), NEW start \in 1..Len(s) + 1
  PROVE  \E after :
           /\ AfterTrivia(s, start) = after[start]
           /\ \A p \in start..Len(s) + 1 :
                 /\ after[p] \in p..Len(s) + 1
                 /\ after[p] = TriviaValue(s, after, p)
           /\ after = [p \in start..Len(s) + 1 |-> TriviaValue(s, after, p)]
<1> DEFINE n == Len(s)
           S == start..n + 1
           Value(f, p) ==
             IF At(s, p) \in Spaces THEN f[p + 1]
             ELSE IF At(s, p) = "-" /\ At(s, p + 1) = "-" THEN f[AfterLineComment(s, p)]
             ELSE IF At(s, p) = "/" /\ At(s, p + 1) = "*" THEN f[AfterBlockComment(s, p)]
             ELSE p
           E(f) == [p \in S |-> Value(f, p)]
           D == [f \in [S -> Nat] |-> E(f)]
<1>0. n \in Nat /\ start \in 1..n + 1  OBVIOUS
<1>1. \A p \in 1..n + 1 :
         /\ At(s, p) \in Spaces => p + 1 \in p + 1 .. n + 1
         /\ At(s, p) = "-" /\ At(s, p + 1) = "-" => AfterLineComment(s, p) \in p + 1 .. n + 1
         /\ At(s, p) = "/" /\ At(s, p + 1) = "*" => AfterBlockComment(s, p) \in p + 1 .. n + 1
  BY <1>0, TriviaAdvances
<1>2. ASSUME NEW p \in S, NEW f, \A q \in p + 1 .. n + 1 : f[q] \in q..n + 1
      PROVE  Value(f, p) \in p..n + 1
  <2>1. ASSUME NEW q \in p + 1 .. n + 1  PROVE f[q] \in p..n + 1
    <3>1. f[q] \in q..n + 1  BY <1>2
    <3> QED  BY <3>1, <1>0
  <2>2. p \in 1..n + 1 /\ p \in p..n + 1  BY <1>0
  <2> HIDE DEF n, S
  <2> QED  BY <1>1, <2>1, <2>2
<1>3. ASSUME NEW p \in S, NEW g, NEW f, \A q \in p + 1 .. n + 1 : g[q] = f[q]
      PROVE  Value(g, p) = Value(f, p)
  <2>1. p \in 1..n + 1  BY <1>0
  <2> HIDE DEF n, S
  <2> QED  BY <1>1, <1>3, <2>1
<1>4. ASSUME NEW f \in [S -> Nat], NEW p \in S  PROVE Value(f, p) \in Nat
  <2>1. p \in 1..n + 1 /\ p \in Nat /\ \A q \in p + 1 .. n + 1 : q \in S  BY <1>0
  <2>2. \A q \in p + 1 .. n + 1 : f[q] \in Nat  BY <2>1
  <2> HIDE DEF n, S
  <2> QED  BY <1>1, <2>1, <2>2
<1> HIDE DEF Value
<1>5. \A f \in [S -> Nat] : E(f) \in [S -> Nat]
  <2> HIDE DEF S
  <2> QED  BY <1>4
<1>6. \A f \in [S -> Nat] : D[f] = E(f)
  <2> HIDE DEF S, E
  <2> QED  OBVIOUS
<1>7. \A p \in S : \A g, f \in [S -> Nat] :
         (\A q \in p + 1 .. n + 1 : g[q] = f[q]) => D[g][p] = D[f][p]
  <2> SUFFICES ASSUME NEW p \in S, NEW g \in [S -> Nat], NEW f \in [S -> Nat],
                      \A q \in p + 1 .. n + 1 : g[q] = f[q]
               PROVE  D[g][p] = D[f][p]
    OBVIOUS
  <2>1. Value(g, p) = Value(f, p)  BY <1>3
  <2>2. E(g)[p] = Value(g, p) /\ E(f)[p] = Value(f, p)  OBVIOUS
  <2> HIDE DEF S, n, D, E
  <2> QED  BY <2>1, <2>2, <1>6
<1>8. Descends(D, start, n + 1, Nat)
  <2>1. start \in Nat /\ n + 1 \in Nat  BY <1>0
  <2> HIDE DEF D, E, n
  <2> QED  BY <2>1, <1>5, <1>6, <1>7 DEF Descends
<1> DEFINE P(f) == f = [p \in S |-> Value(f, p)]
           after == CHOOSE f : P(f)
<1>9. \E f : P(f)
  <2>1. PICK f \in [S -> Nat] : f = D[f]
    <3> HIDE DEF D, n
    <3> QED  BY <1>8, Descent
  <2>2. f = E(f)  BY <1>6, <2>1, Zenon
  <2> QED  BY <2>2
<1>10. P(after)  BY <1>9, Zenon
<1>11. AfterTrivia(s, start) = after[start]
  BY Zenon DEF AfterTrivia, Value
<1> HIDE DEF after
<1>12. \A p \in S : after[p] = Value(after, p)
  <2> HIDE DEF S
  <2> QED  BY <1>10
<1> DEFINE T == {p \in S : after[p] \in p..n + 1}
<1>13. ASSUME NEW p \in S, \A q \in p + 1 .. n + 1 : q \in T
       PROVE  p \in T
  <2>1. \A q \in p + 1 .. n + 1 : after[q] \in q..n + 1  BY <1>13
  <2> HIDE DEF S, n
  <2>2. Value(after, p) \in p..n + 1  BY <1>2, <2>1
  <2> QED  BY <1>12, <2>2
<1>14. \A p \in S : p \in T
  <2>1. start \in Nat /\ n + 1 \in Nat  BY <1>0
  <2> HIDE DEF T, n
  <2> QED  BY <1>13, <2>1, Downward
<1>15. \A p \in S : Value(after, p) = TriviaValue(s, after, p)
  BY DEF Value, TriviaValue
<1>16. after = [p \in S |-> TriviaValue(s, after, p)]
  <2> HIDE DEF S
  <2> QED  BY <1>10, <1>15
<1> QED  BY <1>11, <1>12, <1>14, <1>15, <1>16

\* Trivia end in the text, or with it.
LEMMA TriviaRange ==
  ASSUME NEW s \in Seq(Chars), NEW start \in 1..Len(s) + 1
  PROVE  AfterTrivia(s, start) \in start..Len(s) + 1
<1>1. start \in start..Len(s) + 1  OBVIOUS
<1> QED  BY <1>1, TriviaFunction

\* Past one separator-free stretch and another.
LEMMA GoesOn ==
  ASSUME NEW s \in Seq(Chars), NEW h, NEW a \in Nat, NEW b \in Nat, NEW r,
         a <= b, Silent(s, h, a, b), Goes(s, h, b, r)
  PROVE  Goes(s, h, a, r)
<1>1. Len(s) \in Nat  OBVIOUS
<1>2. r \in b..Len(s) + 1 /\ Resumes(s, h, r) /\ Silent(s, h, b, r)  BY DEF Goes
<1>3. r \in a..Len(s) + 1  BY <1>1, <1>2
<1>4. Silent(s, h, a, r)
  <2> SUFFICES ASSUME NEW i \in a..r - 1  PROVE i \in a..b - 1 \/ i \in b..r - 1
    BY <1>2 DEF Silent
  <2> QED  BY <1>1, <1>2
<1> QED  BY <1>2, <1>3, <1>4 DEF Goes

\* Of a token at p, the first character.
AtToken(s, p) == p \in 1..Len(s) => s[p] \notin Spaces /\ ~IsComment(s, p)
\* Where trivia end, there is none.
LEMMA TriviaStops ==
  ASSUME NEW s \in Seq(Chars), NEW start \in 1..Len(s) + 1
  PROVE  AtToken(s, AfterTrivia(s, start))
<1> DEFINE n == Len(s)
           S == start..n + 1
<1>0. n \in Nat /\ start \in 1..n + 1  OBVIOUS
<1>1. PICK after :
        /\ AfterTrivia(s, start) = after[start]
        /\ \A p \in S : /\ after[p] \in p..n + 1
                        /\ after[p] = TriviaValue(s, after, p)
  BY TriviaFunction
<1> DEFINE T == {p \in S : AtToken(s, after[p])}
<1>2. ASSUME NEW p \in S, \A q \in p + 1 .. n + 1 : q \in T  PROVE p \in T
  <2>0. p \in 1..n + 1 /\ after[p] = TriviaValue(s, after, p)  BY <1>0, <1>1
  <2>1. /\ At(s, p) \in Spaces => p + 1 \in p + 1 .. n + 1
        /\ At(s, p) = "-" /\ At(s, p + 1) = "-" => AfterLineComment(s, p) \in p + 1 .. n + 1
        /\ At(s, p) = "/" /\ At(s, p + 1) = "*" => AfterBlockComment(s, p) \in p + 1 .. n + 1
    BY <2>0, TriviaAdvances
  <2>2. \A q \in p + 1 .. n + 1 : AtToken(s, after[q])  BY <1>2
  <2>3. CASE At(s, p) \in Spaces \/ IsComment(s, p)
    <3>1. \E q \in p + 1 .. n + 1 : after[p] = after[q]
      BY <2>0, <2>1, <2>3, Zenon DEF TriviaValue, IsComment
    <3> QED  BY <2>2, <3>1
  <2>4. CASE ~(At(s, p) \in Spaces \/ IsComment(s, p))
    <3>1. after[p] = p  BY <2>0, <2>4, Zenon DEF TriviaValue, IsComment
    <3>2. p \in 1..Len(s) => At(s, p) = s[p]  BY DEF At
    <3>3. AtToken(s, p)  BY <2>4, <3>2 DEF AtToken
    <3> QED  BY <3>1, <3>3
  <2> QED  BY <2>3, <2>4
<1>3. \A p \in S : p \in T
  <2>1. start \in Nat /\ n + 1 \in Nat  BY <1>0
  <2> HIDE DEF T, n
  <2> QED  BY <1>2, <2>1, Downward
<1> QED  BY <1>0, <1>1, <1>3

\* Trivia hide no separator.
LEMMA TriviaGoes ==
  ASSUME NEW s, NEW h, History(s, h), NEW start \in 1..Len(s) + 1, Resumes(s, h, start)
  PROVE  Goes(s, h, start, AfterTrivia(s, start))
<1> DEFINE n == Len(s)
           S == start..n + 1
<1>0. s \in Seq(Chars) /\ n \in Nat /\ start \in 1..n + 1  BY DEF History
<1>1. PICK after :
        /\ AfterTrivia(s, start) = after[start]
        /\ \A p \in S : /\ after[p] \in p..n + 1
                        /\ after[p] = TriviaValue(s, after, p)
  BY <1>0, TriviaFunction
<1>2. BlockModes = {"block", "block*", "block/"}  BY DEF BlockModes
<1> DEFINE T == {p \in S : Resumes(s, h, p) => Goes(s, h, p, after[p])}
<1>4. ASSUME NEW p \in S, \A q \in p + 1 .. n + 1 : q \in T
      PROVE  p \in T
  <2> SUFFICES ASSUME Resumes(s, h, p)
               PROVE  Goes(s, h, p, after[p])
    OBVIOUS
  <2>0. p \in 1..n + 1 /\ p \in Nat /\ after[p] \in p..n + 1
        /\ after[p] = TriviaValue(s, after, p)
    BY <1>0, <1>1
  <2>1. p \in 1..n => At(s, p) = s[p]  BY DEF At
  <2>2. CASE At(s, p) \in Spaces
    <3>1. p \in 1..n /\ p + 1 \in p + 1 .. n + 1 /\ p + 1 \in 1..n + 1 /\ p <= p + 1
          /\ p + 1 \in Nat /\ (p + 1) - 1 = p
      BY <1>0, <2>0, <2>2, TriviaAdvances
    <3>2. Resumes(s, h, p + 1) /\ ~Separates(s, h, p)  BY <2>1, <2>2, <3>1, SpaceResumes
    <3>5. Goes(s, h, p + 1, after[p + 1])  BY <1>4, <3>1, <3>2
    <3>7. Silent(s, h, p, p + 1)
      <4>1. \A i \in p..(p + 1) - 1 : i = p  BY <3>1
      <4> QED  BY <3>2, <4>1 DEF Silent
    <3>8. after[p] = after[p + 1]  BY <2>0, <2>2 DEF TriviaValue
    <3> QED  BY <1>0, <2>0, <3>1, <3>5, <3>7, <3>8, GoesOn
  <2>3. CASE IsComment(s, p)
    <3>1. At(s, p) \in {"-", "/"} /\ At(s, p) \notin Spaces  BY <2>3 DEF IsComment, Spaces
    <3>2. p \in 1..n /\ p + 1 \in 1..n /\ p + 1 <= n
      BY <1>0, <2>0, <2>3, TriviaAdvances DEF IsComment
    <3>3. At(s, p + 1) = s[p + 1] /\ At(s, p) = s[p]  BY <3>2 DEF At
    <3>4. Fresh(s, h, p)
      <4>1. s[p] \notin Letters \cup Digits \cup High \cup {"$"}
        BY <3>1, <3>3 DEF Letters, Digits, High
      <4> QED  BY <3>2, <4>1, OtherIsFresh
    <3>5. h[p] = Entered(CodeMode(s[p]))  BY <3>2, <3>4, FreshOn
    <3>6. (p + 1) - 1 = p /\ p + 2 \in Nat /\ p <= p + 2  BY <2>0
    <3> DEFINE q == IF s[p] = "-" THEN AfterLineComment(s, p) ELSE AfterBlockComment(s, p)
    <3>7. Lands(s, h, p + 2, q) /\ ~Separates(s, h, p) /\ ~Separates(s, h, p + 1)
          /\ after[p] = after[q]
      <4>1. CASE s[p] = "-" /\ s[p + 1] = "-"
        <5>1. h[p] = Entered("dash")  BY <3>5, <4>1, CodeModes
        <5>2. "dash" \notin BlockModes \cup {"$", "dollar"}  BY <1>2
        <5>3. h[(p + 1) - 1] = Entered("dash")  BY <3>6, <5>1
        <5>4. h[p + 1] = Entered(After("dash", s[p + 1]))  BY <3>2, <5>2, <5>3, NextPlain
        <5>5. h[p + 1] = Entered("line")  BY <4>1, <5>4, AfterFacts
        <5>6. Lands(s, h, p + 2, AfterLineComment(s, p))  BY <3>2, <5>5, LineCommentLands
        <5>7. after[p] = after[AfterLineComment(s, p)]  BY <2>0, <3>1, <3>3, <4>1 DEF TriviaValue
        <5>8. ~Separates(s, h, p) /\ ~Separates(s, h, p + 1)  BY <5>1, <5>5, NotInCode
        <5> QED  BY <4>1, <5>6, <5>7, <5>8
      <4>2. CASE s[p] = "/" /\ s[p + 1] = "*"
        <5>1. h[p] = Entered("slash")  BY <3>5, <4>2, CodeModes
        <5>2. "slash" \notin BlockModes \cup {"$", "dollar"}  BY <1>2
        <5>3. h[(p + 1) - 1] = Entered("slash")  BY <3>6, <5>1
        <5>4. h[p + 1] = Entered(After("slash", s[p + 1]))  BY <3>2, <5>2, <5>3, NextPlain
        <5>5. h[p + 1] = Entered("block")  BY <4>2, <5>4, AfterFacts
        <5>6. Entered("block") = Commented("block", 1)  BY DEF Entered, Commented
        <5>7. Lands(s, h, p + 2, AfterBlockComment(s, p))
          BY <3>2, <5>5, <5>6, BlockCommentLands
        <5>8. after[p] = after[AfterBlockComment(s, p)]  BY <2>0, <3>1, <3>3, <4>2 DEF TriviaValue
        <5>9. ~Separates(s, h, p) /\ ~Separates(s, h, p + 1)  BY <5>1, <5>5, NotInCode
        <5> QED  BY <4>2, <5>7, <5>8, <5>9
      <4> QED  BY <2>3, <3>3, <4>1, <4>2 DEF IsComment
    <3> HIDE DEF q
    <3>8. q \in p + 2 .. n + 1 /\ Fresh(s, h, q) /\ Silent(s, h, p + 2, q)  BY <3>7 DEF Lands
    <3>9. q \in p + 1 .. n + 1 /\ q \in Nat /\ p <= q  BY <1>0, <2>0, <3>8
    <3>10. Goes(s, h, q, after[q])  BY <1>4, <3>8, <3>9 DEF Resumes
    <3>11. Silent(s, h, p, q)
      <4> SUFFICES ASSUME NEW i \in p..q - 1  PROVE i \in {p, p + 1} \/ i \in p + 2 .. q - 1
        BY <3>7, <3>8 DEF Silent
      <4> QED  BY <2>0, <3>9
    <3> QED  BY <1>0, <2>0, <3>7, <3>9, <3>10, <3>11, GoesOn
  <2>4. CASE At(s, p) \notin Spaces /\ ~IsComment(s, p)
    <3>1. after[p] = p  BY <2>0, <2>4 DEF TriviaValue, IsComment
    <3>3. p..p - 1 = {}  BY <2>0
    <3>4. Silent(s, h, p, p)  BY <3>3 DEF Silent
    <3> QED  BY <2>0, <3>1, <3>4 DEF Goes
  <2> QED  BY <2>2, <2>3, <2>4
<1>5. \A p \in S : p \in T
  <2>1. start \in Nat /\ n + 1 \in Nat  BY <1>0
  <2> HIDE DEF T, n
  <2> QED  BY <1>4, <2>1, Downward
<1>6. start \in S  BY <1>0
<1> QED  BY <1>1, <1>5, <1>6

-----------------------------------------------------------------------------
(* Tokens.                                                                  *)

\* AfterToken in terms of the names above.
LEMMA TokenIs ==
  ASSUME NEW s, NEW p
  PROVE  AfterToken(s, p) =
    IF s[p] = "E" /\ At(s, p + 1) = "'" THEN AfterQuoted(s, p + 1, "'", TRUE)
    ELSE IF s[p] = "'" THEN AfterQuoted(s, p, "'", FALSE)
    ELSE IF s[p] = "dq" THEN AfterQuoted(s, p, "dq", FALSE)
    ELSE IF s[p] = "$" /\ AfterDollarQuote(s, p) # p THEN AfterDollarQuote(s, p)
    ELSE IF s[p] \in Letters THEN WordEnd(s, p)
    ELSE p + 1
BY Zenon DEF AfterToken, WordStart, WordEnd

\* A quoted literal ends further on.
LEMMA QuotedRange ==
  ASSUME NEW s \in Seq(Chars), NEW open \in 1..Len(s), NEW quote, quote # "end",
         NEW escapes \in BOOLEAN
  PROVE  AfterQuoted(s, open, quote, escapes) \in open + 1 .. Len(s) + 1
<1>1. open + 1 \in open + 1 .. Len(s) + 1  OBVIOUS
<1> QED  BY <1>1, QuotedFunction

\* A token ends further on.
LEMMA TokenRange ==
  ASSUME NEW s \in Seq(Chars), NEW p \in 1..Len(s)
  PROVE  AfterToken(s, p) \in p + 1 .. Len(s) + 1
<1>0. Len(s) \in Nat  OBVIOUS
<1>1. "'" # "end" /\ "dq" # "end"  OBVIOUS
<1>2. AfterQuoted(s, p, "'", FALSE) \in p + 1 .. Len(s) + 1  BY <1>1, QuotedRange
<1>3. AfterQuoted(s, p, "dq", FALSE) \in p + 1 .. Len(s) + 1  BY <1>1, QuotedRange
<1>4. ASSUME At(s, p + 1) = "'"
      PROVE  AfterQuoted(s, p + 1, "'", TRUE) \in p + 1 .. Len(s) + 1
  <2>1. p + 1 \in 1..Len(s)  BY <1>4 DEF At
  <2>2. PICK r : r = AfterQuoted(s, p + 1, "'", TRUE)  OBVIOUS
  <2>3. r \in (p + 1) + 1 .. Len(s) + 1  BY <1>1, <2>1, <2>2, QuotedRange
  <2>4. r \in p + 1 .. Len(s) + 1  BY <1>0, <2>3
  <2> QED  BY <2>2, <2>4
<1>5. AfterDollarQuote(s, p) # p => AfterDollarQuote(s, p) \in p + 1 .. Len(s) + 1
  BY DollarQuoteRange
<1>6. WordEnd(s, p) \in p + 1 .. Len(s) + 1  BY WordRange
<1>7. p + 1 \in p + 1 .. Len(s) + 1  BY <1>0
<1> QED  BY <1>2, <1>3, <1>4, <1>5, <1>6, <1>7, TokenIs

\* One more character before, which is no separator.
\* One more character before, which is no separator.
LEMMA GoesLater ==
  ASSUME NEW s \in Seq(Chars), NEW h, NEW p \in 1..Len(s), NEW r,
         Goes(s, h, p + 1, r), ~Separates(s, h, p)
  PROVE  Goes(s, h, p, r)
<1>1. p \in Nat /\ p + 1 \in Nat /\ p <= p + 1 /\ \A i \in p..(p + 1) - 1 : i = p  OBVIOUS
<1>2. Silent(s, h, p, p + 1)  BY <1>1 DEF Silent
<1> QED  BY <1>1, <1>2, GoesOn

\* Going on as code is resuming.
LEMMA LandsGoes ==
  ASSUME NEW s, NEW h, NEW a, NEW r, Lands(s, h, a, r)
  PROVE  Goes(s, h, a, r)
BY DEF Lands, Goes, Resumes


\* Any character but a semicolon is no separator.
LEMMA NotSemicolon ==
  ASSUME NEW s, NEW h, NEW p, NEW c, s[p] = c, c # ";"
  PROVE  ~Separates(s, h, p) /\ s[p] # ";"
BY Zenon DEF Separates
\* After a part of a name that starts at q, the name may go on.
LEMMA NameGoes ==
  ASSUME NEW s, NEW h, History(s, h), NEW q \in TokenStarts(s), NEW p, NEW r,
         InName(s, h, q, r), p \in q..r - 1
  PROVE  Goes(s, h, p + 1, r) /\ ~Separates(s, h, p)
<1>0. q \in 1..Len(s) /\ r \in q + 1 .. Len(s) + 1 /\ Len(s) \in Nat
  BY DEF InName, History
<1>1. \A i \in q..r - 1 : ~Separates(s, h, i)  BY NameRead
<1>2. r \in p + 1 .. Len(s) + 1 /\ \A i \in p + 1 .. r - 1 : i \in q..r - 1  BY <1>0
<1> QED  BY <1>1, <1>2 DEF Goes, Resumes, Silent

\* The same of a dollar and its letters.
LEMMA DollarGoes ==
  ASSUME NEW s, NEW h, History(s, h), NEW q \in TokenStarts(s), NEW p, NEW r,
         InDollar(s, h, q, r), p \in q..r - 1
  PROVE  Goes(s, h, p + 1, r) /\ ~Separates(s, h, p)
<1>0. q \in 1..Len(s) /\ r \in q + 1 .. Len(s) + 1 /\ Len(s) \in Nat
  BY DEF InDollar, TagRead, History
<1>1. \A i \in q..r - 1 : ~Separates(s, h, i)  BY DollarRead
<1>2. r \in p + 1 .. Len(s) + 1 /\ \A i \in p + 1 .. r - 1 : i \in q..r - 1  BY <1>0
<1> QED  BY <1>1, <1>2 DEF Goes, Resumes, Silent

\* In no name and no dollar's letters does the scanner see a literal open.
LEMMA NotSplit ==
  ASSUME NEW s, NEW h, History(s, h), ~Splits(s, {"hi"}),
         NEW p \in TokenStarts(s), NEW q \in TokenStarts(s), LiteralAt(s, p)
  PROVE  /\ ~InName(s, h, q, p)
         /\ InDollar(s, h, q, p) => p = q + 1
<1>0. Len(s) \in Nat  BY DEF History
<1>1. ~OneName(s, {"hi"}, q, p)  BY Zenon DEF Splits
<1>2. ASSUME InName(s, h, q, p)  PROVE FALSE
  <2>1. /\ q \in 1..Len(s) /\ s[q] \in Letters \cup {"hi"} /\ p \in q + 1 .. Len(s) + 1
        /\ \A i \in q + 1 .. p - 1 : NameContinue(s[i])
    BY <1>2 DEF InName
  <2>2. s[q] # "$"  BY <2>1, NameChars
  <2>3. \A i \in q + 1 .. p - 1 : WordContinue(s[i]) \/ s[i] \in {"hi"}  BY <2>1 DEF NameContinue
  <2>4. q < p  BY <1>0, <2>1
  <2> QED  BY <1>1, <2>1, <2>2, <2>3, <2>4, Zenon DEF OneName
<1>3. ASSUME InDollar(s, h, q, p), p # q + 1  PROVE FALSE
  <2>1. /\ q \in 1..Len(s) /\ s[q] = "$" /\ p \in q + 1 .. Len(s) + 1
        /\ \A i \in q + 1 .. p - 1 : InTagAt(s, q, i)
    BY <1>3 DEF InDollar, TagRead
  <2>2. q < p /\ q + 1 < p /\ q + 1 \in q + 1 .. p - 1  BY <1>0, <1>3, <2>1
  <2>3. s[q + 1] \notin Digits
    <3>1. TagChar(s[q + 1], TRUE)
      <4>1. (q + 1 = q + 1) = TRUE  OBVIOUS
      <4> QED  BY <2>1, <2>2, <4>1 DEF InTagAt
    <3> QED  BY <3>1 DEF TagChar, Letters, High, Digits
  <2>4. \A i \in q + 1 .. p - 1 : WordContinue(s[i]) \/ s[i] \in High
    BY <2>1, NotTagChars DEF InTagAt, WordContinue
  <2> QED  BY <1>1, <2>1, <2>2, <2>3, <2>4, Zenon DEF OneName
<1> QED  BY <1>2, <1>3

\* After any other character, the text goes on as code.
LEMMA OtherLands ==
  ASSUME NEW s, NEW h, History(s, h), NEW p \in 1..Len(s), Fresh(s, h, p),
         s[p] \notin Letters \cup {"'", "dq", "bq", "$", "hi"}, AtToken(s, p)
  PROVE  /\ Lands(s, h, p + 1, p + 1)
         /\ Separates(s, h, p) <=> s[p] = ";"
<1>0. s \in Seq(Chars) /\ Len(s) \in Nat /\ p \in Nat /\ (p + 1) - 1 = p
      /\ p + 1 \in 1..Len(s) + 1
  BY DEF History
<1>1. h[p] = Entered(CodeMode(s[p]))  BY FreshOn
<1>2. /\ s[p] = "-" => CodeMode(s[p]) = "dash"
      /\ s[p] = "/" => CodeMode(s[p]) = "slash"
      /\ s[p] # "-" /\ s[p] # "/" => CodeMode(s[p]) = "code"
  BY CodeModes DEF Letters
<1>3. PICK mode : mode = CodeMode(s[p])  OBVIOUS
<1>4. mode \in {"dash", "slash", "code"} /\ mode \notin BlockModes \cup {"$", "dollar"}
  BY <1>2, <1>3 DEF BlockModes
<1>5. Fresh(s, h, p + 1)
  <2> SUFFICES ASSUME p + 1 \in 1..Len(s)  PROVE h[p + 1] = Entered(CodeMode(s[p + 1]))
    BY DEF Fresh
  <2>1. h[(p + 1) - 1] = Entered(mode)  BY <1>0, <1>1, <1>3
  <2>2. h[p + 1] = Entered(After(mode, s[p + 1]))  BY <1>4, <2>1, NextPlain
  <2>3. At(s, p) = s[p] /\ At(s, p + 1) = s[p + 1]  BY DEF At
  <2>4. ~(s[p] = "-" /\ s[p + 1] = "-") /\ ~(s[p] = "/" /\ s[p + 1] = "*")
    BY <2>3 DEF AtToken, IsComment
  <2>5. mode = "dash" => s[p + 1] # "-"  BY <1>2, <1>3, <2>4
  <2>6. mode = "slash" => s[p + 1] # "*"  BY <1>2, <1>3, <2>4
  <2> QED  BY <1>4, <2>2, <2>5, <2>6, AfterFacts
<1>6. Lands(s, h, p + 1, p + 1)  BY <1>0, <1>5, LandsHere
<1>7. ASSUME s[p] = ";"  PROVE h[p].mode = "code"
  <2>1. s[p] # "-" /\ s[p] # "/"  BY <1>7, Zenon
  <2>2. CodeMode(s[p]) = "code"  BY <1>2, <2>1, Zenon
  <2>3. h[p] = Entered("code")  BY <1>1, <2>2, Zenon
  <2>4. Entered("code").mode = "code"  BY DEF Entered
  <2> QED  BY <2>3, <2>4, Zenon
<1>8. Separates(s, h, p) <=> s[p] = ";"  BY <1>7, Zenon DEF Separates
<1> QED  BY <1>6, <1>8
\* A word, unless a literal opens in it, is a name or goes on with one.
LEMMA WordGoes ==
  ASSUME NEW s, NEW h, History(s, h), NEW p \in 1..Len(s), p \in TokenStarts(s),
         Resumes(s, h, p), s[p] \in Letters, ~(s[p] = "E" /\ At(s, p + 1) = "'")
  PROVE  Goes(s, h, p + 1, WordEnd(s, p))
<1>0. s \in Seq(Chars) /\ Len(s) \in Nat  BY DEF History
<1>1. PICK r : r = WordEnd(s, p)  OBVIOUS
<1>2. r \in p + 1 .. Len(s) + 1 /\ \A i \in p + 1 .. r - 1 : WordContinue(s[i])
  BY <1>0, <1>1, WordRange
<1>3. WordContinue(s[p]) /\ \A f : TagChar(s[p], f)  BY NameChars
<1>4. \A i \in p..r - 1 : i = p \/ i \in p + 1 .. r - 1  BY <1>0, <1>2
<1>5. \A i \in p..r - 1 : NameContinue(s[i]) /\ WordContinue(s[i])  BY <1>2, <1>3, <1>4, NameChars
<1>6. p \in p..r - 1 /\ r = p + 1 => At(s, r) = At(s, p + 1)  BY <1>0, <1>2
<1>7. CASE Fresh(s, h, p)
  <2>1. InName(s, h, p, r)
    <3>1. ~(r = p + 1 /\ s[p] = "E" /\ At(s, r) = "'")  OBVIOUS
    <3>2. \A i \in p + 1 .. r - 1 : NameContinue(s[i])  BY <1>2, NameChars
    <3> QED  BY <1>2, <1>7, <3>1, <3>2 DEF InName
  <2>2. p \in p..r - 1  BY <1>0, <1>2
  <2> QED  BY <1>1, <2>1, <2>2, NameGoes
<1>8. ASSUME NEW q \in TokenStarts(s), InName(s, h, q, p)  PROVE Goes(s, h, p + 1, r)
  <2>1. /\ q \in 1..Len(s) /\ s[q] \in Letters \cup {"hi"} /\ Fresh(s, h, q)
        /\ p \in q + 1 .. Len(s) + 1 /\ \A i \in q + 1 .. p - 1 : NameContinue(s[i])
    BY <1>8 DEF InName
  <2>2. /\ r \in q + 1 .. Len(s) + 1 /\ p \in q..r - 1 /\ r # q + 1
        /\ \A i \in q + 1 .. r - 1 : i \in q + 1 .. p - 1 \/ i \in p..r - 1
    BY <1>0, <1>2, <2>1
  <2>3. InName(s, h, q, r)  BY <1>5, <2>1, <2>2 DEF InName
  <2> QED  BY <2>2, <2>3, NameGoes
<1>9. ASSUME NEW q \in TokenStarts(s), InDollar(s, h, q, p)  PROVE Goes(s, h, p + 1, r)
  <2>1. /\ q \in 1..Len(s) /\ s[q] = "$" /\ Fresh(s, h, q) /\ AfterDollarQuote(s, q) = q
        /\ p \in q + 1 .. Len(s) + 1 /\ \A i \in q + 1 .. p - 1 : InTagAt(s, q, i)
    BY <1>9 DEF InDollar, TagRead
  <2>2. /\ r \in q + 1 .. Len(s) + 1 /\ p \in q..r - 1 /\ p \in Nat
        /\ \A i \in q + 1 .. r - 1 : i \in q + 1 .. p - 1 \/ i \in p..r - 1
    BY <1>0, <1>2, <2>1
  <2>3. \A i \in p..r - 1 : InTagAt(s, q, i)
    <3> DEFINE T == {i \in Nat : TagRead(s, q, i + 1)}
    <3>1. ASSUME NEW i \in p..r - 1, s[i] # "$"  PROVE InTagAt(s, q, i)
      <4>1. CASE i = p  BY <1>3, <4>1 DEF InTagAt
      <4>2. CASE i # p
        <5>1. i # q + 1  BY <1>0, <1>2, <2>1, <4>2
        <5>2. s[i] \in Letters \cup Digits  BY <1>5, <3>1 DEF WordContinue
        <5> QED  BY <5>1, <5>2 DEF InTagAt, TagChar
      <4> QED  BY <4>1, <4>2
    <3>2. p \in T
      <4>1. InTagAt(s, q, p)  BY <1>3 DEF InTagAt
      <4>2. p + 1 \in q + 1 .. Len(s) + 1 /\ \A i \in q + 1 .. (p + 1) - 1 : i = p \/ i \in q + 1 .. p - 1
        BY <1>0, <2>1
      <4> QED  BY <2>1, <2>2, <4>1, <4>2 DEF TagRead
    <3>3. ASSUME NEW i \in p..(r - 1) - 1, i \in T  PROVE i + 1 \in T
      <4>1. i + 1 \in p..r - 1 /\ i + 1 \in 1..Len(s) /\ i + 1 \in Nat /\ (i + 1) + 1 \in q + 1 .. Len(s) + 1
            /\ i + 1 # q + 1 /\ i \in Nat
            /\ \A j \in q + 1 .. ((i + 1) + 1) - 1 : j = i + 1 \/ j \in q + 1 .. (i + 1) - 1
        BY <1>0, <1>2, <2>1, <2>2, <3>3
      <4>2. TagRead(s, q, i + 1)  BY <3>3
      <4>3. s[i + 1] # "$"
        <5>1. CASE i + 1 = q + 2 /\ s[q + 1] = "E" /\ At(s, i + 1) = "'"
          <6>1. s[i + 1] = "'"  BY <4>1, <5>1 DEF At
          <6> QED  BY <6>1
        <5>2. CASE ~(i + 1 = q + 2 /\ s[q + 1] = "E" /\ At(s, i + 1) = "'")
          <6>1. InDollar(s, h, q, i + 1)  BY <2>1, <4>2, <5>2 DEF InDollar
          <6> QED  BY <4>1, <6>1, DollarRead
        <5> QED  BY <5>1, <5>2
      <4>4. InTagAt(s, q, i + 1)  BY <3>1, <4>1, <4>3
      <4> HIDE DEF T
      <4>5. TagRead(s, q, (i + 1) + 1)  BY <4>1, <4>2, <4>4 DEF TagRead
      <4> QED  BY <4>1, <4>5 DEF T
    <3>4. \A i \in p..r - 1 : i \in T
      <4>1. p \in Nat /\ r - 1 \in Nat  BY <1>0, <1>2
      <4> HIDE DEF T
      <4> QED  BY <3>2, <3>3, <4>1, Upward
    <3> SUFFICES ASSUME NEW i \in p..r - 1  PROVE InTagAt(s, q, i)
      OBVIOUS
    <3>5. TagRead(s, q, i + 1)  BY <3>4
    <3>6. i \in q + 1 .. (i + 1) - 1  BY <1>0, <2>1
    <3> QED  BY <3>5, <3>6 DEF TagRead
  <2>4. TagRead(s, q, r)  BY <2>1, <2>2, <2>3 DEF TagRead
  <2>5. ~(r = q + 2 /\ s[q + 1] = "E" /\ At(s, r) = "'")
    <3>1. r = q + 2 => p = q + 1 /\ r = p + 1  BY <1>0, <1>2, <2>1
    <3> QED  BY <3>1
  <2>6. InDollar(s, h, q, r)  BY <2>1, <2>4, <2>5 DEF InDollar
  <2> QED  BY <2>2, <2>6, DollarGoes
<1> QED  BY <1>1, <1>7, <1>8, <1>9 DEF Resumes

\* A digit or a byte >= 0x80 is one too, or stands alone, as does a dollar.
LEMMA CharGoes ==
  ASSUME NEW s, NEW h, History(s, h), NEW p \in 1..Len(s), p \in TokenStarts(s),
         Resumes(s, h, p), AtToken(s, p), s[p] \in Digits \cup {"hi", "$"},
         s[p] = "$" => AfterDollarQuote(s, p) = p
  PROVE  Goes(s, h, p + 1, p + 1)
<1>0. s \in Seq(Chars) /\ Len(s) \in Nat /\ (p + 1) - 1 = p /\ p \in Nat  BY DEF History
<1>1. NameContinue(s[p]) /\ s[p] \notin Letters \cup {"E"}
  BY NameChars DEF Letters, Digits
<1>2. CASE Fresh(s, h, p)
  <2>1. p + 1 \in p + 1 .. Len(s) + 1 /\ p \in p..(p + 1) - 1 /\ p + 1 .. (p + 1) - 1 = {}
        /\ p + 1 # p + 2
    BY <1>0
  <2>2. CASE s[p] = "hi"
    <3>1. InName(s, h, p, p + 1)  BY <1>1, <1>2, <2>1, <2>2 DEF InName
    <3> QED  BY <2>1, <3>1, NameGoes
  <2>3. CASE s[p] = "$"
    <3>1. InDollar(s, h, p, p + 1)  BY <1>2, <2>1, <2>3 DEF InDollar, TagRead
    <3> QED  BY <2>1, <3>1, DollarGoes
  <2>4. CASE s[p] \in Digits
    <3>1. s[p] \notin Letters \cup {"'", "dq", "bq", "$", "hi"}  BY <2>4 DEF Letters, Digits
    <3>2. Lands(s, h, p + 1, p + 1)  BY <1>2, <3>1, OtherLands
    <3> QED  BY <3>2, LandsGoes
  <2> QED  BY <2>2, <2>3, <2>4
<1>3. ASSUME NEW q \in TokenStarts(s), InName(s, h, q, p)  PROVE Goes(s, h, p + 1, p + 1)
  <2>1. /\ q \in 1..Len(s) /\ s[q] \in Letters \cup {"hi"} /\ Fresh(s, h, q)
        /\ p \in q + 1 .. Len(s) + 1 /\ \A i \in q + 1 .. p - 1 : NameContinue(s[i])
    BY <1>3 DEF InName
  <2>2. /\ p + 1 \in q + 1 .. Len(s) + 1 /\ p \in q..(p + 1) - 1 /\ p + 1 # q + 1
        /\ \A i \in q + 1 .. (p + 1) - 1 : i \in q + 1 .. p - 1 \/ i = p
    BY <1>0, <2>1
  <2>3. InName(s, h, q, p + 1)  BY <1>1, <2>1, <2>2 DEF InName
  <2> QED  BY <2>2, <2>3, NameGoes
<1>4. ASSUME NEW q \in TokenStarts(s), InDollar(s, h, q, p), ~Fresh(s, h, p)
      PROVE  Goes(s, h, p + 1, p + 1)
  <2>1. /\ q \in 1..Len(s) /\ s[q] = "$" /\ Fresh(s, h, q) /\ AfterDollarQuote(s, q) = q
        /\ p \in q + 1 .. Len(s) + 1 /\ \A i \in q + 1 .. p - 1 : InTagAt(s, q, i)
    BY <1>4 DEF InDollar, TagRead
  <2>2. /\ p + 1 \in q + 1 .. Len(s) + 1 /\ p \in q..(p + 1) - 1
        /\ \A i \in q + 1 .. (p + 1) - 1 : i \in q + 1 .. p - 1 \/ i = p
        /\ (p + 1 = q + 2 => q + 1 = p)
    BY <1>0, <2>1
  <2>3. InTagAt(s, q, p)  BY <1>4, DollarRead
  <2>4. TagRead(s, q, p + 1)  BY <2>1, <2>2, <2>3 DEF TagRead
  <2>5. ~(p + 1 = q + 2 /\ s[q + 1] = "E" /\ At(s, p + 1) = "'")  BY <1>1, <2>2
  <2>6. InDollar(s, h, q, p + 1)  BY <2>1, <2>4, <2>5 DEF InDollar
  <2> QED  BY <2>2, <2>6, DollarGoes
<1> QED  BY <1>2, <1>3, <1>4 DEF Resumes

\* The lexer reads the escape literal that the scanner sees open.
LEMMA EscapeOpens ==
  ASSUME NEW s, NEW h, History(s, h), ~Splits(s, {"hi"}), NEW p \in 1..Len(s),
         p \in TokenStarts(s), Resumes(s, h, p), s[p] = "E", At(s, p + 1) = "'"
  PROVE  p + 1 \in 1..Len(s) /\ h[p + 1] = Entered("e")
<1>0. s \in Seq(Chars) /\ Len(s) \in Nat /\ (p + 1) - 1 = p  BY DEF History
<1>1. p + 1 \in 1..Len(s) /\ s[p + 1] = "'"  BY DEF At
<1>2. CASE Fresh(s, h, p)
  <2>1. h[(p + 1) - 1] = Entered("E")  BY <1>0, <1>2, FreshOn, CodeModes
  <2>2. "E" \notin BlockModes \cup {"$", "dollar"}  BY DEF BlockModes
  <2>3. h[p + 1] = Entered(After("E", s[p + 1]))  BY <1>1, <2>1, <2>2, NextPlain
  <2> QED  BY <1>1, <2>3, AfterFacts
<1>3. ASSUME NEW q \in TokenStarts(s), InName(s, h, q, p) \/ InDollar(s, h, q, p)
      PROVE  h[p + 1] = Entered("e")
  <2>1. LiteralAt(s, p)  BY DEF LiteralAt
  <2>2. InDollar(s, h, q, p) /\ p = q + 1  BY <1>3, <2>1, NotSplit
  <2>3. q \in 1..Len(s) /\ s[q] = "$" /\ Fresh(s, h, q) /\ TagRead(s, q, p)
    BY <2>2 DEF InDollar, TagRead
  <2>4. h[q] = Entered("$")  BY <2>3, FreshOn, CodeModes
  <2>5. p + 1 \in q + 1 .. Len(s) + 1 /\ p \in q..(p + 1) - 1 /\ p \in q..Len(s) /\ p - q + 1 = 2
        /\ \A i \in q + 1 .. (p + 1) - 1 : i = p
    BY <1>0, <1>1, <2>2, <2>3
  <2>6. InTagAt(s, q, p)
    <3>1. s[p] \in Letters  BY DEF Letters
    <3> QED  BY <3>1, NameChars DEF InTagAt
  <2>7. TagRead(s, q, p + 1)  BY <2>3, <2>5, <2>6 DEF TagRead
  <2>8. PICK tag : tag = SubSeq(s, q, p)  OBVIOUS
  <2>9. h[p] = Tagging(tag)  BY <2>4, <2>5, <2>7, <2>8, TagLexed
  <2>10. tag = <<"$", "E">>
    <3>1. tag \in Seq(Chars) /\ Len(tag) = 2 /\ \A i \in 1..2 : tag[i] = s[q + i - 1]
      BY <1>0, <2>3, <2>5, <2>8, SubSeqGrows
    <3>2. q + 1 - 1 = q /\ q + 2 - 1 = p  BY <2>2, <2>3
    <3>3. tag[1] = "$" /\ tag[2] = "E"  BY <2>3, <3>1, <3>2
    <3>4. <<"$", "E">>[1] = "$" /\ <<"$", "E">>[2] = "E"  OBVIOUS
    <3>5. s[q] \in Chars /\ s[p] \in Chars  BY <1>0, <2>3
    <3>6. <<"$", "E">> \in Seq(Chars) /\ Len(<<"$", "E">>) = 2  BY <2>3, <3>5
    <3>7. \A i \in 1..2 : i = 1 \/ i = 2  OBVIOUS
    <3>8. \A i \in 1..Len(tag) : tag[i] = <<"$", "E">>[i]  BY <3>1, <3>3, <3>4, <3>7
    <3> QED  BY <3>1, <3>6, <3>8, SeqEqual
  <2>11. h[p + 1] = AfterTag(tag, s[p + 1])
    <3>1. h[p + 1] = Lexed(s, p + 1, h[(p + 1) - 1])  BY <1>1 DEF History
    <3>2. h[p + 1] = Lexed(s, p + 1, Tagging(tag))  BY <1>0, <2>9, <3>1
    <3> QED  BY <3>2, TagFacts
  <2>12. ~InTag(tag, "'")  BY NotTagChars DEF InTag
  <2> QED  BY <1>1, <2>10, <2>11, <2>12 DEF AfterTag
<1> QED  BY <1>1, <1>2, <1>3 DEF Resumes

\* After a token the text resumes, and a token is a separator if it is a semicolon.
LEMMA TokenGoes ==
  ASSUME NEW s, NEW h, History(s, h), ~Splits(s, {"hi"}), NEW p \in 1..Len(s),
         p \in TokenStarts(s), Resumes(s, h, p), AtToken(s, p)
  PROVE  /\ Goes(s, h, p + 1, AfterToken(s, p))
         /\ Separates(s, h, p) <=> s[p] = ";"
<1>0. s \in Seq(Chars) /\ Len(s) \in Nat /\ p \in Nat /\ p + 1 \in Nat  BY DEF History
<1>1. PICK e : e = AfterToken(s, p)  OBVIOUS
<1>2. e = IF s[p] = "E" /\ At(s, p + 1) = "'" THEN AfterQuoted(s, p + 1, "'", TRUE)
    ELSE IF s[p] = "'" THEN AfterQuoted(s, p, "'", FALSE)
    ELSE IF s[p] = "dq" THEN AfterQuoted(s, p, "dq", FALSE)
    ELSE IF s[p] = "$" /\ AfterDollarQuote(s, p) # p THEN AfterDollarQuote(s, p)
    ELSE IF s[p] \in Letters THEN WordEnd(s, p)
    ELSE p + 1
  BY <1>1, TokenIs
<1>3. s[p] # "bq"  BY Zenon DEF Splits
<1>4. Letters = {"a", "E"} /\ Digits = {"1"} /\ High = {"hi", "us"} /\ Spaces = {"sp", "nl", "us"}
  BY DEF Letters, Digits, High, Spaces
<1>5. Fresh(s, h, p) => h[p] = Entered(CodeMode(s[p]))  BY FreshOn
<1>6. CASE s[p] = "E" /\ At(s, p + 1) = "'"
  <2>1. p + 1 \in 1..Len(s) /\ h[p + 1] = Entered("e")  BY <1>6, EscapeOpens
  <2>3. Literal("'", TRUE, "e", "e'")  BY DEF Literal
  <2>4. Lands(s, h, (p + 1) + 1, AfterQuoted(s, p + 1, "'", TRUE))
    <3>1. s[p + 1] = "'"  BY <1>6, <2>1 DEF At
    <3> QED  BY <2>1, <2>3, <3>1, AfterQuotedLands
  <2>5. Goes(s, h, (p + 1) + 1, e)  BY <1>2, <1>6, <2>4, LandsGoes
  <2>6. "e" # "code"  OBVIOUS
  <2>7. ~Separates(s, h, p + 1)  BY <2>1, <2>6, NotInCode
  <2>8. Goes(s, h, p + 1, e)  BY <1>0, <2>1, <2>5, <2>7, GoesLater
  <2>9. ~Separates(s, h, p) /\ s[p] # ";"  BY <1>6, NotSemicolon, Zenon
  <2> QED  BY <1>1, <2>8, <2>9
<1>7. CASE s[p] = "'"
  <2>0. Fresh(s, h, p)  BY <1>4, <1>7, OtherIsFresh
  <2>1. h[p] = Entered("'")  BY <1>5, <1>7, <2>0, CodeModes
  <2>2. Literal("'", FALSE, "'", "''")  BY DEF Literal
  <2>3. Lands(s, h, p + 1, AfterQuoted(s, p, "'", FALSE))  BY <2>1, <2>2, AfterQuotedLands
  <2>4. Goes(s, h, p + 1, e)  BY <1>2, <1>7, <2>3, LandsGoes
  <2>5. ~Separates(s, h, p) /\ s[p] # ";"  BY <1>7, NotSemicolon, Zenon
  <2> QED  BY <1>1, <2>4, <2>5
<1>8. CASE s[p] = "dq"
  <2>0. Fresh(s, h, p)  BY <1>4, <1>8, OtherIsFresh
  <2>1. h[p] = Entered("dq")  BY <1>5, <1>8, <2>0, CodeModes
  <2>2. Literal("dq", FALSE, "dq", "dqdq")  BY DEF Literal
  <2>3. Lands(s, h, p + 1, AfterQuoted(s, p, "dq", FALSE))  BY <2>1, <2>2, AfterQuotedLands
  <2>4. Goes(s, h, p + 1, e)  BY <1>2, <1>8, <2>3, LandsGoes
  <2>5. ~Separates(s, h, p) /\ s[p] # ";"  BY <1>8, NotSemicolon, Zenon
  <2> QED  BY <1>1, <2>4, <2>5
<1>9. CASE s[p] = "$" /\ AfterDollarQuote(s, p) # p
  <2>0. Fresh(s, h, p)
    <3> SUFFICES ASSUME NEW q \in TokenStarts(s), InName(s, h, q, p) \/ InDollar(s, h, q, p)
                 PROVE  FALSE
      BY DEF Resumes
    <3>1. LiteralAt(s, p)  BY <1>9 DEF LiteralAt
    <3>2. ~InName(s, h, q, p)  BY <3>1, NotSplit
    <3>3. ~InDollar(s, h, q, p)  BY <1>9, DollarRead
    <3> QED  BY <3>2, <3>3
  <2>1. h[p] = Entered("$")  BY <1>5, <1>9, <2>0, CodeModes
  <2>2. ~Separates(s, h, p) /\ s[p] # ";"  BY <1>9, NotSemicolon, Zenon
  <2>3. At(s, TagEnd(s, p)) = "$"  BY <1>0, <1>9, NoDollarQuote
  <2>4. Lands(s, h, p + 1, AfterDollarQuote(s, p))  BY <1>9, <2>1, <2>3, DollarQuoteLands
  <2>5. Goes(s, h, p + 1, e)  BY <1>2, <1>9, <2>4, LandsGoes
  <2> QED  BY <1>1, <2>2, <2>5
<1>10. CASE s[p] \in Letters /\ ~(s[p] = "E" /\ At(s, p + 1) = "'")
  <2>1. Goes(s, h, p + 1, WordEnd(s, p))  BY <1>10, WordGoes
  <2>2. e = WordEnd(s, p)  BY <1>2, <1>4, <1>10
  <2>3. s[p] = "a" \/ s[p] = "E"  BY <1>4, <1>10
  <2>4. ~Separates(s, h, p) /\ s[p] # ";"  BY <2>3, NotSemicolon, Zenon
  <2> QED  BY <1>1, <2>1, <2>2, <2>4
<1>11. CASE s[p] \in Digits \cup {"hi", "$"} /\ (s[p] = "$" => AfterDollarQuote(s, p) = p)
  <2>1. Goes(s, h, p + 1, p + 1)  BY <1>11, CharGoes
  <2>2. e = p + 1  BY <1>2, <1>4, <1>11
  <2>3. s[p] = "1" \/ s[p] = "hi" \/ s[p] = "$"  BY <1>4, <1>11
  <2>4. ~Separates(s, h, p) /\ s[p] # ";"  BY <2>3, NotSemicolon, Zenon
  <2> QED  BY <1>1, <2>1, <2>2, <2>4
<1>12. CASE s[p] \notin Letters \cup Digits \cup {"'", "dq", "$", "hi"}
  <2>0. s[p] # "us"  BY <1>4, <1>0 DEF AtToken
  <2>1. Fresh(s, h, p)
    <3>1. s[p] \notin Letters \cup Digits \cup High \cup {"$"}  BY <1>4, <1>12, <2>0
    <3> QED  BY <3>1, OtherIsFresh
  <2>2. Lands(s, h, p + 1, p + 1) /\ (Separates(s, h, p) <=> s[p] = ";")
    BY <1>3, <1>12, <2>1, OtherLands
  <2>3. e = p + 1  BY <1>2, <1>4, <1>12
  <2> QED  BY <1>1, <2>2, <2>3, LandsGoes
<1> QED  BY <1>4, <1>6, <1>7, <1>8, <1>9, <1>10, <1>11, <1>12

StartsValue(s, from, p) ==
  IF AfterTrivia(s, p) > Len(s) THEN {}
  ELSE {AfterTrivia(s, p)} \cup from[AfterToken(s, AfterTrivia(s, p))]

\* Where the token after the trivia at p ends.
LEMMA StartAdvances ==
  ASSUME NEW s \in Seq(Chars), NEW p \in 1..Len(s) + 1
  PROVE  /\ AfterTrivia(s, p) \in p..Len(s) + 1
         /\ ~(AfterTrivia(s, p) > Len(s)) =>
               /\ AfterTrivia(s, p) \in 1..Len(s)
               /\ AfterToken(s, AfterTrivia(s, p)) \in AfterTrivia(s, p) + 1 .. Len(s) + 1
               /\ AfterToken(s, AfterTrivia(s, p)) \in p + 1 .. Len(s) + 1
<1>0. Len(s) \in Nat  OBVIOUS
<1>1. PICK q : q = AfterTrivia(s, p)  OBVIOUS
<1>2. q \in p..Len(s) + 1  BY <1>1, TriviaRange
<1>3. ASSUME ~(q > Len(s))
      PROVE  q \in 1..Len(s) /\ AfterToken(s, q) \in q + 1 .. Len(s) + 1
             /\ AfterToken(s, q) \in p + 1 .. Len(s) + 1
  <2>1. q \in 1..Len(s)  BY <1>0, <1>2, <1>3
  <2>2. PICK e : e = AfterToken(s, q)  OBVIOUS
  <2>3. e \in q + 1 .. Len(s) + 1  BY <2>1, <2>2, TokenRange
  <2>4. e \in p + 1 .. Len(s) + 1  BY <1>0, <1>2, <2>3
  <2> QED  BY <2>1, <2>2, <2>3, <2>4
<1> QED  BY <1>1, <1>2, <1>3

\* The function TokenStarts chooses.
LEMMA StartsFunction ==
  ASSUME NEW s \in Seq(Chars)
  PROVE  \E from :
           /\ TokenStarts(s) = from[1]
           /\ \A p \in 1..Len(s) + 1 :
                 /\ from[p] \subseteq p..Len(s)
                 /\ from[p] = StartsValue(s, from, p)
<1> DEFINE n == Len(s)
           S == 1..n + 1
           V == SUBSET Nat
           Value(f, p) == LET q == AfterTrivia(s, p)
                          IN IF q > Len(s) THEN {} ELSE {q} \cup f[AfterToken(s, q)]
           E(f) == [p \in S |-> Value(f, p)]
           D == [f \in [S -> V] |-> E(f)]
<1>0. n \in Nat  OBVIOUS
<1>1. ASSUME NEW p \in S, NEW f, \A q \in p + 1 .. n + 1 : f[q] \subseteq q..n
      PROVE  Value(f, p) \subseteq p..n
  <2>1. PICK q : q = AfterTrivia(s, p)  OBVIOUS
  <2>2. PICK e : e = AfterToken(s, q)  OBVIOUS
  <2>3. Value(f, p) = IF q > n THEN {} ELSE {q} \cup f[e]  BY <2>1, <2>2
  <2>4. q \in p..n + 1 /\ (~(q > n) => q \in 1..n /\ e \in p + 1 .. n + 1)
    BY <2>1, <2>2, StartAdvances
  <2>5. ~(q > n) => f[e] \subseteq p..n
    <3> SUFFICES ASSUME ~(q > n)  PROVE f[e] \subseteq p..n
      OBVIOUS
    <3>1. f[e] \subseteq e..n /\ e \in p + 1 .. n + 1  BY <1>1, <2>4
    <3>2. e..n \subseteq p..n  BY <1>0, <3>1
    <3> QED  BY <3>1, <3>2
  <2>6. ~(q > n) => q \in p..n  BY <1>0, <2>4
  <2> HIDE DEF Value, n, S
  <2> QED  BY <2>3, <2>5, <2>6
<1>2. ASSUME NEW p \in S, NEW g, NEW f, \A q \in p + 1 .. n + 1 : g[q] = f[q]
      PROVE  Value(g, p) = Value(f, p)
  <2>1. PICK q : q = AfterTrivia(s, p)  OBVIOUS
  <2>2. PICK e : e = AfterToken(s, q)  OBVIOUS
  <2>3. Value(f, p) = (IF q > n THEN {} ELSE {q} \cup f[e])
        /\ Value(g, p) = (IF q > n THEN {} ELSE {q} \cup g[e])
    BY <2>1, <2>2
  <2>4. ~(q > n) => e \in p + 1 .. n + 1
    BY <2>1, <2>2, StartAdvances
  <2> HIDE DEF Value, n, S
  <2> QED  BY <1>2, <2>3, <2>4
<1>3. ASSUME NEW f \in [S -> V], NEW p \in S  PROVE Value(f, p) \in V
  <2>1. PICK q : q = AfterTrivia(s, p)  OBVIOUS
  <2>2. PICK e : e = AfterToken(s, q)  OBVIOUS
  <2>3. Value(f, p) = IF q > n THEN {} ELSE {q} \cup f[e]  BY <2>1, <2>2
  <2>4. ~(q > n) => q \in 1..n /\ e \in p + 1 .. n + 1
    BY <2>1, <2>2, StartAdvances
  <2>5. ~(q > n) => q \in Nat /\ e \in S  BY <1>0, <2>4
  <2> HIDE DEF Value, n, S
  <2> QED  BY <2>3, <2>5
<1> HIDE DEF Value
<1>5. \A f \in [S -> V] : E(f) \in [S -> V]
  <2> HIDE DEF S, V
  <2> QED  BY <1>3
<1>6. \A f \in [S -> V] : D[f] = E(f)
  <2> HIDE DEF S, E, V
  <2> QED  OBVIOUS
<1>7. \A p \in S : \A g, f \in [S -> V] :
         (\A q \in p + 1 .. n + 1 : g[q] = f[q]) => D[g][p] = D[f][p]
  <2> SUFFICES ASSUME NEW p \in S, NEW g \in [S -> V], NEW f \in [S -> V],
                      \A q \in p + 1 .. n + 1 : g[q] = f[q]
               PROVE  D[g][p] = D[f][p]
    OBVIOUS
  <2>1. Value(g, p) = Value(f, p)  BY <1>2
  <2>2. E(g)[p] = Value(g, p) /\ E(f)[p] = Value(f, p)  OBVIOUS
  <2> HIDE DEF S, n, D, E, V
  <2> QED  BY <2>1, <2>2, <1>6
<1>8. Descends(D, 1, n + 1, V)
  <2>0. {} \in V  OBVIOUS
  <2>1. 1 \in Nat /\ n + 1 \in Nat  BY <1>0
  <2> HIDE DEF D, E, n, V
  <2>2. V # {}  BY <2>0
  <2> QED  BY <2>1, <2>2, <1>5, <1>6, <1>7 DEF Descends
<1> DEFINE P(f) == f = [p \in S |-> Value(f, p)]
           from == CHOOSE f : P(f)
<1>9. \E f : P(f)
  <2>1. PICK f \in [S -> V] : f = D[f]
    <3> HIDE DEF D, n, V
    <3> QED  BY <1>8, Descent
  <2>2. f = E(f)  BY <1>6, <2>1, Zenon
  <2> QED  BY <2>2
<1>10. P(from)  BY <1>9, Zenon
<1>11. TokenStarts(s) = from[1]
  BY Zenon DEF TokenStarts, Value
<1> HIDE DEF from
<1>12. \A p \in S : from[p] = Value(from, p)
  <2> HIDE DEF S
  <2> QED  BY <1>10
<1> DEFINE T == {p \in S : from[p] \subseteq p..n}
<1>13. ASSUME NEW p \in S, \A q \in p + 1 .. n + 1 : q \in T
       PROVE  p \in T
  <2>1. \A q \in p + 1 .. n + 1 : from[q] \subseteq q..n  BY <1>13
  <2> HIDE DEF S, n
  <2>2. Value(from, p) \subseteq p..n  BY <1>1, <2>1
  <2> QED  BY <1>12, <2>2
<1>14. \A p \in S : p \in T
  <2>1. 1 \in Nat /\ n + 1 \in Nat  BY <1>0
  <2> HIDE DEF T, n
  <2> QED  BY <1>13, <2>1, Downward
<1>15. \A p \in S : Value(from, p) = StartsValue(s, from, p)
  BY DEF Value, StartsValue
<1> QED  BY <1>11, <1>12, <1>14, <1>15

\* Tokens are in the text, and none is a space.
LEMMA TokensAreTokens ==
  ASSUME NEW s \in Seq(Chars)
  PROVE  \A q \in TokenStarts(s) : q \in 1..Len(s) /\ AtToken(s, q)
<1> DEFINE n == Len(s)
           S == 1..n + 1
<1>0. n \in Nat  OBVIOUS
<1>1. PICK from :
        /\ TokenStarts(s) = from[1]
        /\ \A p \in S : /\ from[p] \subseteq p..n
                        /\ from[p] = StartsValue(s, from, p)
  BY StartsFunction
<1> DEFINE T == {p \in S : \A q \in from[p] : AtToken(s, q)}
<1>2. ASSUME NEW p \in S, \A q \in p + 1 .. n + 1 : q \in T  PROVE p \in T
  <2>1. PICK q : q = AfterTrivia(s, p)  OBVIOUS
  <2>2. PICK e : e = AfterToken(s, q)  OBVIOUS
  <2>3. ~(q > n) => e \in p + 1 .. n + 1  BY <2>1, <2>2, StartAdvances
  <2>4. from[p] = IF q > n THEN {} ELSE {q} \cup from[e]
    BY <1>1, <2>1, <2>2 DEF StartsValue
  <2>5. AtToken(s, q)  BY <2>1, TriviaStops
  <2>6. \A i \in p + 1 .. n + 1 : \A r \in from[i] : AtToken(s, r)  BY <1>2
  <2>7. \A i \in from[p] : AtToken(s, i)
    <3> HIDE DEF n, S
    <3> QED  BY <2>3, <2>4, <2>5, <2>6
  <2> QED  BY <2>7
<1>3. \A p \in S : p \in T
  <2>1. 1 \in Nat /\ n + 1 \in Nat  BY <1>0
  <2> HIDE DEF T, n
  <2> QED  BY <1>2, <2>1, Downward
<1>4. 1 \in S  BY <1>0
<1>5. from[1] \subseteq 1..n  BY <1>1, <1>4
<1> QED  BY <1>1, <1>3, <1>4, <1>5

\* The scanner and the lexer find the same separators.
LEMMA SameSeparators ==
  ASSUME NEW s, NEW h, History(s, h), ~Splits(s, {"hi"})
  PROVE  Separators(s) = {i \in 1..Len(s) : Separates(s, h, i)}
<1> DEFINE n == Len(s)
           S == 1..n + 1
<1>0. s \in Seq(Chars) /\ n \in Nat  BY DEF History
<1>1. PICK from :
        /\ TokenStarts(s) = from[1]
        /\ \A p \in S : /\ from[p] \subseteq p..n
                        /\ from[p] = StartsValue(s, from, p)
  BY <1>0, StartsFunction
<1> DEFINE Right(p) == \A i \in p..n : Separates(s, h, i) <=> i \in from[p] /\ s[i] = ";"
           T == {p \in S : Resumes(s, h, p) /\ from[p] \subseteq TokenStarts(s) => Right(p)}
<1>2. ASSUME NEW p \in S, \A q \in p + 1 .. n + 1 : q \in T
      PROVE  p \in T
  <2> SUFFICES ASSUME Resumes(s, h, p), from[p] \subseteq TokenStarts(s)  PROVE Right(p)
    OBVIOUS
  <2>1. PICK q : q = AfterTrivia(s, p)  OBVIOUS
  <2>2. PICK e : e = AfterToken(s, q)  OBVIOUS
  <2>3. /\ q \in p..n + 1
        /\ ~(q > n) => q \in 1..n /\ e \in q + 1 .. n + 1 /\ e \in p + 1 .. n + 1
    BY <1>0, <2>1, <2>2, StartAdvances
  <2>4. from[p] = IF q > n THEN {} ELSE {q} \cup from[e]
    BY <1>1, <2>1, <2>2 DEF StartsValue
  <2>5. Goes(s, h, p, q) /\ AtToken(s, q)  BY <1>0, <2>1, TriviaGoes, TriviaStops
  <2>6. \A i \in p..q - 1 : ~Separates(s, h, i)  BY <2>5 DEF Goes, Silent
  <2>7. CASE q > n
    <3>1. from[p] = {} /\ \A i \in p..n : i \in p..q - 1  BY <1>0, <2>3, <2>4, <2>7
    <3>2. \A i \in p..n : ~Separates(s, h, i)  BY <2>6, <3>1
    <3>3. \A i : i \notin from[p]  BY <3>1
    <3> HIDE DEF n, S
    <3> QED  BY <3>2, <3>3, Zenon
  <2>8. CASE ~(q > n)
    <3>0. q \in TokenStarts(s) /\ from[e] \subseteq TokenStarts(s)  BY <2>4, <2>8
    <3>1. Resumes(s, h, q)  BY <2>5 DEF Goes
    <3>2. Goes(s, h, q + 1, e) /\ (Separates(s, h, q) <=> s[q] = ";")
      BY <2>2, <2>3, <2>5, <2>8, <3>0, <3>1, TokenGoes
    <3>3. Resumes(s, h, e) /\ \A i \in q + 1 .. e - 1 : ~Separates(s, h, i)
      BY <3>2 DEF Goes, Silent
    <3>4. e \in T /\ e \in S  BY <1>0, <1>2, <2>3, <2>8
    <3>5. Right(e)  BY <3>0, <3>3, <3>4
    <3>6. \A i \in p..n : /\ i = q \/ i \in p..q - 1 \/ i \in q + 1 .. e - 1 \/ i \in e..n
                          /\ i = q => i \notin e..n
                          /\ i \in p..q - 1 => i # q /\ i \notin e..n
                          /\ i \in q + 1 .. e - 1 => i # q /\ i \notin e..n
                          /\ i \in e..n => i # q
      BY <1>0, <2>3, <2>8
    <3>7. from[e] \subseteq e..n  BY <1>1, <3>4
    <3>8. \A i : i \in from[p] <=> i = q \/ i \in from[e]  BY <2>4, <2>8
    <3> SUFFICES ASSUME NEW i \in p..n
                 PROVE  Separates(s, h, i) <=> i \in from[p] /\ s[i] = ";"
      OBVIOUS
    <3>9. CASE i = q  BY <3>2, <3>8, <3>9, Zenon
    <3>10. CASE i \in p..q - 1
      <4>1. i # q /\ i \notin from[e]  BY <3>6, <3>7, <3>10
      <4> QED  BY <2>6, <3>8, <3>10, <4>1, Zenon
    <3>11. CASE i \in q + 1 .. e - 1
      <4>1. i # q /\ i \notin from[e]  BY <3>6, <3>7, <3>11
      <4> QED  BY <3>3, <3>8, <3>11, <4>1, Zenon
    <3>12. CASE i \in e..n
      <4>1. i # q  BY <3>6, <3>12
      <4> QED  BY <3>5, <3>8, <3>12, <4>1, Zenon
    <3> QED  BY <3>6, <3>9, <3>10, <3>11, <3>12
  <2> QED  BY <2>7, <2>8
<1>3. \A p \in S : p \in T
  <2>1. 1 \in Nat /\ n + 1 \in Nat  BY <1>0
  <2> HIDE DEF T, n
  <2> QED  BY <1>2, <2>1, Downward
<1>4. 1 \in S  BY <1>0
<1>5. Resumes(s, h, 1)
  <2>1. Fresh(s, h, 1)
    <3> SUFFICES ASSUME 1 \in 1..Len(s)  PROVE h[1] = Entered(CodeMode(s[1]))
      BY DEF Fresh
    <3>1. h[1 - 1] = Entered("code")  BY DEF History
    <3>2. "code" \notin BlockModes \cup {"$", "dollar"}  BY DEF BlockModes
    <3>3. h[1] = Entered(After("code", s[1]))  BY <3>1, <3>2, NextPlain
    <3> QED  BY <3>3, AfterFacts
  <2> QED  BY <2>1 DEF Resumes
<1>6. Right(1)  BY <1>1, <1>3, <1>4, <1>5
<1>7. from[1] \subseteq 1..n  BY <1>1, <1>4
<1>8. \A i : i \in Separators(s) <=> i \in from[1] /\ s[i] = ";"
  BY <1>1, Zenon DEF Separators
<1> HIDE DEF n
<1>9. \A i : i \in from[1] => i \in 1..n  BY <1>7
<1>10. \A i : i \in Separators(s) <=> i \in 1..n /\ Separates(s, h, i)
  BY <1>6, <1>8, <1>9, Zenon
<1> QED  BY <1>10, Zenon DEF n

TagSeqs == Seq(Chars \cup {"$"})

\* Tags are of the text's characters.
LEMMA EnteredTag ==
  ASSUME NEW mode
  PROVE  Entered(mode).tag \in TagSeqs
<1>1. <<>> \in TagSeqs /\ <<"$">> \in TagSeqs  BY DEF TagSeqs
<1>2. Entered(mode).tag = IF mode = "$" THEN <<"$">> ELSE <<>>  BY DEF Entered
<1> QED  BY <1>1, <1>2

\* So they are after each step.
LEMMA LexedTag ==
  ASSUME NEW s, NEW p, NEW l, s[p] \in Chars, l.tag \in TagSeqs
  PROVE  Lexed(s, p, l).tag \in TagSeqs
<1>1. \A mode : Entered(mode).tag \in TagSeqs  BY EnteredTag
<1>2. \A mode, depth : Commented(mode, depth).tag \in TagSeqs
  <2>1. \A mode, depth : Commented(mode, depth).tag = <<>>  BY DEF Commented
  <2>2. <<>> \in TagSeqs  BY DEF TagSeqs
  <2> QED  BY <2>1, <2>2
<1>3. \A tag, depth : Tagging(tag).tag = tag /\ Quoting(tag, depth).tag = tag
  BY DEF Tagging, Quoting
<1>4. Append(l.tag, s[p]) \in TagSeqs  BY DEF TagSeqs
<1>5. InBlock(l.mode, l.depth, s[p]).tag \in TagSeqs
  <2>1. \A mode, d, c : InBlock(mode, d, c).tag \in TagSeqs
    <3> SUFFICES ASSUME NEW mode, NEW d, NEW c  PROVE InBlock(mode, d, c).tag \in TagSeqs
      OBVIOUS
    <3>1. \/ InBlock(mode, d, c) = Entered("code")
          \/ \E m, e : InBlock(mode, d, c) = Commented(m, e)
      BY Zenon DEF InBlock
    <3> QED  BY <1>1, <1>2, <3>1
  <2> QED  BY <2>1
<1>6. AfterTag(l.tag, s[p]).tag \in TagSeqs
  <2>1. \/ AfterTag(l.tag, s[p]) = Quoting(Append(l.tag, s[p]), 0)
        \/ AfterTag(l.tag, s[p]) = Tagging(Append(l.tag, s[p]))
        \/ \E m : AfterTag(l.tag, s[p]) = Entered(m)
    BY DEF AfterTag
  <2> QED  BY <1>1, <1>3, <1>4, <2>1
<1>7. \/ Lexed(s, p, l) = InBlock(l.mode, l.depth, s[p])
      \/ Lexed(s, p, l) = AfterTag(l.tag, s[p])
      \/ Lexed(s, p, l) = Quoting(l.tag, l.depth + 1)
      \/ \E m : Lexed(s, p, l) = Entered(m)
  BY DEF Lexed
<1> QED  BY <1>1, <1>3, <1>5, <1>6, <1>7

\* The lexer does not look ahead.
LEMMA LexedSame ==
  ASSUME NEW s \in Seq(Chars), NEW c \in Chars, NEW p \in 1..Len(s), NEW l, l.tag \in TagSeqs
  PROVE  Lexed(Append(s, c), p, l) = Lexed(s, p, l)
<1>1. Append(s, c)[p] = s[p]  OBVIOUS
<1>2. PICK tag : tag = l.tag  OBVIOUS
<1>3. Len(tag) \in Nat  BY <1>2 DEF TagSeqs
<1>4. \A k \in 1..Len(tag) : At(Append(s, c), p - Len(tag) + k) = At(s, p - Len(tag) + k)
  <2> SUFFICES ASSUME NEW k \in 1..Len(tag)
               PROVE  At(Append(s, c), p - Len(tag) + k) = At(s, p - Len(tag) + k)
    OBVIOUS
  <2>1. PICK q : q = p - Len(tag) + k  OBVIOUS
  <2>2. PICK n \in Nat : n = Len(s)  OBVIOUS
  <2>3. q \in Int /\ q <= n  BY <1>3, <2>1, <2>2
  <2>4. Len(Append(s, c)) = n + 1 /\ \A i \in 1..n : Append(s, c)[i] = s[i]  BY <2>2
  <2>5. q \in 1..n + 1 <=> q \in 1..n  BY <2>2, <2>3
  <2>6. At(Append(s, c), q) = At(s, q)  BY <2>2, <2>4, <2>5 DEF At
  <2> QED  BY <2>1, <2>6
<1>5. \A depth : TagEnds(Append(s, c), p, tag, depth) <=> TagEnds(s, p, tag, depth)
  BY <1>4 DEF TagEnds
<1>6. TagEnds(Append(s, c), p, l.tag, l.depth) <=> TagEnds(s, p, l.tag, l.depth)
  BY <1>2, <1>5
<1> QED  BY <1>1, <1>6, Zenon DEF Lexed

-----------------------------------------------------------------------------
(* A text as it is read.                                                    *)
-----------------------------------------------------------------------------
(* A text as it is read.                                                    *)

TaggedHistory(s, h) == History(s, h) /\ \A i \in 0..Len(s) : h[i].tag \in TagSeqs

\* The lexer is where reading the text from its start leaves it, and was in
\* code where it says.
TextInv ==
  /\ alphabet \in Alphabets
  /\ \E h : /\ TaggedHistory(text, h)
            /\ lexer = h[Len(text)]
            /\ code = {i \in 1..Len(text) : h[i].mode = "code"}

\* An empty text was read as it should be.
LEMMA TextStarts == InitText => TextInv
<1> SUFFICES ASSUME InitText  PROVE TextInv
  OBVIOUS
<1>1. alphabet \in Alphabets /\ text = <<>> /\ lexer = Entered("code") /\ code = {}
  BY DEF InitText
<1>2. PICK h : h = [i \in Nat |-> Entered("code")]  OBVIOUS
<1>3. h[0] = Entered("code")  BY <1>2
<1>4. Len(text) = 0 /\ text \in Seq(Chars) /\ 1..0 = {} /\ 0..0 = {0}  BY <1>1
<1>5. Entered("code").tag \in TagSeqs  BY EnteredTag
<1>6. TaggedHistory(text, h)  BY <1>3, <1>4, <1>5 DEF TaggedHistory, History
<1>7. code = {i \in 1..Len(text) : h[i].mode = "code"}  BY <1>1, <1>4
<1> QED  BY <1>1, <1>3, <1>4, <1>6, <1>7 DEF TextInv

\* One more character.
LEMMA HistoryGrows ==
  ASSUME NEW s, NEW h, TaggedHistory(s, h), NEW c \in Chars, NEW l,
         l = Lexed(Append(s, c), Len(s) + 1, h[Len(s)])
  PROVE  \E g : /\ TaggedHistory(Append(s, c), g)
                /\ g[Len(s) + 1] = l
                /\ \A i \in 0..Len(s) : g[i] = h[i]
<1> DEFINE s2 == Append(s, c)
           n == Len(s)
<1>0. s \in Seq(Chars) /\ n \in Nat /\ h[0] = Entered("code")
      /\ (\A i \in 1..n : h[i] = Lexed(s, i, h[i - 1]))
      /\ \A i \in 0..n : h[i].tag \in TagSeqs
  BY DEF TaggedHistory, History
<1>1. s2 \in Seq(Chars) /\ Len(s2) = n + 1 /\ s2[n + 1] = c /\ \A i \in 1..n : s2[i] = s[i]
  BY <1>0
<1>2. PICK g : g = [i \in Nat |-> IF i = n + 1 THEN l ELSE h[i]]  OBVIOUS
<1> HIDE DEF n, s2
<1>3. g[n + 1] = l /\ \A i \in 0..n : g[i] = h[i]
  <2>1. n + 1 \in Nat /\ \A i \in 0..n : i \in Nat /\ i # n + 1  BY <1>0
  <2> QED  BY <1>2, <2>1
<1>4. \A i \in 1..n + 1 : g[i] = Lexed(s2, i, g[i - 1])
  <2> SUFFICES ASSUME NEW i \in 1..n + 1  PROVE g[i] = Lexed(s2, i, g[i - 1])
    OBVIOUS
  <2>1. CASE i = n + 1
    <3>1. i - 1 = n /\ n \in 0..n  BY <1>0, <2>1
    <3>2. g[i - 1] = h[n]  BY <1>3, <3>1
    <3>3. l = Lexed(s2, n + 1, h[n])  BY DEF n, s2
    <3> QED  BY <1>3, <2>1, <3>2, <3>3
  <2>2. CASE i # n + 1
    <3>1. i \in 1..n /\ i \in 0..n /\ i - 1 \in 0..n  BY <1>0, <2>2
    <3>2. PICK k : k = h[i - 1]  OBVIOUS
    <3>3. k.tag \in TagSeqs /\ g[i - 1] = k /\ g[i] = Lexed(s, i, k)  BY <1>0, <1>3, <3>1, <3>2
    <3>4. Lexed(s2, i, k) = Lexed(s, i, k)
      <4>1. i \in 1..Len(s)  BY <3>1 DEF n
      <4> QED  BY <1>0, <3>3, <4>1, LexedSame DEF s2
    <3> QED  BY <3>3, <3>4
  <2> QED  BY <2>1, <2>2
<1>5. \A i \in 0..n + 1 : g[i].tag \in TagSeqs
  <2> SUFFICES ASSUME NEW i \in 0..n + 1  PROVE g[i].tag \in TagSeqs
    OBVIOUS
  <2>1. CASE i = n + 1
    <3>1. n \in 0..n  BY <1>0
    <3>2. l = Lexed(s2, n + 1, h[n])  BY DEF n, s2
    <3>3. PICK k : k = h[n]  OBVIOUS
    <3>4. k.tag \in TagSeqs /\ s2[n + 1] \in Chars  BY <1>0, <1>1, <3>1, <3>3
    <3>5. Lexed(s2, n + 1, k).tag \in TagSeqs  BY <3>4, LexedTag
    <3> QED  BY <1>3, <2>1, <3>2, <3>3, <3>5
  <2>2. CASE i # n + 1
    <3>1. i \in 0..n  BY <1>0, <2>2
    <3> QED  BY <1>0, <1>3, <3>1
  <2> QED  BY <2>1, <2>2
<1>6. TaggedHistory(s2, g)
  <2>1. 0 \in 0..n  BY <1>0
  <2>2. g[0] = Entered("code")  BY <1>0, <1>3, <2>1
  <2> QED  BY <1>1, <1>4, <1>5, <2>2 DEF TaggedHistory, History
<1> QED  BY <1>3, <1>6 DEF n, s2

\* So is a text with one more character.
LEMMA TextReads ==
  TextInv /\ [\E c \in alphabet[1] : Read(c)]_textVars => TextInv'
<1> SUFFICES ASSUME TextInv, [\E c \in alphabet[1] : Read(c)]_textVars  PROVE TextInv'
  OBVIOUS
<1>1. CASE UNCHANGED textVars
  <2>1. alphabet' = alphabet /\ text' = text /\ lexer' = lexer /\ code' = code
    BY <1>1 DEF textVars
  <2> QED  BY <2>1 DEF TextInv
<1>2. ASSUME NEW c \in alphabet[1], Read(c)  PROVE TextInv'
  <2>1. alphabet' = alphabet /\ alphabet \in Alphabets  BY <1>2 DEF Read, TextInv
  <2>2. c \in Chars  BY <2>1 DEF Chars
  <2>3. PICK h : /\ TaggedHistory(text, h)
                 /\ lexer = h[Len(text)]
                 /\ code = {i \in 1..Len(text) : h[i].mode = "code"}
    BY DEF TextInv
  <2>4. PICK s : s = text  OBVIOUS
  <2>5. PICK s2 : s2 = text'  OBVIOUS
  <2>6. PICK l : l = lexer'  OBVIOUS
  <2>7. s \in Seq(Chars) /\ Len(s) \in Nat  BY <2>3, <2>4 DEF TaggedHistory, History
  <2>8. s2 = Append(s, c)  BY <1>2, <2>4, <2>5 DEF Read
  <2>9. Len(s2) = Len(s) + 1 /\ s2[Len(s) + 1] = c  BY <2>2, <2>7, <2>8
  <2>10. l = Lexed(s2, Len(s) + 1, h[Len(s)])
    BY <1>2, <2>3, <2>4, <2>5, <2>6, <2>9 DEF Read
  <2>11. TaggedHistory(s, h)  BY <2>3, <2>4
  <2>12. PICK g : /\ TaggedHistory(s2, g)
                  /\ g[Len(s) + 1] = l
                  /\ \A i \in 0..Len(s) : g[i] = h[i]
    BY <2>2, <2>8, <2>10, <2>11, HistoryGrows
  <2>13. code' = {i \in 1..Len(s2) : g[i].mode = "code"}
    <3>1. PICK n \in Nat : n = Len(s)  BY <2>7
    <3>2. code = {i \in 1..n : h[i].mode = "code"}  BY <2>3, <2>4, <3>1
    <3>3. code' = IF l.mode = "code" THEN code \cup {n + 1} ELSE code
      <4>1. code' = IF lexer'.mode = "code" THEN code \cup {Len(text')} ELSE code
        BY <1>2, Zenon DEF Read
      <4> QED  BY <2>5, <2>6, <2>9, <3>1, <4>1, Zenon
    <3>4. g[n + 1].mode = "code" <=> l.mode = "code"  BY <2>12, <3>1, Zenon
    <3>5. \A i : i \in 1..n + 1 <=> i \in 1..n \/ i = n + 1  BY <3>1
    <3>6. n + 1 \notin 1..n /\ \A i \in 1..n : i \in 0..n  BY <3>1
    <3>7. \A i \in 1..n : g[i] = h[i]  BY <2>12, <3>1, <3>6
    <3>8. \A i : i \in code' <=> i \in 1..n + 1 /\ g[i].mode = "code"
      BY <3>2, <3>3, <3>4, <3>5, <3>6, <3>7
    <3> QED  BY <2>9, <3>1, <3>8
  <2>14. lexer' = g[Len(text')]  BY <2>5, <2>6, <2>9, <2>12
  <2>15. TaggedHistory(text', g) /\ code' = {i \in 1..Len(text') : g[i].mode = "code"}
    BY <2>5, <2>12, <2>13
  <2> QED  BY <2>1, <2>14, <2>15 DEF TextInv
<1> QED  BY <1>1, <1>2

\* The invariant of reading.
LEMMA TextAlwaysRead == TextSpec => []TextInv
BY TextStarts, TextReads, PTL DEF TextSpec

\* Its separators are where the lexer meets a semicolon in code.
LEMMA SeparatorsRead ==
  ASSUME NEW h, code = {i \in 1..Len(text) : h[i].mode = "code"}
  PROVE  separators = {i \in 1..Len(text) : Separates(text, h, i)}
<1>1. \A i : i \in separators <=> i \in 1..Len(text) /\ Separates(text, h, i)
  BY Zenon DEF separators, Separates
<1> QED  BY <1>1, Zenon DEF separators

\* Every text read that way has the scanner's separators, unless it splits a name.
LEMMA InvAgrees == TextInv => SeparatorsAgree
<1> SUFFICES ASSUME TextInv, ~Splits(text, {"hi"})  PROVE Separators(text) = separators
  BY DEF SeparatorsAgree
<1>1. PICK h : TaggedHistory(text, h) /\ code = {i \in 1..Len(text) : h[i].mode = "code"}
  BY DEF TextInv
<1>2. History(text, h)  BY <1>1 DEF TaggedHistory
<1> QED  BY <1>1, <1>2, SameSeparators, SeparatorsRead

\* Spaces and semicolons leave the lexer in code.
LEMMA CodeStays ==
  ASSUME NEW s, NEW p, NEW l, l.mode = "code", s[p] \in Spaces \cup {";"}
  PROVE  Lexed(s, p, l).mode = "code"
<1>1. "code" \notin BlockModes \cup {"$", "dollar"}  BY DEF BlockModes
<1>2. Lexed(s, p, l) = Entered(After("code", s[p]))  BY <1>1 DEF Lexed
<1>3. After("code", s[p]) = CodeMode(s[p])  BY AfterFacts
<1>4. CodeMode(s[p]) = "code"
  <2>1. CASE s[p] \in Spaces
    <3>1. s[p] \in {"sp", "nl", "us"}  BY <2>1 DEF Spaces
    <3> QED  BY <3>1, CodeModes
  <2>2. CASE s[p] = ";"
    <3>1. s[p] # "'" /\ s[p] # "dq" /\ s[p] # "bq" /\ s[p] # "$" /\ s[p] # "-" /\ s[p] # "/"
          /\ s[p] # "E" /\ s[p] # "a" /\ s[p] # "hi"
      BY <2>2, Zenon
    <3> QED  BY <3>1, CodeModes
  <2> QED  BY <2>1, <2>2
<1>5. Entered("code").mode = "code"  BY DEF Entered
<1> QED  BY <1>2, <1>3, <1>4, <1>5

\* And more than one statement is seen in it: otherwise only spaces and
\* semicolons follow its first separator, and these are code.
LEMMA InvIsSeen == TextInv => MultipleIsSeen
<1> SUFFICES ASSUME TextInv, NEW p \in separators, NEW q \in TokenStarts(text),
                    q > p, q \notin separators, ~MayHaveMultiple(text)
             PROVE  FALSE
  BY DEF MultipleIsSeen
<1>1. PICK h : TaggedHistory(text, h) /\ code = {i \in 1..Len(text) : h[i].mode = "code"}
  BY DEF TextInv
<1>2. PICK n \in Nat : n = Len(text)  BY <1>1 DEF TaggedHistory, History
<1>3. text \in Seq(Chars) /\ \A i \in 1..n : h[i] = Lexed(text, i, h[i - 1])
  BY <1>1, <1>2 DEF TaggedHistory, History
<1>4. q \in 1..n /\ text[q] \notin Spaces
  <2>1. q \in 1..Len(text) /\ AtToken(text, q)  BY <1>3, TokensAreTokens
  <2>2. At(text, q) = text[q]  BY <2>1 DEF At
  <2> QED  BY <1>2, <2>1, <2>2 DEF AtToken
<1>5. p \in 1..n /\ h[p].mode = "code"
  <2>1. p \in code  BY Zenon DEF separators
  <2> QED  BY <1>1, <1>2, <2>1
<1>6. \A i \in p + 1 .. n : text[i] \in Spaces \cup {";"}
  <2>1. text[p] = ";"  BY Zenon DEF separators
  <2> QED  BY <1>2, <1>5, <2>1, Zenon DEF MayHaveMultiple
<1> DEFINE T == {i \in Nat : h[i].mode = "code"}
<1>7. \A i \in p..n : i \in T
  <2>1. p \in T  BY <1>5
  <2>2. ASSUME NEW i \in p..n - 1, i \in T  PROVE i + 1 \in T
    <3>1. i + 1 \in p + 1 .. n /\ i + 1 \in 1..n /\ (i + 1) - 1 = i /\ i + 1 \in Nat
      BY <1>2, <1>5, <2>2
    <3>2. h[i + 1] = Lexed(text, i + 1, h[i])  BY <1>3, <3>1
    <3>3. h[i].mode = "code"  BY <2>2
    <3>4. text[i + 1] \in Spaces \cup {";"}  BY <1>6, <3>1, Zenon
    <3>5. Lexed(text, i + 1, h[i]).mode = "code"  BY <3>3, <3>4, CodeStays, Zenon
    <3> QED  BY <3>1, <3>2, <3>5
  <2>3. p \in Nat /\ n \in Nat  BY <1>2, <1>5
  <2> HIDE DEF T
  <2> QED  BY <2>1, <2>2, <2>3, Upward
<1>8. q \in p..n /\ q \in p + 1 .. n  BY <1>2, <1>4, <1>5
<1>9. text[q] = ";"  BY <1>4, <1>6, <1>8, Zenon
<1>10. q \in code  BY <1>1, <1>2, <1>4, <1>7, <1>8
<1> QED  BY <1>9, <1>10, Zenon DEF separators

\* Whatever the text, if the scanner splits no name the semicolons it counts
\* are those DuckDB's lexer reads as code (duckdb_driver.c:807).
THEOREM SeparatorsAlwaysAgree == TextSpec => []SeparatorsAgree
BY TextAlwaysRead, InvAgrees, PTL

\* A text that the first test takes for one statement has one, whatever names
\* and literals are in it (duckdb_driver.c:472).
THEOREM MultipleIsAlwaysSeen == TextSpec => []MultipleIsSeen
BY TextAlwaysRead, InvIsSeen, PTL

-----------------------------------------------------------------------------
(* Where the plan's lexer and the scanner step alike.                        *)

\* The plan's lexer steps over a string as the scanner does.
LEMMA SkipStringIs ==
  ASSUME NEW s \in Seq(Chars), NEW start \in 1..Len(s), NEW quote, quote # "end",
         NEW escapes \in BOOLEAN
  PROVE  SkipString(s, start, quote, escapes) = AfterQuoted(s, start, quote, escapes)
<1> DEFINE n == Len(s)
           S == start + 1 .. n + 1
           Pair(q) == q < n /\ (\/ escapes /\ s[q] = "bs"
                                \/ s[q] = quote /\ s[q + 1] = quote)
           Value(f, q) == CASE q > n -> q
                            [] q <= n /\ Pair(q) -> f[q + 2]
                            [] q <= n /\ ~Pair(q) /\ s[q] = quote -> q + 1
                            [] OTHER -> f[q + 1]
           P(f) == f = [q \in S |-> Value(f, q)]
           skip == CHOOSE f : P(f)
<1>0. n \in Nat /\ start \in 1..n /\ start + 1 \in Nat /\ n + 1 \in Nat  OBVIOUS
<1>1. \A q \in S : q \in Nat /\ (q <= n \/ q > n) /\ ~(q <= n /\ q > n)
                   /\ (q <= n => q \in 1..n /\ At(s, q) = s[q])
                   /\ (q < n => At(s, q + 1) = s[q + 1] /\ q + 2 \in q + 1 .. n + 1)
                   /\ (~(q < n) => At(s, q + 1) = "end")
                   /\ (q <= n => q + 1 \in q + 1 .. n + 1)
                   /\ (q < n => q <= n)
  BY <1>0 DEF At
<1>2. \A f : \A q \in S : Value(f, q) = QuotedValue(s, quote, escapes, f, q)
  <2> SUFFICES ASSUME NEW f, NEW q \in S
               PROVE  Value(f, q) = QuotedValue(s, quote, escapes, f, q)
    OBVIOUS
  <2>1. /\ (q <= n \/ q > n) /\ ~(q <= n /\ q > n)
        /\ (q <= n => At(s, q) = s[q])
        /\ (q < n => At(s, q + 1) = s[q + 1])
        /\ (~(q < n) => At(s, q + 1) = "end")
        /\ (q < n => q <= n)
    BY <1>1
  <2>2. CASE q > n
    <3>1. Value(f, q) = q  BY <2>1, <2>2
    <3> QED  BY <2>2, <3>1 DEF QuotedValue
  <2>3. CASE q <= n /\ Pair(q)
    <3>1. Value(f, q) = f[q + 2]  BY <2>1, <2>3
    <3>2. q < n /\ At(s, q) = s[q] /\ At(s, q + 1) = s[q + 1] /\ ~(q > n)  BY <2>1, <2>3
    <3>3. (escapes /\ s[q] = "bs") \/ (s[q] = quote /\ s[q + 1] = quote)  BY <2>3
    <3> QED  BY <3>1, <3>2, <3>3 DEF QuotedValue
  <2>4. CASE q <= n /\ ~Pair(q) /\ s[q] = quote
    <3>1. Value(f, q) = q + 1  BY <2>1, <2>4
    <3>2. ~(escapes /\ At(s, q) = "bs" /\ q < n)  BY <2>1, <2>4
    <3>3. At(s, q + 1) # quote  BY <2>1, <2>4
    <3> QED  BY <2>1, <2>4, <3>1, <3>2, <3>3 DEF QuotedValue
  <2>5. CASE q <= n /\ ~Pair(q) /\ s[q] # quote
    <3>1. Value(f, q) = f[q + 1]  BY <2>1, <2>5
    <3>2. ~(escapes /\ At(s, q) = "bs" /\ q < n)  BY <2>1, <2>5
    <3> QED  BY <2>1, <2>5, <3>1, <3>2 DEF QuotedValue
  <2> QED  BY <2>1, <2>2, <2>3, <2>4, <2>5
<1>3. PICK after :
        /\ AfterQuoted(s, start, quote, escapes) = after[start + 1]
        /\ \A q \in S : /\ after[q] \in q..n + 1
                       /\ after[q] = QuotedValue(s, quote, escapes, after, q)
        /\ after = [q \in S |-> QuotedValue(s, quote, escapes, after, q)]
  BY ZenonT(30), QuotedFunction
<1>4. SkipString(s, start, quote, escapes) = skip[start + 1]
  BY Zenon DEF SkipString
<1>5. P(skip)
  <2>1. P(after)
    <3> HIDE DEF S, Value
    <3> QED  BY <1>2, <1>3
  <2> QED  BY <2>1, Zenon
<1> HIDE DEF skip
<1>6. \A q \in S : skip[q] = QuotedValue(s, quote, escapes, skip, q)
  <2>1. \A q \in S : skip[q] = Value(skip, q)
    <3> HIDE DEF S, Value
    <3> QED  BY <1>5
  <2> HIDE DEF S, Value
  <2> QED  BY <1>2, <2>1
<1> DEFINE T == {q \in S : skip[q] = after[q]}
<1>7. ASSUME NEW q \in S, \A r \in q + 1 .. n + 1 : r \in T
      PROVE  q \in T
  <2>1. \A r \in q + 1 .. n + 1 : skip[r] = after[r]  BY <1>7
  <2>2. q <= n => skip[q + 1] = after[q + 1]  BY <1>1, <2>1
  <2>3. q < n => skip[q + 2] = after[q + 2]  BY <1>1, <2>1
  <2>4. At(s, q + 1) = quote => q < n  BY <1>1
  <2>5. (q <= n \/ q > n) /\ ~(q <= n /\ q > n)  BY <1>1
  <2>6. QuotedValue(s, quote, escapes, skip, q) = QuotedValue(s, quote, escapes, after, q)
    <3> HIDE DEF S, T
    <3> QED  BY <2>2, <2>3, <2>4, <2>5 DEF QuotedValue
  <2> QED  BY <1>3, <1>6, <2>6
<1>8. \A q \in S : q \in T
  <2> HIDE DEF T, n
  <2> QED  BY <1>0, <1>7, Downward
<1>9. start + 1 \in S  BY <1>0
<1> QED  BY <1>3, <1>4, <1>8, <1>9

\* It steps over a comment as the scanner does.
LEMMA SkipBlockIs ==
  ASSUME NEW s \in Seq(Chars), NEW start \in 1..Len(s), start + 1 <= Len(s), s[start] # "-"
  PROVE  SkipComment(s, start) = AfterBlockComment(s, start)
<1> DEFINE n == Len(s)
           S == start .. n + 1
           Opens(q) == s[q] = "/" /\ At(s, q + 1) = "*"
           Closes(q) == s[q] = "*" /\ At(s, q + 1) = "/"
           Value(f, q, open) == CASE open = 0 \/ q > n -> q
                                  [] open > 0 /\ q <= n /\ Opens(q) -> f[q + 2][open + 1]
                                  [] open > 0 /\ q <= n /\ Closes(q) -> f[q + 2][open - 1]
                                  [] OTHER -> f[q + 1][open]
           P(f) == f = [q \in S |-> [open \in Nat |-> Value(f, q, open)]]
           skip == CHOOSE f : P(f)
<1>0. n \in Nat /\ start \in 1..n /\ start \in Nat /\ n + 1 \in Nat  OBVIOUS
<1>1. \A q \in S : q \in Nat /\ (q <= n \/ q > n) /\ ~(q <= n /\ q > n)
                   /\ (q <= n => q + 1 \in q + 1 .. n + 1)
                   /\ (At(s, q + 1) \in {"*", "/"} => q + 2 \in q + 1 .. n + 1)
  <2> SUFFICES ASSUME NEW q \in S
               PROVE  /\ q \in Nat /\ (q <= n \/ q > n) /\ ~(q <= n /\ q > n)
                      /\ (q <= n => q + 1 \in q + 1 .. n + 1)
                      /\ (At(s, q + 1) \in {"*", "/"} => q + 2 \in q + 1 .. n + 1)
    OBVIOUS
  <2>1. At(s, q + 1) \in {"*", "/"} => q + 1 \in 1..n  BY DEF At
  <2>2. q + 1 \in 1..n => q + 2 \in q + 1 .. n + 1  BY <1>0
  <2> QED  BY <1>0, <2>1, <2>2
<1>2. \A f : \A q \in S : \A open \in Nat : Value(f, q, open) = BlockValue(s, f, q, open)
  <2> SUFFICES ASSUME NEW f, NEW q \in S, NEW open \in Nat
               PROVE  Value(f, q, open) = BlockValue(s, f, q, open)
    OBVIOUS
  <2>1. (q <= n \/ q > n) /\ ~(q <= n /\ q > n)  BY <1>1
  <2>2. (open = 0 \/ open > 0) /\ ~(open = 0 /\ open > 0)  OBVIOUS
  <2>3. CASE open = 0 \/ q > n
    <3>1. Value(f, q, open) = q  BY <2>1, <2>2, <2>3
    <3> QED  BY <2>3, <3>1 DEF BlockValue
  <2>4. CASE open > 0 /\ q <= n /\ Opens(q)
    <3>1. Value(f, q, open) = f[q + 2][open + 1]  BY <2>1, <2>2, <2>4
    <3> QED  BY <2>1, <2>2, <2>4, <3>1 DEF BlockValue
  <2>5. CASE open > 0 /\ q <= n /\ Closes(q)
    <3>1. Value(f, q, open) = f[q + 2][open - 1]  BY <2>1, <2>2, <2>5
    <3> QED  BY <2>1, <2>2, <2>5, <3>1 DEF BlockValue
  <2>6. CASE open > 0 /\ q <= n /\ ~Opens(q) /\ ~Closes(q)
    <3>1. Value(f, q, open) = f[q + 1][open]  BY <2>1, <2>2, <2>6
    <3> QED  BY <2>1, <2>2, <2>6, <3>1 DEF BlockValue
  <2> QED  BY <2>1, <2>2, <2>3, <2>4, <2>5, <2>6
<1>3. PICK after :
        /\ AfterBlockComment(s, start) = after[start + 2][1]
        /\ \A q \in S : \A open \in Nat : after[q][open] = BlockValue(s, after, q, open)
        /\ after = [q \in S |-> [open \in Nat |-> BlockValue(s, after, q, open)]]
  BY SMTT(30), BlockFunction
<1>4. SkipComment(s, start) = skip[start + 2][1]
  BY Zenon DEF SkipComment
<1>5. P(skip)
  <2>1. P(after)
    <3>1. \A q \in S : [open \in Nat |-> BlockValue(s, after, q, open)]
                         = [open \in Nat |-> Value(after, q, open)]
      <4> HIDE DEF S, Value
      <4> QED  BY <1>2
    <3> HIDE DEF S, Value
    <3> QED  BY <1>3, <3>1
  <2> QED  BY <2>1, Zenon
<1> HIDE DEF skip
<1>6. \A q \in S : \A open \in Nat : skip[q][open] = BlockValue(s, skip, q, open)
  <2>1. \A q \in S : skip[q] = [open \in Nat |-> Value(skip, q, open)]
    <3> HIDE DEF S, Value
    <3> QED  BY <1>5
  <2> HIDE DEF S, Value
  <2> QED  BY <1>2, <2>1
<1> DEFINE T == {q \in S : \A open \in Nat : skip[q][open] = after[q][open]}
<1>7. ASSUME NEW q \in S, \A r \in q + 1 .. n + 1 : r \in T
      PROVE  q \in T
  <2> SUFFICES ASSUME NEW open \in Nat  PROVE skip[q][open] = after[q][open]
    OBVIOUS
  <2>1. \A r \in q + 1 .. n + 1 : \A o \in Nat : skip[r][o] = after[r][o]  BY <1>7
  <2>2. \A o \in Nat : q <= n => skip[q + 1][o] = after[q + 1][o]  BY <1>1, <2>1
  <2>3. \A o \in Nat : At(s, q + 1) \in {"*", "/"} => skip[q + 2][o] = after[q + 2][o]
    BY <1>1, <2>1
  <2>4. open + 1 \in Nat /\ (open # 0 => open - 1 \in Nat)  OBVIOUS
  <2>5. (q <= n \/ q > n) /\ ~(q <= n /\ q > n)  BY <1>1
  <2>6. BlockValue(s, skip, q, open) = BlockValue(s, after, q, open)
    <3> HIDE DEF S, T
    <3> QED  BY <2>2, <2>3, <2>4, <2>5 DEF BlockValue
  <2> QED  BY <1>3, <1>6, <2>6
<1>8. \A q \in S : q \in T
  <2> HIDE DEF T, n
  <2> QED  BY <1>0, <1>7, Downward
<1>9. start + 2 \in S /\ 1 \in Nat  BY <1>0
<1> QED  BY <1>3, <1>4, <1>8, <1>9

\* A comment of either kind ends where the scanner has it.
LEMMA SkipCommentIs ==
  ASSUME NEW s \in Seq(Chars), NEW p \in 1..Len(s) + 1, IsComment(s, p)
  PROVE  /\ p \in 1..Len(s) /\ p + 1 \in 1..Len(s) /\ s[p] \in {"-", "/"}
         /\ SkipComment(s, p) = IF s[p] = "-" THEN AfterLineComment(s, p)
                                ELSE AfterBlockComment(s, p)
         /\ SkipComment(s, p) \in p + 2 .. Len(s) + 1
<1>1. p \in 1..Len(s) /\ p + 1 \in 1..Len(s)  BY TriviaAdvances DEF IsComment
<1>2. s[p] \in {"-", "/"}  BY <1>1 DEF IsComment, At
<1>3. p + 1 <= Len(s)  BY <1>1
<1>4. CASE s[p] = "-"
  <2>1. SkipComment(s, p) = AfterLineComment(s, p)
    BY <1>4, Zenon DEF SkipComment, AfterLineComment
  <2> QED  BY <1>1, <1>2, <1>3, <1>4, <2>1, LineCommentRange
<1>5. CASE s[p] = "/"
  <2>1. SkipComment(s, p) = AfterBlockComment(s, p)  BY <1>1, <1>3, <1>5, SkipBlockIs
  <2> QED  BY <1>1, <1>2, <1>3, <1>5, <2>1, BlockCommentRange
<1> QED  BY <1>2, <1>4, <1>5

\* The two lexers begin comments alike.
LEMMA CommentAtIs ==
  ASSUME NEW s, NEW p
  PROVE  CommentAt(s, p) <=> IsComment(s, p)
BY DEF CommentAt, IsComment

\* Two functions that skip trivia skip the same.
LEMMA SameTrivia ==
  ASSUME NEW s \in Seq(Chars), NEW q \in 1..Len(s) + 1, NEW f, NEW g,
         \A p \in q..Len(s) + 1 : f[p] = TriviaValue(s, f, p) /\ g[p] = TriviaValue(s, g, p)
  PROVE  f[q] = g[q]
<1> DEFINE n == Len(s)
           T == {p \in q..n + 1 : f[p] = g[p]}
<1>0. n \in Nat /\ q \in 1..n + 1 /\ q \in Nat /\ n + 1 \in Nat /\ q \in q..n + 1  OBVIOUS
<1>1. ASSUME NEW p \in q..n + 1, \A r \in p + 1 .. n + 1 : r \in T
      PROVE  p \in T
  <2>1. \A r \in p + 1 .. n + 1 : f[r] = g[r]  BY <1>1
  <2>2. p \in 1..n + 1  BY <1>0
  <2>3. /\ At(s, p) \in Spaces => p + 1 \in p + 1 .. n + 1
        /\ At(s, p) = "-" /\ At(s, p + 1) = "-" => AfterLineComment(s, p) \in p + 1 .. n + 1
        /\ At(s, p) = "/" /\ At(s, p + 1) = "*" => AfterBlockComment(s, p) \in p + 1 .. n + 1
    BY <2>2, TriviaAdvances
  <2>4. TriviaValue(s, f, p) = TriviaValue(s, g, p)
    <3> HIDE DEF T, n
    <3> QED  BY <2>1, <2>3 DEF TriviaValue
  <2> QED  BY <2>4
<1>2. \A p \in q..n + 1 : p \in T
  <2> HIDE DEF T, n
  <2> QED  BY <1>0, <1>1, Downward
<1> QED  BY <1>0, <1>2

\* Trivia one piece at a time.
LEMMA TriviaUnfold ==
  ASSUME NEW s \in Seq(Chars), NEW p \in 1..Len(s) + 1
  PROVE  /\ At(s, p) \in Spaces => AfterTrivia(s, p) = AfterTrivia(s, p + 1)
         /\ IsComment(s, p) => AfterTrivia(s, p) = AfterTrivia(s, SkipComment(s, p))
         /\ At(s, p) \notin Spaces /\ ~IsComment(s, p) => AfterTrivia(s, p) = p
<1> DEFINE n == Len(s)
<1>0. n \in Nat /\ p \in 1..n + 1  OBVIOUS
<1>1. PICK f :
        /\ AfterTrivia(s, p) = f[p]
        /\ \A q \in p..n + 1 : f[q] = TriviaValue(s, f, q)
  BY <1>0, TriviaFunction
<1>2. ASSUME NEW q \in p + 1 .. n + 1  PROVE f[q] = AfterTrivia(s, q)
  <2>1. q \in 1..n + 1 /\ q..n + 1 \subseteq p..n + 1  BY <1>0
  <2>2. PICK g :
          /\ AfterTrivia(s, q) = g[q]
          /\ \A r \in q..n + 1 : g[r] = TriviaValue(s, g, r)
    BY <2>1, TriviaFunction
  <2>3. \A r \in q..n + 1 : f[r] = TriviaValue(s, f, r) /\ g[r] = TriviaValue(s, g, r)
    BY <1>1, <2>1, <2>2
  <2> HIDE DEF n
  <2>4. f[q] = g[q]  BY <2>1, <2>3, SameTrivia DEF n
  <2> QED  BY <2>2, <2>4
<1>3. f[p] = TriviaValue(s, f, p)  BY <1>0, <1>1
<1>4. CASE At(s, p) \in Spaces
  <2>1. f[p] = f[p + 1]  BY <1>3, <1>4 DEF TriviaValue
  <2>2. p + 1 \in p + 1 .. n + 1  BY <1>0, <1>4, TriviaAdvances
  <2>3. ~IsComment(s, p)  BY <1>4 DEF IsComment, Spaces
  <2> QED  BY <1>1, <1>2, <1>4, <2>1, <2>2, <2>3
<1>5. CASE IsComment(s, p)
  <2>1. At(s, p) \notin Spaces /\ At(s, p) \in {"-", "/"}  BY <1>5 DEF IsComment, Spaces
  <2>2. p \in 1..n /\ SkipComment(s, p) = (IF s[p] = "-" THEN AfterLineComment(s, p)
                                            ELSE AfterBlockComment(s, p))
        /\ SkipComment(s, p) \in p + 2 .. n + 1
    BY <1>5, SkipCommentIs
  <2>3. At(s, p) = s[p]  BY <2>2 DEF At
  <2>4. f[p] = f[SkipComment(s, p)]
    BY <1>3, <1>5, <2>1, <2>2, <2>3 DEF TriviaValue, IsComment
  <2>5. SkipComment(s, p) \in p + 1 .. n + 1  BY <1>0, <2>2
  <2> QED  BY <1>1, <1>2, <1>5, <2>1, <2>4, <2>5
<1>6. CASE At(s, p) \notin Spaces /\ ~IsComment(s, p)
  <2>1. f[p] = p  BY <1>3, <1>6 DEF TriviaValue, IsComment
  <2> QED  BY <1>1, <1>6, <2>1
<1> QED  BY <1>4, <1>5, <1>6

\* The plan's lexer skips trivia as the scanner does.
LEMMA SkipTriviaIs ==
  ASSUME NEW s \in Seq(Chars), NEW start \in 1..Len(s) + 1
  PROVE  SkipTrivia(s, start) = AfterTrivia(s, start)
<1> DEFINE n == Len(s)
           S == start..n + 1
           Value(f, p) == IF At(s, p) \in Spaces THEN f[p + 1]
                          ELSE IF CommentAt(s, p) THEN f[SkipComment(s, p)] ELSE p
           P(f) == f = [p \in S |-> Value(f, p)]
           skip == CHOOSE f : P(f)
<1>0. n \in Nat /\ start \in 1..n + 1 /\ start \in S  OBVIOUS
<1>1. ASSUME NEW f, NEW p \in S  PROVE Value(f, p) = TriviaValue(s, f, p)
  <2>1. p \in 1..n + 1  BY <1>0
  <2>2. CASE At(s, p) \in Spaces
    BY <2>2 DEF TriviaValue
  <2>3. CASE At(s, p) \notin Spaces /\ IsComment(s, p)
    <3>1. Value(f, p) = f[SkipComment(s, p)]  BY <2>3, CommentAtIs
    <3>2. p \in 1..n /\ s[p] \in {"-", "/"}
          /\ SkipComment(s, p) = (IF s[p] = "-" THEN AfterLineComment(s, p)
                                            ELSE AfterBlockComment(s, p))
      BY <2>1, <2>3, SkipCommentIs
    <3>3. At(s, p) = s[p]  BY <3>2 DEF At
    <3> QED  BY <2>3, <3>1, <3>2, <3>3 DEF TriviaValue, IsComment
  <2>4. CASE At(s, p) \notin Spaces /\ ~IsComment(s, p)
    <3>1. Value(f, p) = p  BY <2>4, CommentAtIs
    <3> QED  BY <2>4, <3>1 DEF TriviaValue, IsComment
  <2> QED  BY <2>2, <2>3, <2>4
<1>2. PICK after :
        /\ AfterTrivia(s, start) = after[start]
        /\ \A p \in S : after[p] = TriviaValue(s, after, p)
        /\ after = [p \in S |-> TriviaValue(s, after, p)]
  BY TriviaFunction
<1>3. SkipTrivia(s, start) = skip[start]
  BY Zenon DEF SkipTrivia
<1>4. P(skip)
  <2>1. P(after)
    <3> HIDE DEF S, Value
    <3> QED  BY <1>1, <1>2
  <2> QED  BY <2>1, Zenon
<1> HIDE DEF skip
<1>5. \A p \in S : skip[p] = TriviaValue(s, skip, p)
  <2>1. \A p \in S : skip[p] = Value(skip, p)
    <3> HIDE DEF S, Value
    <3> QED  BY <1>4
  <2> HIDE DEF S, Value
  <2> QED  BY <1>1, <2>1
<1>6. skip[start] = after[start]
  <2> HIDE DEF Value
  <2> QED  BY <1>0, <1>2, <1>5, SameTrivia
<1> QED  BY <1>2, <1>3, <1>6

\* A question mark at p does not follow another.
Apart(s, p) == p \in 1..Len(s) /\ s[p] = "?" => At(s, p - 1) # "?"

\* A literal ends after its quote, or with the text.
LEMMA QuotedEnds ==
  ASSUME NEW s \in Seq(Chars), NEW open \in 1..Len(s), NEW quote, quote # "end",
         NEW escapes \in BOOLEAN
  PROVE  \/ AfterQuoted(s, open, quote, escapes) = Len(s) + 1
         \/ At(s, AfterQuoted(s, open, quote, escapes) - 1) = quote
<1> DEFINE n == Len(s)
           S == open + 1 .. n + 1
<1>0. n \in Nat /\ open \in 1..n /\ open + 1 \in Nat /\ n + 1 \in Nat /\ open + 1 \in S
  OBVIOUS
<1>1. PICK after :
        /\ AfterQuoted(s, open, quote, escapes) = after[open + 1]
        /\ \A q \in S : after[q] = QuotedValue(s, quote, escapes, after, q)
  BY QuotedFunction
<1> DEFINE Ends(e) == e = n + 1 \/ At(s, e - 1) = quote
           T == {q \in S : Ends(after[q])}
<1>2. ASSUME NEW q \in S, \A r \in q + 1 .. n + 1 : r \in T
      PROVE  q \in T
  <2>1. \A r \in q + 1 .. n + 1 : Ends(after[r])  BY <1>2
  <2>2. /\ q <= n => q + 1 \in q + 1 .. n + 1 /\ At(s, (q + 1) - 1) = s[q]
        /\ q < n => q + 2 \in q + 1 .. n + 1
        /\ q > n => q = n + 1
        /\ At(s, q + 1) # "end" => q < n
        /\ (q <= n \/ q > n) /\ ~(q <= n /\ q > n)
    BY <1>0 DEF At
  <2>3. CASE q > n
    <3>1. after[q] = q  BY <1>1, <2>3 DEF QuotedValue
    <3> QED  BY <2>2, <2>3, <3>1
  <2>4. CASE q <= n /\ escapes /\ At(s, q) = "bs" /\ q < n
    <3>1. after[q] = after[q + 2]  BY <1>1, <2>2, <2>4 DEF QuotedValue
    <3> QED  BY <2>1, <2>2, <2>4, <3>1
  <2>5. CASE q <= n /\ ~(escapes /\ At(s, q) = "bs" /\ q < n) /\ s[q] # quote
    <3>1. after[q] = after[q + 1]  BY <1>1, <2>2, <2>5 DEF QuotedValue
    <3> QED  BY <2>1, <2>2, <2>5, <3>1
  <2>6. CASE q <= n /\ ~(escapes /\ At(s, q) = "bs" /\ q < n) /\ s[q] = quote
             /\ At(s, q + 1) = quote
    <3>1. after[q] = after[q + 2]  BY <1>1, <2>2, <2>6 DEF QuotedValue
    <3> QED  BY <2>1, <2>2, <2>6, <3>1
  <2>7. CASE q <= n /\ ~(escapes /\ At(s, q) = "bs" /\ q < n) /\ s[q] = quote
             /\ At(s, q + 1) # quote
    <3>1. after[q] = q + 1  BY <1>1, <2>2, <2>7 DEF QuotedValue
    <3> QED  BY <2>2, <2>7, <3>1
  <2> QED  BY <2>2, <2>3, <2>4, <2>5, <2>6, <2>7
<1>3. \A q \in S : q \in T
  <2> HIDE DEF T, n
  <2> QED  BY ZenonT(60), <1>0, <1>2, Downward
<1> QED  BY <1>0, <1>1, <1>3

\* A block comment ends after a slash, or with the text.
LEMMA BlockEnds ==
  ASSUME NEW s \in Seq(Chars), NEW p \in 1..Len(s), p + 1 <= Len(s)
  PROVE  \/ AfterBlockComment(s, p) = Len(s) + 1
         \/ At(s, AfterBlockComment(s, p) - 1) = "/"
<1> DEFINE n == Len(s)
           S == p .. n + 1
<1>0. n \in Nat /\ p \in 1..n /\ p \in Nat /\ n + 1 \in Nat /\ p + 2 \in S
  OBVIOUS
<1>1. PICK after :
        /\ AfterBlockComment(s, p) = after[p + 2][1]
        /\ \A q \in S : \A d \in Nat : after[q][d] = BlockValue(s, after, q, d)
  BY SMTT(30), BlockFunction
<1> DEFINE Ends(e) == e = n + 1 \/ At(s, e - 1) = "/"
           T == {q \in S : \A d \in Nat : d # 0 \/ Ends(q) => Ends(after[q][d])}
<1>2. ASSUME NEW q \in S, \A r \in q + 1 .. n + 1 : r \in T
      PROVE  q \in T
  <2> SUFFICES ASSUME NEW d \in Nat, d # 0 \/ Ends(q)  PROVE Ends(after[q][d])
    OBVIOUS
  <2>1. \A r \in q + 1 .. n + 1 : \A k \in Nat : k # 0 \/ Ends(r) => Ends(after[r][k])
    BY <1>2
  <2>2. q \in Nat /\ (q <= n \/ q > n) /\ ~(q <= n /\ q > n)
    BY <1>0
  <2>3. q <= n => q + 1 \in q + 1 .. n + 1  BY <1>0
  <2>4. At(s, q + 1) \in {"*", "/"} => q + 2 \in q + 1 .. n + 1
    <3>1. At(s, q + 1) \in {"*", "/"} => q + 1 \in 1..n  BY DEF At
    <3>2. q + 1 \in 1..n => q + 2 \in q + 1 .. n + 1  BY <1>0, <2>2
    <3> QED  BY <3>1, <3>2
  <2>5. d + 1 \in Nat /\ d + 1 # 0 /\ (d # 0 => d - 1 \in Nat)  OBVIOUS
  <2>6. CASE d = 0 \/ q > n
    <3>1. after[q][d] = q  BY <1>1, <2>6 DEF BlockValue
    <3>2. q > n => q = n + 1  BY <1>0, <2>2
    <3> QED  BY <2>6, <3>1, <3>2
  <2>7. CASE d # 0 /\ q <= n /\ s[q] = "/" /\ At(s, q + 1) = "*"
    <3>1. after[q][d] = after[q + 2][d + 1]  BY <1>1, <2>2, <2>7 DEF BlockValue
    <3> QED  BY <2>1, <2>4, <2>5, <2>7, <3>1
  <2>8. CASE d # 0 /\ q <= n /\ s[q] = "*" /\ At(s, q + 1) = "/"
    <3>1. after[q][d] = after[q + 2][d - 1]  BY <1>1, <2>2, <2>8 DEF BlockValue
    <3>2. (q + 2) - 1 = q + 1  BY <2>2
    <3>3. Ends(q + 2)  BY <2>8, <3>2
    <3> QED  BY <2>1, <2>4, <2>5, <2>8, <3>1, <3>3
  <2>9. CASE d # 0 /\ q <= n /\ ~(s[q] = "/" /\ At(s, q + 1) = "*")
             /\ ~(s[q] = "*" /\ At(s, q + 1) = "/")
    <3>1. after[q][d] = after[q + 1][d]  BY <1>1, <2>2, <2>9 DEF BlockValue
    <3> QED  BY <2>1, <2>3, <2>5, <2>9, <3>1
  <2> QED  BY <2>2, <2>6, <2>7, <2>8, <2>9
<1>3. \A q \in S : q \in T
  <2> HIDE DEF T, n
  <2> QED  BY <1>0, <1>2, Downward
<1>4. 1 \in Nat /\ 1 # 0  OBVIOUS
<1> HIDE DEF Ends
<1>5. Ends(after[p + 2][1])  BY <1>0, <1>3, <1>4
<1> QED  BY <1>1, <1>5 DEF Ends

\* Where the text ends, no question mark is.
LEMMA ApartAtEnd ==
  ASSUME NEW s \in Seq(Chars), NEW p \in Nat
  PROVE  /\ p = Len(s) + 1 => Apart(s, p)
         /\ At(s, p - 1) # "?" => Apart(s, p)
BY DEF Apart

\* A comment ends before a break or after a slash.
LEMMA CommentEnds ==
  ASSUME NEW s \in Seq(Chars), NEW p \in 1..Len(s) + 1, IsComment(s, p)
  PROVE  Apart(s, SkipComment(s, p))
<1>1. /\ p \in 1..Len(s) /\ p + 1 \in 1..Len(s) /\ s[p] \in {"-", "/"}
      /\ SkipComment(s, p) = (IF s[p] = "-" THEN AfterLineComment(s, p)
                              ELSE AfterBlockComment(s, p))
      /\ SkipComment(s, p) \in p + 2 .. Len(s) + 1
  BY SkipCommentIs
<1>2. p + 1 <= Len(s) /\ Len(s) \in Nat  BY <1>1
<1>3. PICK e : e = SkipComment(s, p)  OBVIOUS
<1>4. e \in Nat /\ e \in p + 2 .. Len(s) + 1  BY <1>1, <1>3
<1>5. CASE s[p] = "-"
  <2>1. e <= Len(s) => s[e] = "nl"  BY <1>1, <1>2, <1>3, <1>5, LineCommentRange
  <2> QED  BY <1>3, <1>4, <2>1 DEF Apart
<1>6. CASE s[p] = "/"
  <2>1. e = Len(s) + 1 \/ At(s, e - 1) = "/"  BY <1>1, <1>2, <1>3, <1>6, BlockEnds
  <2> QED  BY <1>3, <1>4, <2>1, ApartAtEnd
<1> QED  BY <1>1, <1>5, <1>6

\* After the trivia at p no more trivia follow, and no question mark that touches
\* another, unless there were none.
LEMMA TriviaEnds ==
  ASSUME NEW s \in Seq(Chars), NEW start \in 1..Len(s) + 1
  PROVE  /\ AfterTrivia(s, AfterTrivia(s, start)) = AfterTrivia(s, start)
         /\ AfterTrivia(s, start) = start \/ Apart(s, AfterTrivia(s, start))
<1> DEFINE n == Len(s)
           Ends(p, e) == AfterTrivia(s, e) = e /\ (e = p \/ Apart(s, e))
           T == {p \in start..n + 1 : Ends(p, AfterTrivia(s, p))}
<1>0. n \in Nat /\ start \in 1..n + 1 /\ start \in Nat /\ n + 1 \in Nat
      /\ start \in start..n + 1
  OBVIOUS
<1>1. ASSUME NEW p \in start..n + 1, \A q \in p + 1 .. n + 1 : q \in T
      PROVE  p \in T
  <2>0. p \in 1..n + 1 /\ p \in Nat  BY <1>0
  <2>1. \A q \in p + 1 .. n + 1 : Ends(q, AfterTrivia(s, q))  BY <1>1
  <2>2. CASE At(s, p) \in Spaces
    <3>1. p \in 1..n /\ p + 1 \in p + 1 .. n + 1  BY <2>0, <2>2, TriviaAdvances
    <3>2. AfterTrivia(s, p) = AfterTrivia(s, p + 1)  BY <2>0, <2>2, TriviaUnfold
    <3>3. (p + 1) - 1 = p /\ p + 1 \in Nat  BY <2>0
    <3>4. At(s, p) # "?"  BY <2>2 DEF Spaces
    <3>5. Apart(s, p + 1)  BY <3>3, <3>4, ApartAtEnd
    <3> QED  BY <2>1, <3>1, <3>2, <3>5
  <2>3. CASE IsComment(s, p)
    <3>1. PICK q : q = SkipComment(s, p)  OBVIOUS
    <3>2. q \in p + 2 .. n + 1  BY <2>0, <2>3, <3>1, SkipCommentIs
    <3>3. q \in p + 1 .. n + 1  BY <2>0, <3>2
    <3>4. AfterTrivia(s, p) = AfterTrivia(s, q)  BY <2>0, <2>3, <3>1, TriviaUnfold
    <3>5. Apart(s, q)  BY <2>0, <2>3, <3>1, CommentEnds
    <3> QED  BY <2>1, <3>3, <3>4, <3>5
  <2>4. CASE At(s, p) \notin Spaces /\ ~IsComment(s, p)
    <3>1. AfterTrivia(s, p) = p  BY <2>0, <2>4, TriviaUnfold
    <3> QED  BY <3>1
  <2> QED  BY <2>2, <2>3, <2>4
<1>2. \A p \in start..n + 1 : p \in T
  <2> HIDE DEF T, n
  <2> QED  BY <1>0, <1>1, Downward
<1> QED  BY <1>0, <1>2

\* A first position is known by what is before it.
LEMMA FirstIs ==
  ASSUME NEW n \in Nat, NEW p \in 1..n + 1, NEW T, T \subseteq p..n, NEW e \in p..n + 1,
         e <= n => e \in T, \A q \in p..e - 1 : q \notin T
  PROVE  Min(T \cup {n + 1}) = e
<1>1. PICK m : m = Min(T \cup {n + 1})  OBVIOUS
<1>2. m \in p..n + 1 /\ (m <= n => m \in T) /\ \A q \in p..m - 1 : q \notin T
  BY <1>1, FirstOf
<1>3. ~(m < e)
  <2> SUFFICES ASSUME m < e  PROVE FALSE
    OBVIOUS
  <2>1. m \in p..e - 1 /\ m <= n  BY <1>2
  <2> QED  BY <1>2, <2>1
<1>4. ~(e < m)
  <2> SUFFICES ASSUME e < m  PROVE FALSE
    OBVIOUS
  <2>1. e \in p..m - 1 /\ e <= n  BY <1>2
  <2> QED  BY <1>2, <2>1
<1> QED  BY <1>1, <1>2, <1>3, <1>4

\* Where a name or number ends.
ParamEnd(s, p) == FirstFrom(s, p, LAMBDA q : ~ParameterChar(s[q]))

\* It is the first character that does not belong to one.
LEMMA ParamRange ==
  ASSUME NEW s \in Seq(Chars), NEW p \in 1..Len(s) + 1
  PROVE  /\ ParamEnd(s, p) \in p..Len(s) + 1
         /\ ParamEnd(s, p) <= Len(s) => ~ParameterChar(s[ParamEnd(s, p)])
         /\ \A q \in p..ParamEnd(s, p) - 1 : ParameterChar(s[q])
<1> DEFINE n == Len(s)
           T == {q \in p..n : ~ParameterChar(s[q])}
<1>1. n \in Nat /\ p \in 1..n + 1 /\ T \subseteq p..n  OBVIOUS
<1>2. ParamEnd(s, p) = Min(T \cup {n + 1})  BY DEF ParamEnd, FirstFrom
<1>3. PICK m : m = Min(T \cup {n + 1})  OBVIOUS
<1>4. m \in p..n + 1 /\ (m <= n => m \in T) /\ \A q \in p..m - 1 : q \notin T
  <2> HIDE DEF T, n
  <2> QED  BY <1>1, <1>3, FirstOf
<1>5. \A q \in p..m - 1 : ParameterChar(s[q])  BY <1>4
<1> QED  BY <1>2, <1>3, <1>4, <1>5

\* Where a name after a dollar ends, and where a word does.
NameEnd(s, p) == FirstFrom(s, p, LAMBDA q : ~NameChar(s[q]))
IdentEnd(s, p) == FirstFrom(s, p + 1, LAMBDA q : ~IdentifierContinue(s[q]))

\* It is the first character that does not belong to it.
LEMMA NameRange ==
  ASSUME NEW s \in Seq(Chars), NEW p \in 1..Len(s) + 1
  PROVE  /\ NameEnd(s, p) \in p..Len(s) + 1
         /\ NameEnd(s, p) <= Len(s) => ~NameChar(s[NameEnd(s, p)])
         /\ \A q \in p..NameEnd(s, p) - 1 : NameChar(s[q])
<1> DEFINE n == Len(s)
           T == {q \in p..n : ~NameChar(s[q])}
<1>1. n \in Nat /\ p \in 1..n + 1 /\ T \subseteq p..n  OBVIOUS
<1>2. NameEnd(s, p) = Min(T \cup {n + 1})  BY DEF NameEnd, FirstFrom
<1>3. PICK m : m = Min(T \cup {n + 1})  OBVIOUS
<1>4. m \in p..n + 1 /\ (m <= n => m \in T) /\ \A q \in p..m - 1 : q \notin T
  <2> HIDE DEF T, n
  <2> QED  BY <1>1, <1>3, FirstOf
<1>5. \A q \in p..m - 1 : NameChar(s[q])  BY <1>4
<1> QED  BY <1>2, <1>3, <1>4, <1>5

\* So it is of a word.
LEMMA IdentRange ==
  ASSUME NEW s \in Seq(Chars), NEW p \in 1..Len(s)
  PROVE  /\ IdentEnd(s, p) \in p + 1 .. Len(s) + 1
         /\ IdentEnd(s, p) <= Len(s) => ~IdentifierContinue(s[IdentEnd(s, p)])
         /\ \A q \in p + 1 .. IdentEnd(s, p) - 1 : IdentifierContinue(s[q])
<1> DEFINE n == Len(s)
           T == {q \in p + 1 .. n : ~IdentifierContinue(s[q])}
<1>1. n \in Nat /\ p + 1 \in 1..n + 1 /\ T \subseteq p + 1 .. n  OBVIOUS
<1>2. IdentEnd(s, p) = Min(T \cup {n + 1})  BY DEF IdentEnd, FirstFrom
<1>3. PICK m : m = Min(T \cup {n + 1})  OBVIOUS
<1>4. m \in p + 1 .. n + 1 /\ (m <= n => m \in T) /\ \A q \in p + 1 .. m - 1 : q \notin T
  <2> HIDE DEF T, n
  <2> QED  BY <1>1, <1>3, FirstOf
<1>5. \A q \in p + 1 .. m - 1 : IdentifierContinue(s[q])  BY <1>4
<1> QED  BY <1>2, <1>3, <1>4, <1>5

\* What names and words are made of.
LEMMA NamesAre ==
  /\ \A c : NameChar(c) <=> c \in Letters \cup Digits \cup High
  /\ \A c : IdentifierStart(c) <=> c \in Letters \cup High
  /\ \A c : IdentifierContinue(c) <=> c \in Letters \cup Digits \cup High \cup {"$"}
  /\ \A c : WordContinue(c) <=> c \in Letters \cup Digits \cup {"$"}
  /\ \A c : TagChar(c, TRUE) <=> c \in Letters \cup High
  /\ \A c : TagChar(c, FALSE) <=> c \in Letters \cup High \cup Digits
BY DEF NameChar, ParameterChar, IdentifierStart, IdentifierContinue, WordContinue, TagChar

\* Where the plan's lexer looks for a tag's second dollar.
SkipTag(s, p) == IF ~IdentifierStart(At(s, p + 1)) THEN p + 1
                 ELSE FirstFrom(s, p + 2, LAMBDA q :
                         ~(IdentifierStart(s[q]) \/ s[q] \in Digits))

\* Where the name ends, if there is one.
LEMMA SkipTagIs ==
  ASSUME NEW s, NEW p
  PROVE  SkipTag(s, p) = IF ~IdentifierStart(At(s, p + 1)) THEN p + 1 ELSE NameEnd(s, p + 2)
<1> DEFINE A == {q \in p + 2 .. Len(s) : ~(IdentifierStart(s[q]) \/ s[q] \in Digits)}
           B == {q \in p + 2 .. Len(s) : ~NameChar(s[q])}
<1>1. \A c : NameChar(c) <=> IdentifierStart(c) \/ c \in Digits  BY NamesAre
<1>2. A = B  BY <1>1
<1>3. NameEnd(s, p + 2) = Min(B \cup {Len(s) + 1})  BY Zenon DEF NameEnd, FirstFrom
<1>4. SkipTag(s, p) = IF ~IdentifierStart(At(s, p + 1)) THEN p + 1 ELSE Min(A \cup {Len(s) + 1})
  BY Zenon DEF SkipTag, FirstFrom
<1> HIDE DEF A, B
<1> QED  BY <1>2, <1>3, <1>4

\* The scanner looks there too.
LEMMA TagIs ==
  ASSUME NEW s \in Seq(Chars), NEW p \in 1..Len(s)
  PROVE  SkipTag(s, p) = TagEnd(s, p)
<1>1. PICK t : t = TagEnd(s, p)  OBVIOUS
<1>2. t \in p + 1 .. Len(s) + 1 /\ (t <= Len(s) => ~InTagAt(s, p, t))
      /\ \A q \in p + 1 .. t - 1 : InTagAt(s, p, q)
  BY <1>1, TagEndRange
<1>3. Len(s) \in Nat  OBVIOUS
<1>4. InTagAt(s, p, p + 1) <=> IdentifierStart(s[p + 1])
  <2>1. InTagAt(s, p, p + 1) <=> TagChar(s[p + 1], TRUE)  BY DEF InTagAt
  <2> QED  BY <2>1, NamesAre
<1>5. CASE ~IdentifierStart(At(s, p + 1))
  <2>1. SkipTag(s, p) = p + 1  BY <1>5, SkipTagIs
  <2>2. ~(p + 1 \in p + 1 .. t - 1)
    <3> SUFFICES ASSUME p + 1 \in p + 1 .. t - 1  PROVE FALSE
      OBVIOUS
    <3>1. InTagAt(s, p, p + 1)  BY <1>2
    <3>2. p + 1 \in 1..Len(s)  BY <1>2, <1>3
    <3>3. At(s, p + 1) = s[p + 1]  BY <3>2 DEF At
    <3> QED  BY <1>4, <1>5, <3>1, <3>3
  <2>3. t = p + 1  BY <1>2, <1>3, <2>2
  <2> QED  BY <1>1, <2>1, <2>3
<1>6. CASE IdentifierStart(At(s, p + 1))
  <2>1. SkipTag(s, p) = NameEnd(s, p + 2)  BY <1>6, SkipTagIs
  <2>2. p + 1 \in 1..Len(s) /\ At(s, p + 1) = s[p + 1]
    <3>1. ~IdentifierStart("end")  BY NamesAre DEF Letters, High
    <3>2. At(s, p + 1) # "end"  BY <1>6, <3>1
    <3> QED  BY <3>2 DEF At
  <2>3. t # p + 1
    <3> SUFFICES ASSUME t = p + 1  PROVE FALSE
      OBVIOUS
    <3>1. ~InTagAt(s, p, p + 1)  BY <1>2, <2>2
    <3> QED  BY <1>4, <1>6, <2>2, <3>1
  <2>4. p + 2 \in 1..Len(s) + 1 /\ t \in p + 2 .. Len(s) + 1  BY <1>2, <1>3, <2>2, <2>3
  <2> DEFINE T == {q \in p + 2 .. Len(s) : ~NameChar(s[q])}
  <2>5. \A q : q > p + 1 => (InTagAt(s, p, q) <=> NameChar(s[q]))
    <3> SUFFICES ASSUME NEW q, q > p + 1  PROVE InTagAt(s, p, q) <=> NameChar(s[q])
      OBVIOUS
    <3>1. (q = p + 1) = FALSE  OBVIOUS
    <3>2. InTagAt(s, p, q) <=> TagChar(s[q], FALSE)  BY <3>1 DEF InTagAt
    <3> QED  BY <3>2, NamesAre
  <2>6. t <= Len(s) => t \in T  BY <1>2, <2>4, <2>5
  <2>7. \A q \in p + 2 .. t - 1 : q \notin T  BY <1>2, <2>5
  <2>8. T \subseteq p + 2 .. Len(s)  OBVIOUS
  <2>9. NameEnd(s, p + 2) = Min(T \cup {Len(s) + 1})  BY DEF NameEnd, FirstFrom
  <2> HIDE DEF T
  <2> QED  BY <1>1, <1>3, <2>1, <2>4, <2>6, <2>7, <2>8, <2>9, FirstIs
<1> QED  BY <1>5, <1>6

\* Where the plan's lexer finds the delimiter from p to t again.
Closing(s, p, t) ==
  FirstFrom(s, t + 1, LAMBDA q : SubSeq(s, q, Min({q + t - p, Len(s)})) = SubSeq(s, p, t))

\* SkipDollarString in terms of the names above.
LEMMA SkipDollarIs ==
  ASSUME NEW s, NEW p
  PROVE  SkipDollarString(s, p) =
           LET t == SkipTag(s, p)
           IN IF At(s, t) # "$" THEN p
              ELSE IF Closing(s, p, t) > Len(s) THEN Closing(s, p, t)
              ELSE Closing(s, p, t) + Len(SubSeq(s, p, t))
BY Zenon DEF SkipDollarString, SkipTag, Closing

\* The two lexers find it in the same place.
LEMMA ClosingIs ==
  ASSUME NEW s \in Seq(Chars), NEW p \in 1..Len(s), NEW t \in p + 1 .. Len(s)
  PROVE  Closing(s, p, t) = Repeated(s, p, t)
<1>0. Len(s) \in Nat /\ t \in p..Len(s)  OBVIOUS
<1>1. Len(SubSeq(s, p, t)) = t - p + 1  BY <1>0, SubSeqGrows
<1>2. ASSUME NEW q \in t + 1 .. Len(s)
      PROVE  SubSeq(s, q, Min({q + t - p, Len(s)})) = SubSeq(s, p, t) <=> Repeats(s, p, t, q)
  <2>1. q \in 1..Len(s) /\ q + t - p \in Nat /\ q + t - p = q + (t - p + 1) - 1
        /\ q + t - p >= q
    BY <1>0
  <2>2. PICK m : m = Min({q + t - p, Len(s)})  OBVIOUS
  <2>3. m = IF q + t - p <= Len(s) THEN q + t - p ELSE Len(s)
    BY <1>0, <2>1, <2>2, MinOfTwo
  <2>4. CASE q + t - p <= Len(s)
    BY <2>1, <2>2, <2>3, <2>4 DEF Repeats
  <2>5. CASE ~(q + t - p <= Len(s))
    <3>1. m = Len(s) /\ Len(s) \in q..Len(s)  BY <2>1, <2>3, <2>5
    <3>2. Len(SubSeq(s, q, m)) = Len(s) - q + 1  BY <2>1, <3>1, SubSeqGrows
    <3>3. Len(s) - q + 1 # t - p + 1  BY <1>0, <2>1, <2>5
    <3>4. SubSeq(s, q, m) # SubSeq(s, p, t)  BY <1>1, <3>2, <3>3
    <3>5. ~Repeats(s, p, t, q)  BY <2>1, <2>5 DEF Repeats
    <3> QED  BY <2>2, <3>4, <3>5
  <2> QED  BY <2>4, <2>5
<1> DEFINE A == {q \in t + 1 .. Len(s) :
                    SubSeq(s, q, Min({q + t - p, Len(s)})) = SubSeq(s, p, t)}
           B == {q \in t + 1 .. Len(s) : Repeats(s, p, t, q)}
<1>3. A = B  BY <1>2
<1>4. Closing(s, p, t) = Min(A \cup {Len(s) + 1})  BY Zenon DEF Closing, FirstFrom
<1>5. Repeated(s, p, t) = Min(B \cup {Len(s) + 1})  BY Zenon DEF Repeated, FirstFrom
<1> HIDE DEF A, B
<1> QED  BY <1>3, <1>4, <1>5

\* The plan's lexer steps over a dollar-quoted literal as the scanner does.
LEMMA DollarStringIs ==
  ASSUME NEW s \in Seq(Chars), NEW p \in 1..Len(s)
  PROVE  SkipDollarString(s, p) = AfterDollarQuote(s, p)
<1>1. PICK t : t = TagEnd(s, p)  OBVIOUS
<1>2. t = SkipTag(s, p)  BY <1>1, TagIs
<1>3. AfterDollarQuote(s, p) = IF At(s, t) # "$" THEN p
              ELSE IF Repeated(s, p, t) > Len(s) THEN Repeated(s, p, t)
              ELSE Repeated(s, p, t) + (t - p + 1)
  BY <1>1, DollarQuoteIs
<1>4. SkipDollarString(s, p) = IF At(s, t) # "$" THEN p
              ELSE IF Closing(s, p, t) > Len(s) THEN Closing(s, p, t)
              ELSE Closing(s, p, t) + Len(SubSeq(s, p, t))
  BY <1>2, SkipDollarIs
<1>5. CASE At(s, t) # "$"
  BY <1>3, <1>4, <1>5
<1>6. CASE At(s, t) = "$"
  <2>1. t \in p + 1 .. Len(s) + 1  BY <1>1, TagEndRange
  <2>2. At(s, Len(s) + 1) = "end"  BY DEF At
  <2>3. Len(s) \in Nat /\ t \in p + 1 .. Len(s) /\ t \in p..Len(s)  BY <1>6, <2>1, <2>2
  <2>4. Len(SubSeq(s, p, t)) = t - p + 1  BY <2>3, SubSeqGrows
  <2>5. Closing(s, p, t) = Repeated(s, p, t)  BY <2>3, ClosingIs
  <2> QED  BY <1>3, <1>4, <1>6, <2>4, <2>5
<1> QED  BY <1>5, <1>6

\* Such a literal ends after a dollar, or with the text.
LEMMA DollarEnds ==
  ASSUME NEW s \in Seq(Chars), NEW p \in 1..Len(s), AfterDollarQuote(s, p) # p
  PROVE  Apart(s, AfterDollarQuote(s, p))
<1>1. PICK t : t = TagEnd(s, p)  OBVIOUS
<1>2. At(s, t) = "$"  BY <1>1, NoDollarQuote
<1>3. t \in p + 1 .. Len(s) + 1  BY <1>1, TagEndRange
<1>4. At(s, Len(s) + 1) = "end"  BY DEF At
<1>5. Len(s) \in Nat /\ t \in p + 1 .. Len(s) /\ t \in p..Len(s)  BY <1>2, <1>3, <1>4
<1>6. PICK r : r = Repeated(s, p, t)  OBVIOUS
<1>7. PICK e : e = AfterDollarQuote(s, p)  OBVIOUS
<1>8. e = IF r > Len(s) THEN r ELSE r + (t - p + 1)
  BY <1>1, <1>2, <1>6, <1>7, DollarQuoteIs
<1>9. r \in t + 1 .. Len(s) + 1 /\ (r <= Len(s) => Repeats(s, p, t, r))
  BY <1>5, <1>6, RepeatedRange
<1>10. CASE r > Len(s)
  <2>1. e = Len(s) + 1 /\ e \in Nat  BY <1>5, <1>8, <1>9, <1>10
  <2> QED  BY <1>7, <2>1, ApartAtEnd
<1>11. CASE ~(r > Len(s))
  <2>1. r \in 1..Len(s) /\ r <= Len(s) /\ e = r + (t - p + 1) /\ e \in Nat
    BY <1>5, <1>8, <1>9, <1>11
  <2>2. PICK q : q = r + (t - p + 1) - 1  OBVIOUS
  <2>3. q <= Len(s) /\ SubSeq(s, r, q) = SubSeq(s, p, t)  BY <1>9, <2>1, <2>2 DEF Repeats
  <2>4. q \in r..Len(s) /\ q \in 1..Len(s) /\ q = e - 1 /\ q - r + 1 = t - p + 1
    BY <1>5, <2>1, <2>2, <2>3
  <2>5. \A i \in 1..q - r + 1 : SubSeq(s, r, q)[i] = s[r + i - 1]  BY <2>1, <2>4, SubSeqGrows
  <2>6. \A i \in 1..t - p + 1 : SubSeq(s, p, t)[i] = s[p + i - 1]  BY <1>5, SubSeqGrows
  <2>7. t - p + 1 \in 1..t - p + 1 /\ r + (t - p + 1) - 1 = q /\ p + (t - p + 1) - 1 = t
    BY <1>5, <2>1, <2>2
  <2>8. s[q] = s[t]  BY <2>3, <2>4, <2>5, <2>6, <2>7
  <2>9. s[t] = "$"  BY <1>2, <1>5 DEF At
  <2>10. At(s, e - 1) = "$"  BY <2>4, <2>8, <2>9 DEF At
  <2> QED  BY <1>7, <2>1, <2>10, ApartAtEnd
<1> QED  BY <1>10, <1>11

-----------------------------------------------------------------------------
(* The tokens from a position on.                                           *)

\* F[p] is where the tokens from p on start.
IsStarts(s, F) == \A p \in 1..Len(s) + 1 : F[p] = StartsValue(s, F, p)

\* A space starts no token.
LEMMA StartsSpace ==
  ASSUME NEW s \in Seq(Chars), NEW F, IsStarts(s, F), NEW p \in 1..Len(s), s[p] \in Spaces
  PROVE  F[p] = F[p + 1]
<1>1. At(s, p) = s[p] /\ p \in 1..Len(s) + 1 /\ p + 1 \in 1..Len(s) + 1  BY DEF At
<1>2. AfterTrivia(s, p) = AfterTrivia(s, p + 1)  BY <1>1, TriviaUnfold
<1>3. F[p] = StartsValue(s, F, p) /\ F[p + 1] = StartsValue(s, F, p + 1)
  BY <1>1 DEF IsStarts
<1> QED  BY <1>2, <1>3, Zenon DEF StartsValue

\* Nor does a comment.
LEMMA StartsComment ==
  ASSUME NEW s \in Seq(Chars), NEW F, IsStarts(s, F), NEW p \in 1..Len(s), IsComment(s, p)
  PROVE  F[p] = F[SkipComment(s, p)]
<1>1. p \in 1..Len(s) + 1  OBVIOUS
<1>2. PICK e : e = SkipComment(s, p)  OBVIOUS
<1>3. e \in 1..Len(s) + 1
  <2>1. e \in p + 2 .. Len(s) + 1  BY <1>1, <1>2, SkipCommentIs
  <2> QED  BY <2>1
<1>4. AfterTrivia(s, p) = AfterTrivia(s, e)  BY <1>1, <1>2, TriviaUnfold
<1>5. F[p] = StartsValue(s, F, p) /\ F[e] = StartsValue(s, F, e)
  BY <1>1, <1>3 DEF IsStarts
<1>6. F[p] = F[e]  BY <1>4, <1>5, Zenon DEF StartsValue
<1> QED  BY <1>2, <1>6

\* The tokens are those after the trivia.
LEMMA StartsTrivia ==
  ASSUME NEW s \in Seq(Chars), NEW F, IsStarts(s, F), NEW p \in 1..Len(s) + 1
  PROVE  F[p] = F[AfterTrivia(s, p)]
<1>1. PICK e : e = AfterTrivia(s, p)  OBVIOUS
<1>2. e \in 1..Len(s) + 1
  <2>1. e \in p..Len(s) + 1  BY <1>1, TriviaRange
  <2> QED  BY <2>1
<1>3. AfterTrivia(s, e) = e  BY <1>1, TriviaEnds
<1>4. F[p] = StartsValue(s, F, p) /\ F[e] = StartsValue(s, F, e)
  BY <1>2 DEF IsStarts
<1>5. F[p] = F[e]  BY <1>1, <1>3, <1>4, Zenon DEF StartsValue
<1> QED  BY <1>1, <1>5

\* Anything else starts one.
LEMMA StartsToken ==
  ASSUME NEW s \in Seq(Chars), NEW F, IsStarts(s, F), NEW p \in 1..Len(s),
         s[p] \notin Spaces, ~IsComment(s, p)
  PROVE  F[p] = {p} \cup F[AfterToken(s, p)]
<1>1. At(s, p) = s[p] /\ p \in 1..Len(s) + 1 /\ ~(p > Len(s))  BY DEF At
<1>2. AfterTrivia(s, p) = p  BY <1>1, TriviaUnfold
<1>3. F[p] = StartsValue(s, F, p)  BY <1>1 DEF IsStarts
<1> QED  BY <1>1, <1>2, <1>3, Zenon DEF StartsValue

\* There is none after the end.
LEMMA StartsEmpty ==
  ASSUME NEW s \in Seq(Chars), NEW F, IsStarts(s, F)
  PROVE  F[Len(s) + 1] = {}
<1>1. PICK p : p = Len(s) + 1  OBVIOUS
<1>2. p \in 1..Len(s) + 1 /\ p > Len(s)  BY <1>1
<1>3. AfterTrivia(s, p) \in p..Len(s) + 1  BY <1>2, TriviaRange
<1>4. AfterTrivia(s, p) > Len(s)  BY <1>1, <1>3
<1>5. F[p] = StartsValue(s, F, p)  BY <1>2 DEF IsStarts
<1>6. F[p] = {}  BY <1>4, <1>5, Zenon DEF StartsValue
<1> QED  BY <1>1, <1>6

\* A token of one character.
Single(c) == c \notin Letters \cup {"'", "dq", "$", "-", "/"} \cup Spaces

\* Its successor is looked for at the next character.
LEMMA StartsSingle ==
  ASSUME NEW s \in Seq(Chars), NEW F, IsStarts(s, F), NEW p \in 1..Len(s), Single(s[p])
  PROVE  F[p] = {p} \cup F[p + 1]
<1>1. At(s, p) = s[p]  BY DEF At
<1>2. s[p] \notin Spaces /\ s[p] # "-" /\ s[p] # "/" /\ s[p] # "'" /\ s[p] # "dq"
      /\ s[p] # "$" /\ s[p] \notin Letters /\ s[p] # "E"
  BY DEF Single, Letters
<1>3. ~IsComment(s, p)  BY <1>1, <1>2 DEF IsComment
<1>4. AfterToken(s, p) = p + 1  BY <1>2, TokenIs
<1> QED  BY <1>2, <1>3, <1>4, StartsToken

\* Several such tokens in a row.
LEMMA StartsSingles ==
  ASSUME NEW s \in Seq(Chars), NEW F, IsStarts(s, F),
         NEW a \in 1..Len(s) + 1, NEW b \in a..Len(s) + 1,
         \A q \in a..b - 1 : Single(s[q])
  PROVE  F[a] = (a..b - 1) \cup F[b]
<1> DEFINE T == {p \in a..b : F[p] = (p..b - 1) \cup F[b]}
<1>0. a \in Nat /\ b \in Nat /\ a \in a..b /\ Len(s) \in Nat  OBVIOUS
<1>1. ASSUME NEW p \in a..b, \A q \in p + 1 .. b : q \in T
      PROVE  p \in T
  <2>1. CASE p = b
    <3>1. b..b - 1 = {}  BY <1>0
    <3> QED  BY <2>1, <3>1
  <2>2. CASE p # b
    <3>1. p \in a..b - 1 /\ p \in 1..Len(s) /\ p + 1 \in p + 1 .. b  BY <1>0, <2>2
    <3>2. F[p] = {p} \cup F[p + 1]  BY <3>1, StartsSingle
    <3>3. F[p + 1] = (p + 1 .. b - 1) \cup F[b]  BY <1>1, <3>1
    <3>4. {p} \cup (p + 1 .. b - 1) = p..b - 1  BY <1>0, <3>1
    <3>5. F[p] = (p..b - 1) \cup F[b]  BY <3>2, <3>3, <3>4, Zenon
    <3> QED  BY <3>5
  <2> QED  BY <2>1, <2>2
<1>2. \A p \in a..b : p \in T
  <2> HIDE DEF T
  <2> QED  BY <1>0, <1>1, Downward
<1> QED  BY <1>0, <1>2

\* The tokens of a name or number that begins at m and ends at e: digits, and a
\* word, unless the word goes on.
LEMMA WordIsName ==
  ASSUME NEW s \in Seq(Chars), NEW m \in 1..Len(s), s[m] \in Letters,
         At(s, ParamEnd(s, m)) # "$"
  PROVE  WordEnd(s, m) = ParamEnd(s, m)
<1>1. PICK e : e = ParamEnd(s, m)  OBVIOUS
<1>2. e \in m..Len(s) + 1 /\ (e <= Len(s) => ~ParameterChar(s[e]))
      /\ \A q \in m..e - 1 : ParameterChar(s[q])
  BY <1>1, ParamRange
<1>3. PICK w : w = WordEnd(s, m)  OBVIOUS
<1>4. w \in m + 1 .. Len(s) + 1 /\ (w <= Len(s) => ~WordContinue(s[w]))
      /\ \A q \in m + 1 .. w - 1 : WordContinue(s[q])
  BY <1>3, WordRange
<1>5. Len(s) \in Nat /\ m \in Nat  OBVIOUS
<1>6. ParameterChar(s[m])  BY DEF ParameterChar
<1>7. e # m  BY <1>2, <1>5, <1>6
<1>8. \A c : ParameterChar(c) => WordContinue(c)  BY DEF ParameterChar, WordContinue
<1>9. \A c : WordContinue(c) /\ c # "$" => ParameterChar(c)  BY DEF ParameterChar, WordContinue
<1>10. ~(w < e)
  <2> SUFFICES ASSUME w < e  PROVE FALSE
    OBVIOUS
  <2>1. w \in m..e - 1 /\ w <= Len(s)  BY <1>2, <1>4, <1>5
  <2> QED  BY <1>2, <1>4, <1>8, <2>1
<1>11. ~(e < w)
  <2> SUFFICES ASSUME e < w  PROVE FALSE
    OBVIOUS
  <2>1. e \in m + 1 .. w - 1 /\ e \in 1..Len(s) /\ e <= Len(s)  BY <1>2, <1>4, <1>5, <1>7
  <2>2. At(s, e) = s[e]  BY <2>1 DEF At
  <2> QED  BY <1>1, <1>2, <1>4, <1>9, <2>1, <2>2
<1> QED  BY <1>1, <1>2, <1>3, <1>4, <1>5, <1>10, <1>11

-----------------------------------------------------------------------------
(* What the plan's lexer steps over.                                        *)

\* Where a run of the character at p ends.
RunEnd(s, p) == FirstFrom(s, p, LAMBDA q : s[q] # s[p])

\* SkipToken in terms of the names above.
LEMMA SkipTokenCases ==
  ASSUME NEW s, NEW p
  PROVE  SkipToken(s, p) =
    CASE s[p] \in Spaces -> p + 1
      [] CommentAt(s, p) -> SkipComment(s, p)
      [] s[p] = "E" /\ At(s, p + 1) = "'" -> SkipString(s, p + 1, "'", TRUE)
      [] s[p] \in {"'", "dq", "bq"} -> SkipString(s, p, s[p], FALSE)
      [] s[p] = "$" -> IF SkipDollarString(s, p) # p THEN SkipDollarString(s, p)
                       ELSE SkipDollarName(s, p)
      [] IdentifierStart(s[p]) /\ s[p] \notin Spaces /\ ~(s[p] = "E" /\ At(s, p + 1) = "'") -> IdentEnd(s, p)
      [] s[p] \in {":", "?"} /\ At(s, p + 1) = s[p] -> RunEnd(s, p)
      [] s[p] = ":" /\ At(s, p + 1) # s[p] /\ NamedAt(s, p) -> ParamEnd(s, p + 1)
      [] OTHER -> p + 1
BY Zenon DEF SkipToken, IdentEnd, RunEnd, ParamEnd

\* One fact per kind of token.
LEMMA SkipTokenIs ==
  ASSUME NEW s, NEW p, p \in 1..Len(s)
  PROVE  /\ s[p] \in Spaces => SkipToken(s, p) = p + 1
         /\ IsComment(s, p) => SkipToken(s, p) = SkipComment(s, p)
         /\ s[p] = "E" /\ At(s, p + 1) = "'" =>
               SkipToken(s, p) = SkipString(s, p + 1, "'", TRUE)
         /\ s[p] \in {"'", "dq", "bq"} => SkipToken(s, p) = SkipString(s, p, s[p], FALSE)
         /\ s[p] = "$" =>
               SkipToken(s, p) = IF SkipDollarString(s, p) # p THEN SkipDollarString(s, p)
                                 ELSE SkipDollarName(s, p)
         /\ s[p] \in Letters \cup {"hi"} /\ ~(s[p] = "E" /\ At(s, p + 1) = "'") =>
               SkipToken(s, p) = IdentEnd(s, p)
         /\ s[p] \in {":", "?"} /\ At(s, p + 1) = s[p] => SkipToken(s, p) = RunEnd(s, p)
         /\ s[p] = ":" /\ At(s, p + 1) # s[p] /\ NamedAt(s, p) =>
               SkipToken(s, p) = ParamEnd(s, p + 1)
         /\ /\ s[p] \notin Letters \cup {"'", "dq", "bq", "$", "hi"} \cup Spaces /\ ~IsComment(s, p)
            /\ ~(s[p] \in {":", "?"} /\ At(s, p + 1) = s[p]) /\ ~(s[p] = ":" /\ NamedAt(s, p))
            => SkipToken(s, p) = p + 1
<1>1. At(s, p) = s[p]  BY DEF At
<1>2. CommentAt(s, p) <=> IsComment(s, p)  BY CommentAtIs
<1>3. IsComment(s, p) => s[p] \in {"-", "/"}  BY <1>1 DEF IsComment
<1>4. PICK c : c = s[p]  OBVIOUS
<1>5. PICK d : d = At(s, p + 1)  OBVIOUS
<1>8. PICK string : string = SkipString(s, p, s[p], FALSE)  OBVIOUS
<1>9. PICK escape : escape = SkipString(s, p + 1, "'", TRUE)  OBVIOUS
<1>10. PICK dollar : dollar = IF SkipDollarString(s, p) # p THEN SkipDollarString(s, p)
                              ELSE SkipDollarName(s, p)
  OBVIOUS
<1>11. PICK r : r = SkipToken(s, p)  OBVIOUS
<1>12. r = CASE c \in Spaces -> p + 1
      [] CommentAt(s, p) -> SkipComment(s, p)
      [] c = "E" /\ d = "'" -> escape
      [] c \in {"'", "dq", "bq"} -> string
      [] c = "$" -> dollar
      [] IdentifierStart(c) /\ c \notin Spaces /\ ~(c = "E" /\ d = "'") -> IdentEnd(s, p)
      [] c \in {":", "?"} /\ d = c -> RunEnd(s, p)
      [] c = ":" /\ d # c /\ NamedAt(s, p) -> ParamEnd(s, p + 1)
      [] OTHER -> p + 1
  BY <1>4, <1>5, <1>8, <1>9, <1>10, <1>11, SkipTokenCases, Zenon
<1>6. PICK N \in BOOLEAN : N <=> NamedAt(s, p)  OBVIOUS
<1>7. PICK C \in BOOLEAN : C <=> IsComment(s, p)  OBVIOUS
<1>13. /\ (C => c \in {"-", "/"}) /\ (C <=> CommentAt(s, p)) /\ (N <=> NamedAt(s, p))
  BY <1>2, <1>3, <1>4, <1>6, <1>7
<1>14. IdentifierStart(c) <=> c \in Letters \cup {"hi", "us"}  BY NamesAre DEF High
<1>15. /\ c \in Spaces => r = p + 1
       /\ C => r = SkipComment(s, p)
       /\ c = "E" /\ d = "'" => r = escape
       /\ c \in {"'", "dq", "bq"} => r = string
       /\ c = "$" => r = dollar
       /\ c \in Letters \cup {"hi"} /\ ~(c = "E" /\ d = "'") => r = IdentEnd(s, p)
       /\ c \in {":", "?"} /\ d = c => r = RunEnd(s, p)
       /\ c = ":" /\ d # c /\ N => r = ParamEnd(s, p + 1)
       /\ /\ c \notin Letters \cup {"'", "dq", "bq", "$", "hi"} \cup Spaces /\ ~C
          /\ ~(c \in {":", "?"} /\ d = c) /\ ~(c = ":" /\ N)
          => r = p + 1
  <2> USE DEF Letters, Spaces
  <2>1. c \in Spaces => r = p + 1  BY <1>12, <1>13, <1>14
  <2>2. C => r = SkipComment(s, p)  BY <1>12, <1>13, <1>14
  <2>3. c = "E" /\ d = "'" => r = escape  BY <1>12, <1>13, <1>14
  <2>4. c \in {"'", "dq", "bq"} => r = string  BY <1>12, <1>13, <1>14
  <2>5. c = "$" => r = dollar  BY <1>12, <1>13, <1>14
  <2>6. c \in Letters \cup {"hi"} /\ ~(c = "E" /\ d = "'") => r = IdentEnd(s, p)  BY <1>12, <1>13, <1>14
  <2>7. c \in {":", "?"} /\ d = c => r = RunEnd(s, p)  BY <1>12, <1>13, <1>14
  <2>8. c = ":" /\ d # c /\ N => r = ParamEnd(s, p + 1)  BY <1>12, <1>13, <1>14
  <2>9. /\ c \notin Letters \cup {"'", "dq", "bq", "$", "hi"} \cup Spaces /\ ~C
        /\ ~(c \in {":", "?"} /\ d = c) /\ ~(c = ":" /\ N)
        => r = p + 1
    BY <1>12, <1>13, <1>14
  <2> QED  BY <2>1, <2>2, <2>3, <2>4, <2>5, <2>6, <2>7, <2>8, <2>9
<1> QED  BY ZenonT(60), <1>4, <1>5, <1>6, <1>7, <1>8, <1>9, <1>10, <1>11, <1>15

\* The placeholder that begins at p, if one does.
Begins(s, p) == IF At(s, p + 1) # s[p] /\ (s[p] = "?" \/ NamedAt(s, p)) THEN {p} ELSE {}

\* At p is a question mark that touches no other.
Lone(s, p) == s[p] = "?" /\ At(s, p - 1) # "?" /\ At(s, p + 1) # "?"

\* Where the name of the placeholder at p ends, if it starts at m.
MarkEnd(s, p, m) ==
  FirstFrom(s, m, LAMBDA q : ~(ParameterChar(s[q]) \/ (s[p] = "$" /\ NameChar(s[q]))))

\* After a dollar, a name takes more.
LEMMA MarkEndIs ==
  ASSUME NEW s, NEW p, NEW m
  PROVE  /\ s[p] # "$" => MarkEnd(s, p, m) = ParamEnd(s, m)
         /\ s[p] = "$" => MarkEnd(s, p, m) = NameEnd(s, m)
<1> DEFINE A == {q \in m..Len(s) : ~(ParameterChar(s[q]) \/ (s[p] = "$" /\ NameChar(s[q])))}
           B == {q \in m..Len(s) : ~ParameterChar(s[q])}
           C == {q \in m..Len(s) : ~NameChar(s[q])}
<1>1. \A c : ParameterChar(c) => NameChar(c)  BY DEF NameChar
<1>2. /\ s[p] # "$" => A = B
      /\ s[p] = "$" => A = C
  BY <1>1
<1>3. MarkEnd(s, p, m) = Min(A \cup {Len(s) + 1})  BY Zenon DEF MarkEnd, FirstFrom
<1>4. ParamEnd(s, m) = Min(B \cup {Len(s) + 1})  BY Zenon DEF ParamEnd, FirstFrom
<1>5. NameEnd(s, m) = Min(C \cup {Len(s) + 1})  BY Zenon DEF NameEnd, FirstFrom
<1> HIDE DEF A, B, C
<1> QED  BY <1>2, <1>3, <1>4, <1>5

\* The two lexers part at the placeholder at p.
AmbiguousAt(s, p) ==
  LET name == IF s[p] = ":" THEN p + 1 ELSE DollarName(s, p)
      end == MarkEnd(s, p, name)
  IN /\ s[p] = "$" \/ NamedAt(s, p)
     /\ \/ /\ At(s, end) = "$" /\ end > name
           /\ s[p] = ":" \/ name > p + 1
        \/ /\ At(s, end) = "'" /\ At(s, end - 1) = "E" /\ end > name
           /\ \A q \in name .. end - 2 : s[p] = ":" /\ s[q] \in Digits

\* The tokens from p to e are the placeholder at p, if it has a question mark, and
\* tokens that are no lone question mark.
Covered(s, F, p, e) ==
  /\ e \in p + 1 .. Len(s) + 1 /\ Apart(s, e)
  /\ \E D \in SUBSET (p..e - 1) :
        /\ F[p] = D \cup F[e]
        /\ Begins(s, p) \subseteq D
        /\ \A i \in D : Lone(s, i) <=> (i \in Begins(s, p) /\ s[i] = "?")

\* Without a question mark there is nothing to decide.
LEMMA CoveredPlainly ==
  ASSUME NEW s, NEW F, NEW p, NEW e \in p + 1 .. Len(s) + 1, Apart(s, e),
         NEW D, D \subseteq p..e - 1, F[p] = D \cup F[e], Begins(s, p) \subseteq D,
         \A i \in D : s[i] # "?"
  PROVE  Covered(s, F, p, e)
BY DEF Covered, Lone

\* Only question marks and colons begin placeholders.
LEMMA BeginsFacts ==
  ASSUME NEW s, NEW p
  PROVE  /\ Begins(s, p) \subseteq {p}
         /\ s[p] # "?" /\ s[p] # ":" => Begins(s, p) = {}
BY DEF Begins, NamedAt

\* At a space both lexers go on.
LEMMA CoverSpace ==
  ASSUME NEW s \in Seq(Chars), NEW F, IsStarts(s, F), NEW p \in 1..Len(s), s[p] \in Spaces
  PROVE  Covered(s, F, p, SkipToken(s, p))
<1>1. SkipToken(s, p) = p + 1  BY SkipTokenIs
<1>2. F[p] = {} \cup F[p + 1]  BY StartsSpace
<1>3. s[p] # "?" /\ s[p] # ":"  BY DEF Spaces
<1>4. At(s, (p + 1) - 1) # "?"  BY <1>3 DEF At
<1>5. p + 1 \in Nat /\ p + 1 \in p + 1 .. Len(s) + 1  OBVIOUS
<1>6. Apart(s, p + 1)  BY <1>4, <1>5, ApartAtEnd
<1>7. Begins(s, p) \subseteq {}  BY <1>3, BeginsFacts
<1> QED  BY <1>1, <1>2, <1>5, <1>6, <1>7, CoveredPlainly

\* A comment hides the same text from both.
LEMMA CoverComment ==
  ASSUME NEW s \in Seq(Chars), NEW F, IsStarts(s, F), NEW p \in 1..Len(s), IsComment(s, p)
  PROVE  Covered(s, F, p, SkipToken(s, p))
<1>1. PICK e : e = SkipToken(s, p)  OBVIOUS
<1>2. e = SkipComment(s, p)  BY <1>1, SkipTokenIs
<1>3. p \in 1..Len(s) + 1  OBVIOUS
<1>4. e \in p + 2 .. Len(s) + 1 /\ s[p] \in {"-", "/"}  BY <1>2, <1>3, SkipCommentIs
<1>5. e \in p + 1 .. Len(s) + 1 /\ Apart(s, e)  BY <1>2, <1>3, <1>4, CommentEnds
<1>6. F[p] = {} \cup F[e]  BY <1>2, StartsComment
<1>7. Begins(s, p) \subseteq {}  BY <1>4, BeginsFacts
<1> QED  BY <1>1, <1>5, <1>6, <1>7, CoveredPlainly

\* A literal, with or without the letter that makes it one with escapes.
LEMMA CoverLiteral ==
  ASSUME NEW s \in Seq(Chars), NEW F, IsStarts(s, F), NEW p \in 1..Len(s),
         NEW open \in p..Len(s), NEW quote \in {"'", "dq"}, NEW escapes \in BOOLEAN,
         F[p] = {p} \cup F[AfterQuoted(s, open, quote, escapes)],
         s[p] # "?", s[p] # ":",
         SkipToken(s, p) = AfterQuoted(s, open, quote, escapes)
  PROVE  Covered(s, F, p, SkipToken(s, p))
<1>1. PICK e : e = SkipToken(s, p)  OBVIOUS
<1>2. open \in 1..Len(s) /\ quote # "end" /\ quote # "?"  OBVIOUS
<1>3. e \in open + 1 .. Len(s) + 1  BY <1>1, <1>2, QuotedRange
<1>4. e \in p + 1 .. Len(s) + 1 /\ e \in Nat /\ {p} \subseteq p..e - 1  BY <1>3
<1>5. e = Len(s) + 1 \/ At(s, e - 1) = quote  BY <1>1, <1>2, QuotedEnds
<1>6. Apart(s, e)  BY <1>2, <1>4, <1>5, ApartAtEnd
<1>7. Begins(s, p) \subseteq {p}  BY BeginsFacts
<1>8. \A i \in {p} : s[i] # "?"  OBVIOUS
<1>9. F[p] = {p} \cup F[e]  BY <1>1
<1> QED  BY ZenonT(60), <1>1, <1>4, <1>6, <1>7, <1>8, <1>9, CoveredPlainly

\* So does a literal, of any of the three kinds.
LEMMA CoverString ==
  ASSUME NEW s \in Seq(Chars), NEW F, IsStarts(s, F), NEW p \in 1..Len(s),
         s[p] \in {"'", "dq"} \/ (s[p] = "E" /\ At(s, p + 1) = "'")
  PROVE  Covered(s, F, p, SkipToken(s, p))
<1>1. s[p] \notin Spaces /\ s[p] # "?" /\ s[p] # ":" /\ s[p] # "-" /\ s[p] # "/"
  BY DEF Spaces
<1>2. ~IsComment(s, p)  BY <1>1 DEF IsComment, At
<1>3. F[p] = {p} \cup F[AfterToken(s, p)]  BY <1>1, <1>2, StartsToken
<1>4. CASE s[p] = "E" /\ At(s, p + 1) = "'"
  <2>1. p + 1 \in 1..Len(s) /\ p + 1 \in p..Len(s) /\ "'" # "end" /\ TRUE \in BOOLEAN
    BY <1>4 DEF At
  <2>2. SkipToken(s, p) = SkipString(s, p + 1, "'", TRUE)  BY <1>4, SkipTokenIs
  <2>3. SkipString(s, p + 1, "'", TRUE) = AfterQuoted(s, p + 1, "'", TRUE)
    BY <2>1, SkipStringIs
  <2>4. AfterToken(s, p) = AfterQuoted(s, p + 1, "'", TRUE)  BY <1>4, TokenIs
  <2>5. F[p] = {p} \cup F[AfterQuoted(s, p + 1, "'", TRUE)]  BY <1>3, <2>4
  <2>6. SkipToken(s, p) = AfterQuoted(s, p + 1, "'", TRUE)  BY <2>2, <2>3
  <2>7. "'" \in {"'", "dq"}  OBVIOUS
  <2> QED  BY <1>1, <2>1, <2>5, <2>6, <2>7, CoverLiteral
<1>5. CASE s[p] \in {"'", "dq"}
  <2>1. p \in p..Len(s) /\ s[p] # "end" /\ FALSE \in BOOLEAN /\ s[p] # "E"  BY <1>5
  <2>2. SkipToken(s, p) = SkipString(s, p, s[p], FALSE)  BY <1>5, SkipTokenIs
  <2>3. SkipString(s, p, s[p], FALSE) = AfterQuoted(s, p, s[p], FALSE)
    BY <2>1, SkipStringIs
  <2>4. AfterToken(s, p) = AfterQuoted(s, p, s[p], FALSE)
    <3>1. CASE s[p] = "'"  BY <2>1, <3>1, TokenIs
    <3>2. CASE s[p] = "dq"  BY <2>1, <3>2, TokenIs
    <3> QED  BY <1>5, <3>1, <3>2
  <2>5. F[p] = {p} \cup F[AfterQuoted(s, p, s[p], FALSE)]  BY <1>3, <2>4
  <2>6. SkipToken(s, p) = AfterQuoted(s, p, s[p], FALSE)  BY <2>2, <2>3
  <2> QED  BY <1>1, <1>5, <2>1, <2>5, <2>6, CoverLiteral
<1> QED  BY <1>4, <1>5

\* So does a dollar-quoted one.
LEMMA CoverDollarString ==
  ASSUME NEW s \in Seq(Chars), NEW F, IsStarts(s, F), NEW p \in 1..Len(s),
         s[p] = "$", SkipDollarString(s, p) # p
  PROVE  Covered(s, F, p, SkipToken(s, p))
<1>1. PICK e : e = SkipToken(s, p)  OBVIOUS
<1>2. e = AfterDollarQuote(s, p) /\ e # p
  <2>1. e = SkipDollarString(s, p)  BY ZenonT(60), <1>1, SkipTokenIs
  <2> QED  BY <2>1, DollarStringIs
<1>3. e \in p + 1 .. Len(s) + 1  BY <1>2, DollarQuoteRange
<1>4. Apart(s, e)  BY <1>2, DollarEnds
<1>5. s[p] \notin Spaces /\ s[p] # "-" /\ s[p] # "/"  BY DEF Spaces
<1>6. ~IsComment(s, p)  BY <1>5 DEF IsComment, At
<1>7. AfterToken(s, p) = e  BY <1>2, TokenIs
<1>8. F[p] = {p} \cup F[e]  BY <1>5, <1>6, <1>7, StartsToken
<1>9. Begins(s, p) \subseteq {p}  BY BeginsFacts
<1>10. {p} \subseteq p..e - 1  BY <1>3
<1>11. \A i \in {p} : s[i] # "?"  OBVIOUS
<1> QED  BY <1>1, <1>3, <1>4, <1>8, <1>9, <1>10, <1>11, CoveredPlainly

\* From m to e are characters of a name, and no literals for the scanner.
OfName(s, m, e) == \A q \in m..e - 1 : IdentifierContinue(s[q])
Unquoted(s, F, m, e) == \A r \in m..e - 1 : r \in F[1] => ~LiteralAt(s, r)

\* All tokens there are are the name's, and then those from e on.
IsMade(F, m, e) == \E D \in SUBSET (m..e - 1) : F[m] = D \cup F[e]

\* The tokens of such a name, if it ends at e for the scanner.
LEMMA NameTokens ==
  ASSUME NEW s \in Seq(Chars), NEW F, IsStarts(s, F),
         NEW m \in 1..Len(s) + 1, NEW e \in m..Len(s) + 1,
         OfName(s, m, e), Unquoted(s, F, m, e), F[m] \subseteq F[1],
         e <= Len(s) => ~WordContinue(s[e])
  PROVE  IsMade(F, m, e)
<1> DEFINE T == {a \in m..e : F[a] \subseteq F[1] => IsMade(F, a, e)}
<1>0. m \in Nat /\ e \in Nat /\ m \in m..e /\ Len(s) \in Nat  OBVIOUS
<1>1. ASSUME NEW a \in m..e, \A b \in a + 1 .. e : b \in T
      PROVE  a \in T
  <2> SUFFICES ASSUME F[a] \subseteq F[1]  PROVE IsMade(F, a, e)
    OBVIOUS
  <2>1. CASE a = e
    <3>1. {} \in SUBSET (a..e - 1) /\ F[a] = {} \cup F[e]  BY <2>1
    <3> QED  BY <3>1 DEF IsMade
  <2>2. CASE a # e
    <3>1. a \in m..e - 1 /\ a \in 1..Len(s) /\ a + 1 \in a + 1 .. e /\ a \in a..e - 1
      BY <1>0, <2>2
    <3>2. s[a] \in Letters \cup Digits \cup High \cup {"$"}  BY <3>1, NamesAre DEF OfName
    <3>3. ASSUME NEW b \in a + 1 .. e, NEW D, D \subseteq {a}, F[a] = D \cup F[b]
          PROVE  IsMade(F, a, e)
      <4>1. F[b] \subseteq F[1]  BY <3>3
      <4>2. b \in T  BY <1>1, <3>3
      <4>3. PICK C \in SUBSET (b..e - 1) : F[b] = C \cup F[e]  BY <4>1, <4>2 DEF IsMade
      <4>4. b..e - 1 \subseteq a..e - 1  BY <1>0, <3>1, <3>3
      <4>5. D \cup C \in SUBSET (a..e - 1)  BY <3>1, <3>3, <4>3, <4>4
      <4>6. F[a] = (D \cup C) \cup F[e]  BY <3>3, <4>3
      <4> QED  BY <4>5, <4>6 DEF IsMade
    <3>4. CASE s[a] \in Spaces
      <4>1. F[a] = F[a + 1]  BY <3>1, <3>4, StartsSpace
      <4>2. PICK D : D = {}  OBVIOUS
      <4>3. D \subseteq {a} /\ F[a] = D \cup F[a + 1]  BY <4>1, <4>2
      <4> QED  BY <3>1, <3>3, <4>3
    <3>5. CASE s[a] \notin Spaces
      <4>1. s[a] # "-" /\ s[a] # "/" /\ s[a] # "'" /\ s[a] # "dq"
        BY <3>2 DEF Letters, Digits, High
      <4>2. ~IsComment(s, a)  BY <4>1 DEF IsComment, At
      <4>3. F[a] = {a} \cup F[AfterToken(s, a)]  BY <3>1, <3>5, <4>2, StartsToken
      <4>4. a \in F[1]  BY <4>3
      <4>5. ~LiteralAt(s, a)  BY <3>1, <4>4 DEF Unquoted
      <4>6. ~(s[a] = "E" /\ At(s, a + 1) = "'") /\ ~(s[a] = "$" /\ AfterDollarQuote(s, a) # a)
        BY <4>5 DEF LiteralAt
      <4>7. AfterToken(s, a) \in a + 1 .. e
        <5>1. AfterToken(s, a) = IF s[a] \in Letters THEN WordEnd(s, a) ELSE a + 1
          BY <4>1, <4>6, TokenIs
        <5>2. PICK w : w = WordEnd(s, a)  OBVIOUS
        <5>3. w \in a + 1 .. Len(s) + 1 /\ \A q \in a + 1 .. w - 1 : WordContinue(s[q])
          BY <3>1, <5>2, WordRange
        <5>4. ~(e < w)
          <6> SUFFICES ASSUME e < w  PROVE FALSE
            OBVIOUS
          <6>1. e \in a + 1 .. w - 1 /\ e <= Len(s)  BY <1>0, <3>1, <5>3
          <6> QED  BY <5>3, <6>1
        <5>5. w \in a + 1 .. e  BY <1>0, <3>1, <5>3, <5>4
        <5> QED  BY <3>1, <5>1, <5>2, <5>5
      <4> QED  BY <3>3, <4>3, <4>7
    <3> QED  BY <3>4, <3>5
  <2> QED  BY <2>1, <2>2
<1>2. \A a \in m..e : a \in T
  <2> HIDE DEF T
  <2> QED  BY <1>0, <1>1, Downward
<1> QED  BY <1>0, <1>2

\* A name that the scanner does not split holds no literal.
LEMMA NoLiteral ==
  ASSUME NEW s, NEW F, TokenStarts(s) = F[1], ~Splits(s, High),
         NEW p \in F[1], NEW r \in F[1], OneName(s, High, p, r)
  PROVE  ~LiteralAt(s, r)
BY Zenon DEF Splits

\* In names there is no question mark.
LEMMA NamesUnasked ==
  /\ \A c : IdentifierContinue(c) => c # "?" /\ c # ":"
  /\ \A c : NameChar(c) => IdentifierContinue(c) /\ c # "$"
BY NamesAre DEF Letters, Digits, High

\* A word ends for both at the same character, though the scanner may make several
\* tokens of it.
LEMMA CoverWord ==
  ASSUME NEW s \in Seq(Chars), NEW F, IsStarts(s, F), TokenStarts(s) = F[1],
         ~Splits(s, High), NEW p \in 1..Len(s), F[p] \subseteq F[1],
         s[p] \in Letters \cup {"hi"}, ~(s[p] = "E" /\ At(s, p + 1) = "'")
  PROVE  Covered(s, F, p, SkipToken(s, p))
<1>1. PICK e : e = SkipToken(s, p)  OBVIOUS
<1>2. e = IdentEnd(s, p)  BY <1>1, SkipTokenIs
<1>3. e \in p + 1 .. Len(s) + 1 /\ (e <= Len(s) => ~IdentifierContinue(s[e]))
      /\ \A q \in p + 1 .. e - 1 : IdentifierContinue(s[q])
  BY <1>2, IdentRange
<1>4. /\ s[p] \notin Spaces /\ s[p] # "-" /\ s[p] # "/" /\ s[p] # "'" /\ s[p] # "dq"
      /\ s[p] # "$" /\ s[p] # "?" /\ IdentifierContinue(s[p]) /\ s[p] \in Letters \cup High
  <2>1. s[p] \in Letters \cup High  BY DEF High
  <2>2. IdentifierContinue(s[p])  BY <2>1, NamesAre
  <2> QED  BY <2>1, <2>2 DEF Spaces, Letters
<1>5. ~IsComment(s, p)  BY <1>4 DEF IsComment, At
<1>6. F[p] = {p} \cup F[AfterToken(s, p)]  BY <1>4, <1>5, StartsToken
<1>7. p \in F[1]  BY <1>6
<1>8. p \in 1..Len(s) + 1 /\ e \in p..Len(s) + 1 /\ e \in Nat /\ p \in p..e - 1
      /\ e - 1 \in p..e - 1 /\ e - 1 \in 1..Len(s)
      /\ \A q \in p..e - 1 : q = p \/ q \in p + 1 .. e - 1
  BY <1>3
<1>9. \A q \in p..e - 1 : IdentifierContinue(s[q])  BY <1>3, <1>4, <1>8
<1>10. e <= Len(s) => ~WordContinue(s[e])  BY <1>3, NamesAre
<1>11. ASSUME NEW r \in p..e - 1, r \in F[1]  PROVE ~LiteralAt(s, r)
  <2>1. CASE r = p  BY <1>4, <2>1 DEF LiteralAt
  <2>2. CASE r # p
    <3>1. p < r /\ \A q \in p + 1 .. r - 1 : q \in p..e - 1  BY <1>3, <2>2
    <3>2. \A q \in p + 1 .. r - 1 : WordContinue(s[q]) \/ s[q] \in High
      BY <1>9, <3>1, NamesAre
    <3>3. OneName(s, High, p, r)  BY <1>4, <3>1, <3>2 DEF OneName
    <3> QED  BY <1>7, <1>11, <3>3, NoLiteral
  <2> QED  BY <2>1, <2>2
<1>12. PICK D \in SUBSET (p..e - 1) : F[p] = D \cup F[e]
  <2>1. Unquoted(s, F, p, e)  BY <1>11 DEF Unquoted
  <2>2. OfName(s, p, e)  BY <1>9 DEF OfName
  <2>3. p \in 1..Len(s) + 1 /\ e \in p..Len(s) + 1  BY <1>8
  <2>4. IsMade(F, p, e)  BY <1>10, <2>1, <2>2, <2>3, NameTokens
  <2> QED  BY <2>4 DEF IsMade
<1>13. Apart(s, e)
  <2>1. At(s, e - 1) # "?"  BY <1>8, <1>9, NamesUnasked DEF At
  <2> QED  BY <1>8, <2>1, ApartAtEnd
<1>14. Begins(s, p) \subseteq D
  <2>1. s[p] # ":"  BY <1>4, NamesUnasked
  <2>2. Begins(s, p) = {}  BY <1>4, <2>1, BeginsFacts
  <2> QED  BY <2>2
<1>15. \A i \in D : s[i] # "?"  BY <1>9, NamesUnasked
<1> QED  BY <1>1, <1>3, <1>12, <1>13, <1>14, <1>15, CoveredPlainly

\* A run ends at another character.
LEMMA RunRange ==
  ASSUME NEW s \in Seq(Chars), NEW p \in 1..Len(s)
  PROVE  /\ RunEnd(s, p) \in p + 1 .. Len(s) + 1
         /\ RunEnd(s, p) <= Len(s) => s[RunEnd(s, p)] # s[p]
         /\ \A q \in p..RunEnd(s, p) - 1 : s[q] = s[p]
<1> DEFINE n == Len(s)
           T == {q \in p..n : s[q] # s[p]}
<1>1. n \in Nat /\ p \in 1..n + 1 /\ T \subseteq p..n  OBVIOUS
<1>2. RunEnd(s, p) = Min(T \cup {n + 1})  BY DEF RunEnd, FirstFrom
<1>3. PICK m : m = Min(T \cup {n + 1})  OBVIOUS
<1>4. m \in p..n + 1 /\ (m <= n => m \in T) /\ \A q \in p..m - 1 : q \notin T
  <2> HIDE DEF T, n
  <2> QED  BY <1>1, <1>3, FirstOf
<1>5. \A q \in p..m - 1 : s[q] = s[p]  BY <1>4
<1>6. m # p  BY <1>1, <1>4
<1> QED  BY <1>1, <1>2, <1>3, <1>4, <1>5, <1>6

\* Where a number ends.
DigitEnd(s, p) == FirstFrom(s, p, LAMBDA q : s[q] \notin Digits)

\* It is the first character that is no digit.
LEMMA DigitRange ==
  ASSUME NEW s \in Seq(Chars), NEW p \in 1..Len(s) + 1
  PROVE  /\ DigitEnd(s, p) \in p..Len(s) + 1
         /\ DigitEnd(s, p) <= Len(s) => s[DigitEnd(s, p)] \notin Digits
         /\ \A q \in p..DigitEnd(s, p) - 1 : s[q] \in Digits
<1> DEFINE n == Len(s)
           T == {q \in p..n : s[q] \notin Digits}
<1>1. n \in Nat /\ p \in 1..n + 1 /\ T \subseteq p..n  OBVIOUS
<1>2. DigitEnd(s, p) = Min(T \cup {n + 1})  BY DEF DigitEnd, FirstFrom
<1>3. PICK m : m = Min(T \cup {n + 1})  OBVIOUS
<1>4. m \in p..n + 1 /\ (m <= n => m \in T) /\ \A q \in p..m - 1 : q \notin T
  <2> HIDE DEF T, n
  <2> QED  BY <1>1, <1>3, FirstOf
<1>5. \A q \in p..m - 1 : s[q] \in Digits  BY <1>4
<1> QED  BY <1>2, <1>3, <1>4, <1>5

\* The rest of a name ends where the name does.
LEMMA ParamFrom ==
  ASSUME NEW s \in Seq(Chars), NEW a \in 1..Len(s) + 1, NEW d \in a..ParamEnd(s, a)
  PROVE  ParamEnd(s, d) = ParamEnd(s, a)
<1> DEFINE T == {q \in d..Len(s) : ~ParameterChar(s[q])}
<1>1. PICK e : e = ParamEnd(s, a)  OBVIOUS
<1>2. e \in a..Len(s) + 1 /\ (e <= Len(s) => ~ParameterChar(s[e]))
      /\ \A q \in a..e - 1 : ParameterChar(s[q])
  BY <1>1, ParamRange
<1>3. Len(s) \in Nat /\ d \in 1..Len(s) + 1 /\ e \in d..Len(s) + 1 /\ T \subseteq d..Len(s)
  BY <1>1, <1>2
<1>4. e <= Len(s) => e \in T  BY <1>2, <1>3
<1>5. \A q \in d..e - 1 : q \notin T  BY <1>2, <1>3
<1>6. ParamEnd(s, d) = Min(T \cup {Len(s) + 1})  BY DEF ParamEnd, FirstFrom
<1> HIDE DEF T
<1>7. Min(T \cup {Len(s) + 1}) = e  BY <1>3, <1>4, <1>5, FirstIs
<1> QED  BY <1>1, <1>6, <1>7

\* What names, numbers and single characters are made of.
LEMMA ParamChars ==
  /\ \A c : ParameterChar(c) <=> c \in Letters \/ c \in Digits
  /\ \A c : ParameterChar(c) => c # "?"
  /\ \A c \in Digits : Single(c)
  /\ Single(":") /\ Single("?")
  /\ "$" \notin Letters /\ "'" \notin Letters \cup Digits /\ "E" \in Letters
BY DEF ParameterChar, Letters, Digits, Single, Spaces

\* The plan's lexer steps over a run of colons or question marks, of which the
\* scanner makes a token each; none is a question mark by itself.
LEMMA CoverRun ==
  ASSUME NEW s \in Seq(Chars), NEW F, IsStarts(s, F), NEW p \in 1..Len(s),
         s[p] \in {":", "?"}, At(s, p + 1) = s[p]
  PROVE  Covered(s, F, p, SkipToken(s, p))
<1>1. PICK e : e = SkipToken(s, p)  OBVIOUS
<1>2. e = RunEnd(s, p)  BY <1>1, SkipTokenIs
<1>3. e \in p + 1 .. Len(s) + 1 /\ (e <= Len(s) => s[e] # s[p])
      /\ \A q \in p..e - 1 : s[q] = s[p]
  BY <1>2, RunRange
<1>4. p + 1 \in 1..Len(s) /\ s[p + 1] = s[p]  BY DEF At
<1>5. e # p + 1  BY <1>3, <1>4
<1>6. e \in p + 2 .. Len(s) + 1 /\ e \in Nat /\ p \in 1..Len(s) + 1 /\ e \in p..Len(s) + 1
      /\ Len(s) \in Nat
  BY <1>3, <1>5
<1>7. \A q \in p..e - 1 : Single(s[q])  BY <1>3, ParamChars
<1>8. F[p] = (p..e - 1) \cup F[e]  BY <1>6, <1>7, StartsSingles
<1>9. Begins(s, p) = {}  BY DEF Begins
<1>10. \A i \in p..e - 1 : ~Lone(s, i)
  <2> SUFFICES ASSUME NEW i \in p..e - 1, s[i] = "?"
               PROVE  At(s, i - 1) = "?" \/ At(s, i + 1) = "?"
    BY DEF Lone
  <2>1. s[p] = "?" /\ i \in Nat  BY <1>3
  <2>2. CASE i = p
    <3>1. At(s, i + 1) = s[i + 1]  BY <1>4, <2>2 DEF At
    <3> QED  BY <1>4, <2>1, <2>2, <3>1
  <2>3. CASE i # p
    <3>1. i - 1 \in p..e - 1 /\ i - 1 \in 1..Len(s)  BY <1>6, <2>3
    <3>2. At(s, i - 1) = s[i - 1]  BY <3>1 DEF At
    <3> QED  BY <1>3, <2>1, <3>1, <3>2
  <2> QED  BY <2>2, <2>3
<1>11. Apart(s, e)
  <2>1. CASE s[p] = "?"
    <3>1. ~(e \in 1..Len(s) /\ s[e] = "?")  BY <1>3, <2>1
    <3> QED  BY <3>1 DEF Apart
  <2>2. CASE s[p] = ":"
    <3>1. e - 1 \in p..e - 1 /\ e - 1 \in 1..Len(s)  BY <1>6
    <3>2. At(s, e - 1) # "?"  BY <1>3, <2>2, <3>1 DEF At
    <3> QED  BY <1>6, <3>2, ApartAtEnd
  <2> QED  BY <2>1, <2>2
<1> DEFINE D == p..e - 1
<1>12. /\ D \in SUBSET (p..e - 1) /\ F[p] = D \cup F[e] /\ Begins(s, p) \subseteq D
       /\ \A i \in D : Lone(s, i) <=> (i \in Begins(s, p) /\ s[i] = "?")
  BY <1>8, <1>9, <1>10
<1> HIDE DEF D
<1>13. Covered(s, F, p, e)  BY <1>3, <1>11, <1>12 DEF Covered
<1> QED  BY <1>1, <1>13

\* Any other character is a token of both, a question mark by itself included.
LEMMA CoverOther ==
  ASSUME NEW s \in Seq(Chars), NEW F, IsStarts(s, F), NEW p \in 1..Len(s), Apart(s, p),
         s[p] \notin Letters \cup {"'", "dq", "bq", "$", "hi"} \cup Spaces, ~IsComment(s, p),
         ~(s[p] \in {":", "?"} /\ At(s, p + 1) = s[p]), ~(s[p] = ":" /\ NamedAt(s, p))
  PROVE  Covered(s, F, p, SkipToken(s, p))
<1>1. SkipToken(s, p) = p + 1  BY SkipTokenIs
<1>2. s[p] \notin Spaces /\ s[p] \notin Letters /\ s[p] # "'" /\ s[p] # "dq" /\ s[p] # "$"
      /\ s[p] # "E"
  BY DEF Letters
<1>3. AfterToken(s, p) = p + 1  BY <1>2, TokenIs
<1>4. F[p] = {p} \cup F[p + 1]  BY <1>2, <1>3, StartsToken
<1>5. p + 1 \in p + 1 .. Len(s) + 1 /\ p + 1 \in Nat /\ p \in p..(p + 1) - 1
      /\ (p + 1) - 1 = p
  OBVIOUS
<1>6. At(s, p) = s[p]  BY DEF At
<1>7. Apart(s, p + 1)
  <2>1. CASE s[p] = "?"
    <3>1. At(s, p + 1) # "?"  BY <2>1
    <3>2. ~(p + 1 \in 1..Len(s) /\ s[p + 1] = "?")  BY <3>1 DEF At
    <3> QED  BY <3>2 DEF Apart
  <2>2. CASE s[p] # "?"
    BY <1>5, <1>6, <2>2, ApartAtEnd
  <2> QED  BY <2>1, <2>2
<1>8. Lone(s, p) <=> (p \in Begins(s, p) /\ s[p] = "?")
  <2>1. CASE s[p] = "?"
    <3>1. At(s, p + 1) # "?" /\ At(s, p - 1) # "?"  BY <2>1 DEF Apart
    <3> QED  BY <2>1, <3>1 DEF Lone, Begins
  <2>2. CASE s[p] # "?"
    BY <2>2 DEF Lone
  <2> QED  BY <2>1, <2>2
<1> DEFINE D == {p}
<1>9. /\ D \in SUBSET (p..(p + 1) - 1) /\ F[p] = D \cup F[p + 1] /\ Begins(s, p) \subseteq D
      /\ \A i \in D : Lone(s, i) <=> (i \in Begins(s, p) /\ s[i] = "?")
  BY <1>4, <1>5, <1>8, BeginsFacts
<1> HIDE DEF D
<1>10. Covered(s, F, p, p + 1)  BY <1>5, <1>7, <1>9 DEF Covered
<1> QED  BY <1>1, <1>10

\* Before a name or number ends, there is no question mark.
LEMMA NameEnds ==
  ASSUME NEW s \in Seq(Chars), NEW m \in 1..Len(s) + 1, ParamEnd(s, m) # m
  PROVE  At(s, ParamEnd(s, m) - 1) # "?"
<1>1. PICK e : e = ParamEnd(s, m)  OBVIOUS
<1>2. e \in m..Len(s) + 1 /\ \A q \in m..e - 1 : ParameterChar(s[q])  BY <1>1, ParamRange
<1>3. e - 1 \in m..e - 1 /\ e - 1 \in 1..Len(s)  BY <1>1, <1>2
<1>4. At(s, e - 1) = s[e - 1] /\ ParameterChar(s[e - 1])  BY <1>2, <1>3 DEF At
<1> QED  BY <1>1, <1>4, ParamChars

\* A word that ends with a name is one token.
LEMMA NameToken ==
  ASSUME NEW s \in Seq(Chars), NEW F, IsStarts(s, F), NEW m \in 1..Len(s), s[m] \in Letters,
         At(s, ParamEnd(s, m)) # "$", ~(s[m] = "E" /\ At(s, m + 1) = "'")
  PROVE  F[m] = {m} \cup F[ParamEnd(s, m)] /\ ParamEnd(s, m) \in m + 1 .. Len(s) + 1
<1>1. PICK e : e = ParamEnd(s, m)  OBVIOUS
<1>2. e = WordEnd(s, m)  BY <1>1, WordIsName
<1>3. e \in m + 1 .. Len(s) + 1  BY <1>2, WordRange
<1>4. s[m] \notin Spaces /\ s[m] # "-" /\ s[m] # "/" /\ s[m] # "?" /\ s[m] # "'"
      /\ s[m] # "dq" /\ s[m] # "$"
  BY DEF Spaces, Letters
<1>5. ~IsComment(s, m)  BY <1>4 DEF IsComment, At
<1>6. AfterToken(s, m) = e  BY <1>2, <1>4, TokenIs
<1>7. F[m] = {m} \cup F[e]  BY <1>4, <1>5, <1>6, StartsToken
<1> QED  BY <1>1, <1>3, <1>7

\* An escape literal after a name's first letter ends the name there.
LEMMA NameBeforeEscape ==
  ASSUME NEW s \in Seq(Chars), NEW m \in 1..Len(s), s[m] = "E", At(s, m + 1) = "'"
  PROVE  ParamEnd(s, m) = m + 1
<1>1. PICK e : e = ParamEnd(s, m)  OBVIOUS
<1>2. e \in m..Len(s) + 1 /\ (e <= Len(s) => ~ParameterChar(s[e]))
      /\ \A q \in m..e - 1 : ParameterChar(s[q])
  BY <1>1, ParamRange
<1>3. m + 1 \in 1..Len(s) /\ s[m + 1] = "'"  BY DEF At
<1>4. ParameterChar(s[m]) /\ ~ParameterChar(s[m + 1])  BY <1>3, ParamChars
<1>5. e # m  BY <1>2, <1>4
<1>6. ~(m + 1 \in m..e - 1)  BY <1>2, <1>4
<1> QED  BY <1>1, <1>2, <1>3, <1>5, <1>6

\* A name after a colon is digits and a word for the scanner.
LEMMA CoverNamed ==
  ASSUME NEW s \in Seq(Chars), NEW F, IsStarts(s, F), NEW p \in 1..Len(s),
         s[p] = ":", At(s, p + 1) # s[p], NamedAt(s, p), ~AmbiguousAt(s, p)
  PROVE  Covered(s, F, p, SkipToken(s, p))
<1>0. Len(s) \in Nat /\ p + 1 \in 1..Len(s) + 1  OBVIOUS
<1>1. PICK e : e = SkipToken(s, p)  OBVIOUS
<1>2. e = ParamEnd(s, p + 1)  BY <1>1, SkipTokenIs
<1>3. e \in p + 1 .. Len(s) + 1 /\ (e <= Len(s) => ~ParameterChar(s[e]))
      /\ \A q \in p + 1 .. e - 1 : ParameterChar(s[q])
  BY <1>0, <1>2, ParamRange
<1>4. Single(s[p])  BY ParamChars
<1>5. F[p] = {p} \cup F[p + 1]  BY <1>4, StartsSingle
<1>6. PICK d : d = DigitEnd(s, p + 1)  OBVIOUS
<1>7. d \in p + 1 .. Len(s) + 1 /\ (d <= Len(s) => s[d] \notin Digits)
      /\ \A q \in p + 1 .. d - 1 : s[q] \in Digits
  BY <1>0, <1>6, DigitRange
<1>8. d <= e
  <2> SUFFICES ASSUME ~(d <= e)  PROVE FALSE
    OBVIOUS
  <2>1. e \in p + 1 .. d - 1 /\ e <= Len(s)  BY <1>3, <1>7
  <2> QED  BY <1>3, <1>7, <2>1, ParamChars
<1>9. F[p + 1] = (p + 1 .. d - 1) \cup F[d]
  <2>1. \A q \in p + 1 .. d - 1 : Single(s[q])  BY <1>7, ParamChars
  <2> QED  BY <1>0, <1>7, <2>1, StartsSingles
<1>10. Apart(s, e)
  <2>1. CASE e = p + 1
    <3>1. e - 1 = p /\ At(s, p) = s[p] /\ e \in Nat  BY <1>3, <2>1 DEF At
    <3>2. At(s, e - 1) # "?"  BY <3>1
    <3> QED  BY <3>1, <3>2, ApartAtEnd
  <2>2. CASE e # p + 1
    <3>1. At(s, e - 1) # "?"  BY <1>0, <1>2, <2>2, NameEnds
    <3>2. e \in Nat  BY <1>3
    <3> QED  BY <3>1, <3>2, ApartAtEnd
  <2> QED  BY <2>1, <2>2
<1>11. ~(/\ s[p] = "$" \/ NamedAt(s, p)
         /\ \/ /\ At(s, e) = "$" /\ e > p + 1
               /\ s[p] = ":" \/ p + 1 > p + 1
            \/ /\ At(s, e) = "'" /\ At(s, e - 1) = "E" /\ e > p + 1
               /\ \A q \in p + 1 .. e - 2 : s[p] = ":" /\ s[q] \in Digits)
  <2>1. PICK name : name = IF s[p] = ":" THEN p + 1 ELSE DollarName(s, p)  OBVIOUS
  <2>2. name = p + 1  BY <2>1
  <2>3. MarkEnd(s, p, name) = e  BY <1>2, <2>2, MarkEndIs
  <2> QED  BY <2>1, <2>2, <2>3 DEF AmbiguousAt
<1>12. \A q \in p + 1 .. e - 1 : s[q] # "?"  BY <1>3, ParamChars
<1>13. Begins(s, p) \subseteq {p} /\ {p} \subseteq p..e - 1 /\ p + 1 .. d - 1 \subseteq p..e - 1
  BY <1>0, <1>3, <1>7, <1>8, BeginsFacts
<1>14. \A q \in p..e - 1 : s[q] # "?"
  <2>1. \A q \in p..e - 1 : q = p \/ q \in p + 1 .. e - 1  BY <1>3
  <2> QED  BY <1>12, <2>1
<1>15. CASE d = e
  <2> DEFINE D == {p} \cup (p + 1 .. d - 1)
  <2>1. F[p] = D \cup F[e]  BY <1>5, <1>9, <1>15
  <2>2. D \subseteq p..e - 1 /\ Begins(s, p) \subseteq D  BY <1>13
  <2>3. \A i \in D : s[i] # "?"  BY <1>14, <2>2
  <2> HIDE DEF D
  <2> QED  BY <1>1, <1>3, <1>10, <2>1, <2>2, <2>3, CoveredPlainly
<1>16. CASE d # e
  <2>1. d \in p + 1 .. e - 1 /\ d \in 1..Len(s) /\ d \in 1..Len(s) + 1 /\ d <= Len(s)
        /\ d \in p + 1 .. e
    BY <1>0, <1>3, <1>7, <1>8, <1>16
  <2>2. s[d] \in Letters  BY <1>3, <1>7, <2>1, ParamChars
  <2>3. ParamEnd(s, d) = e  BY <1>0, <1>2, <2>1, ParamFrom
  <2>4. e > p + 1  BY <1>3, <2>1
  <2>5. At(s, e) # "$"  BY <1>11, <2>4
  <2>6. ~(s[d] = "E" /\ At(s, d + 1) = "'")
    <3> SUFFICES ASSUME s[d] = "E", At(s, d + 1) = "'"  PROVE FALSE
      OBVIOUS
    <3>1. e = d + 1  BY <2>1, <2>3, NameBeforeEscape
    <3>2. e - 1 = d /\ e - 2 = d - 1  BY <2>1, <3>1
    <3>3. At(s, d) = s[d]  BY <2>1 DEF At
    <3>4. \A q \in p + 1 .. e - 2 : s[p] = ":" /\ s[q] \in Digits  BY <1>7, <3>2
    <3>5. At(s, e) = "'" /\ At(s, e - 1) = "E"  BY <3>1, <3>2, <3>3
    <3> QED  BY <1>11, <2>4, <3>4, <3>5
  <2>7. F[d] = {d} \cup F[e]  BY <2>1, <2>2, <2>3, <2>5, <2>6, NameToken
  <2> DEFINE D == {p} \cup (p + 1 .. d - 1) \cup {d}
  <2>8. F[p] = D \cup F[e]  BY <1>5, <1>9, <2>7
  <2>9. {d} \subseteq p..e - 1  BY <2>1
  <2>10. D \subseteq p..e - 1 /\ Begins(s, p) \subseteq D  BY <1>13, <2>9
  <2>11. \A i \in D : s[i] # "?"  BY <1>14, <2>10
  <2> HIDE DEF D
  <2> QED  BY <1>1, <1>3, <1>10, <2>8, <2>10, <2>11, CoveredPlainly
<1> QED  BY <1>15, <1>16

\* SkipDollarName in terms of the names above.
LEMMA DollarNameIs ==
  ASSUME NEW s, NEW p
  PROVE  SkipDollarName(s, p) =
           LET m == DollarName(s, p)
           IN IF At(s, m) \in Digits THEN DigitEnd(s, m)
              ELSE IF At(s, m) \in {"dq", "bq"} THEN SkipString(s, m, s[m], FALSE)
              ELSE NameEnd(s, m)
BY Zenon DEF SkipDollarName, DigitEnd, NameEnd

\* Before a name after a dollar ends, there is no question mark.
LEMMA NameLast ==
  ASSUME NEW s \in Seq(Chars), NEW m \in 1..Len(s) + 1, NameEnd(s, m) # m
  PROVE  At(s, NameEnd(s, m) - 1) # "?"
<1>1. PICK e : e = NameEnd(s, m)  OBVIOUS
<1>2. e \in m..Len(s) + 1 /\ \A q \in m..e - 1 : NameChar(s[q])  BY <1>1, NameRange
<1>3. e - 1 \in m..e - 1 /\ e - 1 \in 1..Len(s)  BY <1>1, <1>2
<1>4. At(s, e - 1) = s[e - 1] /\ NameChar(s[e - 1])  BY <1>2, <1>3 DEF At
<1> QED  BY <1>1, <1>4, NamesUnasked

\* The rest of it ends where the name does.
LEMMA NameFrom ==
  ASSUME NEW s \in Seq(Chars), NEW a \in 1..Len(s) + 1, NEW d \in a..NameEnd(s, a)
  PROVE  NameEnd(s, d) = NameEnd(s, a)
<1> DEFINE T == {q \in d..Len(s) : ~NameChar(s[q])}
<1>1. PICK e : e = NameEnd(s, a)  OBVIOUS
<1>2. e \in a..Len(s) + 1 /\ (e <= Len(s) => ~NameChar(s[e]))
      /\ \A q \in a..e - 1 : NameChar(s[q])
  BY <1>1, NameRange
<1>3. Len(s) \in Nat /\ d \in 1..Len(s) + 1 /\ e \in d..Len(s) + 1 /\ T \subseteq d..Len(s)
  BY <1>1, <1>2
<1>4. e <= Len(s) => e \in T  BY <1>2, <1>3
<1>5. \A q \in d..e - 1 : q \notin T  BY <1>2, <1>3
<1>6. NameEnd(s, d) = Min(T \cup {Len(s) + 1})  BY DEF NameEnd, FirstFrom
<1> HIDE DEF T
<1>7. Min(T \cup {Len(s) + 1}) = e  BY <1>3, <1>4, <1>5, FirstIs
<1> QED  BY <1>1, <1>6, <1>7

\* What follows a dollar that opens no literal, and the trivia after it, is a token
\* of its own, unless it is a name that begins with a Unicode space.
LEMMA AfterDollar ==
  ASSUME NEW s \in Seq(Chars), NEW F, IsStarts(s, F), NEW p \in 1..Len(s),
         s[p] = "$", SkipDollarString(s, p) = p
  PROVE  /\ DollarName(s, p) \in p + 1 .. Len(s) + 1 /\ Apart(s, DollarName(s, p))
         /\ F[p] = {p} \cup F[DollarName(s, p)]
         /\ DollarName(s, p) # p + 1 /\ DollarName(s, p) \in 1..Len(s)
              => DollarName(s, p) \in F[DollarName(s, p)]
<1>0. Len(s) \in Nat /\ p + 1 \in 1..Len(s) + 1 /\ p + 1 \in Nat /\ (p + 1) - 1 = p
  OBVIOUS
<1>1. F[p] = {p} \cup F[p + 1]
  <2>1. AfterDollarQuote(s, p) = p  BY DollarStringIs
  <2>2. s[p] \notin Spaces /\ s[p] \notin Letters /\ s[p] # "-" /\ s[p] # "/"
    BY DEF Spaces, Letters
  <2>3. ~IsComment(s, p)  BY <2>2 DEF IsComment, At
  <2>4. AfterToken(s, p) = p + 1  BY <2>1, <2>2, TokenIs
  <2> QED  BY <2>2, <2>3, <2>4, StartsToken
<1>2. Apart(s, p + 1)
  <2>1. At(s, (p + 1) - 1) # "?"  BY <1>0 DEF At
  <2> QED  BY <1>0, <2>1, ApartAtEnd
<1>3. CASE At(s, p + 1) \in High
  <2>1. DollarName(s, p) = p + 1  BY <1>3, Zenon DEF DollarName
  <2> QED  BY <1>0, <1>1, <1>2, <2>1
<1>4. CASE At(s, p + 1) \notin High
  <2>1. DollarName(s, p) = SkipTrivia(s, p + 1)  BY <1>4, Zenon DEF DollarName
  <2>2. PICK m : m = AfterTrivia(s, p + 1)  OBVIOUS
  <2>3. DollarName(s, p) = m  BY <1>0, <2>1, <2>2, SkipTriviaIs
  <2>4. m \in p + 1 .. Len(s) + 1  BY <1>0, <2>2, TriviaRange
  <2>5. m \in 1..Len(s) + 1  BY <1>0, <2>4
  <2>6. F[p + 1] = F[m]  BY <1>0, <2>2, StartsTrivia
  <2>7. AfterTrivia(s, m) = m /\ (m = p + 1 \/ Apart(s, m))  BY <1>0, <2>2, TriviaEnds
  <2>8. m \in 1..Len(s) => m \in F[m]
    <3>1. F[m] = StartsValue(s, F, m)  BY <2>5 DEF IsStarts
    <3>2. m \in 1..Len(s) => ~(m > Len(s))  BY <1>0
    <3>3. StartsValue(s, F, m) = IF m > Len(s) THEN {} ELSE {m} \cup F[AfterToken(s, m)]
      BY <2>7, Zenon DEF StartsValue
    <3> QED  BY <3>1, <3>2, <3>3
  <2> QED  BY <1>1, <1>2, <2>3, <2>4, <2>6, <2>7, <2>8
<1> QED  BY <1>3, <1>4

\* A name after a dollar holds no literal for the scanner.
LEMMA DollarNameTokens ==
  ASSUME NEW s \in Seq(Chars), NEW F, IsStarts(s, F), TokenStarts(s) = F[1],
         ~Splits(s, High), NEW p \in 1..Len(s), F[p] \subseteq F[1],
         s[p] = "$", SkipDollarString(s, p) = p, ~AmbiguousAt(s, p),
         NEW m, m = DollarName(s, p), m \in 1..Len(s), s[m] \in Letters \cup High,
         NEW e, e = NameEnd(s, m)
  PROVE  IsMade(F, m, e)
<1>0. Len(s) \in Nat /\ p + 1 \in 1..Len(s) + 1 /\ p + 1 \in Nat /\ m \in 1..Len(s) + 1
  OBVIOUS
<1>1. m \in p + 1 .. Len(s) + 1 /\ F[p] = {p} \cup F[m]
      /\ (m # p + 1 /\ m \in 1..Len(s) => m \in F[m])
  BY AfterDollar
<1>2. e \in m..Len(s) + 1 /\ (e <= Len(s) => ~NameChar(s[e]))
      /\ \A q \in m..e - 1 : NameChar(s[q])
  BY <1>0, NameRange
<1>3. At(s, m) = s[m] /\ NameChar(s[m])  BY NamesAre DEF At
<1>4. e \in m + 1 .. Len(s) + 1 /\ e > m /\ e \in Nat /\ m \in Nat
  <2>1. e # m  BY <1>2, <1>3
  <2> QED  BY <1>0, <1>2, <2>1
<1>5. ~(/\ s[p] = "$" \/ NamedAt(s, p)
        /\ \/ /\ At(s, e) = "$" /\ e > m
              /\ s[p] = ":" \/ m > p + 1
           \/ /\ At(s, e) = "'" /\ At(s, e - 1) = "E" /\ e > m
              /\ \A q \in m .. e - 2 : s[p] = ":" /\ s[q] \in Digits)
  <2>1. PICK name : name = IF s[p] = ":" THEN p + 1 ELSE DollarName(s, p)  OBVIOUS
  <2>2. name = m  BY <2>1
  <2>3. MarkEnd(s, p, name) = e  BY <2>2, MarkEndIs
  <2> QED  BY <2>1, <2>2, <2>3 DEF AmbiguousAt
<1>6. At(s, e) # "$"
  <2>1. CASE m = p + 1
    <3>1. AfterDollarQuote(s, p) = p  BY DollarStringIs
    <3>2. At(s, TagEnd(s, p)) # "$"  BY <3>1, NoDollarQuote
    <3>3. IdentifierStart(At(s, p + 1))  BY <1>3, <2>1, NamesAre
    <3>4. SkipTag(s, p) = NameEnd(s, p + 2)  BY <3>3, SkipTagIs
    <3>5. p + 2 \in m..NameEnd(s, m)  BY <1>0, <1>4, <2>1
    <3>6. NameEnd(s, p + 2) = e  BY <1>0, <3>5, NameFrom
    <3> QED  BY <3>2, <3>4, <3>6, TagIs
  <2>2. CASE m # p + 1
    <3>1. m > p + 1  BY <1>0, <1>1, <2>2
    <3> QED  BY <1>4, <1>5, <3>1
  <2> QED  BY <2>1, <2>2
<1>7. p \in F[1] /\ F[m] \subseteq F[1]  BY <1>1
<1>8. ASSUME NEW r \in m..e - 1, r \in F[1]  PROVE ~LiteralAt(s, r)
  <2>1. s[r] # "$"  BY <1>2, NamesUnasked
  <2>2. CASE r = m
    <3> SUFFICES ASSUME s[r] = "E", At(s, r + 1) = "'"  PROVE FALSE
      BY <2>1 DEF LiteralAt
    <3>1. m + 1 \in 1..Len(s) /\ s[m + 1] = "'"  BY <2>2 DEF At
    <3>2. ~NameChar(s[m + 1])  BY <3>1, NamesAre DEF Letters, Digits, High
    <3>3. ~(m + 1 \in m..e - 1)  BY <1>2, <3>2
    <3>4. e = m + 1  BY <1>4, <3>3
    <3>5. e - 1 = m /\ m..e - 2 = {}  BY <1>4, <3>4
    <3>6. \A q \in m .. e - 2 : s[p] = ":" /\ s[q] \in Digits  BY <3>5
    <3>7. At(s, e) = "'" /\ At(s, e - 1) = "E"  BY <1>3, <2>2, <3>4, <3>5
    <3> QED  BY <1>4, <1>5, <3>6, <3>7
  <2>3. CASE r # m
    <3>1. r > m /\ r \in Nat /\ p \in Nat /\ p < m  BY <1>0, <1>1, <1>4, <2>3
    <3>2. \A q \in m..r - 1 : WordContinue(s[q]) \/ s[q] \in High
      <4>1. m..r - 1 \subseteq m..e - 1  BY <1>4, <3>1
      <4>2. \A q \in m..r - 1 : NameChar(s[q])  BY <1>2, <4>1
      <4> QED  BY <4>2, NamesAre
    <3>3. CASE m = p + 1
      <4>1. s[p + 1] \notin Digits  BY <3>3 DEF Letters, High, Digits
      <4>2. p < r /\ p + 1 < r  BY <3>1, <3>3
      <4>3. OneName(s, High, p, r)  BY <3>2, <3>3, <4>1, <4>2 DEF OneName
      <4> QED  BY <1>7, <1>8, <4>3, NoLiteral
    <3>4. CASE m # p + 1
      <4>1. m \in F[1]  BY <1>1, <1>7, <3>4
      <4>2. m + 1 .. r - 1 \subseteq m..r - 1  BY <1>4, <3>1
      <4>3. OneName(s, High, m, r)  BY <3>1, <3>2, <4>2 DEF OneName
      <4> QED  BY <1>8, <4>1, <4>3, NoLiteral
    <3> QED  BY <3>3, <3>4
  <2> QED  BY <2>2, <2>3
<1>9. OfName(s, m, e)  BY <1>2, NamesUnasked DEF OfName
<1>10. e <= Len(s) => ~WordContinue(s[e])
  <2> SUFFICES ASSUME e <= Len(s)  PROVE ~WordContinue(s[e])
    OBVIOUS
  <2>1. e \in 1..Len(s)  BY <1>0, <1>4
  <2>2. s[e] # "$"  BY <1>6, <2>1 DEF At
  <2> QED  BY <1>2, <2>2, NamesAre
<1>11. Unquoted(s, F, m, e)  BY <1>8 DEF Unquoted
<1>12. m \in 1..Len(s) + 1 /\ e \in m..Len(s) + 1  BY <1>0, <1>2
<1> QED  BY <1>7, <1>9, <1>10, <1>11, <1>12, NameTokens

\* So does the scanner's reading of one end with it, which trivia may precede; a
\* quoted one is a literal.
LEMMA CoverDollarName ==
  ASSUME NEW s \in Seq(Chars), NEW F, IsStarts(s, F), TokenStarts(s) = F[1],
         ~Splits(s, High), NEW p \in 1..Len(s), F[p] \subseteq F[1],
         s[p] = "$", SkipDollarString(s, p) = p, ~AmbiguousAt(s, p)
  PROVE  Covered(s, F, p, SkipToken(s, p))
<1>0. Len(s) \in Nat /\ p + 1 \in 1..Len(s) + 1 /\ p + 1 \in Nat /\ (p + 1) - 1 = p
  OBVIOUS
<1>1. PICK e : e = SkipToken(s, p)  OBVIOUS
<1>2. PICK m : m = DollarName(s, p)  OBVIOUS
<1>3. m \in p + 1 .. Len(s) + 1 /\ Apart(s, m) /\ F[p] = {p} \cup F[m]
  BY <1>2, AfterDollar
<1>4. m \in 1..Len(s) + 1 /\ m \in Nat  BY <1>0, <1>3
<1>5. e = IF At(s, m) \in Digits THEN DigitEnd(s, m)
          ELSE IF At(s, m) \in {"dq", "bq"} THEN SkipString(s, m, s[m], FALSE)
          ELSE NameEnd(s, m)
  <2>1. e = SkipDollarName(s, p)  BY <1>1, SkipTokenIs
  <2> QED  BY <1>2, <2>1, DollarNameIs
<1>6. F[m] \subseteq F[1]  BY <1>3
<1>7. Begins(s, p) \subseteq {p}  BY BeginsFacts
<1>8. m \in 1..Len(s) => At(s, m) = s[m]  BY DEF At
<1>9. CASE At(s, m) \in Digits
  <2>1. m \in 1..Len(s)  BY <1>9 DEF At, Digits
  <2>2. e = DigitEnd(s, m)  BY <1>5, <1>9
  <2>3. e \in m..Len(s) + 1 /\ (e <= Len(s) => s[e] \notin Digits)
        /\ \A q \in m..e - 1 : s[q] \in Digits
    BY <1>4, <2>2, DigitRange
  <2>4. e # m  BY <1>8, <1>9, <2>1, <2>3
  <2>5. e \in p + 1 .. Len(s) + 1 /\ e \in Nat /\ e - 1 \in m..e - 1 /\ e - 1 \in 1..Len(s)
        /\ {p} \subseteq p..e - 1 /\ m..e - 1 \subseteq p..e - 1
    BY <1>0, <1>3, <2>1, <2>3, <2>4
  <2>6. \A q \in m..e - 1 : Single(s[q])  BY <2>3, ParamChars
  <2>7. F[m] = (m..e - 1) \cup F[e]  BY <1>4, <2>3, <2>6, StartsSingles
  <2>8. "?" \notin Digits  BY DEF Digits
  <2>9. At(s, e - 1) # "?"  BY <2>3, <2>5, <2>8 DEF At
  <2>10. Apart(s, e)  BY <2>5, <2>9, ApartAtEnd
  <2> DEFINE D == {p} \cup (m..e - 1)
  <2>11. F[p] = D \cup F[e]  BY <1>3, <2>7
  <2>12. D \subseteq p..e - 1 /\ Begins(s, p) \subseteq D  BY <1>7, <2>5
  <2>13. \A i \in D : s[i] # "?"  BY <2>3, <2>8
  <2> HIDE DEF D
  <2> QED  BY <1>1, <2>5, <2>10, <2>11, <2>12, <2>13, CoveredPlainly
<1>10. CASE At(s, m) \notin Digits /\ At(s, m) \in {"dq", "bq"}
  <2>1. m \in 1..Len(s) /\ s[m] \in {"dq", "bq"} /\ FALSE \in BOOLEAN
    BY <1>10 DEF At
  <2>2. s[m] \notin Spaces /\ s[m] # "-" /\ s[m] # "/" /\ s[m] # "'" /\ s[m] # "E"
    BY <2>1 DEF Spaces
  <2>3. ~IsComment(s, m)  BY <1>8, <2>1, <2>2 DEF IsComment
  <2>4. F[m] = {m} \cup F[AfterToken(s, m)]  BY <2>1, <2>2, <2>3, StartsToken
  <2>5. s[m] = "dq"
    <3> SUFFICES ASSUME s[m] = "bq"  PROVE FALSE
      BY <2>1
    <3>1. m \in TokenStarts(s)  BY <1>6, <2>4
    <3> QED  BY <3>1, Zenon DEF Splits
  <2>6. e = SkipString(s, m, "dq", FALSE)  BY <1>5, <1>10, <2>5
  <2>7. "dq" # "end" /\ "dq" # "?"  OBVIOUS
  <2>8. e = AfterQuoted(s, m, "dq", FALSE)  BY <2>1, <2>6, <2>7, SkipStringIs
  <2>9. e \in m + 1 .. Len(s) + 1  BY <2>1, <2>7, <2>8, QuotedRange
  <2>10. e = Len(s) + 1 \/ At(s, e - 1) = "dq"  BY <2>1, <2>7, <2>8, QuotedEnds
  <2>11. e \in p + 1 .. Len(s) + 1 /\ e \in Nat /\ {p} \subseteq p..e - 1 /\ {m} \subseteq p..e - 1
    BY <1>0, <1>3, <2>9
  <2>12. Apart(s, e)  BY <2>7, <2>10, <2>11, ApartAtEnd
  <2>13. AfterToken(s, m) = e  BY <2>2, <2>5, <2>8, TokenIs
  <2> DEFINE D == {p} \cup {m}
  <2>14. F[p] = D \cup F[e]  BY <1>3, <2>4, <2>13
  <2>15. D \subseteq p..e - 1 /\ Begins(s, p) \subseteq D  BY <1>7, <2>11
  <2>16. \A i \in D : s[i] # "?"  BY <2>5
  <2> HIDE DEF D
  <2> QED  BY <1>1, <2>11, <2>12, <2>14, <2>15, <2>16, CoveredPlainly
<1>11. ASSUME At(s, m) \notin Digits, At(s, m) \notin {"dq", "bq"}
       PROVE  /\ e = NameEnd(s, m)
              /\ e \in m..Len(s) + 1 /\ (e <= Len(s) => ~NameChar(s[e]))
              /\ \A q \in m..e - 1 : NameChar(s[q])
  <2>1. e = NameEnd(s, m)  BY <1>5, <1>11
  <2> QED  BY <1>4, <2>1, NameRange
<1>12. CASE /\ At(s, m) \notin Digits /\ At(s, m) \notin {"dq", "bq"}
            /\ At(s, m) \notin Letters \cup High
  <2>1. ~(m \in m..e - 1)
    <3> SUFFICES ASSUME m \in m..e - 1  PROVE FALSE
      OBVIOUS
    <3>1. m \in 1..Len(s) /\ NameChar(s[m])  BY <1>0, <1>4, <1>11, <1>12
    <3> QED  BY <1>8, <1>12, <3>1, NamesAre
  <2>2. e = m  BY <1>4, <1>11, <1>12, <2>1
  <2>3. {p} \subseteq p..e - 1  BY <1>3, <2>2
  <2>4. \A i \in {p} : s[i] # "?"  OBVIOUS
  <2> QED  BY ZenonT(60), <1>1, <1>3, <1>7, <2>2, <2>3, <2>4, CoveredPlainly
<1>13. CASE /\ At(s, m) \notin Digits /\ At(s, m) \notin {"dq", "bq"}
            /\ At(s, m) \in Letters \cup High
  <2>1. m \in 1..Len(s) /\ s[m] \in Letters \cup High
    BY <1>8, <1>13 DEF At, Letters, High
  <2>2. e = NameEnd(s, m) /\ e \in m..Len(s) + 1 /\ \A q \in m..e - 1 : NameChar(s[q])
    BY <1>11, <1>13
  <2>3. e # m
    <3>1. NameChar(s[m])  BY <2>1, NamesAre
    <3>2. e <= Len(s) => ~NameChar(s[e])  BY <1>11, <1>13
    <3> QED  BY <2>1, <3>1, <3>2
  <2>4. PICK C \in SUBSET (m..e - 1) : F[m] = C \cup F[e]
    <3>1. IsMade(F, m, e)  BY <1>2, <2>1, <2>2, DollarNameTokens
    <3> QED  BY <3>1 DEF IsMade
  <2>5. e \in p + 1 .. Len(s) + 1 /\ e \in Nat /\ {p} \subseteq p..e - 1
        /\ m..e - 1 \subseteq p..e - 1
    BY <1>0, <1>3, <2>2, <2>3
  <2>6. At(s, e - 1) # "?"  BY <1>4, <2>2, <2>3, NameLast
  <2>7. Apart(s, e)  BY <2>5, <2>6, ApartAtEnd
  <2> DEFINE D == {p} \cup C
  <2>8. F[p] = D \cup F[e]  BY <1>3, <2>4
  <2>9. D \subseteq p..e - 1 /\ Begins(s, p) \subseteq D  BY <1>7, <2>4, <2>5
  <2>10. \A i \in D : s[i] # "?"  BY <2>2, <2>4, NamesUnasked
  <2> HIDE DEF D
  <2> QED  BY <1>1, <2>5, <2>7, <2>8, <2>9, <2>10, CoveredPlainly
<1> QED  BY <1>9, <1>10, <1>12, <1>13

-----------------------------------------------------------------------------
(* The placeholders.                                                        *)

\* What the plan's lexer steps over begins at p and ends further on.
LEMMA SkipAdvances ==
  ASSUME NEW s \in Seq(Chars), NEW p \in 1..Len(s)
  PROVE  SkipToken(s, p) \in p + 1 .. Len(s) + 1
<1>0. Len(s) \in Nat /\ p + 1 \in 1..Len(s) + 1  OBVIOUS
<1>1. PICK F : \A q \in 1..Len(s) + 1 :
                  F[q] \subseteq q..Len(s) /\ F[q] = StartsValue(s, F, q)
  BY StartsFunction
<1>2. IsStarts(s, F)  BY <1>1 DEF IsStarts
<1>3. \A e : Covered(s, F, p, e) => e \in p + 1 .. Len(s) + 1  BY DEF Covered
<1>4. CASE s[p] \in Spaces  BY <1>2, <1>3, <1>4, CoverSpace
<1>5. CASE IsComment(s, p)  BY <1>2, <1>3, <1>5, CoverComment
<1>6. CASE s[p] \in {"'", "dq"} \/ (s[p] = "E" /\ At(s, p + 1) = "'")
  BY <1>2, <1>3, <1>6, CoverString
<1>7. CASE s[p] = "bq"
  <2>1. SkipToken(s, p) = SkipString(s, p, "bq", FALSE)  BY <1>7, SkipTokenIs
  <2>2. "bq" # "end" /\ FALSE \in BOOLEAN  OBVIOUS
  <2>3. SkipString(s, p, "bq", FALSE) = AfterQuoted(s, p, "bq", FALSE)
    BY <2>2, SkipStringIs
  <2>4. AfterQuoted(s, p, "bq", FALSE) \in p + 1 .. Len(s) + 1  BY <2>2, QuotedRange
  <2> QED  BY <2>1, <2>3, <2>4
<1>8. CASE s[p] = "$"
  <2>1. CASE SkipDollarString(s, p) # p  BY <1>2, <1>3, <1>8, <2>1, CoverDollarString
  <2>2. CASE SkipDollarString(s, p) = p
    <3>1. PICK m : m = DollarName(s, p)  OBVIOUS
    <3>2. m \in p + 1 .. Len(s) + 1  BY <1>2, <1>8, <2>2, <3>1, AfterDollar
    <3>3. PICK e : e = SkipToken(s, p)  OBVIOUS
    <3>4. e = SkipDollarName(s, p)  BY <1>8, <2>2, <3>3, SkipTokenIs
    <3>5. e = IF At(s, m) \in Digits THEN DigitEnd(s, m)
              ELSE IF At(s, m) \in {"dq", "bq"} THEN SkipString(s, m, s[m], FALSE)
              ELSE NameEnd(s, m)
      BY <3>1, <3>4, DollarNameIs
    <3>6. m \in 1..Len(s) + 1  BY <1>0, <3>2
    <3>7. e \in m..Len(s) + 1
      <4>1. DigitEnd(s, m) \in m..Len(s) + 1 /\ NameEnd(s, m) \in m..Len(s) + 1
        BY <3>6, DigitRange, NameRange
      <4>2. ASSUME At(s, m) \in {"dq", "bq"}
            PROVE  SkipString(s, m, s[m], FALSE) \in m..Len(s) + 1
        <5>1. m \in 1..Len(s) /\ s[m] # "end" /\ FALSE \in BOOLEAN  BY <4>2 DEF At
        <5>2. PICK c : c = s[m]  OBVIOUS
        <5>3. SkipString(s, m, c, FALSE) = AfterQuoted(s, m, c, FALSE)
          BY <5>1, <5>2, SkipStringIs
        <5>4. PICK r : r = AfterQuoted(s, m, c, FALSE)  OBVIOUS
        <5>5. r \in m + 1 .. Len(s) + 1  BY <5>1, <5>2, <5>4, QuotedRange
        <5>6. r \in m..Len(s) + 1  BY <1>0, <5>1, <5>5
        <5> QED  BY <5>2, <5>3, <5>4, <5>6
      <4> QED  BY <3>5, <4>1, <4>2
    <3> QED  BY <1>0, <3>2, <3>3, <3>7
  <2> QED  BY <2>1, <2>2
<1>9. CASE s[p] \in Letters \cup {"hi"} /\ ~(s[p] = "E" /\ At(s, p + 1) = "'")
  <2>1. SkipToken(s, p) = IdentEnd(s, p)  BY <1>9, SkipTokenIs
  <2> QED  BY <2>1, IdentRange
<1>10. CASE s[p] \in {":", "?"} /\ At(s, p + 1) = s[p]  BY <1>2, <1>3, <1>10, CoverRun
<1>11. CASE s[p] = ":" /\ At(s, p + 1) # s[p] /\ NamedAt(s, p)
  <2>1. SkipToken(s, p) = ParamEnd(s, p + 1)  BY <1>11, SkipTokenIs
  <2> QED  BY <1>0, <2>1, ParamRange
<1>12. CASE /\ s[p] \notin Letters \cup {"'", "dq", "bq", "$", "hi"} \cup Spaces
            /\ ~IsComment(s, p)
            /\ ~(s[p] \in {":", "?"} /\ At(s, p + 1) = s[p])
            /\ ~(s[p] = ":" /\ NamedAt(s, p))
  <2>1. SkipToken(s, p) = p + 1  BY <1>12, SkipTokenIs
  <2> QED  BY <1>0, <2>1
<1> HIDE DEF IsComment, Spaces
<1> QED  BY <1>4, <1>5, <1>6, <1>7, <1>8, <1>9, <1>10, <1>11, <1>12

\* Where both lexers read the text alike.
LEMMA StepCovers ==
  ASSUME NEW s \in Seq(Chars), NEW F, IsStarts(s, F), TokenStarts(s) = F[1],
         ~Splits(s, High), NEW p \in 1..Len(s), F[p] \subseteq F[1], Apart(s, p),
         p \in F[p] => ~AmbiguousAt(s, p)
  PROVE  Covered(s, F, p, SkipToken(s, p))
<1>1. CASE s[p] \in Spaces  BY <1>1, CoverSpace
<1>2. CASE IsComment(s, p)  BY <1>2, CoverComment
<1>3. CASE s[p] \in {"'", "dq"} \/ (s[p] = "E" /\ At(s, p + 1) = "'")
  BY <1>3, CoverString
<1>4. s[p] \notin Spaces /\ ~IsComment(s, p) => p \in F[p]  BY StartsToken
<1>5. s[p] \in {"$", ":", "bq"} => s[p] \notin Spaces /\ ~IsComment(s, p)
  BY DEF Spaces, IsComment, At
<1>6. s[p] # "bq"
  <2> SUFFICES ASSUME s[p] = "bq"  PROVE FALSE
    OBVIOUS
  <2>1. p \in TokenStarts(s)  BY <1>4, <1>5
  <2> QED  BY <2>1, Zenon DEF Splits
<1>7. CASE s[p] = "$"
  <2>1. ~AmbiguousAt(s, p)  BY <1>4, <1>5, <1>7
  <2> QED  BY <1>7, <2>1, CoverDollarString, CoverDollarName
<1>8. CASE s[p] \in Letters \cup {"hi"} /\ ~(s[p] = "E" /\ At(s, p + 1) = "'")
  BY <1>8, CoverWord
<1>9. CASE s[p] \in {":", "?"} /\ At(s, p + 1) = s[p]  BY <1>9, CoverRun
<1>10. CASE s[p] = ":" /\ At(s, p + 1) # s[p] /\ NamedAt(s, p)
  <2>1. ~AmbiguousAt(s, p)  BY <1>4, <1>5, <1>10
  <2> QED  BY <1>10, <2>1, CoverNamed
<1>11. CASE /\ s[p] \notin Letters \cup {"'", "dq", "bq", "$", "hi"} \cup Spaces
            /\ ~IsComment(s, p)
            /\ ~(s[p] \in {":", "?"} /\ At(s, p + 1) = s[p])
            /\ ~(s[p] = ":" /\ NamedAt(s, p))
  BY <1>11, CoverOther
<1> HIDE DEF IsComment, Spaces
<1> QED  BY <1>1, <1>2, <1>3, <1>6, <1>7, <1>8, <1>9, <1>10, <1>11

PlaceholdersValue(s, from, p) ==
  IF p > Len(s) THEN {} ELSE Begins(s, p) \cup from[SkipToken(s, p)]

\* The function Placeholders chooses.
LEMMA PlaceholdersFunction ==
  ASSUME NEW s \in Seq(Chars)
  PROVE  \E from :
           /\ Placeholders(s) = from[1]
           /\ \A p \in 1..Len(s) + 1 : from[p] = PlaceholdersValue(s, from, p)
<1> DEFINE n == Len(s)
           S == 1..n + 1
           V == SUBSET Nat
           Value(f, p) ==
             IF p > Len(s) THEN {}
             ELSE (IF At(s, p + 1) # s[p] /\ (s[p] = "?" \/ NamedAt(s, p))
                   THEN {p} ELSE {}) \cup f[SkipToken(s, p)]
           E(f) == [p \in S |-> Value(f, p)]
           D == [f \in [S -> V] |-> E(f)]
<1>0. n \in Nat  OBVIOUS
<1>1. ASSUME NEW p \in S  PROVE ~(p > n) => p \in 1..n /\ SkipToken(s, p) \in p + 1 .. n + 1
  <2>1. ~(p > n) => p \in 1..n  BY <1>0
  <2> QED  BY <2>1, SkipAdvances
<1>2. ASSUME NEW p \in S, NEW f  PROVE Value(f, p) = PlaceholdersValue(s, f, p)
  BY Zenon DEF PlaceholdersValue, Begins
<1>3. ASSUME NEW p \in S, NEW g, NEW f, \A q \in p + 1 .. n + 1 : g[q] = f[q]
      PROVE  Value(g, p) = Value(f, p)
  <2>1. PICK e : e = SkipToken(s, p)  OBVIOUS
  <2>2. PlaceholdersValue(s, f, p) = (IF p > n THEN {} ELSE Begins(s, p) \cup f[e])
        /\ PlaceholdersValue(s, g, p) = (IF p > n THEN {} ELSE Begins(s, p) \cup g[e])
    BY <2>1 DEF PlaceholdersValue
  <2>3. ~(p > n) => e \in p + 1 .. n + 1  BY <1>1, <2>1
  <2> HIDE DEF Value, n, S
  <2> QED  BY <1>2, <1>3, <2>2, <2>3
<1>4. ASSUME NEW f \in [S -> V], NEW p \in S  PROVE Value(f, p) \in V
  <2>1. PICK e : e = SkipToken(s, p)  OBVIOUS
  <2>2. PlaceholdersValue(s, f, p) = IF p > n THEN {} ELSE Begins(s, p) \cup f[e]
    BY <2>1 DEF PlaceholdersValue
  <2>3. ~(p > n) => e \in p + 1 .. n + 1  BY <1>1, <2>1
  <2>4. ~(p > n) => e \in S  BY <1>0, <2>3
  <2>5. Begins(s, p) \subseteq Nat  BY BeginsFacts
  <2> HIDE DEF Value, n, S
  <2> QED  BY <1>2, <2>2, <2>4, <2>5
<1> HIDE DEF Value
<1>5. \A f \in [S -> V] : E(f) \in [S -> V]
  <2> HIDE DEF S, V
  <2> QED  BY <1>4
<1>6. \A f \in [S -> V] : D[f] = E(f)
  <2> HIDE DEF S, E, V
  <2> QED  OBVIOUS
<1>7. \A p \in S : \A g, f \in [S -> V] :
         (\A q \in p + 1 .. n + 1 : g[q] = f[q]) => D[g][p] = D[f][p]
  <2> SUFFICES ASSUME NEW p \in S, NEW g \in [S -> V], NEW f \in [S -> V],
                      \A q \in p + 1 .. n + 1 : g[q] = f[q]
               PROVE  D[g][p] = D[f][p]
    OBVIOUS
  <2>1. Value(g, p) = Value(f, p)  BY <1>3
  <2>2. E(g)[p] = Value(g, p) /\ E(f)[p] = Value(f, p)  OBVIOUS
  <2> HIDE DEF S, n, D, E, V
  <2> QED  BY <2>1, <2>2, <1>6
<1>8. Descends(D, 1, n + 1, V)
  <2>0. {} \in V  OBVIOUS
  <2>1. 1 \in Nat /\ n + 1 \in Nat  BY <1>0
  <2> HIDE DEF D, E, n, V
  <2>2. V # {}  BY <2>0
  <2> QED  BY <2>1, <2>2, <1>5, <1>6, <1>7 DEF Descends
<1> DEFINE P(f) == f = [p \in S |-> Value(f, p)]
           from == CHOOSE f : P(f)
<1>9. \E f : P(f)
  <2>1. PICK f \in [S -> V] : f = D[f]
    <3> HIDE DEF D, n, V
    <3> QED  BY <1>8, Descent
  <2>2. f = E(f)  BY <1>6, <2>1, Zenon
  <2> QED  BY <2>2
<1>10. P(from)  BY <1>9, Zenon
<1>11. Placeholders(s) = from[1]
  BY Zenon DEF Placeholders, Value
<1> HIDE DEF from
<1>12. \A p \in S : from[p] = Value(from, p)
  <2> HIDE DEF S
  <2> QED  BY <1>10
<1> HIDE DEF S
<1>13. \A p \in S : from[p] = PlaceholdersValue(s, from, p)  BY <1>2, <1>12
<1> QED  BY <1>11, <1>13 DEF S

\* From p on, the placeholders with a question mark are the lone ones among the
\* tokens, and every placeholder starts a token.
SameMarks(s, A, B) == /\ {i \in A : s[i] = "?"} = {i \in B : Lone(s, i)}
                      /\ A \subseteq B

\* So it is from the start, where no placeholder is ambiguous and no name split.
LEMMA MarksAgree ==
  ASSUME NEW s \in Seq(Chars), NEW F, IsStarts(s, F), NEW G,
         \A p \in 1..Len(s) + 1 : G[p] = PlaceholdersValue(s, G, p),
         TokenStarts(s) = F[1], ~Splits(s, High), \A p \in F[1] : ~AmbiguousAt(s, p)
  PROVE  SameMarks(s, G[1], F[1])
<1> DEFINE n == Len(s)
           T == {p \in 1..n + 1 : Apart(s, p) /\ F[p] \subseteq F[1] =>
                                     SameMarks(s, G[p], F[p])}
<1>0. n \in Nat /\ 1 \in 1..n + 1 /\ 1 \in Nat /\ n + 1 \in Nat  OBVIOUS
<1>1. ASSUME NEW p \in 1..n + 1, \A q \in p + 1 .. n + 1 : q \in T
      PROVE  p \in T
  <2> SUFFICES ASSUME Apart(s, p), F[p] \subseteq F[1]
               PROVE  SameMarks(s, G[p], F[p])
    OBVIOUS
  <2>0. G[p] = PlaceholdersValue(s, G, p)  OBVIOUS
  <2>1. CASE p > n
    <3>1. p = Len(s) + 1  BY <1>0, <2>1
    <3>2. G[p] = {} /\ F[p] = {}  BY <2>0, <2>1, <3>1, StartsEmpty DEF PlaceholdersValue
    <3> QED  BY <3>2 DEF SameMarks
  <2>2. CASE ~(p > n)
    <3>1. PICK e : e = SkipToken(s, p)  OBVIOUS
    <3>2. p \in 1..n  BY <1>0, <2>2
    <3>3. G[p] = Begins(s, p) \cup G[e]  BY <2>0, <2>2, <3>1 DEF PlaceholdersValue
    <3>4. p \in F[p] => ~AmbiguousAt(s, p)  OBVIOUS
    <3>5. Covered(s, F, p, e)  BY <3>1, <3>2, <3>4, StepCovers
    <3>6. e \in p + 1 .. n + 1 /\ Apart(s, e)  BY <3>5 DEF Covered
    <3>7. PICK D : /\ F[p] = D \cup F[e]
                   /\ Begins(s, p) \subseteq D
                   /\ \A i \in D : Lone(s, i) <=> (i \in Begins(s, p) /\ s[i] = "?")
      BY <3>5 DEF Covered
    <3>8. F[e] \subseteq F[1]  BY <3>7
    <3>9. SameMarks(s, G[e], F[e])  BY <1>1, <3>6, <3>8
    <3> QED  BY <3>3, <3>7, <3>9 DEF SameMarks
  <2> QED  BY <2>1, <2>2
<1>2. \A p \in 1..n + 1 : p \in T
  <2> HIDE DEF T, n
  <2> QED  BY <1>0, <1>1, Downward
<1>3. Apart(s, 1)
  <2>1. At(s, 1 - 1) = "end"  BY DEF At
  <2> QED  BY <2>1, ApartAtEnd
<1> QED  BY <1>0, <1>2, <1>3

\* The property in terms of the names above.
LEMMA AgreeIs ==
  ASSUME NEW s, s = text
  PROVE  PlaceholdersAgree <=>
           ((\A p \in TokenStarts(s) : ~AmbiguousAt(s, p)) /\ ~Splits(s, High) =>
              SameMarks(s, Placeholders(s), TokenStarts(s)))
<1>1. Ambiguous <=> \E p \in TokenStarts(s) : AmbiguousAt(s, p)
  <2>1. Ambiguous <=> \E p \in TokenStarts(text) : AmbiguousAt(text, p)
    BY Zenon DEF Ambiguous, AmbiguousAt, MarkEnd
  <2> QED  BY <2>1
<1>2. \A p : (s[p] = "?" /\ "?" \notin {At(s, p - 1), At(s, p + 1)}) <=> Lone(s, p)
  BY DEF Lone
<1>3. {p \in TokenStarts(s) : s[p] = "?" /\ "?" \notin {At(s, p - 1), At(s, p + 1)}}
        = {p \in TokenStarts(s) : Lone(s, p)}
  BY <1>2
<1>4. PlaceholdersAgree <=>
        (~Ambiguous /\ ~Splits(s, High) =>
           /\ {p \in Placeholders(s) : s[p] = "?"} =
                {p \in TokenStarts(s) : s[p] = "?" /\ "?" \notin {At(s, p - 1), At(s, p + 1)}}
           /\ Placeholders(s) \subseteq TokenStarts(s))
  BY Zenon DEF PlaceholdersAgree
<1> QED  BY <1>1, <1>3, <1>4 DEF SameMarks

\* A text that was read has its placeholders where both lexers see them.
LEMMA InvPlaces == TextInv => PlaceholdersAgree
<1> SUFFICES ASSUME TextInv  PROVE PlaceholdersAgree
  OBVIOUS
<1>1. PICK s : s = text  OBVIOUS
<1>2. s \in Seq(Chars)  BY <1>1 DEF TextInv, TaggedHistory, History
<1>3. PICK F : /\ TokenStarts(s) = F[1]
               /\ \A p \in 1..Len(s) + 1 : F[p] \subseteq p..Len(s) /\ F[p] = StartsValue(s, F, p)
  BY <1>2, StartsFunction
<1>4. PICK G : /\ Placeholders(s) = G[1]
               /\ \A p \in 1..Len(s) + 1 : G[p] = PlaceholdersValue(s, G, p)
  BY <1>2, PlaceholdersFunction
<1>5. IsStarts(s, F)  BY <1>3 DEF IsStarts
<1>6. (\A p \in F[1] : ~AmbiguousAt(s, p)) /\ ~Splits(s, High) => SameMarks(s, G[1], F[1])
  BY <1>2, <1>3, <1>4, <1>5, MarksAgree
<1> QED  BY <1>1, <1>3, <1>4, <1>6, AgreeIs

\* The lexer of prepare() finds a placeholder exactly where the scanner sees a
\* question mark by itself, and none in what the scanner takes for a literal or a
\* comment, in every text over every alphabet in which the scanner splits no name
\* (pdo_duckdb_sql.c:273, duckdb_driver.c:804).
THEOREM PlaceholdersAlwaysAgree == TextSpec => []PlaceholdersAgree
BY TextAlwaysRead, InvPlaces, PTL

-----------------------------------------------------------------------------
(* The statements of a batch.  AfterStatement, ScanExplain, Effects and     *)
(* Statements are recursive functions from the end of a batch backwards;    *)
(* each exists, and is then known by its value at a position.               *)

\* Two tokens by name.
Semicolon == ";"
Comma == ","

\* What AfterStatement's function is at position i and depth d.
AfterValue(b, f, i, d) ==
  IF i > Len(b) THEN i
  ELSE IF b[i] = "(" THEN f[i + 1][d + 1]
  ELSE IF b[i] = ")" THEN f[i + 1][IF d > 0 THEN d - 1 ELSE 0]
  ELSE IF b[i] = Semicolon /\ d = 0 THEN i + 1
  ELSE f[i + 1][d]

\* The function AfterStatement chooses.
LEMMA AfterFunction ==
  ASSUME NEW b \in Seq(STRING)
  PROVE  \E after :
           /\ \A p, d : AfterStatement(b, p, d) = after[p][d]
           /\ \A i \in 1..Len(b) + 1 : \A d \in Nat :
                 /\ after[i][d] \in i..Len(b) + 1
                 /\ after[i][d] = AfterValue(b, after, i, d)
<1> DEFINE n == Len(b)
           S == 1..n + 1
           V == [Nat -> Nat]
           E(f) == [i \in S |-> [d \in Nat |-> AfterValue(b, f, i, d)]]
           D == [f \in [S -> V] |-> E(f)]
<1>0. n \in Nat  OBVIOUS
<1>2. ASSUME NEW i \in S, NEW d \in Nat, NEW f, NEW R \in SUBSET Nat, i \in R, i <= n => i + 1 \in R,
             \A r \in i + 1 .. n + 1 : \A e \in Nat : f[r][e] \in R
      PROVE  AfterValue(b, f, i, d) \in R
  <2>1. d + 1 \in Nat /\ (d > 0 => d - 1 \in Nat) /\ (i <= n => i + 1 \in i + 1 .. n + 1)  BY <1>0
  <2> QED  BY <1>0, <1>2, <2>1 DEF AfterValue
<1>3. ASSUME NEW i \in S, NEW d \in Nat, NEW g, NEW f,
             \A r \in i + 1 .. n + 1 : g[r] = f[r]
      PROVE  AfterValue(b, g, i, d) = AfterValue(b, f, i, d)
  <2>1. i <= n => i + 1 \in i + 1 .. n + 1  BY <1>0
  <2> QED  BY <1>0, <1>3, <2>1 DEF AfterValue
<1>4. ASSUME NEW f \in [S -> V], NEW i \in S, NEW d \in Nat  PROVE AfterValue(b, f, i, d) \in Nat
  <2>1. \A r \in i + 1 .. n + 1 : \A e \in Nat : f[r][e] \in Nat
    <3> SUFFICES ASSUME NEW r \in i + 1 .. n + 1, NEW e \in Nat  PROVE f[r][e] \in Nat
      OBVIOUS
    <3>1. r \in S  BY <1>0
    <3> HIDE DEF S
    <3> QED  BY <3>1
  <2>2. i \in Nat /\ i + 1 \in Nat  BY <1>0
  <2> HIDE DEF n, S, V
  <2> QED  BY <1>2, <2>1, <2>2
<1>5. \A f \in [S -> V] : E(f) \in [S -> V]
  <2> HIDE DEF S
  <2> QED  BY <1>4
<1>6. \A f \in [S -> V] : D[f] = E(f)
  <2> HIDE DEF S, E, V
  <2> QED  OBVIOUS
<1>7. \A i \in S : \A g, f \in [S -> V] :
         (\A r \in i + 1 .. n + 1 : g[r] = f[r]) => D[g][i] = D[f][i]
  <2> SUFFICES ASSUME NEW i \in S, NEW g \in [S -> V], NEW f \in [S -> V],
                      \A r \in i + 1 .. n + 1 : g[r] = f[r]
               PROVE  D[g][i] = D[f][i]
    OBVIOUS
  <2>1. \A d \in Nat : AfterValue(b, g, i, d) = AfterValue(b, f, i, d)  BY <1>3
  <2>2. E(g)[i] = [d \in Nat |-> AfterValue(b, g, i, d)]
        /\ E(f)[i] = [d \in Nat |-> AfterValue(b, f, i, d)]
    OBVIOUS
  <2>3. E(g)[i] = E(f)[i]
    <3> HIDE DEF E, S, V
    <3> QED  BY <2>1, <2>2
  <2> HIDE DEF S, n, D, E
  <2> QED  BY <2>3, <1>6
<1>8. Descends(D, 1, n + 1, V)
  <2>1. 1 \in Nat /\ n + 1 \in Nat  BY <1>0
  <2>2. V # {}
    <3>1. [e \in Nat |-> 0] \in V  OBVIOUS
    <3> QED  BY <3>1
  <2> HIDE DEF D, E, V, n
  <2> QED  BY <2>1, <2>2, <1>5, <1>6, <1>7 DEF Descends
<1> DEFINE P(f) == f = E(f)
           after == CHOOSE f : P(f)
<1>9. \E f : P(f)
  <2>1. PICK f \in [S -> V] : f = D[f]
    <3> HIDE DEF D, V, n
    <3> QED  BY <1>8, Descent
  <2>2. f = E(f)  BY <1>6, <2>1, Zenon
  <2> QED  BY <2>2
<1>10. P(after)  BY <1>9, Zenon
<1>11. \A p, d : AfterStatement(b, p, d) = after[p][d]
  BY Zenon DEF AfterStatement, AfterValue, Semicolon
<1> HIDE DEF after
<1>12. \A i \in S : \A d \in Nat : after[i][d] = AfterValue(b, after, i, d)
  <2> SUFFICES ASSUME NEW i \in S, NEW d \in Nat
               PROVE  after[i][d] = AfterValue(b, after, i, d)
    OBVIOUS
  <2>1. after[i] = [e \in Nat |-> AfterValue(b, after, i, e)]
    <3> HIDE DEF S
    <3> QED  BY <1>10
  <2> QED  BY <2>1
<1> DEFINE T == {i \in S : \A d \in Nat : after[i][d] \in i..n + 1}
<1>13. ASSUME NEW i \in S, \A r \in i + 1 .. n + 1 : r \in T
       PROVE  i \in T
  <2>1. \A r \in i + 1 .. n + 1 : \A e \in Nat : after[r][e] \in i..n + 1
    <3> SUFFICES ASSUME NEW r \in i + 1 .. n + 1, NEW e \in Nat  PROVE after[r][e] \in i..n + 1
      OBVIOUS
    <3>1. after[r][e] \in r..n + 1  BY <1>13
    <3> QED  BY <3>1, <1>0
  <2> DEFINE R == i..n + 1
  <2>2. R \in SUBSET Nat /\ i \in R /\ (i <= n => i + 1 \in R)  BY <1>0
  <2>3. \A r \in i + 1 .. n + 1 : \A e \in Nat : after[r][e] \in R  BY <2>1
  <2> HIDE DEF n, S, R
  <2>4. \A d \in Nat : AfterValue(b, after, i, d) \in R  BY <1>2, <2>2, <2>3
  <2> QED  BY <1>12, <2>4 DEF R
<1>14. \A i \in S : i \in T
  <2>1. 1 \in Nat /\ n + 1 \in Nat  BY <1>0
  <2> HIDE DEF T, n
  <2> QED  BY <1>13, <2>1, Downward
<1> QED  BY <1>11, <1>12, <1>14, Zenon

\* What ScanExplain's function of an option list is at position i, depth d and
\* the w-th word of an option.
ListValue(b, f, i, d, w) ==
  LET rest == f[i + 1][1][2]
  IN IF d = 0 \/ At(b, i) \in {"end", Semicolon} THEN [after |-> i, first |-> {}]
     ELSE IF b[i] = "(" THEN f[i + 1][d + 1][w]
     ELSE IF b[i] = ")" THEN f[i + 1][d - 1][w]
     ELSE IF d > 1 THEN f[i + 1][d][w]
     ELSE IF b[i] = Comma THEN f[i + 1][1][1]
     ELSE IF w # 1 THEN rest
     ELSE [after |-> rest.after, first |-> {b[i]} \cup rest.first]

\* What ScanExplain makes of the list.
ExplainValue(b, list, p) ==
  LET q == IF At(b, p) = "ANALYZE" THEN p + 1 ELSE p
      options == list[q + 1][1][1]
  IN IF At(b, q) # "(" THEN [wrapped |-> q, analyze |-> q # p]
     ELSE [wrapped |-> options.after,
           analyze |-> q # p \/ \E w \in options.first : w \in {"ANALYZE", "qANALYZE"}]

\* The function ScanExplain chooses.
LEMMA ListFunction ==
  ASSUME NEW b \in Seq(STRING)
  PROVE  \E list :
           /\ \A p : ScanExplain(b, p) = ExplainValue(b, list, p)
           /\ \A i \in 1..Len(b) + 1 : \A d, w \in Nat :
                 /\ list[i][d][w].after \in i..Len(b) + 1
                 /\ list[i][d][w] = ListValue(b, list, i, d, w)
<1> DEFINE n == Len(b)
           S == 1..n + 1
           R == [after : Nat, first : SUBSET STRING]
           V == [Nat -> [Nat -> R]]
           E(f) == [i \in S |-> [d \in Nat |-> [w \in Nat |-> ListValue(b, f, i, d, w)]]]
           D == [f \in [S -> V] |-> E(f)]
<1>0. n \in Nat /\ \A i \in 1..n : b[i] \in STRING  OBVIOUS
<1>1. \A i \in S : ~(At(b, i) \in {"end", Semicolon}) => i <= n /\ i \in 1..n /\ i + 1 \in i + 1 .. n + 1
  BY <1>0 DEF At
<1>2. ASSUME NEW i \in S, NEW d \in Nat, NEW w \in Nat, NEW f, NEW X \in SUBSET Nat,
             i \in X,
             \A r \in i + 1 .. n + 1 : \A e, v \in Nat :
                f[r][e][v] \in [after : X, first : SUBSET STRING]
      PROVE  ListValue(b, f, i, d, w) \in [after : X, first : SUBSET STRING]
  <2> DEFINE K == [after : X, first : SUBSET STRING]
             Ends == d = 0 \/ At(b, i) \in {"end", Semicolon}
  <2>1. ~Ends => d + 1 \in Nat /\ d - 1 \in Nat /\ b[i] \in STRING  BY <1>0, <1>1
  <2>2. ~Ends => \A e, v \in Nat : f[i + 1][e][v] \in K  BY <1>1, <1>2
  <2>3. PICK rest : rest = f[i + 1][1][2]  OBVIOUS
  <2>4. ~Ends => rest \in K  BY <2>2, <2>3
  <2>5. ~Ends => [after |-> rest.after, first |-> {b[i]} \cup rest.first] \in K  BY <2>1, <2>4
  <2>6. [after |-> i, first |-> {}] \in K  BY <1>2
  <2>7. ListValue(b, f, i, d, w) =
          IF Ends THEN [after |-> i, first |-> {}]
          ELSE IF b[i] = "(" THEN f[i + 1][d + 1][w]
          ELSE IF b[i] = ")" THEN f[i + 1][d - 1][w]
          ELSE IF d > 1 THEN f[i + 1][d][w]
          ELSE IF b[i] = Comma THEN f[i + 1][1][1]
          ELSE IF w # 1 THEN rest
          ELSE [after |-> rest.after, first |-> {b[i]} \cup rest.first]
    BY <2>3 DEF ListValue
  <2> HIDE DEF n, S, K, Ends
  <2>8. ListValue(b, f, i, d, w) \in K  BY <2>1, <2>2, <2>4, <2>5, <2>6, <2>7
  <2> QED  BY <2>8 DEF K
<1>3. ASSUME NEW i \in S, NEW d \in Nat, NEW w \in Nat, NEW g, NEW f,
             \A r \in i + 1 .. n + 1 : g[r] = f[r]
      PROVE  ListValue(b, g, i, d, w) = ListValue(b, f, i, d, w)
  <2>1. ~(At(b, i) \in {"end", Semicolon}) => g[i + 1] = f[i + 1]  BY <1>1, <1>3
  <2> QED  BY <2>1 DEF ListValue
<1>4. ASSUME NEW f \in [S -> V], NEW i \in S, NEW d \in Nat, NEW w \in Nat
      PROVE  ListValue(b, f, i, d, w) \in R
  <2>1. \A r \in i + 1 .. n + 1 : \A e, v \in Nat : f[r][e][v] \in R
    <3> SUFFICES ASSUME NEW r \in i + 1 .. n + 1, NEW e \in Nat, NEW v \in Nat
                 PROVE  f[r][e][v] \in R
      OBVIOUS
    <3>1. r \in S  BY <1>0
    <3> HIDE DEF S, R
    <3> QED  BY <3>1
  <2>2. i \in Nat /\ Nat \in SUBSET Nat  BY <1>0
  <2> HIDE DEF n, S, V
  <2> QED  BY <1>2, <2>1, <2>2
<1>5. \A f \in [S -> V] : E(f) \in [S -> V]
  <2> HIDE DEF S, R
  <2> QED  BY <1>4
<1>6. \A f \in [S -> V] : D[f] = E(f)
  <2> HIDE DEF S, E, V
  <2> QED  OBVIOUS
<1>7. \A i \in S : \A g, f \in [S -> V] :
         (\A r \in i + 1 .. n + 1 : g[r] = f[r]) => D[g][i] = D[f][i]
  <2> SUFFICES ASSUME NEW i \in S, NEW g \in [S -> V], NEW f \in [S -> V],
                      \A r \in i + 1 .. n + 1 : g[r] = f[r]
               PROVE  D[g][i] = D[f][i]
    OBVIOUS
  <2>1. \A d, w \in Nat : ListValue(b, g, i, d, w) = ListValue(b, f, i, d, w)  BY <1>3
  <2>2. E(g)[i] = [d \in Nat |-> [w \in Nat |-> ListValue(b, g, i, d, w)]]
        /\ E(f)[i] = [d \in Nat |-> [w \in Nat |-> ListValue(b, f, i, d, w)]]
    OBVIOUS
  <2>3. E(g)[i] = E(f)[i]
    <3> HIDE DEF E, S, V
    <3> QED  BY <2>1, <2>2
  <2> HIDE DEF S, n, D, E
  <2> QED  BY <2>3, <1>6
<1>8. Descends(D, 1, n + 1, V)
  <2>1. 1 \in Nat /\ n + 1 \in Nat  BY <1>0
  <2>2. V # {}
    <3> DEFINE r == [after |-> 0, first |-> {}]
    <3>1. r \in R  OBVIOUS
    <3> HIDE DEF r, R
    <3>2. [e \in Nat |-> [v \in Nat |-> r]] \in V  BY <3>1
    <3> QED  BY <3>2
  <2> HIDE DEF D, E, V, n
  <2> QED  BY <2>1, <2>2, <1>5, <1>6, <1>7 DEF Descends
<1> DEFINE P(f) == f = E(f)
           list == CHOOSE f : P(f)
<1>9. \E f : P(f)
  <2>1. PICK f \in [S -> V] : f = D[f]
    <3> HIDE DEF D, V, n
    <3> QED  BY <1>8, Descent
  <2>2. f = E(f)  BY <1>6, <2>1, Zenon
  <2> QED  BY <2>2
<1>10. P(list)  BY <1>9, Zenon
<1>11. \A p : ScanExplain(b, p) = ExplainValue(b, list, p)
  BY Zenon DEF ScanExplain, ExplainValue, ListValue, Semicolon, Comma
<1> HIDE DEF list
<1>12. \A i \in S : \A d, w \in Nat : list[i][d][w] = ListValue(b, list, i, d, w)
  <2> SUFFICES ASSUME NEW i \in S, NEW d \in Nat, NEW w \in Nat
               PROVE  list[i][d][w] = ListValue(b, list, i, d, w)
    OBVIOUS
  <2>1. list[i] = [e \in Nat |-> [v \in Nat |-> ListValue(b, list, i, e, v)]]
    <3> HIDE DEF S
    <3> QED  BY <1>10
  <2>2. list[i][d] = [v \in Nat |-> ListValue(b, list, i, d, v)]  BY <2>1
  <2> QED  BY <2>2
<1> DEFINE Good(i) == \A d, w \in Nat : list[i][d][w] \in [after : i..n + 1, first : SUBSET STRING]
           T == {i \in S : Good(i)}
<1>13. ASSUME NEW i \in S, \A r \in i + 1 .. n + 1 : r \in T
       PROVE  i \in T
  <2> DEFINE X == i..n + 1
  <2>1. ASSUME NEW r \in i + 1 .. n + 1, NEW e \in Nat, NEW v \in Nat
        PROVE  list[r][e][v] \in [after : X, first : SUBSET STRING]
    <3>1. list[r][e][v] \in [after : r..n + 1, first : SUBSET STRING]  BY <1>13, <2>1
    <3>2. r..n + 1 \in SUBSET X  BY <1>0
    <3> HIDE DEF X
    <3> QED  BY <3>1, <3>2
  <2>2. X \in SUBSET Nat /\ i \in X  BY <1>0
  <2>3. i \in T <=> \A d, w \in Nat : list[i][d][w] \in [after : X, first : SUBSET STRING]
    OBVIOUS
  <2> HIDE DEF n, S, X, T
  <2>4. \A d, w \in Nat : ListValue(b, list, i, d, w) \in [after : X, first : SUBSET STRING]
    BY <1>2, <2>1, <2>2
  <2> QED  BY <1>12, <2>3, <2>4
<1>14. \A i \in S : i \in T
  <2>1. 1 \in Nat /\ n + 1 \in Nat  BY <1>0
  <2> HIDE DEF T, n
  <2> QED  BY <1>13, <2>1, Downward
<1>15. \A i \in S : \A d, w \in Nat : list[i][d][w].after \in i..n + 1
  <2> SUFFICES ASSUME NEW i \in S, NEW d \in Nat, NEW w \in Nat
               PROVE  list[i][d][w].after \in i..n + 1
    OBVIOUS
  <2>1. list[i][d][w] \in [after : i..n + 1, first : SUBSET STRING]  BY <1>14
  <2> QED  BY <2>1
<1> QED  BY <1>11, <1>12, <1>15, Zenon

\* Where the statement at p has its body, and where the next one starts.
\* The statement that the one at p wraps, or itself; and where the scanner goes on
\* after the statement at p.
Body(b, p) == IF b[p] = "EXPLAIN" THEN ScanExplain(b, p + 1).wrapped ELSE p
Following(b, p) ==
  AfterStatement(b, Min({Body(b, p) + 1, Len(b) + 1}), ParenDepth(At(b, Body(b, p))))

\* The position after a token that is there.
LEMMA AtFacts ==
  ASSUME NEW b \in Seq(STRING), NEW p \in Nat \ {0}
  PROVE  /\ p <= Len(b) => At(b, p) = b[p] /\ b[p] \in STRING
         /\ p > Len(b) => At(b, p) = "end"
BY DEF At

\* An EXPLAIN's statement starts after it.
LEMMA ExplainRange ==
  ASSUME NEW b \in Seq(STRING), NEW p \in 1..Len(b) + 1
  PROVE  ScanExplain(b, p).wrapped \in p..Len(b) + 1 /\ ScanExplain(b, p).analyze \in BOOLEAN
<1> DEFINE n == Len(b)
<1>0. n \in Nat /\ p \in 1..n + 1  OBVIOUS
<1>1. PICK list :
         /\ \A r : ScanExplain(b, r) = ExplainValue(b, list, r)
         /\ \A i \in 1..n + 1 : \A d, w \in Nat : list[i][d][w].after \in i..n + 1
  BY ListFunction
<1>2. PICK q : q = IF At(b, p) = "ANALYZE" THEN p + 1 ELSE p  OBVIOUS
<1>3. q \in p..n + 1  BY <1>0, <1>2, AtFacts
<1>4. At(b, q) = "(" => q + 1 \in 1..n + 1  BY <1>0, <1>3, AtFacts
<1>5. At(b, q) = "(" => list[q + 1][1][1].after \in p..n + 1
  <2> SUFFICES ASSUME At(b, q) = "("  PROVE list[q + 1][1][1].after \in p..n + 1
    OBVIOUS
  <2>1. list[q + 1][1][1].after \in q + 1 .. n + 1  BY <1>1, <1>4
  <2> QED  BY <1>0, <1>3, <2>1
<1>6. ScanExplain(b, p) = IF At(b, q) # "(" THEN [wrapped |-> q, analyze |-> q # p]
        ELSE [wrapped |-> list[q + 1][1][1].after,
              analyze |-> q # p \/ \E w \in list[q + 1][1][1].first : w \in {"ANALYZE", "qANALYZE"}]
  BY <1>1, <1>2 DEF ExplainValue
<1> HIDE DEF n
<1>7. CASE At(b, q) # "("  BY <1>3, <1>6, <1>7 DEF n
<1>8. CASE At(b, q) = "("  BY <1>5, <1>6, <1>8 DEF n
<1> QED  BY <1>7, <1>8

\* After a statement the scanner is further on.
LEMMA StatementRange ==
  ASSUME NEW b \in Seq(STRING), NEW p \in 1..Len(b)
  PROVE  /\ Body(b, p) \in p..Len(b) + 1
         /\ Following(b, p) \in p + 1 .. Len(b) + 1
         /\ StatementEffect(b, p) \in Effects3
<1> DEFINE n == Len(b)
<1>0. n \in Nat /\ p \in 1..n /\ p + 1 \in 1..n + 1  OBVIOUS
<1>1. PICK after :
         /\ \A q, d : AfterStatement(b, q, d) = after[q][d]
         /\ \A i \in 1..n + 1 : \A d \in Nat : after[i][d] \in i..n + 1
  BY AfterFunction
<1>2. PICK body : body = Body(b, p)  OBVIOUS
<1>3. body \in p..n + 1  BY <1>0, <1>2, ExplainRange DEF Body
<1>4. PICK m : m = Min({body + 1, n + 1})  OBVIOUS
<1>5. m \in p + 1 .. n + 1  BY <1>0, <1>3, <1>4, MinOfTwo
<1>6. PICK d : d = ParenDepth(At(b, body))  OBVIOUS
<1>7. d \in Nat  BY <1>6 DEF ParenDepth
<1>8. Following(b, p) = after[m][d]  BY <1>1, <1>2, <1>4, <1>6 DEF Following
<1>9. after[m][d] \in m..n + 1  BY <1>0, <1>1, <1>5, <1>7
<1>10. after[m][d] \in p + 1 .. n + 1  BY <1>0, <1>5, <1>9
<1>11. StatementEffect(b, p) \in Effects3
  <2>1. \A t : Effect(t) \in Effects3 /\ "none" \in Effects3  BY DEF Effect, Effects3
  <2> QED  BY <2>1 DEF StatementEffect
<1> QED  BY <1>2, <1>3, <1>8, <1>10, <1>11

\* What the function of Effects is at position p.
EffectsValue(b, f, p) ==
  IF p > Len(b) THEN <<>>
  ELSE IF b[p] = Semicolon THEN f[p + 1]
  ELSE <<StatementEffect(b, p)>> \o f[Following(b, p)]

\* The function Effects chooses.
LEMMA EffectsFunction ==
  ASSUME NEW b \in Seq(STRING)
  PROVE  \E from :
           /\ Effects(b) = from[1]
           /\ \A p \in 1..Len(b) + 1 :
                 from[p] \in Seq(Effects3) /\ from[p] = EffectsValue(b, from, p)
<1> DEFINE n == Len(b)
           S == 1..n + 1
           V == Seq(Effects3)
           E(f) == [p \in S |-> EffectsValue(b, f, p)]
           D == [f \in [S -> V] |-> E(f)]
<1>0. n \in Nat  OBVIOUS
<1>1. \A p \in S : ~(p > n) => /\ p + 1 \in p + 1 .. n + 1 /\ Following(b, p) \in p + 1 .. n + 1
                               /\ p + 1 \in S /\ Following(b, p) \in S /\ StatementEffect(b, p) \in Effects3
  <2> SUFFICES ASSUME NEW p \in S, ~(p > n)
               PROVE  /\ p + 1 \in p + 1 .. n + 1 /\ Following(b, p) \in p + 1 .. n + 1
                      /\ p + 1 \in S /\ Following(b, p) \in S /\ StatementEffect(b, p) \in Effects3
    OBVIOUS
  <2>1. p \in 1..n  BY <1>0
  <2>2. Following(b, p) \in p + 1 .. n + 1 /\ StatementEffect(b, p) \in Effects3  BY <2>1, StatementRange
  <2>3. PICK q : q = Following(b, p)  OBVIOUS
  <2>4. q \in p + 1 .. n + 1 /\ q \in S /\ p + 1 \in S /\ p + 1 \in p + 1 .. n + 1  BY <1>0, <2>1, <2>2, <2>3
  <2> QED  BY <2>2, <2>3, <2>4
<1>2. ASSUME NEW p \in S, NEW g, NEW f, \A q \in p + 1 .. n + 1 : g[q] = f[q]
      PROVE  EffectsValue(b, g, p) = EffectsValue(b, f, p)
  BY <1>1, <1>2 DEF EffectsValue
<1>3. ASSUME NEW f \in [S -> V], NEW p \in S  PROVE EffectsValue(b, f, p) \in V
  <2>1. ~(p > n) => f[p + 1] \in V /\ f[Following(b, p)] \in V /\ <<StatementEffect(b, p)>> \in V
    <3>1. ~(p > n) => <<StatementEffect(b, p)>> \in V  BY <1>1
    <3> HIDE DEF S, V
    <3> QED  BY <3>1, <1>1
  <2>2. \A x, y \in V : x \o y \in V  OBVIOUS
  <2>3. <<>> \in V  OBVIOUS
  <2> HIDE DEF V
  <2> QED  BY <2>1, <2>2, <2>3 DEF EffectsValue
<1>5. \A f \in [S -> V] : E(f) \in [S -> V]
  <2> HIDE DEF S, V
  <2> QED  BY <1>3
<1>6. \A f \in [S -> V] : D[f] = E(f)
  <2> HIDE DEF S, E, V
  <2> QED  OBVIOUS
<1>7. \A p \in S : \A g, f \in [S -> V] :
         (\A q \in p + 1 .. n + 1 : g[q] = f[q]) => D[g][p] = D[f][p]
  <2> SUFFICES ASSUME NEW p \in S, NEW g \in [S -> V], NEW f \in [S -> V],
                      \A q \in p + 1 .. n + 1 : g[q] = f[q]
               PROVE  D[g][p] = D[f][p]
    OBVIOUS
  <2>1. EffectsValue(b, g, p) = EffectsValue(b, f, p)  BY <1>2
  <2>2. E(g)[p] = EffectsValue(b, g, p) /\ E(f)[p] = EffectsValue(b, f, p)  OBVIOUS
  <2> HIDE DEF S, n, D, E, V
  <2> QED  BY <2>1, <2>2, <1>6
<1>8. Descends(D, 1, n + 1, V)
  <2>0. <<>> \in V  OBVIOUS
  <2>1. 1 \in Nat /\ n + 1 \in Nat  BY <1>0
  <2> HIDE DEF D, E, n, V
  <2>2. V # {}  BY <2>0
  <2> QED  BY <2>1, <2>2, <1>5, <1>6, <1>7 DEF Descends
<1> DEFINE P(f) == f = E(f)
           from == CHOOSE f : P(f)
<1>9. PICK f \in [S -> V] : f = E(f)
  <2>1. PICK f \in [S -> V] : f = D[f]
    <3> HIDE DEF D, n, V
    <3> QED  BY <1>8, Descent
  <2>2. f = E(f)  BY <1>6, <2>1, Zenon
  <2> QED  BY <2>2
<1>10. P(from)  BY <1>9, Zenon
<1>11. Effects(b) = from[1]
  BY Zenon DEF Effects, EffectsValue, Semicolon, Body, Following
<1> HIDE DEF from
<1>12. \A p \in S : from[p] = EffectsValue(b, from, p)
  <2> HIDE DEF S
  <2> QED  BY <1>10
<1> DEFINE T == {p \in S : from[p] \in V}
<1>13. ASSUME NEW p \in S, \A q \in p + 1 .. n + 1 : q \in T
       PROVE  p \in T
  <2>1. \A q \in p + 1 .. n + 1 : from[q] \in V  BY <1>13
  <2>2. ~(p > n) => from[p + 1] \in V /\ from[Following(b, p)] \in V  BY <1>1, <2>1
  <2>3. ~(p > n) => <<StatementEffect(b, p)>> \in V  BY <1>1
  <2>4. \A x, y \in V : x \o y \in V  OBVIOUS
  <2>5. <<>> \in V  OBVIOUS
  <2> HIDE DEF V, n
  <2>6. EffectsValue(b, from, p) \in V  BY <2>2, <2>3, <2>4, <2>5 DEF EffectsValue, n
  <2> QED  BY <1>12, <2>6
<1>14. \A p \in S : p \in T
  <2>1. 1 \in Nat /\ n + 1 \in Nat  BY <1>0
  <2> HIDE DEF T, n
  <2> QED  BY <1>13, <2>1, Downward
<1> QED  BY <1>11, <1>12, <1>14

\* Both entry points judge the first statement alike.
LEMMA EntryPoints ==
  ASSUME NEW b \in Seq(STRING)
  PROVE  FirstEffect(b) = (IF Effects(b) = <<>> THEN "none" ELSE Effects(b)[1])
<1> DEFINE n == Len(b)
           Z == {q \in 1..n : b[q] # Semicolon}
           p == Min(Z \cup {n + 1})
<1>0. n \in Nat  OBVIOUS
<1>1. FirstEffect(b) = IF p > n THEN "none" ELSE StatementEffect(b, p)
  BY Zenon DEF FirstEffect, FirstFrom, Semicolon
<1>2. p \in 1..n + 1 /\ (p <= n => p \in Z) /\ \A q \in 1..p - 1 : q \notin Z
  <2>1. 1 \in 1..n + 1 /\ Z \subseteq 1..n  BY <1>0
  <2> HIDE DEF n, Z
  <2> QED  BY <1>0, <2>1, FirstOf
<1>3. PICK from :
         /\ Effects(b) = from[1]
         /\ \A q \in 1..n + 1 : from[q] \in Seq(Effects3) /\ from[q] = EffectsValue(b, from, q)
  BY EffectsFunction
<1> DEFINE T == {i \in 1..p : from[1] = from[i]}
<1>4. from[1] = from[p]
  <2>1. 1 \in Nat /\ p \in Nat /\ 1 <= p  BY <1>0, <1>2
  <2>2. 1 \in T  BY <2>1
  <2>3. ASSUME NEW i \in 1..p - 1, i \in T  PROVE i + 1 \in T
    <3>1. i \in 1..n /\ i \in 1..n + 1 /\ i + 1 \in 1..p  BY <1>0, <1>2, <2>1
    <3>2. b[i] = Semicolon  BY <1>2, <3>1
    <3>3. from[i] = EffectsValue(b, from, i) /\ ~(i > Len(b))  BY <1>0, <1>3, <3>1
    <3>4. from[i] = from[i + 1]  BY <3>2, <3>3 DEF EffectsValue
    <3> HIDE DEF p
    <3> QED  BY <2>3, <3>1, <3>4
  <2>4. \A i \in 1..p : i \in T
    <3> HIDE DEF T, p
    <3> QED  BY <2>1, <2>2, <2>3, Upward
  <2> HIDE DEF p
  <2> QED  BY <2>1, <2>4
<1> HIDE DEF p
<1>5. CASE p > n
  <2>1. from[p] = <<>>  BY <1>2, <1>3, <1>5 DEF EffectsValue
  <2> QED  BY <1>1, <1>3, <1>4, <1>5, <2>1
<1>6. CASE ~(p > n)
  <2>1. p \in 1..n /\ b[p] # Semicolon /\ p \in 1..n + 1  BY <1>0, <1>2, <1>6
  <2>2. PICK q : q = Following(b, p)  OBVIOUS
  <2>3. q \in 1..n + 1 /\ StatementEffect(b, p) \in Effects3
    <3>1. q \in p + 1 .. n + 1 /\ StatementEffect(b, p) \in Effects3  BY <2>1, <2>2, StatementRange
    <3> QED  BY <1>0, <2>1, <3>1
  <2>4. from[p] = <<StatementEffect(b, p)>> \o from[q]
    BY <1>3, <1>6, <2>1, <2>2 DEF EffectsValue
  <2>5. PICK r : r = from[q]  OBVIOUS
  <2>6. r \in Seq(Effects3)  BY <1>3, <2>3, <2>5
  <2>7. PICK e : e = StatementEffect(b, p)  OBVIOUS
  <2>8. <<e>> \o r # <<>> /\ (<<e>> \o r)[1] = e  BY <2>3, <2>6, <2>7
  <2> QED  BY <1>1, <1>3, <1>4, <1>6, <2>4, <2>5, <2>7, <2>8
<1> QED  BY <1>5, <1>6

\* How many of the first k tokens are t.
Count(s, t, k) == Cardinality({i \in 1..k : s[i] = t})

\* How deep in parentheses the first k tokens lead.
Depth(s, k) == Count(s, "(", k) - Count(s, ")", k)

\* Tokens are counted one by one.
LEMMA CountNext ==
  ASSUME NEW s, NEW t, NEW k \in Nat
  PROVE  /\ Count(s, t, k) \in Nat /\ Count(s, t, 0) = 0
         /\ s[k + 1] = t => Count(s, t, k + 1) = Count(s, t, k) + 1
         /\ s[k + 1] # t => Count(s, t, k + 1) = Count(s, t, k)
<1> DEFINE S(j) == {i \in 1..j : s[i] = t}
<1>1. IsFiniteSet(1..k) /\ S(k) \subseteq 1..k  BY FS_Interval
<1>2. IsFiniteSet(S(k))  BY <1>1, FS_Subset
<1>3. S(0) = {}  OBVIOUS
<1>4. k + 1 \notin S(k)  OBVIOUS
<1>5. s[k + 1] = t => S(k + 1) = S(k) \cup {k + 1}  OBVIOUS
<1>6. s[k + 1] # t => S(k + 1) = S(k)
  <2> SUFFICES ASSUME s[k + 1] # t  PROVE S(k + 1) = S(k)
    OBVIOUS
  <2>1. \A i \in 1..k + 1 : i = k + 1 \/ i \in 1..k  OBVIOUS
  <2>2. \A i \in 1..k : i \in 1..k + 1  OBVIOUS
  <2> QED  BY <2>1, <2>2
<1>7. \A j : Count(s, t, j) = Cardinality(S(j))  BY DEF Count
<1> HIDE DEF S
<1>8. Cardinality(S(k)) \in Nat  BY <1>2, FS_CardinalityType
<1>9. Cardinality(S(0)) = 0  BY <1>3, FS_EmptySet
<1>10. s[k + 1] = t => Cardinality(S(k + 1)) = Cardinality(S(k)) + 1
  BY <1>2, <1>4, <1>5, FS_AddElement
<1> QED  BY <1>6, <1>7, <1>8, <1>9, <1>10

\* Balanced tokens never close more than they have opened.
LEMMA DepthFacts ==
  ASSUME NEW s \in Seq(STRING), Balanced(s)
  PROVE  /\ Depth(s, 0) = 0 /\ Depth(s, Len(s)) = 0
         /\ \A k \in 0..Len(s) : Depth(s, k) \in Nat
         /\ \A k \in 0 .. Len(s) - 1 : Depth(s, k + 1) = Depth(s, k)
               + (IF s[k + 1] = "(" THEN 1 ELSE IF s[k + 1] = ")" THEN -1 ELSE 0)
<1> DEFINE n == Len(s)
<1>0. n \in Nat  OBVIOUS
<1>1. ASSUME NEW k \in 1..n
      PROVE  Opened(SubSeq(s, 1, k)) = Count(s, "(", k)
             /\ Closed(SubSeq(s, 1, k)) = Count(s, ")", k)
  <2>1. Len(SubSeq(s, 1, k)) = k /\ \A i \in 1..k : SubSeq(s, 1, k)[i] = s[i]
    BY <1>0
  <2> QED  BY <2>1 DEF Opened, Closed, Count
<1>2. Opened(s) = Count(s, "(", n) /\ Closed(s) = Count(s, ")", n)
  BY DEF Opened, Closed, Count
<1>3. \A k \in Nat : /\ Count(s, "(", k) \in Nat
                     /\ Count(s, ")", k) \in Nat
  BY CountNext
<1>4. Depth(s, 0) = 0  BY <1>0, CountNext DEF Depth
<1>5. Depth(s, n) = 0
  <2>1. PICK o, c : o = Count(s, "(", n) /\ c = Count(s, ")", n)
    OBVIOUS
  <2>2. o \in Nat /\ c \in Nat /\ o = c  BY <1>0, <1>2, <1>3, <2>1 DEF Balanced
  <2>3. Depth(s, n) = o - c  BY <2>1 DEF Depth
  <2> QED  BY <2>2, <2>3
<1>6. \A k \in 1..n : Depth(s, k) \in Nat
  <2> SUFFICES ASSUME NEW k \in 1..n  PROVE Depth(s, k) \in Nat
    OBVIOUS
  <2>1. Count(s, "(", k) >= Count(s, ")", k)  BY <1>1 DEF Balanced
  <2>2. PICK o, c : o = Count(s, "(", k) /\ c = Count(s, ")", k)
    OBVIOUS
  <2>3. o \in Nat /\ c \in Nat /\ o >= c  BY <1>3, <2>1, <2>2
  <2>4. Depth(s, k) = o - c  BY <2>2 DEF Depth
  <2> QED  BY <2>3, <2>4
<1>7. ASSUME NEW k \in 0..n - 1
      PROVE  Depth(s, k + 1) = Depth(s, k)
               + (IF s[k + 1] = "(" THEN 1 ELSE IF s[k + 1] = ")" THEN -1 ELSE 0)
  <2>1. k \in Nat /\ k + 1 \in Nat  BY <1>0
  <2>2. PICK o, c : o = Count(s, "(", k) /\ c = Count(s, ")", k)
    OBVIOUS
  <2>3. o \in Nat /\ c \in Nat  BY <1>3, <2>1, <2>2
  <2>4. ASSUME NEW t
        PROVE  /\ s[k + 1] = t => Count(s, t, k + 1) = Count(s, t, k) + 1
               /\ s[k + 1] # t => Count(s, t, k + 1) = Count(s, t, k)
    BY <2>1, CountNext, Zenon
  <2>41. Count(s, "(", k + 1) = IF s[k + 1] = "(" THEN o + 1 ELSE o  BY <2>2, <2>4
  <2>42. Count(s, ")", k + 1) = IF s[k + 1] = ")" THEN c + 1 ELSE c  BY <2>2, <2>4
  <2>5. Depth(s, k) = o - c  BY <2>2 DEF Depth
  <2>6. Depth(s, k + 1) = (IF s[k + 1] = "(" THEN o + 1 ELSE o) - (IF s[k + 1] = ")" THEN c + 1 ELSE c)
    BY <2>41, <2>42 DEF Depth
  <2> QED  BY <2>3, <2>5, <2>6
<1> QED  BY <1>0, <1>4, <1>5, <1>6, <1>7

\* The tokens from p to before end, which a semicolon or nothing follows.
Between(b, p, end) ==
  /\ b \in Seq(STRING) /\ p \in 1..Len(b) /\ end \in p + 1 .. Len(b) + 1
  /\ \A i \in p..end - 1 : b[i] # Semicolon
  /\ end <= Len(b) => b[end] = Semicolon

\* Where the next statement can start.
Next1(b, end) == IF end > Len(b) THEN end ELSE end + 1

\* Balanced tokens lead the scanner to their end.
LEMMA StatementEnds ==
  ASSUME NEW b, NEW p, NEW end, Between(b, p, end), Balanced(SubSeq(b, p, end - 1))
  PROVE  AfterStatement(b, p + 1, ParenDepth(b[p])) = Next1(b, end)
<1> DEFINE n == Len(b)
           w == SubSeq(b, p, end - 1)
           m == end - p
<1>0. n \in Nat /\ p \in 1..n /\ end \in p + 1 .. n + 1 /\ b \in Seq(STRING) /\ m \in Nat \ {0}
      /\ \A i \in 1..n : b[i] \in STRING
  BY DEF Between
<1>1. w \in Seq(STRING) /\ Len(w) = m /\ \A k \in 1..m : w[k] = b[p + k - 1]
  BY <1>0
<1>2. Balanced(w)  OBVIOUS
<1> HIDE DEF w
<1>3. /\ Depth(w, 0) = 0 /\ Depth(w, m) = 0 /\ \A k \in 0..m : Depth(w, k) \in Nat
      /\ \A k \in 0..m - 1 : Depth(w, k + 1) = Depth(w, k)
            + (IF w[k + 1] = "(" THEN 1 ELSE IF w[k + 1] = ")" THEN -1 ELSE 0)
  BY <1>1, <1>2, DepthFacts
<1>4. PICK after :
         /\ \A i, d : AfterStatement(b, i, d) = after[i][d]
         /\ \A i \in 1..n + 1 : \A d \in Nat : after[i][d] = AfterValue(b, after, i, d)
  BY SMTT(30), <1>0, AfterFunction
<1>5. ParenDepth(b[p]) = Depth(w, 1)
  <2>1. 0 \in 0..m - 1 /\ 0 + 1 = 1 /\ 1 \in 0..m /\ 1 \in 1..m /\ p + 1 - 1 = p  BY <1>0
  <2>2. Depth(w, 1) = 0 + (IF w[1] = "(" THEN 1 ELSE IF w[1] = ")" THEN -1 ELSE 0)
    BY <1>3, <2>1
  <2>3. Depth(w, 1) \in Nat /\ w[1] = b[p]  BY <1>1, <1>3, <2>1
  <2> QED  BY <2>2, <2>3 DEF ParenDepth
<1> DEFINE T == {k \in 1..m : after[p + 1][Depth(w, 1)] = after[p + k][Depth(w, k)]}
<1>6. ASSUME NEW k \in 1..m - 1, k \in T  PROVE k + 1 \in T
  <2>1. k \in 0..m - 1 /\ k \in 0..m /\ k + 1 \in 1..m /\ k + 1 \in 0..m /\ p + k \in 1..n + 1
        /\ ~(p + k > n) /\ p + k \in p..end - 1 /\ p + (k + 1) - 1 = p + k /\ (p + k) + 1 = p + (k + 1)
    BY <1>0
  <2>2. PICK d, e : d = Depth(w, k) /\ e = Depth(w, k + 1)  OBVIOUS
  <2>3. d \in Nat /\ e \in Nat  BY <1>3, <2>1, <2>2
  <2>4. b[p + k] # Semicolon  BY <2>1 DEF Between
  <2>5. w[k + 1] = b[p + k]  BY <1>1, <2>1
  <2>6. e = d + (IF b[p + k] = "(" THEN 1 ELSE IF b[p + k] = ")" THEN -1 ELSE 0)
    BY <1>3, <2>1, <2>2, <2>5
  <2>7. after[p + k][d] = AfterValue(b, after, p + k, d)  BY <1>4, <2>1, <2>3
  <2>8. AfterValue(b, after, p + k, d) = after[(p + k) + 1][e]
    BY <2>1, <2>3, <2>4, <2>6 DEF AfterValue
  <2>9. after[p + k][d] = after[p + (k + 1)][e]  BY <2>1, <2>7, <2>8
  <2> HIDE DEF m
  <2> QED  BY <1>6, <2>1, <2>2, <2>9
<1>7. \A k \in 1..m : k \in T
  <2>1. 1 \in Nat /\ m \in Nat /\ 1 \in T  BY <1>0
  <2> HIDE DEF T, m
  <2> QED  BY <1>6, <2>1, Upward
<1>8. after[p + 1][Depth(w, 1)] = after[end][0]
  <2>1. m \in T /\ p + m = end  BY <1>0, <1>7
  <2> HIDE DEF m
  <2> QED  BY <1>3, <2>1
<1>9. after[end][0] = Next1(b, end)
  <2>1. end \in 1..n + 1 /\ 0 \in Nat  BY <1>0
  <2>2. after[end][0] = AfterValue(b, after, end, 0)  BY <1>4, <2>1
  <2>3. CASE end > n  BY <2>2, <2>3 DEF AfterValue, Next1
  <2>4. CASE ~(end > n)
    <3>1. b[end] = Semicolon  BY <1>0, <2>4 DEF Between
    <3>2. Semicolon # "(" /\ Semicolon # ")"  BY Zenon DEF Semicolon
    <3> QED  BY <2>2, <2>4, <3>1, <3>2 DEF AfterValue, Next1
  <2> QED  BY <2>3, <2>4
<1> QED  BY <1>4, <1>5, <1>8, <1>9

\* The separators are no other tokens.
LEMMA SeparatorFacts ==
  /\ Semicolon \notin {"end", "(", ")", "word", "ANALYZE", "qANALYZE", "EXPLAIN", Comma}
  /\ Comma \notin {"end", "(", ")", "word", "ANALYZE", "qANALYZE"}
BY Zenon DEF Semicolon, Comma

\* Where Parts cuts.
Cuts(s, t) == {0, Len(s) + 1} \cup {i \in 1..Len(s) : s[i] = t}

\* Neighbouring cuts.
Neighbours(s, t, c, d) ==
  c \in Cuts(s, t) /\ d \in Cuts(s, t) /\ c < d /\ \A k \in Cuts(s, t) : k <= c \/ k >= d

\* A part lies between neighbouring cuts.
LEMMA PartsAre ==
  ASSUME NEW s, NEW t
  PROVE  /\ \A c, d : Neighbours(s, t, c, d) => SubSeq(s, c + 1, d - 1) \in Parts(s, t)
         /\ \A o \in Parts(s, t) : \E c, d :
               Neighbours(s, t, c, d) /\ o = SubSeq(s, c + 1, d - 1)
<1> DEFINE C == Cuts(s, t)
           B == {c \in C \X C : c[1] < c[2] /\ \A k \in C : k <= c[1] \/ k >= c[2]}
<1>1. Parts(s, t) = {SubSeq(s, between[1] + 1, between[2] - 1) : between \in B}
  BY DEF Parts, Cuts
<1>2. ASSUME NEW c, NEW d, Neighbours(s, t, c, d)
      PROVE  SubSeq(s, c + 1, d - 1) \in Parts(s, t)
  <2>1. <<c, d>> \in B /\ <<c, d>>[1] = c /\ <<c, d>>[2] = d  BY <1>2 DEF Neighbours
  <2> HIDE DEF B
  <2> QED  BY <1>1, <2>1
<1>3. ASSUME NEW o \in Parts(s, t)
      PROVE  \E c, d : Neighbours(s, t, c, d) /\ o = SubSeq(s, c + 1, d - 1)
  <2>1. PICK between \in B : o = SubSeq(s, between[1] + 1, between[2] - 1)
    <3> HIDE DEF B
    <3> QED  BY <1>1
  <2>2. Neighbours(s, t, between[1], between[2])  BY DEF Neighbours
  <2> QED  BY <2>1, <2>2
<1> QED  BY <1>2, <1>3

\* A cut has a next one.
LEMMA NextCut ==
  ASSUME NEW s \in Seq(STRING), NEW t, NEW c \in Cuts(s, t), c <= Len(s)
  PROVE  \E d : Neighbours(s, t, c, d)
<1> DEFINE n == Len(s)
           S == {k \in Cuts(s, t) : k > c}
<1>0. n \in Nat /\ Cuts(s, t) \subseteq 0..n + 1 /\ n + 1 \in Cuts(s, t)  BY DEF Cuts
<1>1. S \in SUBSET Nat /\ n + 1 \in S  BY <1>0
<1>2. PICK d \in S : \A k \in S : d <= k
  <2> HIDE DEF S
  <2> QED  BY <1>1, LeastExists
<1>3. c \in Nat /\ d \in Nat  BY <1>0
<1>4. \A k \in Cuts(s, t) : k <= c \/ k >= d  BY <1>0, <1>2, <1>3
<1> QED  BY <1>2, <1>4 DEF Neighbours

\* A position has a last cut up to it.
LEMMA LastCut ==
  ASSUME NEW s \in Seq(STRING), NEW t, NEW k \in 0..Len(s)
  PROVE  \E c \in Cuts(s, t) : c <= k /\ \A j \in c + 1 .. k : j \notin Cuts(s, t)
<1> DEFINE n == Len(s)
           Reaches(i) == \E c \in Cuts(s, t) : c <= i /\ \A j \in c + 1 .. i : j \notin Cuts(s, t)
           T == {i \in 0..n : Reaches(i)}
<1>0. n \in Nat /\ Cuts(s, t) \subseteq 0..n + 1 /\ 0 \in Cuts(s, t)  BY DEF Cuts
<1>1. 0 \in T  BY <1>0
<1>2. ASSUME NEW i \in 0..n - 1, i \in T  PROVE i + 1 \in T
  <2>1. i + 1 \in 0..n  BY <1>0
  <2>2. CASE i + 1 \in Cuts(s, t)
    <3>1. \A j \in i + 1 + 1 .. i + 1 : FALSE  BY <1>0
    <3> QED  BY <2>1, <2>2, <3>1
  <2>3. CASE i + 1 \notin Cuts(s, t)
    <3>1. PICK c \in Cuts(s, t) : c <= i /\ \A j \in c + 1 .. i : j \notin Cuts(s, t)  BY <1>2
    <3>2. \A j \in c + 1 .. i + 1 : j = i + 1 \/ j \in c + 1 .. i  BY <1>0
    <3>3. c <= i + 1  BY <1>0, <3>1
    <3> QED  BY <2>1, <2>3, <3>1, <3>2, <3>3
  <2> QED  BY <2>2, <2>3
<1>3. \A i \in 0..n : i \in T
  <2>1. 0 \in Nat /\ n \in Nat  BY <1>0
  <2> HIDE DEF T, n
  <2> QED  BY <1>1, <1>2, <2>1, Upward
<1> QED  BY <1>3

\* An option starts there.
Starts(s, k) == k = 1 \/ s[k - 1] = Comma

\* What a list of options is made of.
LEMMA OptionFacts ==
  ASSUME NEW s \in Seq(STRING), \A o \in Parts(s, Comma) : IsOption(o)
  PROVE  /\ \A k \in 1..Len(s) : s[k] \in {"word", "ANALYZE", "qANALYZE", Comma}
         /\ (\E o \in Parts(s, Comma) : o[1] \in {"ANALYZE", "qANALYZE"})
               <=> \E k \in 1..Len(s) : Starts(s, k) /\ s[k] \in {"ANALYZE", "qANALYZE"}
<1> DEFINE n == Len(s)
           C == Cuts(s, Comma)
<1>0. n \in Nat /\ C \subseteq 0..n + 1 /\ \A k \in 1..n : k \in C <=> s[k] = Comma
  BY DEF Cuts
<1>1. ASSUME NEW c, NEW d, Neighbours(s, Comma, c, d)
      PROVE  /\ c \in Nat /\ d \in Nat /\ c + 1 < d /\ d <= n + 1 /\ c + 1 \in 1..n
             /\ SubSeq(s, c + 1, d - 1) \in Parts(s, Comma)
             /\ SubSeq(s, c + 1, d - 1)[1] = s[c + 1]
             /\ \A k \in c + 1 .. d - 1 : s[k] \in {"word", "ANALYZE", "qANALYZE"}
  <2>1. c \in 0..n + 1 /\ d \in 0..n + 1 /\ c < d  BY <1>0, <1>1 DEF Neighbours
  <2>2. PICK o : o = SubSeq(s, c + 1, d - 1)  OBVIOUS
  <2>3. o \in Parts(s, Comma)  BY <1>1, <2>2, PartsAre
  <2>4. IsOption(o)  BY <2>3
  <2>5. Len(o) = d - c - 1 /\ \A j \in 1..d - c - 1 : o[j] = s[c + j]  BY <1>0, <2>1, <2>2
  <2>6. c + 1 < d  BY <2>1, <2>4, <2>5 DEF IsOption
  <2>7. ASSUME NEW k \in c + 1 .. d - 1  PROVE s[k] \in {"word", "ANALYZE", "qANALYZE"}
    <3>1. k - c \in 1..d - c - 1 /\ c + (k - c) = k  BY <2>1
    <3>2. o[k - c] = s[k] /\ o[k - c] \in {"word", "ANALYZE", "qANALYZE"}
      BY <2>4, <2>5, <3>1 DEF IsOption
    <3> QED  BY <3>2
  <2>8. o[1] = s[c + 1] /\ c + 1 \in 1..n  BY <1>0, <2>1, <2>5, <2>6
  <2> QED  BY <2>1, <2>2, <2>3, <2>6, <2>7, <2>8
<1>2. ASSUME NEW k \in 1..n  PROVE s[k] \in {"word", "ANALYZE", "qANALYZE", Comma}
  <2>1. CASE k \in C  BY <1>0, <2>1
  <2>2. CASE k \notin C
    <3>1. PICK c \in C : c <= k /\ \A j \in c + 1 .. k : j \notin C
      <4>1. k \in 0..Len(s)  OBVIOUS
      <4> QED  BY <4>1, LastCut
    <3>2. c # k /\ c \in Nat /\ c < k /\ c <= Len(s)  BY <1>0, <2>2, <3>1
    <3>3. PICK d : Neighbours(s, Comma, c, d)  BY <3>2, NextCut
    <3>4. d \in C /\ d > c /\ d \in Nat  BY <1>0, <3>3 DEF Neighbours
    <3>5. d > k  BY <3>1, <3>2, <3>4
    <3>6. k \in c + 1 .. d - 1  BY <3>2, <3>4, <3>5
    <3> QED  BY <1>1, <3>3, <3>6
  <2> QED  BY <2>1, <2>2
<1>3. ASSUME NEW o \in Parts(s, Comma), o[1] \in {"ANALYZE", "qANALYZE"}
      PROVE  \E k \in 1..n : Starts(s, k) /\ s[k] \in {"ANALYZE", "qANALYZE"}
  <2>1. PICK c, d : Neighbours(s, Comma, c, d) /\ o = SubSeq(s, c + 1, d - 1)  BY PartsAre
  <2>2. c \in C /\ c \in Nat /\ c + 1 \in 1..n /\ o[1] = s[c + 1]  BY <1>1, <2>1 DEF Neighbours
  <2>3. Starts(s, c + 1)
    <3>1. c = 0 \/ c \in 1..n  BY <1>0, <2>2
    <3>2. c + 1 - 1 = c  BY <2>2
    <3> QED  BY <1>0, <2>2, <3>1, <3>2 DEF Starts
  <2> QED  BY <1>3, <2>2, <2>3
<1>4. ASSUME NEW k \in 1..n, Starts(s, k), s[k] \in {"ANALYZE", "qANALYZE"}
      PROVE  \E o \in Parts(s, Comma) : o[1] \in {"ANALYZE", "qANALYZE"}
  <2>1. k - 1 \in C /\ k - 1 <= Len(s) /\ k - 1 + 1 = k
    <3>1. k = 1 \/ k - 1 \in 1..n  BY <1>0
    <3>2. 0 \in C /\ 1 - 1 = 0  BY DEF Cuts
    <3> QED  BY <1>0, <1>4, <3>1, <3>2 DEF Starts
  <2>2. PICK d : Neighbours(s, Comma, k - 1, d)  BY <2>1, NextCut
  <2>3. PICK c : c = k - 1  OBVIOUS
  <2>4. SubSeq(s, c + 1, d - 1) \in Parts(s, Comma) /\ SubSeq(s, c + 1, d - 1)[1] = s[c + 1]
    BY <1>1, <2>2, <2>3
  <2> QED  BY <1>4, <2>1, <2>3, <2>4
<1> QED  BY <1>2, <1>3, <1>4

\* A list of options from p to its closing parenthesis at e.
Listed(b, p, e) ==
  /\ b \in Seq(STRING) /\ p \in 1..Len(b) /\ e \in p..Len(b) /\ b[e] = ")"
  /\ \A k \in p..e - 1 : b[k] \in {"word", "ANALYZE", "qANALYZE", Comma}

\* The scanner reads a list of options to its end, and their first words.
LEMMA ListRead ==
  ASSUME NEW b, NEW p, NEW e, Listed(b, p, e), NEW list,
         \A i \in 1..Len(b) + 1 : \A d, w \in Nat : list[i][d][w] = ListValue(b, list, i, d, w)
  PROVE  /\ list[p][1][1].after = e + 1
         /\ \A x : x \in list[p][1][1].first <=>
               \E k \in p..e - 1 : (k = p \/ b[k - 1] = Comma) /\ b[k] # Comma /\ b[k] = x
<1> DEFINE n == Len(b)
           First(k) == k = p \/ b[k - 1] = Comma
           Word(k) == IF First(k) THEN 1 ELSE 2
           Reads(j) ==
             /\ list[j][1][Word(j)].after = e + 1
             /\ \A x : x \in list[j][1][Word(j)].first <=>
                   \E k \in j..e - 1 : First(k) /\ b[k] # Comma /\ b[k] = x
           T == {j \in p..e : Reads(j)}
<1>0. n \in Nat /\ p \in 1..n /\ e \in p..n /\ b[e] = ")"  BY DEF Listed
<1>1. ASSUME NEW j \in p..e, \A q \in j + 1 .. e : q \in T  PROVE j \in T
  <2>0. j \in 1..n /\ j \in 1..n + 1 /\ j \in Nat /\ j + 1 \in 1..n + 1 /\ At(b, j) = b[j]
    BY <1>0 DEF At
  <2>1. PICK w : w = Word(j)  OBVIOUS
  <2>2. w \in {1, 2} /\ (w = 1 <=> First(j))  BY <2>1
  <2>3. list[j][1][w] = ListValue(b, list, j, 1, w)  BY <2>0, <2>2
  <2>4. CASE j = e
    <3>1. b[j] \notin {"end", Semicolon} /\ b[j] = ")"  BY <1>0, <2>4, SeparatorFacts
    <3>2. ListValue(b, list, j, 1, w) = list[j + 1][0][w]  BY <2>0, <3>1 DEF ListValue
    <3>3. list[j + 1][0][w] = ListValue(b, list, j + 1, 0, w)  BY <2>0, <2>2
    <3>4. ListValue(b, list, j + 1, 0, w) = [after |-> j + 1, first |-> {}]  BY DEF ListValue
    <3>5. \A k \in j..e - 1 : FALSE  BY <2>0, <2>4
    <3>6. list[j][1][w].after = e + 1 /\ list[j][1][w].first = {}  BY <2>3, <2>4, <3>2, <3>3, <3>4
    <3>7. Reads(j)  BY <2>1, <3>5, <3>6
    <3> QED  BY <3>7
  <2>5. CASE j # e
    <3>1. j \in p..e - 1 /\ j + 1 \in j + 1 .. e  BY <1>0, <2>5
    <3>2. b[j] \in {"word", "ANALYZE", "qANALYZE", Comma}  BY <3>1 DEF Listed
    <3>3. b[j] \notin {"end", Semicolon, "(", ")"}  BY <3>2, SeparatorFacts
    <3>4. Reads(j + 1)  BY <1>1, <3>1
    <3>5. First(j + 1) <=> b[j] = Comma  BY <1>0, <3>1
    <3>6. PICK v : v = Word(j + 1)  OBVIOUS
    <3>7. v \in {1, 2} /\ (v = 1 <=> b[j] = Comma)  BY <3>5, <3>6
    <3>8. PICK rest : rest = list[j + 1][1][v]  OBVIOUS
    <3>9. list[j][1][w] = IF b[j] # Comma /\ w = 1
                          THEN [after |-> rest.after, first |-> {b[j]} \cup rest.first] ELSE rest
      BY SMTT(30), <2>0, <2>2, <2>3, <3>3, <3>7, <3>8 DEF ListValue
    <3>10. rest.after = e + 1 /\ \A x : x \in rest.first <=>
              \E k \in j + 1 .. e - 1 : First(k) /\ b[k] # Comma /\ b[k] = x
      BY <3>4, <3>6, <3>8
    <3>11. list[j][1][w].after = e + 1  BY <3>9, <3>10
    <3>12. \A x : x \in list[j][1][w].first <=>
              x \in rest.first \/ (First(j) /\ b[j] # Comma /\ b[j] = x)
      BY <2>2, <3>9
    <3>13. \A k : k \in j..e - 1 <=> k = j \/ k \in j + 1 .. e - 1  BY <1>0, <3>1
    <3> HIDE DEF First
    <3>14. \A x : x \in list[j][1][w].first <=>
              \E k \in j..e - 1 : First(k) /\ b[k] # Comma /\ b[k] = x
      BY <3>10, <3>12, <3>13, Zenon
    <3>15. Reads(j)
      <4> HIDE DEF Word
      <4> QED  BY <2>1, <3>11, <3>14
    <3> QED  BY <3>15
  <2> QED  BY <2>4, <2>5
<1>2. \A j \in p..e : j \in T
  <2>1. p \in Nat /\ e \in Nat  BY <1>0
  <2> HIDE DEF T
  <2> QED  BY <1>1, <2>1, Downward
<1>3. Reads(p) /\ Word(p) = 1
  <2>1. p \in T
    <3>1. p \in p..e  BY <1>0
    <3> HIDE DEF T
    <3> QED  BY <1>2, <3>1
  <2> QED  BY <2>1
<1> HIDE DEF Word
<1> QED  BY <1>3

\* The options of a statement.
Options(s) == SubSeq(s, 3, OptionsEnd(s) - 1)

\* Where an option list closes, each of its parts is an option.
LEMMA OptionsEndFacts ==
  ASSUME NEW s \in Seq(STRING), HasOptions(s)
  PROVE  /\ OptionsEnd(s) \in 3..Len(s) /\ s[2] = "(" /\ s[OptionsEnd(s)] = ")"
         /\ \A o \in Parts(Options(s), Comma) : IsOption(o)
         /\ Wrapped(s) = SubSeq(s, OptionsEnd(s) + 1, Len(s))
         /\ Analyzes(s) <=> \E o \in Parts(Options(s), Comma) : o[1] \in {"ANALYZE", "qANALYZE"}
<1> DEFINE Ok(c) == \A o \in Parts(SubSeq(s, 3, c - 1), Comma) : IsOption(o)
           P(c) == \/ c # 0 /\ s[c] = ")" /\ Ok(c)
                   \/ c = 0 /\ \A d \in 3..Len(s) : s[d] = ")" =>
                         \E o \in Parts(SubSeq(s, 3, d - 1), Comma) : ~IsOption(o)
           S == 3..Len(s) \cup {0}
<1>1. OptionsEnd(s) = CHOOSE c \in S : P(c)  BY Zenon DEF OptionsEnd, Comma
<1>2. \E c \in S : P(c)
  <2>1. CASE \E d \in 3..Len(s) : s[d] = ")" /\ Ok(d)
    <3>1. PICK d \in 3..Len(s) : s[d] = ")" /\ Ok(d)  BY <2>1
    <3>2. d # 0 /\ d \in S  OBVIOUS
    <3> HIDE DEF Ok
    <3> QED  BY <3>1, <3>2
  <2>2. CASE ~\E d \in 3..Len(s) : s[d] = ")" /\ Ok(d)
    <3>1. P(0)  BY <2>2
    <3>2. 0 \in S  OBVIOUS
    <3> HIDE DEF P, S
    <3> QED  BY <3>1, <3>2
  <2> QED  BY <2>1, <2>2
<1>3. OptionsEnd(s) \in S /\ P(OptionsEnd(s))
  <2> HIDE DEF P, S
  <2> QED  BY <1>1, <1>2
<1>4. OptionsEnd(s) # 0 /\ s[2] = "("  BY DEF HasOptions
<1>5. OptionsEnd(s) \in 3..Len(s) /\ s[OptionsEnd(s)] = ")" /\ Ok(OptionsEnd(s))  BY <1>3, <1>4
<1>6. Wrapped(s) = SubSeq(s, OptionsEnd(s) + 1, Len(s))  BY DEF Wrapped
<1>7. Analyzes(s) <=> \E o \in Parts(Options(s), Comma) : o[1] \in {"ANALYZE", "qANALYZE"}
  BY Zenon DEF Analyzes, Options, Comma
<1> QED  BY <1>4, <1>5, <1>6, <1>7 DEF Options

\* What is left of a part of a text after c tokens is a part of the text.
LEMMA PartOfPart ==
  ASSUME NEW b \in Seq(STRING), NEW p \in 1..Len(b), NEW end \in p + 1 .. Len(b) + 1,
         NEW c \in 0..end - p
  PROVE  SubSeq(SubSeq(b, p, end - 1), c + 1, end - p) = SubSeq(b, p + c, end - 1)
<1> DEFINE s == SubSeq(b, p, end - 1)
           x == SubSeq(s, c + 1, end - p)
           y == SubSeq(b, p + c, end - 1)
<1>0. Len(b) \in Nat /\ p \in Nat /\ end \in Nat /\ c \in Nat /\ end - p \in Nat /\ c <= end - p
      /\ end - 1 <= Len(b) /\ p >= 1
  OBVIOUS
<1>1. s \in Seq(STRING) /\ Len(s) = end - p /\ \A i \in 1..end - p : s[i] = b[p + i - 1]
  BY <1>0
<1>2. y \in Seq(STRING) /\ Len(y) = end - p - c /\ \A i \in 1..end - p - c : y[i] = b[p + c + i - 1]
  BY <1>0
<1> HIDE DEF s
<1>3. x \in Seq(STRING) /\ Len(x) = end - p - c /\ \A i \in 1..end - p - c : x[i] = s[c + i]
  BY <1>0, <1>1
<1> HIDE DEF x, y
<1>4. ASSUME NEW i \in 1..end - p - c  PROVE x[i] = y[i]
  <2>1. c + i \in 1..end - p /\ p + (c + i) - 1 = p + c + i - 1  BY <1>0
  <2> QED  BY <1>1, <1>2, <1>3, <2>1
<1>5. x = y  BY <1>2, <1>3, <1>4, SeqEqual
<1> QED  BY <1>5 DEF x, y, s

\* The tokens of a statement that starts at p and ends before end.
LEMMA StatementTokens ==
  ASSUME NEW b, NEW p, NEW end, Between(b, p, end)
  PROVE  LET s == SubSeq(b, p, end - 1)
             m == end - p
         IN /\ m \in Nat \ {0} /\ Len(b) \in Nat /\ p + m = end /\ end - 1 <= Len(b) /\ p \in Nat \ {0}
            /\ s \in Seq(STRING) /\ Len(s) = m
            /\ \A k \in 1..m : s[k] = b[p + k - 1] /\ s[k] = At(b, p + k - 1) /\ s[k] # Semicolon
            /\ At(b, end) \in {"end", Semicolon}
<1> DEFINE s == SubSeq(b, p, end - 1)
           m == end - p
           n == Len(b)
<1>1. n \in Nat /\ p \in 1..n /\ end \in p + 1 .. n + 1 /\ b \in Seq(STRING)  BY DEF Between
<1>2. m \in Nat \ {0} /\ p + m = end /\ end - 1 <= n /\ p \in Nat \ {0}  BY <1>1
<1>3. s \in Seq(STRING) /\ Len(s) = m /\ \A k \in 1..m : s[k] = b[p + k - 1]  BY <1>1
<1> HIDE DEF s
<1>4. \A k \in 1..m : b[p + k - 1] = At(b, p + k - 1) /\ b[p + k - 1] # Semicolon
  <2> SUFFICES ASSUME NEW k \in 1..m
               PROVE  b[p + k - 1] = At(b, p + k - 1) /\ b[p + k - 1] # Semicolon
    OBVIOUS
  <2>1. p + k - 1 \in p..end - 1 /\ p + k - 1 \in 1..n  BY <1>1
  <2> QED  BY <2>1 DEF Between, At
<1>5. At(b, end) \in {"end", Semicolon}  BY <1>1 DEF Between, At
<1> HIDE DEF m
<1>6. \A k \in 1..m : s[k] = b[p + k - 1] /\ s[k] = At(b, p + k - 1) /\ s[k] # Semicolon
  BY <1>3, <1>4
<1> QED  BY <1>1, <1>2, <1>3, <1>5, <1>6 DEF s, m

\* The scanner reads an EXPLAIN as DuckDB does, if it does not wrap a query in
\* What follows the first two of some tokens.
LEMMA FromThird ==
  ASSUME NEW s \in Seq(STRING), NEW d \in Nat, d >= 2, d <= Len(s)
  PROVE  /\ SubSeq(s, 3, d) \in Seq(STRING) /\ Len(SubSeq(s, 3, d)) = d - 2
         /\ \A k \in 1..d - 2 : SubSeq(s, 3, d)[k] = s[k + 2]
<1>1. 3 \in Int /\ d \in Int /\ \A i \in 3..d : s[i] \in STRING  OBVIOUS
<1>2. PICK x : x = SubSeq(s, 3, d)  OBVIOUS
<1>3. /\ x \in Seq(STRING) /\ Len(x) = IF 3 <= d THEN d - 3 + 1 ELSE 0
      /\ \A k \in 1..d - 3 + 1 : x[k] = s[3 + k - 1]
  BY <1>1, <1>2, SubSeqProperties
<1>4. Len(x) = d - 2  BY <1>3
<1>5. ASSUME NEW k \in 1..d - 2  PROVE x[k] = s[k + 2]
  <2>1. k \in 1..d - 3 + 1 /\ 3 + k - 1 = k + 2  OBVIOUS
  <2> QED  BY <1>3, <2>1
<1> QED  BY <1>2, <1>3, <1>4, <1>5

\* A position in a stretch that starts at i, counted from 1.
LEMMA CountedFrom ==
  ASSUME NEW i \in Int, NEW j \in Int, NEW c \in Int, c - 3 = j - i, NEW k \in i..j - 1
  PROVE  /\ k - i + 1 \in 1..c - 3 /\ i + (k - i + 1) - 1 = k
         /\ k # i => k - 1 \in i..j - 1 /\ k - 1 - i + 1 = k - i + 1 - 1
OBVIOUS

\* And the position of the k-th.
LEMMA CountedTo ==
  ASSUME NEW i \in Int, NEW j \in Int, NEW c \in Int, c - 3 = j - i, NEW k \in 1..c - 3,
         NEW r, r = i + k - 1
  PROVE  /\ r \in i..j - 1 /\ (k = 1 => r = i)
         /\ k # 1 => k - 1 \in 1..c - 3 /\ r - 1 = i + (k - 1) - 1
OBVIOUS

\* parentheses that could be a list of options.
LEMMA ExplainAgrees ==
  ASSUME NEW b, NEW p, NEW end, Between(b, p, end),
         NEW s, s = SubSeq(b, p, end - 1), s[1] = "EXPLAIN", Wrapped(s) # <<>>,
         HasOptions(s) \/ Wrapped(s)[1] # "("
  PROVE  LET e == ScanExplain(b, p + 1)
         IN /\ e.wrapped \in p + 1 .. end - 1
            /\ Wrapped(s) = SubSeq(b, e.wrapped, end - 1)
            /\ e.analyze <=> Analyzes(s)
<1> DEFINE m == end - p
           n == Len(b)
           e == ScanExplain(b, p + 1)
<1>0. n \in Nat /\ p \in 1..n /\ end \in p + 1 .. n + 1 /\ b \in Seq(STRING)  BY DEF Between
<1>1. /\ m \in Nat \ {0} /\ p + m = end /\ end - 1 <= n /\ p \in Nat \ {0}
      /\ s \in Seq(STRING) /\ Len(s) = m
      /\ \A k \in 1..m : s[k] = b[p + k - 1] /\ s[k] = At(b, p + k - 1) /\ s[k] # Semicolon
      /\ At(b, end) \in {"end", Semicolon}
  BY StatementTokens, SMTT(20)
<1>2. PICK list :
         /\ \A r : ScanExplain(b, r) = ExplainValue(b, list, r)
         /\ \A i \in 1..n + 1 : \A d, w \in Nat : list[i][d][w] = ListValue(b, list, i, d, w)
  BY <1>0, ListFunction
<1>3. \A c \in 0..m : SubSeq(s, c + 1, m) = SubSeq(b, p + c, end - 1)  BY <1>0, PartOfPart
<1>4. ASSUME NEW c \in 1..m, Wrapped(s) = SubSeq(s, c + 1, m)
      PROVE  /\ c < m /\ p + c \in p + 1 .. end - 1 /\ Wrapped(s) = SubSeq(b, p + c, end - 1)
             /\ Wrapped(s)[1] = s[c + 1] /\ s[c + 1] = At(b, p + c)
  <2>1. c < m
    <3> SUFFICES ASSUME c = m  PROVE FALSE
      BY <1>1
    <3>1. SubSeq(s, m + 1, m) = <<>>  BY <1>1
    <3> QED  BY <1>4, <3>1
  <2>2. c \in 0..m /\ c + 1 \in 1..m /\ p + (c + 1) - 1 = p + c /\ p + c \in p + 1 .. end - 1
    BY <1>0, <1>1, <2>1
  <2>3. Wrapped(s) = SubSeq(b, p + c, end - 1)  BY <1>3, <1>4, <2>2
  <2>4. SubSeq(s, c + 1, m)[1] = s[c + 1]  BY SMTT(30), <1>1, <2>2
  <2>5. s[c + 1] = At(b, p + c)  BY <1>1, <2>2
  <2> QED  BY <1>4, <2>1, <2>2, <2>3, <2>4, <2>5
<1>5. CASE HasOptions(s)
  <2>1. PICK c : c = OptionsEnd(s)  OBVIOUS
  <2>2. /\ c \in 3..m /\ s[2] = "(" /\ s[c] = ")" /\ Wrapped(s) = SubSeq(s, c + 1, m)
        /\ \A o \in Parts(Options(s), Comma) : IsOption(o)
        /\ Analyzes(s) <=> \E o \in Parts(Options(s), Comma) : o[1] \in {"ANALYZE", "qANALYZE"}
    BY <1>1, <1>5, <2>1, OptionsEndFacts
  <2>3. PICK o : o = Options(s)  OBVIOUS
  <2>4. o \in Seq(STRING) /\ Len(o) = c - 3 /\ \A k \in 1..c - 3 : o[k] = s[k + 2]
    <3>1. o = SubSeq(s, 3, c - 1)  BY <2>1, <2>3 DEF Options
    <3>2. PICK d : d = c - 1  OBVIOUS
    <3>3. d \in Nat /\ d >= 2 /\ d <= Len(s) /\ d - 2 = c - 3  BY <1>1, <2>2, <3>2
    <3>4. s \in Seq(STRING)  BY <1>1
    <3> HIDE DEF m
    <3>5. /\ SubSeq(s, 3, d) \in Seq(STRING) /\ Len(SubSeq(s, 3, d)) = d - 2
          /\ \A k \in 1..d - 2 : SubSeq(s, 3, d)[k] = s[k + 2]
      BY <3>3, <3>4, FromThird
    <3>6. o = SubSeq(s, 3, d)  BY <3>1, <3>2
    <3> QED  BY <3>3, <3>5, <3>6, Zenon
  <2>5. /\ \A k \in 1..c - 3 : o[k] \in {"word", "ANALYZE", "qANALYZE", Comma}
        /\ Analyzes(s) <=> \E k \in 1..c - 3 : Starts(o, k) /\ o[k] \in {"ANALYZE", "qANALYZE"}
    BY <2>2, <2>3, <2>4, OptionFacts
  <2> DEFINE i == p + 2
             j == p + c - 1
  <2>6. i \in 1..n /\ j \in i..n /\ c - 3 = j - i /\ 2 \in 1..m /\ c \in 1..m /\ p + 2 - 1 = p + 1
        /\ c \in Nat /\ (p + 1) + 1 = i
    BY SMTT(30), <1>0, <1>1, <2>2
  <2>61. i \in Int /\ j \in Int /\ c \in Int /\ c - 3 = j - i  BY <1>0, <2>6
  <2>7. At(b, p + 1) = "(" /\ b[j] = ")"  BY <1>1, <2>2, <2>6
  <2>8. \A k \in 1..c - 3 : b[i + k - 1] = o[k]
    <3> SUFFICES ASSUME NEW k \in 1..c - 3  PROVE b[i + k - 1] = o[k]
      OBVIOUS
    <3>1. k + 2 \in 1..m /\ p + (k + 2) - 1 = i + k - 1  BY <1>1, <2>2
    <3> QED  BY <1>1, <2>4, <3>1
  <2>9. \A k \in i..j - 1 : k - i + 1 \in 1..c - 3 /\ i + (k - i + 1) - 1 = k /\ b[k] = o[k - i + 1]
    <3>1. \A k \in i..j - 1 : k - i + 1 \in 1..c - 3 /\ i + (k - i + 1) - 1 = k
      <4> HIDE DEF i, j
      <4> QED  BY <2>61, CountedFrom
    <3> HIDE DEF i, j
    <3> QED  BY <2>8, <3>1
  <2>10. Listed(b, i, j)
    <3> HIDE DEF i, j
    <3> QED  BY <1>0, <2>5, <2>6, <2>7, <2>9 DEF Listed
  <2>11. /\ list[i][1][1].after = j + 1
         /\ \A x : x \in list[i][1][1].first <=>
               \E k \in i..j - 1 : (k = i \/ b[k - 1] = Comma) /\ b[k] # Comma /\ b[k] = x
    <3> HIDE DEF i, j
    <3> QED  BY <1>2, <2>10, ListRead
  <2>12. (\E w \in list[i][1][1].first : w \in {"ANALYZE", "qANALYZE"}) <=> Analyzes(s)
    <3>1. ASSUME NEW k \in i..j - 1, k = i \/ b[k - 1] = Comma, b[k] \in {"ANALYZE", "qANALYZE"}
          PROVE  Analyzes(s)
      <4>1. k - i + 1 \in 1..c - 3 /\ o[k - i + 1] = b[k]  BY <2>9
      <4>2. k # i => k - 1 \in i..j - 1 /\ k - 1 - i + 1 = k - i + 1 - 1
        <5> HIDE DEF i, j
        <5> QED  BY <2>61, CountedFrom
      <4>3. k = i => k - i + 1 = 1  BY <2>6
      <4>4. Starts(o, k - i + 1)
        <5>1. CASE k = i  BY <4>3, <5>1 DEF Starts
        <5>2. CASE k # i
          <6>1. b[k - 1] = Comma /\ b[k - 1] = o[k - 1 - i + 1]
            <7> HIDE DEF i, j
            <7> QED  BY <2>9, <3>1, <4>2, <5>2
          <6>2. PICK r : r = k - i + 1  OBVIOUS
          <6>3. k - 1 - i + 1 = r - 1  BY <1>1, <2>6, <4>2, <5>2, <6>2
          <6>4. o[r - 1] = Comma  BY <6>1, <6>3
          <6>5. Starts(o, r)  BY <6>4 DEF Starts
          <6> QED  BY <6>2, <6>5
        <5> HIDE DEF i, j
        <5> QED  BY <5>1, <5>2
      <4> HIDE DEF i, j
      <4> QED  BY <2>5, <3>1, <4>1, <4>4
    <3>2. ASSUME Analyzes(s)
          PROVE  \E k \in i..j - 1 : (k = i \/ b[k - 1] = Comma) /\ b[k] \in {"ANALYZE", "qANALYZE"}
      <4>1. PICK k \in 1..c - 3 : Starts(o, k) /\ o[k] \in {"ANALYZE", "qANALYZE"}  BY <2>5, <3>2
      <4>2. PICK r : r = i + k - 1  OBVIOUS
      <4>3. r \in i..j - 1 /\ (k = 1 => r = i) /\ (k # 1 => k - 1 \in 1..c - 3 /\ r - 1 = i + (k - 1) - 1)
        <5> HIDE DEF i, j
        <5> QED  BY <2>61, <4>2, CountedTo
      <4>4. b[r] = o[k] /\ (k # 1 => b[r - 1] = o[k - 1])
        <5> HIDE DEF i, j
        <5> QED  BY <2>8, <4>2, <4>3
      <4> HIDE DEF i, j
      <4> QED  BY <4>1, <4>3, <4>4 DEF Starts
    <3>3. \A x \in {"ANALYZE", "qANALYZE"} : x # Comma  BY SeparatorFacts
    <3> HIDE DEF i, j
    <3> QED  BY <2>11, <3>1, <3>2, <3>3
  <2>13. e.wrapped = j + 1 /\ (e.analyze <=> Analyzes(s))
    <3>1. e = ExplainValue(b, list, p + 1)  BY <1>2
    <3>2. PICK f : f = list[i][1][1]  OBVIOUS
    <3>3. e = [wrapped |-> f.after,
               analyze |-> p + 1 # p + 1 \/ \E w \in f.first : w \in {"ANALYZE", "qANALYZE"}]
      <4> HIDE DEF i, j
      <4> QED  BY <2>6, <2>7, <3>1, <3>2 DEF ExplainValue
    <3> HIDE DEF e, i, j
    <3> QED  BY <2>11, <2>12, <3>2, <3>3
  <2>14. j + 1 = p + c  BY <1>1, <2>6
  <2>15. p + c \in p + 1 .. end - 1 /\ Wrapped(s) = SubSeq(b, p + c, end - 1)
    BY <1>4, <2>2, <2>6
  <2> HIDE DEF j, i
  <2> QED  BY <2>13, <2>14, <2>15
<1>6. CASE ~HasOptions(s)
  <2>1. Wrapped(s)[1] # "("  BY <1>6
  <2>2. e = ExplainValue(b, list, p + 1)  BY <1>2
  <2>3. CASE Len(s) > 1 /\ s[2] = "ANALYZE"
    <3>1. Wrapped(s) = SubSeq(s, 3, Len(s)) /\ Analyzes(s)  BY <1>6, <2>3 DEF Wrapped, Analyzes
    <3>2. 2 \in 1..m /\ p + 2 - 1 = p + 1  BY <1>1, <2>3
    <3>3. At(b, p + 1) = "ANALYZE"  BY <1>1, <2>3, <3>2
    <3>31. Wrapped(s) = SubSeq(s, 2 + 1, m)  BY <1>1, <3>1
    <3>4. /\ p + 2 \in p + 1 .. end - 1 /\ Wrapped(s) = SubSeq(b, p + 2, end - 1)
          /\ At(b, p + 2) # "("
      BY <1>4, <2>1, <3>2, <3>31
    <3>5. p + 1 + 1 = p + 2 /\ p + 2 # p + 1  BY <1>0
    <3>6. e = [wrapped |-> p + 2, analyze |-> p + 2 # p + 1]
      BY <2>2, <3>3, <3>4, <3>5 DEF ExplainValue
    <3>7. e.wrapped = p + 2 /\ e.analyze
      <4> HIDE DEF e
      <4> QED  BY <3>5, <3>6
    <3> QED  BY <3>1, <3>4, <3>7
  <2>4. CASE ~(Len(s) > 1 /\ s[2] = "ANALYZE")
    <3>1. Wrapped(s) = Tail(s) /\ ~Analyzes(s)  BY <1>6, <2>4 DEF Wrapped, Analyzes
    <3>2. Wrapped(s) = SubSeq(s, 1 + 1, m) /\ 1 \in 1..m
      <4>1. Tail(s) = SubSeq(s, 2, Len(s)) /\ 1 \in 1..m /\ 1 + 1 = 2
        <5>1. s \in Seq(STRING) /\ s # <<>>  BY <1>1
        <5>2. Tail(s) = SubSeq(s, 2, Len(s))  BY <5>1
        <5>3. 1 \in 1..m  BY <1>1
        <5>4. 1 + 1 = 2  OBVIOUS
        <5> HIDE DEF m
        <5> QED  BY <5>2, <5>3, <5>4, Zenon
      <4> HIDE DEF m
      <4> QED  BY <1>1, <3>1, <4>1
    <3>3. /\ p + 1 \in p + 1 .. end - 1 /\ Wrapped(s) = SubSeq(b, p + 1, end - 1)
          /\ At(b, p + 1) # "(" /\ 1 < m /\ s[2] = At(b, p + 1)
      <4>1. PICK c : c = 1  OBVIOUS
      <4>2. /\ c < m /\ p + c \in p + 1 .. end - 1 /\ Wrapped(s) = SubSeq(b, p + c, end - 1)
            /\ Wrapped(s)[1] = s[c + 1] /\ s[c + 1] = At(b, p + c)
        BY <1>4, <3>2, <4>1
      <4>3. c + 1 = 2 /\ p + c = p + 1  BY <4>1
      <4>4. At(b, p + c) # "("  BY <2>1, <4>2
      <4> HIDE DEF m
      <4> QED  BY <4>1, <4>2, <4>3, <4>4
    <3>4. At(b, p + 1) # "ANALYZE"  BY <1>1, <2>4, <3>3
    <3>5. e = [wrapped |-> p + 1, analyze |-> p + 1 # p + 1]
      BY <2>2, <3>3, <3>4 DEF ExplainValue
    <3>6. e.wrapped = p + 1 /\ ~e.analyze
      <4> HIDE DEF e
      <4> QED  BY <3>5
    <3> QED  BY <3>1, <3>3, <3>6
  <2> QED  BY <2>3, <2>4
<1> QED  BY <1>5, <1>6

\* Where the statement at p ends.
EndOf(b, p) ==
  CHOOSE q \in {i \in p..Len(b) : b[i] = Semicolon} \cup {Len(b) + 1} :
     \A r \in {i \in p..Len(b) : b[i] = Semicolon} : q <= r

\* What the function of Statements is at position p.
StatementsValue(b, f, p) ==
  IF p > Len(b) THEN <<>>
  ELSE IF EndOf(b, p) = p THEN f[p + 1]
  ELSE <<SubSeq(b, p, EndOf(b, p) - 1)>> \o f[Next1(b, EndOf(b, p))]

\* No semicolon comes before that end, and one or nothing is there.
LEMMA EndFacts ==
  ASSUME NEW b \in Seq(STRING), NEW p \in 1..Len(b)
  PROVE  /\ EndOf(b, p) \in p..Len(b) + 1
         /\ EndOf(b, p) = p <=> b[p] = Semicolon
         /\ EndOf(b, p) # p => Between(b, p, EndOf(b, p))
         /\ Next1(b, EndOf(b, p)) \in p + 1 .. Len(b) + 1
<1> DEFINE n == Len(b)
           R == {q \in p..n : b[q] = Semicolon}
           S == R \cup {n + 1}
<1>0. n \in Nat /\ p \in 1..n  OBVIOUS
<1>1. S \in SUBSET Nat /\ S # {} /\ R \subseteq S /\ S \subseteq p..n + 1  BY <1>0
<1>2. \E q \in S : \A r \in R : q <= r
  <2>1. PICK q \in S : \A r \in S : q <= r
    <3> HIDE DEF S
    <3> QED  BY <1>1, LeastExists
  <2> QED  BY <2>1
<1>3. PICK e : e = EndOf(b, p)  OBVIOUS
<1>4. e = CHOOSE q \in S : \A r \in R : q <= r  BY <1>3 DEF EndOf
<1>5. e \in S /\ \A r \in R : e <= r
  <2> HIDE DEF S, R
  <2> QED  BY <1>2, <1>4
<1>6. e \in p..n + 1 /\ (e <= n => b[e] = Semicolon)  BY <1>0, <1>1, <1>5
<1>7. \A i \in p..e - 1 : b[i] # Semicolon
  <2> SUFFICES ASSUME NEW i \in p..e - 1, b[i] = Semicolon  PROVE FALSE
    OBVIOUS
  <2>1. i \in p..n /\ ~(e <= i)  BY <1>0, <1>6
  <2> QED  BY <1>5, <2>1
<1>8. e = p <=> b[p] = Semicolon
  <2>1. e # p => p \in p..e - 1  BY <1>0, <1>6
  <2>2. e = p => e <= n  BY <1>0
  <2> QED  BY <1>6, <1>7, <2>1, <2>2
<1>9. e # p => Between(b, p, e)
  <2>1. e # p => e \in p + 1 .. n + 1  BY <1>0, <1>6
  <2> QED  BY <1>0, <1>6, <1>7, <2>1 DEF Between
<1>10. Next1(b, e) \in p + 1 .. n + 1  BY <1>0, <1>6 DEF Next1
<1> QED  BY <1>3, <1>6, <1>8, <1>9, <1>10

\* The function Statements chooses.
LEMMA StatementsFunction ==
  ASSUME NEW b \in Seq(STRING)
  PROVE  \E from :
           /\ Statements(b) = from[1]
           /\ \A p \in 1..Len(b) + 1 :
                 from[p] \in Seq(Seq(STRING)) /\ from[p] = StatementsValue(b, from, p)
<1> DEFINE n == Len(b)
           S == 1..n + 1
           V == Seq(Seq(STRING))
           E(f) == [p \in S |-> StatementsValue(b, f, p)]
           D == [f \in [S -> V] |-> E(f)]
<1>0. n \in Nat  OBVIOUS
<1>1. ASSUME NEW p \in S, ~(p > n)
      PROVE  /\ p + 1 \in p + 1 .. n + 1 /\ Next1(b, EndOf(b, p)) \in p + 1 .. n + 1
             /\ p + 1 \in S /\ Next1(b, EndOf(b, p)) \in S
             /\ <<SubSeq(b, p, EndOf(b, p) - 1)>> \in V
  <2>1. p \in 1..n  BY <1>0, <1>1
  <2>2. PICK q, e : q = Next1(b, EndOf(b, p)) /\ e = EndOf(b, p)  OBVIOUS
  <2>3. q \in p + 1 .. n + 1 /\ e \in p..n + 1  BY <2>1, <2>2, EndFacts
  <2>4. q \in S /\ p + 1 \in S /\ p + 1 \in p + 1 .. n + 1  BY <1>0, <2>1, <2>3
  <2>5. SubSeq(b, p, e - 1) \in Seq(STRING)  BY <1>0, <2>1, <2>3
  <2>6. <<SubSeq(b, p, e - 1)>> \in V  BY <2>5
  <2> HIDE DEF V, S, n
  <2> QED  BY <2>2, <2>3, <2>4, <2>6
<1>2. ASSUME NEW p \in S, NEW g, NEW f, \A q \in p + 1 .. n + 1 : g[q] = f[q]
      PROVE  StatementsValue(b, g, p) = StatementsValue(b, f, p)
  <2>1. ~(p > n) => p + 1 \in p + 1 .. n + 1 /\ Next1(b, EndOf(b, p)) \in p + 1 .. n + 1  BY <1>1
  <2> QED  BY <1>2, <2>1 DEF StatementsValue
<1>20. \A x, y \in V : x \o y \in V  OBVIOUS
<1>21. <<>> \in V  OBVIOUS
<1>3. ASSUME NEW p \in S, NEW f, \A q \in p + 1 .. n + 1 : f[q] \in V
      PROVE  StatementsValue(b, f, p) \in V
  <2>1. ~(p > n) => /\ f[p + 1] \in V /\ f[Next1(b, EndOf(b, p))] \in V
                    /\ <<SubSeq(b, p, EndOf(b, p) - 1)>> \in V
    BY <1>1, <1>3
  <2> HIDE DEF V
  <2> QED  BY <2>1, <1>20, <1>21 DEF StatementsValue
<1>4. ASSUME NEW f \in [S -> V], NEW p \in S  PROVE StatementsValue(b, f, p) \in V
  <2>1. \A q \in p + 1 .. n + 1 : f[q] \in V
    <3>1. \A q \in p + 1 .. n + 1 : q \in S  BY <1>0
    <3> HIDE DEF S, V
    <3> QED  BY <3>1
  <2> HIDE DEF V, S, n
  <2> QED  BY <1>3, <2>1
<1>5. \A f \in [S -> V] : E(f) \in [S -> V]
  <2> HIDE DEF S, V
  <2> QED  BY <1>4
<1>6. \A f \in [S -> V] : D[f] = E(f)
  <2> HIDE DEF S, E, V
  <2> QED  OBVIOUS
<1>7. \A p \in S : \A g, f \in [S -> V] :
         (\A q \in p + 1 .. n + 1 : g[q] = f[q]) => D[g][p] = D[f][p]
  <2> SUFFICES ASSUME NEW p \in S, NEW g \in [S -> V], NEW f \in [S -> V],
                      \A q \in p + 1 .. n + 1 : g[q] = f[q]
               PROVE  D[g][p] = D[f][p]
    OBVIOUS
  <2>1. StatementsValue(b, g, p) = StatementsValue(b, f, p)  BY <1>2
  <2>2. E(g)[p] = StatementsValue(b, g, p) /\ E(f)[p] = StatementsValue(b, f, p)  OBVIOUS
  <2> HIDE DEF S, n, D, E, V
  <2> QED  BY <2>1, <2>2, <1>6
<1>8. Descends(D, 1, n + 1, V)
  <2>1. 1 \in Nat /\ n + 1 \in Nat  BY <1>0
  <2> HIDE DEF D, E, n, V
  <2>2. V # {}  BY <1>21
  <2> QED  BY <2>1, <2>2, <1>5, <1>6, <1>7 DEF Descends
<1> DEFINE P(f) == f = E(f)
           from == CHOOSE f : P(f)
<1>9. PICK f \in [S -> V] : f = E(f)
  <2>1. PICK f \in [S -> V] : f = D[f]
    <3> HIDE DEF D, n, V
    <3> QED  BY <1>8, Descent
  <2>2. f = E(f)  BY <1>6, <2>1, Zenon
  <2> QED  BY <2>2
<1>10. P(from)  BY <1>9, Zenon
<1>11. Statements(b) = from[1]
  BY Zenon DEF Statements, StatementsValue, Semicolon, EndOf, Next1
<1> HIDE DEF from
<1>12. \A p \in S : from[p] = StatementsValue(b, from, p)
  <2> HIDE DEF S
  <2> QED  BY <1>10
<1> DEFINE T == {p \in S : from[p] \in V}
<1>13. ASSUME NEW p \in S, \A q \in p + 1 .. n + 1 : q \in T
       PROVE  p \in T
  <2>1. \A q \in p + 1 .. n + 1 : from[q] \in V  BY <1>13
  <2> HIDE DEF V, S, n
  <2> QED  BY <1>3, <1>12, <2>1
<1>14. \A p \in S : p \in T
  <2>1. 1 \in Nat /\ n + 1 \in Nat  BY <1>0
  <2> HIDE DEF T, n
  <2> QED  BY <1>13, <2>1, Downward
<1> QED  BY <1>11, <1>12, <1>14

\* A sequence of one element is not empty.
LEMMA OneIsNotNone == ASSUME NEW s, Len(s) = 1  PROVE s # <<>>
OBVIOUS

\* The positions of a sequence with one more element.
LEMMA NextIn ==
  ASSUME NEW n \in Nat, NEW m, m = n + 1, NEW i \in 1..n
  PROVE  i + 1 \in 1..m
OBVIOUS

\* What a plain statement begins with, and what the driver makes of that.
LEMMA PlainFacts ==
  ASSUME NEW s \in Seq(STRING), IsPlain(s)
  PROVE  /\ s # <<>> /\ Balanced(s) /\ s[1] \in {"SELECT", "("} \cup Control
         /\ Effect(s[1]) = Effect(IF s[1] \in Control THEN s[1] ELSE "other")
<1>1. s[1] \in {"SELECT", "("} \cup Control  BY DEF IsPlain, IsQuery
<1>2. Effect(s[1]) = Effect(IF s[1] \in Control THEN s[1] ELSE "other")
  BY <1>1 DEF Effect, Control
<1>3. CASE IsQuery(s)  BY <1>1, <1>2, <1>3 DEF IsQuery
<1>4. CASE Len(s) = 1 /\ s[1] \in Control
  <2>1. s[1] # "(" /\ s[1] # ")"  BY <1>4 DEF Control
  <2>2. {i \in 1..Len(s) : s[i] = "("} = {} /\ {i \in 1..Len(s) : s[i] = ")"} = {}
    BY <1>4, <2>1
  <2>3. Opened(s) = 0 /\ Closed(s) = 0  BY <2>2, FS_EmptySet DEF Opened, Closed
  <2>4. \A i \in 1..Len(s) : SubSeq(s, 1, i) = s
    <3>1. SubSeq(s, 1, Len(s)) = s  BY SubSeqFull
    <3> QED  BY <1>4, <3>1
  <2>5. \A i \in 1..Len(s) : Opened(SubSeq(s, 1, i)) = 0 /\ Closed(SubSeq(s, 1, i)) = 0
    BY <2>3, <2>4, Zenon
  <2>6. 0 >= 0  OBVIOUS
  <2>7. Balanced(s)  BY <2>3, <2>5, <2>6, Zenon DEF Balanced
  <2>8. s # <<>>
    <3>1. Len(s) = 1  BY <1>4
    <3> QED  BY <3>1, OneIsNotNone
  <2> QED  BY <1>1, <1>2, <2>7, <2>8, Zenon
<1> QED  BY <1>3, <1>4 DEF IsPlain

\* What a statement begins with.
Openers == {"EXPLAIN", "SELECT", "("} \cup Control

\* A statement of the texts these theorems are about, and what the scanner is to
\* make of it.
GoodStatement(s) == IsStatement(s) /\ ~ExplainsParentheses(s)

ReadAlike(b, p, end, s) ==
  /\ Following(b, p) = Next1(b, end) /\ StatementEffect(b, p) = Effect(Command(s))
  /\ b[p] \in Openers

\* The scanner reads a statement as DuckDB does.
LEMMA StatementAgrees ==
  ASSUME NEW b, NEW p, NEW end, Between(b, p, end),
         NEW s, s = SubSeq(b, p, end - 1), GoodStatement(s)
  PROVE  ReadAlike(b, p, end, s)
<1> DEFINE n == Len(b)
           m == end - p
<1>0. n \in Nat /\ p \in 1..n /\ end \in p + 1 .. n + 1 /\ b \in Seq(STRING)
      /\ \A i \in p..end - 1 : b[i] # Semicolon
  BY DEF Between
<1>1. /\ m \in Nat \ {0} /\ p + m = end /\ end - 1 <= n /\ p \in Nat \ {0}
      /\ s \in Seq(STRING) /\ Len(s) = m
      /\ \A k \in 1..m : s[k] = b[p + k - 1] /\ s[k] = At(b, p + k - 1) /\ s[k] # Semicolon
  BY StatementTokens
<1>2. s[1] = b[p] /\ s # <<>>
  <2>1. 1 \in 1..m /\ p + 1 - 1 = p  BY <1>1
  <2>2. s[1] = b[p]  BY <1>1, <2>1
  <2>3. s # <<>>  BY <1>1
  <2> QED  BY <2>2, <2>3
<1>3. ASSUME NEW body \in p..end - 1, IsPlain(SubSeq(b, body, end - 1)), Body(b, p) = body
      PROVE  Following(b, p) = Next1(b, end)
             /\ SubSeq(b, body, end - 1)[1] = At(b, body)
  <2>1. body \in 1..n /\ end \in body + 1 .. n + 1 /\ body + 1 <= n + 1
        /\ body + 1 \in Nat /\ n + 1 \in Nat
    BY <1>0
  <2>2. Between(b, body, end)
    <3>1. \A i \in body..end - 1 : i \in p..end - 1  BY <1>0
    <3> QED  BY <1>0, <2>1, <3>1 DEF Between
  <2>3. SubSeq(b, body, end - 1) \in Seq(STRING) /\ SubSeq(b, body, end - 1)[1] = b[body]
    BY <1>0, <2>1
  <2>4. Balanced(SubSeq(b, body, end - 1))  BY <1>3, <2>3, PlainFacts
  <2>5. AfterStatement(b, body + 1, ParenDepth(b[body])) = Next1(b, end)
    BY <2>2, <2>4, StatementEnds
  <2>6. Min({body + 1, n + 1}) = body + 1  BY <2>1, MinOfTwo
  <2>7. At(b, body) = b[body]  BY <2>1 DEF At
  <2> QED  BY <1>3, <2>3, <2>5, <2>6, <2>7 DEF Following
<1>4. CASE s[1] # "EXPLAIN"
  <2>1. IsPlain(s)  BY <1>4, <1>2 DEF GoodStatement, IsStatement
  <2>2. Body(b, p) = p /\ p \in p..end - 1  BY <1>0, <1>2, <1>4 DEF Body
  <2>3. Following(b, p) = Next1(b, end)  BY <1>3, <2>1, <2>2
  <2>4. StatementEffect(b, p) = Effect(s[1])  BY <1>2, <1>4 DEF StatementEffect
  <2>5. Command(s) = IF s[1] \in Control THEN s[1] ELSE "other"  BY <1>4 DEF Command
  <2>6. s[1] \in Openers /\ Effect(s[1]) = Effect(IF s[1] \in Control THEN s[1] ELSE "other")
    BY <1>1, <2>1, PlainFacts DEF Openers
  <2> QED  BY <1>2, <2>3, <2>4, <2>5, <2>6 DEF ReadAlike
<1>5. CASE s[1] = "EXPLAIN"
  <2>1. IsPlain(Wrapped(s))  BY <1>2, <1>5 DEF GoodStatement, IsStatement
  <2>2. Wrapped(s) # <<>>  BY <2>1 DEF IsPlain, IsQuery
  <2>3. HasOptions(s) \/ Wrapped(s)[1] # "("  BY <1>5 DEF GoodStatement, ExplainsParentheses
  <2>4. PICK e : e = ScanExplain(b, p + 1)  OBVIOUS
  <2>5. /\ e.wrapped \in p + 1 .. end - 1 /\ Wrapped(s) = SubSeq(b, e.wrapped, end - 1)
        /\ e.analyze <=> Analyzes(s)
    BY <1>5, <2>2, <2>3, <2>4, ExplainAgrees, ZenonT(30)
  <2>6. PICK body : body = e.wrapped  OBVIOUS
  <2>7. body \in p..end - 1 /\ Body(b, p) = body /\ Wrapped(s) = SubSeq(b, body, end - 1)
    <3>1. body \in p + 1 .. end - 1 /\ Wrapped(s) = SubSeq(b, body, end - 1)
      BY <2>5, <2>6, Zenon
    <3>2. body \in p..end - 1  BY <1>0, <3>1
    <3>3. b[p] = "EXPLAIN"  BY <1>2, <1>5
    <3>4. Body(b, p) = body  BY <2>4, <2>6, <3>3 DEF Body
    <3> QED  BY <3>1, <3>2, <3>4
  <2>8. Following(b, p) = Next1(b, end) /\ Wrapped(s)[1] = At(b, body)  BY <1>3, <2>1, <2>7
  <2>9. StatementEffect(b, p) = IF Analyzes(s) THEN Effect(Wrapped(s)[1]) ELSE "none"
    BY <1>2, <1>5, <2>4, <2>5, <2>6, <2>8 DEF StatementEffect
  <2>10. Wrapped(s) \in Seq(STRING)
    <3>1. PICK d : d = end - 1  OBVIOUS
    <3>2. body \in 1..n /\ d \in 1..n /\ b \in Seq(STRING)  BY <1>0, <2>7, <3>1
    <3>3. SubSeq(b, body, d) \in Seq(STRING)  BY <3>2
    <3> QED  BY <2>7, <3>1, <3>3
  <2>11. Effect(Command(s)) = StatementEffect(b, p)
    <3>1. CASE Analyzes(s)
      <4>1. Command(s) = IF Wrapped(s)[1] \in Control THEN Wrapped(s)[1] ELSE "other"
        BY <1>5, <3>1 DEF Command
      <4> QED  BY <2>1, <2>9, <2>10, <3>1, <4>1, PlainFacts
    <3>2. CASE ~Analyzes(s)
      <4>1. Command(s) = "other"  BY <1>5, <3>2 DEF Command, Control
      <4> QED  BY <2>9, <3>2, <4>1, EffectFacts
    <3> QED  BY <3>1, <3>2
  <2>12. s[1] \in Openers  BY <1>5 DEF Openers
  <2> QED  BY <1>2, <2>8, <2>11, <2>12, Zenon DEF ReadAlike
<1> QED  BY <1>4, <1>5

\* Every such statement.
LEMMA GoodAgrees ==
  ASSUME NEW b, NEW p, NEW end, Between(b, p, end), GoodStatement(SubSeq(b, p, end - 1))
  PROVE  ReadAlike(b, p, end, SubSeq(b, p, end - 1))
BY StatementAgrees

\* One element before others.
LEMMA Prepended ==
  ASSUME NEW S, NEW x \in S, NEW r \in Seq(S)
  PROVE  /\ Len(<<x>> \o r) = Len(r) + 1 /\ Len(r) \in Nat /\ (<<x>> \o r)[1] = x
         /\ \A i \in 1..Len(r) : (<<x>> \o r)[i + 1] = r[i]
OBVIOUS

\* A stretch of tokens.
LEMMA Stretch ==
  ASSUME NEW b \in Seq(STRING), NEW p \in 1..Len(b), NEW e \in Int, e <= Len(b)
  PROVE  SubSeq(b, p, e) \in Seq(STRING)
<1>1. p \in Int /\ \A i \in p..e : b[i] \in STRING  OBVIOUS
<1> QED  BY <1>1, SubSeqProperties

\* The scanner reads a batch as DuckDB does, and its second statement follows a
\* semicolon.
LEMMA BatchAgrees ==
  ASSUME NEW b \in Seq(STRING), Parses(b),
         \A i \in 1..Len(Statements(b)) : ~ExplainsParentheses(Statements(b)[i])
  PROVE  /\ Statements(b) \in Seq(Seq(STRING)) /\ Effects(b) \in Seq(Effects3)
         /\ Len(Effects(b)) = Len(Statements(b))
         /\ \A i \in 1..Len(Statements(b)) : Effects(b)[i] = Effect(Command(Statements(b)[i]))
         /\ Len(Statements(b)) > 1 => MayHaveMultiple(b)
<1> DEFINE n == Len(b)
           Good(s) == IsStatement(s) /\ ~ExplainsParentheses(s)
<1>0. n \in Nat  OBVIOUS
<1>25. \A p, end : Between(b, p, end) /\ Good(SubSeq(b, p, end - 1)) =>
          /\ Following(b, p) = Next1(b, end)
          /\ StatementEffect(b, p) = Effect(Command(SubSeq(b, p, end - 1))) /\ b[p] \in Openers
  BY GoodAgrees DEF GoodStatement, ReadAlike
<1>1. PICK from :
         /\ Effects(b) = from[1]
         /\ \A p \in 1..n + 1 : from[p] \in Seq(Effects3) /\ from[p] = EffectsValue(b, from, p)
  BY EffectsFunction
<1>2. PICK all :
         /\ Statements(b) = all[1]
         /\ \A p \in 1..n + 1 : all[p] \in Seq(Seq(STRING)) /\ all[p] = StatementsValue(b, all, p)
  BY StatementsFunction
<1> DEFINE AllGood(p) == \A i \in 1..Len(all[p]) : Good(all[p][i])
           Agree(p) == /\ Len(from[p]) = Len(all[p])
                       /\ \A i \in 1..Len(all[p]) : from[p][i] = Effect(Command(all[p][i]))
           Starts1(p) == Len(all[p]) > 0 => \E q \in p..n : b[q] \in Openers
           Starts2(p) == Len(all[p]) > 1 =>
              \E e \in p..n : b[e] = Semicolon /\ \E q \in e + 1 .. n : b[q] \in Openers
           T == {p \in 1..n + 1 : AllGood(p) => Agree(p) /\ Starts1(p) /\ Starts2(p)}
<1>3. ASSUME NEW p \in 1..n + 1, \A q \in p + 1 .. n + 1 : q \in T  PROVE p \in T
  <2> SUFFICES ASSUME AllGood(p)  PROVE Agree(p) /\ Starts1(p) /\ Starts2(p)
    OBVIOUS
  <2>0. from[p] = EffectsValue(b, from, p) /\ all[p] = StatementsValue(b, all, p)  BY <1>1, <1>2
  <2>1. CASE p > n
    <3>1. from[p] = <<>> /\ all[p] = <<>>  BY <2>0, <2>1 DEF EffectsValue, StatementsValue
    <3> QED  BY <3>1
  <2>2. CASE ~(p > n) /\ b[p] = Semicolon
    <3>1. p \in 1..n /\ p + 1 \in p + 1 .. n + 1 /\ EndOf(b, p) = p  BY <1>0, <2>2, EndFacts
    <3>2. from[p] = from[p + 1] /\ all[p] = all[p + 1]
      BY <2>0, <2>2, <3>1 DEF EffectsValue, StatementsValue
    <3>3. AllGood(p + 1)  BY <3>2
    <3>4. Agree(p + 1) /\ Starts1(p + 1) /\ Starts2(p + 1)  BY <1>3, <3>1, <3>3
    <3>5. p + 1 .. n \subseteq p..n  BY <1>0, <3>1
    <3>6. Starts1(p) /\ Starts2(p)
      <4> QED  BY <3>2, <3>4, <3>5
    <3> QED  BY <3>2, <3>4, <3>6
  <2>3. CASE ~(p > n) /\ b[p] # Semicolon
    <3>0. p \in 1..n  BY <1>0, <2>3
    <3>1. PICK end : end = EndOf(b, p)  OBVIOUS
    <3>2. end # p /\ Between(b, p, end) /\ end \in p..n + 1 /\ Next1(b, end) \in p + 1 .. n + 1
      BY <2>3, <3>0, <3>1, EndFacts
    <3>3. PICK s : s = SubSeq(b, p, end - 1)  OBVIOUS
    <3>4. PICK r : r = Next1(b, end)  OBVIOUS
    <3>5. all[p] = <<s>> \o all[r]  BY <2>0, <2>3, <3>1, <3>2, <3>3, <3>4 DEF StatementsValue
    <3>6. r \in p + 1 .. n + 1 /\ r \in 1..n + 1  BY <1>0, <3>0, <3>2, <3>4
    <3>7. all[r] \in Seq(Seq(STRING)) /\ from[r] \in Seq(Effects3)  BY <1>1, <1>2, <3>6
    <3>8. s \in Seq(STRING)
      <4>1. end - 1 \in Int /\ end - 1 <= n  BY <1>0, <3>2
      <4> QED  BY <3>0, <3>3, <4>1, Stretch
    <3>9. /\ Len(all[p]) = Len(all[r]) + 1 /\ Len(all[r]) \in Nat /\ all[p][1] = s
          /\ \A i \in 1..Len(all[r]) : all[p][i + 1] = all[r][i]
      BY <3>5, <3>7, <3>8, Prepended
    <3>91. Len(all[p]) = Len(all[r]) + 1 /\ Len(all[r]) \in Nat  BY <3>9
    <3>10. Good(s)
      <4>1. 1 \in 1..Len(all[p])  BY <3>9
      <4> HIDE DEF Good
      <4> QED  BY <3>9, <4>1
    <3>11. AllGood(r)
      <4> SUFFICES ASSUME NEW i \in 1..Len(all[r])  PROVE Good(all[r][i])
        OBVIOUS
      <4>1. i + 1 \in 1..Len(all[p])  BY <3>91, NextIn
      <4> HIDE DEF Good
      <4> QED  BY <3>9, <4>1
    <3>12. Agree(r) /\ Starts1(r)
      <4>1. r \in T  BY <1>3, <3>6
      <4> HIDE DEF AllGood, Agree, Starts1, Starts2
      <4> QED  BY <3>11, <4>1
    <3>13. /\ Following(b, p) = r /\ StatementEffect(b, p) = Effect(Command(s))
           /\ b[p] \in Openers
      <4>1. /\ Following(b, p) = Next1(b, end) /\ StatementEffect(b, p) = Effect(Command(s))
            /\ b[p] \in Openers
        <5> HIDE DEF Good
        <5> QED  BY <1>25, <3>2, <3>3, <3>10
      <4> QED  BY <3>4, <4>1, Zenon
    <3>14. from[p] = <<StatementEffect(b, p)>> \o from[r]
      BY <2>0, <2>3, <3>13 DEF EffectsValue
    <3>15. PICK x : x = StatementEffect(b, p)  OBVIOUS
    <3>16. x \in Effects3  BY <3>0, <3>15, StatementRange
    <3>17. /\ Len(from[p]) = Len(from[r]) + 1 /\ Len(from[r]) \in Nat /\ from[p][1] = x
           /\ \A i \in 1..Len(from[r]) : from[p][i + 1] = from[r][i]
      BY <3>7, <3>14, <3>15, <3>16, Prepended
    <3>18. Agree(p)
      <4> HIDE DEF Good
      <4>1. Len(from[p]) = Len(all[p])  BY <3>9, <3>12, <3>17
      <4>2. ASSUME NEW i \in 1..Len(all[p])  PROVE from[p][i] = Effect(Command(all[p][i]))
        <5>1. CASE i = 1  BY <3>9, <3>13, <3>15, <3>17, <5>1
        <5>2. CASE i # 1
          <6>1. PICK j \in 1..Len(all[r]) : i = j + 1
            <7>1. i - 1 \in 1..Len(all[r]) /\ i = (i - 1) + 1  BY <3>91, <5>2
            <7> QED  BY <7>1
          <6>2. all[p][i] = all[r][j] /\ from[p][i] = from[r][j]  BY <3>9, <3>12, <3>17, <6>1
          <6> QED  BY <3>12, <6>2
        <5> QED  BY <5>1, <5>2
      <4> QED  BY <4>1, <4>2
    <3>19. Starts1(p)
      <4>1. p \in p..n  BY <1>0, <3>0
      <4> QED  BY <3>13, <4>1
    <3>20. Starts2(p)
      <4> SUFFICES ASSUME Len(all[p]) > 1
                   PROVE  \E e \in p..n : b[e] = Semicolon /\ \E q \in e + 1 .. n : b[q] \in Openers
        OBVIOUS
      <4>1. Len(all[r]) > 0  BY <3>9
      <4>2. PICK q \in r..n : b[q] \in Openers  BY <3>12, <4>1
      <4>3. end <= n /\ end \in p..n /\ q \in end + 1 .. n
        BY <1>0, <3>2, <3>4, <3>6, <4>2 DEF Next1
      <4>4. b[end] = Semicolon  BY <3>2, <4>3 DEF Between
      <4> QED  BY <4>2, <4>3, <4>4
    <3> QED  BY <3>18, <3>19, <3>20
  <2> QED  BY <2>1, <2>2, <2>3
<1>4. 1 \in T
  <2>1. 1 \in Nat /\ n + 1 \in Nat /\ 1 \in 1..n + 1  BY <1>0
  <2> HIDE DEF T, n
  <2> QED  BY <1>3, <2>1, Downward
<1>5. AllGood(1)  BY <1>2 DEF Parses
<1>6. Agree(1) /\ Starts2(1)
  <2> HIDE DEF AllGood, Agree, Starts1, Starts2
  <2> QED  BY <1>4, <1>5
<1>7. Len(all[1]) > 1 => MayHaveMultiple(b)
  <2> SUFFICES ASSUME Len(all[1]) > 1  PROVE MayHaveMultiple(b)
    OBVIOUS
  <2>1. PICK e \in 1..n : b[e] = Semicolon /\ \E q \in e + 1 .. n : b[q] \in Openers
    <3> QED  BY <1>6
  <2>2. PICK q \in e + 1 .. n : b[q] \in Openers  BY <2>1
  <2>3. b[q] \notin Spaces \cup {Semicolon}
    <3>1. \A t \in Openers : t \notin Spaces  BY DEF Openers, Control, Spaces
    <3>2. \A t \in Openers : t # Semicolon  BY Zenon DEF Openers, Control, Semicolon
    <3> QED  BY <2>2, <3>1, <3>2
  <2> QED  BY <2>1, <2>3, Zenon DEF MayHaveMultiple, Semicolon
<1>8. 1 \in 1..n + 1  BY <1>0
<1> QED  BY <1>1, <1>2, <1>6, <1>7, <1>8

\* The batches of SqlBatches: phrases, one after the other.
BatchSpec == InitBatch /\ [][\E piece \in Pieces : Extend(piece)]_batchVars

\* The batch is made of tokens.
Spoken == batch \in Seq(STRING)

\* A batch is always a sequence of tokens.
LEMMA BatchSpoken == BatchSpec => []Spoken
<1>1. InitBatch => Spoken  BY DEF InitBatch, Spoken
<1>2. Spoken /\ [\E piece \in Pieces : Extend(piece)]_batchVars => Spoken'
  <2> SUFFICES ASSUME Spoken, [\E piece \in Pieces : Extend(piece)]_batchVars
               PROVE  Spoken'
    OBVIOUS
  <2>1. CASE UNCHANGED batchVars  BY <2>1 DEF batchVars, Spoken
  <2>2. ASSUME NEW piece \in Pieces, Extend(piece)  PROVE Spoken'
    <3>1. piece \in Seq(STRING)  BY PiecesAssumption
    <3>2. batch' = batch \o piece  BY <2>2 DEF Extend
    <3> QED  BY <3>1, <3>2 DEF Spoken
  <2> QED  BY <2>1, <2>2
<1> QED  BY <1>1, <1>2, PTL DEF BatchSpec

\* What the scanner finds of a batch of tokens is what DuckDB makes of it.
LEMMA SpokenAgrees == Spoken => EffectsAgree
<1> SUFFICES ASSUME Spoken  PROVE EffectsAgree
  OBVIOUS
<1> DEFINE all == Statements(batch)
<1>1. ASSUME Parses(batch), \A i \in 1..Len(all) : ~ExplainsParentheses(all[i])
      PROVE  Effects(batch) = [i \in 1..Len(all) |-> Effect(Command(all[i]))]
  <2>1. /\ Effects(batch) \in Seq(Effects3) /\ Len(Effects(batch)) = Len(all)
        /\ \A i \in 1..Len(all) : Effects(batch)[i] = Effect(Command(all[i]))
    BY <1>1, BatchAgrees DEF Spoken
  <2> HIDE DEF all
  <2> QED  BY <2>1
<1>2. EffectsOfStatements
  <2> HIDE DEF all
  <2>1. Parses(batch) /\ (\A i \in 1..Len(all) : ~ExplainsParentheses(all[i])) =>
           Effects(batch) = [i \in 1..Len(all) |-> Effect(Command(all[i]))]
    BY <1>1
  <2> QED  BY <2>1, Zenon DEF EffectsOfStatements, all
<1>3. EntryPointsAgree  BY EntryPoints DEF Spoken, EntryPointsAgree
<1> QED  BY <1>2, <1>3 DEF EffectsAgree

\* On every batch of any number of any phrases, exec() finds the statements DuckDB
\* finds and the effect of each on the transaction, also through EXPLAIN and its
\* options, unless an EXPLAIN is of a query in parentheses; and
\* first_transaction_effect and transaction_flags judge the first statement alike
\* (duckdb_driver.c:1002 and :1035).
THEOREM EffectsAlwaysAgree == BatchSpec => []EffectsAgree
BY BatchSpoken, SpokenAgrees, PTL

\* Any batch DuckDB parses that explains no query in parentheses is one the
\* scanner reads as DuckDB does, as far as exec() depends on it.
LEMMA ParsedIsUnderstood ==
  ASSUME NEW b \in Seq(STRING), Parses(b),
         \A i \in 1..Len(Statements(b)) : ~ExplainsParentheses(Statements(b)[i])
  PROVE  Understood(b)
<1>1. PICK all : all = Statements(b)  OBVIOUS
<1>2. PICK effects : effects = Effects(b)  OBVIOUS
<1>3. /\ all \in Seq(Seq(STRING)) /\ effects \in Seq(Effects3) /\ Len(effects) = Len(all)
      /\ \A i \in 1..Len(all) : effects[i] = Effect(Command(all[i]))
      /\ Len(all) > 1 => MayHaveMultiple(b)
  BY <1>1, <1>2, BatchAgrees
<1>4. FirstEffect(b) = (IF effects = <<>> THEN "none" ELSE effects[1])
  BY <1>2, EntryPoints
<1>5. WholeEffect(b) = (IF effects = <<>> THEN "none" ELSE effects[1])
  BY <1>2, <1>4 DEF WholeEffect
<1>6. Multiple(b) <=> Len(effects) > 1
  BY <1>2, <1>3 DEF Multiple
<1>7. Len(all) = 1 => effects # <<>> /\ effects[1] = Effect(Command(all[1]))
  <2>1. Len(all) = 1 => 1 \in 1..Len(all)  OBVIOUS
  <2>2. effects = <<>> => Len(effects) = 0  OBVIOUS
  <2>3. Len(all) = 1 => effects # <<>>  BY <1>3, <2>2
  <2> QED  BY <1>3, <2>1, <2>3
<1>8. \A i \in 1..Len(all) : effects[i] = "none" => Command(all[i]) = "other"
  <2>1. ASSUME NEW s, Effect(Command(s)) = "none"  PROVE Command(s) = "other"
    BY <2>1, CommandTyped, EffectFacts DEF Commands, Control
  <2> QED  BY <1>3, <2>1
<1>9. CASE Multiple(b) /\ Controls(b)
  <2>1. \A i \in 1..Len(effects) : effects[i] = Effect(Command(all[i]))  BY <1>3
  <2> QED  BY <1>1, <1>2, <1>3, <1>4, <1>7, <1>9, <2>1 DEF Understood
<1>10. CASE ~(Multiple(b) /\ Controls(b))
  <2>1. \/ Len(all) = 1 /\ WholeEffect(b) = Effect(Command(all[1]))
        \/ WholeEffect(b) = "none" /\ \A i \in 1..Len(all) : Command(all[i]) = "other"
    <3>1. CASE Len(all) = 0
      <4>1. effects = <<>>  BY <1>3, <3>1
      <4> QED  BY <1>3, <1>5, <3>1, <4>1
    <3>2. CASE Len(all) = 1  BY <1>5, <1>7, <3>2
    <3>3. CASE Len(all) > 1
      <4>1. ~Controls(b)  BY <1>3, <1>6, <1>10, <3>3
      <4>2. \A i \in 1..Len(effects) : effects[i] = "none"  BY <1>2, <4>1 DEF Controls
      <4>3. 1 \in 1..Len(effects) /\ effects # <<>>  BY <1>3, <3>3
      <4> QED  BY <1>3, <1>5, <1>8, <4>2, <4>3
    <3>4. PICK n \in Nat : n = Len(all)  BY <1>3
    <3>5. n = 0 \/ n = 1 \/ n > 1  OBVIOUS
    <3> QED  BY <3>1, <3>2, <3>3, <3>4, <3>5
  <2> QED  BY <1>1, <1>2, <1>3, <1>4, <1>7, <1>10, <2>1 DEF Understood
<1> QED  BY <1>9, <1>10

\* The texts exec() and prepare() are given are made of tokens, and no statement
\* explains a query in parentheses.
NoneExplainsParentheses ==
  \A b \in Batches : /\ b \in Seq(STRING)
                     /\ \A i \in 1..Len(Statements(b)) :
                           ~ExplainsParentheses(Statements(b)[i])

\* The scanner is right about all of them.
LEMMA AllUnderstood ==
    NoneExplainsParentheses => \A b \in Batches : Understood(b)
BY BatchesAssumption, ParsedIsUnderstood DEF NoneExplainsParentheses

\* Whatever batches are run that DuckDB parses, of any number of statements, none
\* explaining a query in parentheses, DuckDB has a transaction between calls only
\* if PDO's flag says so: nothing is assumed of how the scanner reads them.
THEOREM NoInvisibleAfterAnyBatch ==
    ASSUME NoneExplainsParentheses
    PROVE  Spec => []FlagCoversTransaction
BY AllUnderstood, NoInvisibleTransactions

\* And a flag without a transaction is one that a failed COMMIT left, which
\* awaits a rollBack() (duckdb_driver.c:1336), after any such batches.
THEOREM PhantomsAfterAnyBatch ==
    ASSUME NoneExplainsParentheses
    PROVE  Spec => []PhantomOnlyAfterLostCommit
BY AllUnderstood, PhantomsAreLostCommits

=============================================================================
