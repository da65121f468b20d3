------------------------- MODULE TransactionTracking -------------------------
(***************************************************************************)
(* PDO's transaction flag against DuckDB's transaction (duckdb_driver.c).  *)
(* PDO rolls back or cleans up a connection only while dbh->in_txn is set, *)
(* and DuckDB does not report its transaction, so the driver follows it:   *)
(* beginTransaction() and its siblings, exec() of one or several           *)
(* statements, and prepared statements, each of which DuckDB may fail.     *)
(***************************************************************************)
EXTENDS SqlScanner, SqlGrammar

CONSTANTS
    Engines,     \* DuckDB series a driver is built against: "1.5", "2.0"
    Batches,     \* the texts exec() is given, as tokens
    None

ASSUME BatchesAssumption == \A b \in Batches : Parses(b)

VARIABLES
    engine,     \* the series this build uses
    native,     \* DuckDB's transaction: "none", "open" or "aborted"
    inTxn,      \* PDO's flag
    lost,       \* did the transaction the flag is about end in a failed COMMIT?
    run         \* the exec() being executed, or None

vars == <<engine, native, inTxn, lost, run>>

Effects3 == {"none", "open", "close"}
Commands == Control \cup {"other"}

\* A call of exec(): how it runs the text, the commands still to run and the
\* effects the scanner expects of them, and the effect to apply at the end.
Runs == [path : {"query", "multi", "bridge"}, left : Seq(Commands),
         effects : Seq(Effects3), last : Effects3]

ASSUME NoneAssumption == None \notin Runs

TypeOK ==
    /\ engine \in Engines
    /\ native \in {"none", "open", "aborted"}
    /\ inTxn \in BOOLEAN /\ lost \in BOOLEAN
    /\ run \in Runs \cup {None}
    /\ run # None /\ run.path = "multi" => Len(run.left) = Len(run.effects)

Init ==
    /\ engine \in Engines
    /\ native = "none" /\ inTxn = FALSE /\ lost = FALSE /\ run = None

-----------------------------------------------------------------------------
(* DuckDB.                                                                  *)

Outcome(after, ok, failedCommit) ==
    [native |-> after, ok |-> ok, lost |-> failedCommit]

\* What executing a command can come to.  A failed COMMIT has rolled back; one
\* of an aborted transaction succeeds and keeps nothing; DuckDB 1.5 keeps the
\* transaction after a parser or catalog error.
Outcomes(command) ==
    LET failed == {Outcome(IF native = "none" THEN "none" ELSE n, FALSE, FALSE) :
                      n \in IF engine = "2.0" THEN {"aborted"}
                           ELSE {native, "aborted"}}
    IN CASE native = "none" /\ command = "BEGIN" ->
                {Outcome("open", TRUE, FALSE)} \cup failed
         [] native = "none" /\ command \in {"COMMIT", "ROLLBACK"} -> failed
         [] native # "none" /\ command = "ROLLBACK" ->
                {Outcome("none", TRUE, FALSE)}
         [] native = "open" /\ command = "COMMIT" ->
                {Outcome("none", TRUE, FALSE), Outcome("none", FALSE, TRUE)}
         [] native = "aborted" /\ command = "COMMIT" ->
                {Outcome("none", TRUE, FALSE)}
         [] native # "none" /\ command = "BEGIN" -> failed
         [] native # "aborted" /\ command = "other" ->
                {Outcome(native, TRUE, FALSE)} \cup failed
         [] OTHER -> failed

-----------------------------------------------------------------------------
(* The driver.                                                              *)

\* Mutant: a closing effect is not applied.
Applied_NeverClears(flag, effect) == flag \/ effect = "open"
Applied(flag, effect) == CASE effect = "open" -> TRUE
                           [] effect = "close" -> FALSE
                           [] OTHER -> flag

\* A call is denied by native_enter and changes nothing.
Denied == UNCHANGED vars

\* The ghost follows the flag and the transaction.
Lost(o, flag) == flag /\ o.native = "none" /\ (lost \/ o.lost)

\* duckdb_simple_exec for PDO core, which sets the flag only on success.
Simple(command, flag) ==
    /\ run = None
    /\ \/ Denied
       \/ \E o \in Outcomes(command) :
             /\ native' = o.native
             /\ inTxn' = IF o.ok THEN flag ELSE inTxn
             /\ lost' = Lost(o, inTxn')
             /\ UNCHANGED run

Begin == ~inTxn /\ Simple("BEGIN", TRUE)
Commit == inTxn /\ Simple("COMMIT", FALSE)
Rollback == inTxn /\ Simple("ROLLBACK", FALSE)

\* The flag after a native success, whether or not the columns of the result
\* can be described next.
ExecutedFlag(b, described) == Applied(inTxn, FirstEffect(b))

\* execute() of a prepared statement, whose text is a single statement.
Execute(b) ==
    /\ run = None /\ Len(Statements(b)) = 1
    /\ \E o \in Outcomes(Command(Statements(b)[1])), described \in BOOLEAN :
          /\ native' = o.native
          /\ inTxn' = IF o.ok THEN ExecutedFlag(b, described) ELSE inTxn
          /\ lost' = Lost(o, inTxn')
    /\ UNCHANGED run

Multiple(b) == MayHaveMultiple(b) /\ Len(Effects(b)) > 1
Controls(b) == \E i \in 1..Len(Effects(b)) : Effects(b)[i] # "none"

\* The effect of the whole text if it runs in one call.
WholeEffect(b) ==
    IF ~MayHaveMultiple(b) THEN FirstEffect(b)
    ELSE IF Effects(b) = <<>> THEN "none" ELSE Effects(b)[1]

Agreed(b) == Len(Statements(b)) = Len(Effects(b))

\* exec() chooses how to run a text: under 2.0 the bridge runs a batch, and
\* whatever is run while a remote database is attached.
Paths(b) ==
    CASE engine = "2.0" -> IF Multiple(b) THEN {"bridge"} ELSE {"bridge", "query"}
      [] engine # "2.0" /\ Multiple(b) /\ Controls(b) -> {"multi"}
      [] OTHER -> {"query"}

\* A batch that DuckDB and the scanner count differently is refused.
Exec(b) ==
    /\ run = None
    /\ \/ Denied
       \/ \E path \in Paths(b) :
             /\ path = "multi" => Agreed(b)
             /\ run' = [path |-> path,
                        left |-> [i \in 1..Len(Statements(b)) |->
                                     Command(Statements(b)[i])],
                        effects |-> Effects(b),
                        last |-> IF path = "query" THEN WholeEffect(b) ELSE "none"]
             /\ UNCHANGED <<native, inTxn, lost>>

\* Mutant: the flag follows the statements of a batch after the last one.
StepFlag_AtEnd == IF Len(run.left) = 1
                  THEN FoldLeft(Applied, inTxn, run.effects) ELSE inTxn

\* exec_transaction_multi moves the flag after each statement.
StepFlag == Applied(inTxn, Head(run.effects))

\* exec_bridge_locked moves it by the last effect that was executed, also when
\* a later statement failed.
BridgeFlag(ok, last) == Applied(inTxn, last)

BridgeLast(command) == IF command = "other" THEN run.last ELSE Effect(command)

\* The next statement of the text succeeds.
RunStatement ==
    /\ run # None /\ run.left # <<>>
    /\ \E o \in Outcomes(Head(run.left)) :
          /\ o.ok /\ native' = o.native
          /\ inTxn' = IF run.path = "multi" THEN StepFlag ELSE inTxn
          /\ lost' = Lost(o, inTxn')
          /\ run' = [run EXCEPT
                       !.left = Tail(@),
                       !.effects = IF run.path = "multi" THEN Tail(@) ELSE @,
                       !.last = IF run.path = "bridge"
                                THEN BridgeLast(Head(run.left)) ELSE @]

\* The next statement fails, which ends the call.
FailStatement ==
    /\ run # None /\ run.left # <<>>
    /\ \E o \in Outcomes(Head(run.left)) :
          /\ ~o.ok /\ native' = o.native
          /\ inTxn' = IF run.path = "bridge" THEN BridgeFlag(FALSE, run.last)
                      ELSE inTxn
          /\ lost' = Lost(o, inTxn')
    /\ run' = None

\* The bridge cannot read the result of the statement it just executed.
UnreadableResult ==
    /\ run # None /\ run.path = "bridge" /\ run.last # "none"
    /\ inTxn' = BridgeFlag(FALSE, run.last) /\ run' = None
    /\ lost' = (inTxn' /\ lost)
    /\ UNCHANGED native

\* Between two statements the instance mutex is free, and native_enter may deny
\* the next one.
DeniedMidway ==
    /\ run # None /\ run.path = "multi" /\ run.left # <<>>
    /\ run' = None /\ UNCHANGED <<native, inTxn, lost>>

EndBatch ==
    /\ run # None /\ run.left = <<>>
    /\ inTxn' = CASE run.path = "multi" -> inTxn
                  [] run.path = "query" -> Applied(inTxn, run.last)
                  [] OTHER -> BridgeFlag(TRUE, run.last)
    /\ lost' = (inTxn' /\ lost)
    /\ run' = None /\ UNCHANGED native

Next ==
    /\ UNCHANGED engine
    /\ \/ Begin \/ Commit \/ Rollback
       \/ \E b \in Batches : Exec(b) \/ Execute(b)
       \/ RunStatement \/ FailStatement \/ UnreadableResult \/ DeniedMidway
       \/ EndBatch

Spec == Init /\ [][Next]_vars

-----------------------------------------------------------------------------
\* The scanner reads b as DuckDB does, as far as the way b is run depends on
\* it: a batch run statement by statement has the effects of its statements; a
\* text run in one call has that of its only statement, or changes no
\* transaction.  The properties below are about such texts.
Understood(b) ==
    LET Does(i) == Effect(Command(Statements(b)[i]))
        One == Len(Statements(b)) = 1
    IN  /\ Statements(b) \in Seq(Seq(STRING)) /\ Effects(b) \in Seq(Effects3)
        /\ One => FirstEffect(b) = Does(1)
        /\ IF Multiple(b) /\ Controls(b)
           THEN Agreed(b) => \A i \in 1..Len(Effects(b)) : Effects(b)[i] = Does(i)
           ELSE \/ One /\ WholeEffect(b) = Does(1)
                \/ /\ WholeEffect(b) = "none"
                   /\ \A i \in 1..Len(Statements(b)) :
                         Command(Statements(b)[i]) = "other"

\* No invisible transaction: between calls, and between the statements of a
\* batch the driver runs one by one, where a bailout may leave, DuckDB has a
\* transaction only if PDO's flag says so (README.md:356, duckdb_driver.c:674).
FlagCoversTransaction ==
    run = None \/ run.path = "multi" => (native # "none" => inTxn)

\* The flag outlives its transaction only when a COMMIT failed, after which PDO
\* expects a rollBack() (duckdb_driver.c:1336).
PhantomOnlyAfterLostCommit == run = None /\ inTxn /\ native = "none" => lost

=============================================================================
