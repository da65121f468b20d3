-------------------------- MODULE StatementBindings --------------------------
(***************************************************************************)
(* Parameters of one prepared statement (duckdb_statement.c).  PDO keeps   *)
(* what is bound; each execute() converts it anew, parameter by parameter, *)
(* and stores it twice: in DuckDB's prepared statement, and as SQL for the *)
(* statement text that is sent whole once the query has to be deferred.    *)
(* A conversion runs PHP code, which may close the cursor, attach a remote *)
(* database, or execute() the same statement again.  A value is identified *)
(* by the call that converted it.                                          *)
(***************************************************************************)
EXTENDS Naturals, Sequences

CONSTANTS
    Params,     \* the parameters of the statement
    Extra,      \* positions the statement does not have
    MaxDepth,   \* bound on execute() calls within each other
    MaxCalls,   \* bound on execute() calls
    None

ASSUME NoneAssumption == None \notin Params \cup Extra
ASSUME BoundsAssumption == MaxDepth \in Nat /\ MaxCalls \in Nat

VARIABLES
    bound,      \* PDO's bound_params, as positions
    calls,      \* the execute() calls that are active, the innermost last
    cleared,    \* binds_cleared
    prepared,   \* the values DuckDB's statement holds
    expanded,   \* expanded_bindings
    deferred,   \* deferred_query
    remote,     \* is the connection remote, or a remote catalog attached?
    result,     \* the result the statement holds, or None
    last,       \* the last call that ended, and why if parameters were missing
    count       \* calls so far

vars == <<bound, calls, cleared, prepared, expanded, deferred, remote, result,
          last, count>>

Values == [Params -> 0..MaxCalls]      \* 0 for none
NoValues == [p \in Params |-> 0]

TypeOK ==
    /\ bound \subseteq Params \cup Extra
    /\ \A i \in 1..Len(calls) :
          /\ calls[i].id \in 1..count /\ calls[i].todo \subseteq bound
          /\ calls[i].at \in Params \cup Extra \cup {None}
          /\ i < Len(calls) => calls[i].at # None
    /\ cleared \in BOOLEAN /\ deferred \in BOOLEAN /\ remote \in BOOLEAN
    /\ prepared \in Values /\ expanded \in Values
    /\ cleared => calls # <<>>

Init ==
    /\ bound = {} /\ calls = <<>> /\ cleared = FALSE
    /\ prepared = NoValues /\ expanded = NoValues
    /\ deferred \in BOOLEAN /\ remote = FALSE
    /\ result = None
    /\ last = [id |-> 0, missing |-> FALSE, complete |-> FALSE, outer |-> FALSE]
    /\ count = 0

-----------------------------------------------------------------------------
Call == calls[Len(calls)]
Outer == SubSeq(calls, 1, Len(calls) - 1)

\* PHP code runs outside the driver, or within the conversion of a parameter.
InPhp == IF calls = <<>> THEN TRUE ELSE Call.at # None

NewCall(positions) ==
    [id |-> count + 1, todo |-> positions, at |-> None,
     complete |-> Params \subseteq positions, outer |-> FALSE]

\* The innermost call ends.
Return(missing) ==
    /\ calls' = Outer
    /\ last' = [id |-> Call.id, missing |-> missing,
                complete |-> Call.complete, outer |-> Call.outer]

\* Mutant: the result of the previous execution stays readable.
FailedResult_Kept == result
FailedResult == None

\* Mutant: the next call takes the bindings for cleared.
BindFailure_KeepsFlag ==
    /\ result' = FailedResult /\ cleared' = cleared /\ expanded' = NoValues
\* bind_failure: what the previous execution left is gone as well.
BindFailure ==
    /\ result' = FailedResult
    /\ cleared' = FALSE
    /\ expanded' = NoValues

\* bindValue() or bindParam(): converted only by the next execute().
BindValue(p) ==
    /\ calls = <<>> /\ bound' = bound \cup {p}
    /\ UNCHANGED <<calls, cleared, prepared, expanded, deferred, remote, result,
                   last, count>>

CloseCursor ==
    /\ InPhp /\ result # None /\ result' = None
    /\ UNCHANGED <<bound, calls, cleared, prepared, expanded, deferred, remote,
                   last, count>>

\* CONNECT, ATTACH or DETACH of a remote database.
ChangeRemote ==
    /\ InPhp /\ remote' = ~remote
    /\ UNCHANGED <<bound, calls, cleared, prepared, expanded, deferred, result,
                   last, count>>

\* execute() or execute([...]), which replaces what was bound.
Begin(positions) ==
    /\ calls = <<>> /\ count < MaxCalls
    /\ bound' = positions
    /\ calls' = <<NewCall(positions)>> /\ count' = count + 1
    /\ UNCHANGED <<cleared, prepared, expanded, deferred, remote, result, last>>

\* execute([...]) with a name the statement does not have, found when PDO
\* normalizes it; what came before it is bound.
BeginUndefined(positions) ==
    /\ calls = <<>> /\ count < MaxCalls
    /\ bound' = positions /\ count' = count + 1
    /\ BindFailure
    /\ last' = [id |-> count + 1, missing |-> FALSE, complete |-> FALSE,
                outer |-> FALSE]
    /\ UNCHANGED <<calls, prepared, deferred, remote>>

\* PHP code in a conversion executes the statement again with what is bound.
Reenter ==
    /\ calls # <<>> /\ Call.at # None
    /\ Len(calls) < MaxDepth /\ count < MaxCalls
    /\ calls' = Append([calls EXCEPT ![Len(calls)].outer = TRUE],
                       NewCall(bound))
    /\ count' = count + 1
    /\ UNCHANGED <<bound, cleared, prepared, expanded, deferred, remote, result,
                   last>>

\* The first parameter of a call clears what DuckDB kept of the calls before.
MustClear == ~cleared

\* The hook of a parameter, up to the conversion of its value.
EnterHook(p) ==
    /\ calls # <<>> /\ Call.at = None /\ p \in Call.todo
    /\ calls' = [calls EXCEPT ![Len(calls)].at = p]
    /\ prepared' = IF MustClear THEN NoValues ELSE prepared
    /\ expanded' = IF MustClear THEN NoValues ELSE expanded
    /\ cleared' = TRUE
    /\ UNCHANGED <<bound, deferred, remote, result, last, count>>

\* Mutant: the SQL of a value is stored only for a deferred query.
Stored_IfDeferred(p) == IF deferred THEN [expanded EXCEPT ![p] = Call.id] ELSE expanded
Stored(p) == [expanded EXCEPT ![p] = Call.id]

\* The converted value is stored and bound.
Bind ==
    /\ calls # <<>> /\ Call.at \in Params
    /\ expanded' = Stored(Call.at)
    /\ prepared' = IF deferred THEN prepared
                   ELSE [prepared EXCEPT ![Call.at] = Call.id]
    /\ calls' = [calls EXCEPT ![Len(calls)].at = None,
                              ![Len(calls)].todo = @ \ {Call.at}]
    /\ UNCHANGED <<bound, cleared, deferred, remote, result, last, count>>

\* The conversion throws, the value is refused, or the position is not one of
\* the statement.
BindFails ==
    /\ calls # <<>> /\ Call.at # None
    /\ BindFailure /\ Return(FALSE)
    /\ UNCHANGED <<bound, prepared, deferred, remote, count>>

-----------------------------------------------------------------------------
(* The driver's executer, once every bound parameter has been converted.    *)

\* Mutant: without a bound parameter nothing is cleared.
Retained_All(values) == values
\* What is left of the values when no parameter of this call cleared them.
Retained(values) == IF cleared THEN values ELSE NoValues

Complete(values) == \A p \in Params : values[p] # 0

ReadyToRun == calls # <<>> /\ Call.at = None /\ Call.todo = {}

\* A sandbox denies it before it looks at the parameters, or a bridge call fails.
ExecuteDenied ==
    /\ ReadyToRun
    /\ prepared' = Retained(prepared) /\ expanded' = Retained(expanded)
    /\ cleared' = FALSE /\ result' = None /\ Return(FALSE)
    /\ UNCHANGED <<bound, deferred, remote, count>>

Execute ==
    LET path == deferred \/ remote
        values == IF path THEN Retained(expanded) ELSE Retained(prepared)
    IN /\ ReadyToRun
       /\ deferred' = path
       /\ prepared' = Retained(prepared) /\ expanded' = NoValues
       /\ cleared' = FALSE
       /\ \/ ~Complete(values) /\ result' = None /\ Return(TRUE)
          \/ Complete(values) /\ result' = None /\ Return(FALSE)   \* DuckDB fails
          \/ /\ Complete(values)
             /\ result' = [call |-> Call.id, values |-> values] /\ Return(FALSE)
       /\ UNCHANGED <<bound, remote, count>>

Next ==
    \/ \E p \in Params \cup Extra : BindValue(p) \/ EnterHook(p)
    \/ \E positions \in SUBSET (Params \cup Extra) :
          Begin(positions) \/ BeginUndefined(positions)
    \/ Reenter \/ CloseCursor \/ ChangeRemote
    \/ Bind \/ BindFails \/ ExecuteDenied \/ Execute

Spec == Init /\ [][Next]_vars

-----------------------------------------------------------------------------
\* A query runs with the values the same call converted, never with one an
\* earlier, an outer or an inner call left behind, whether or not the query is
\* deferred (php_pdo_duckdb_int.h:161).
ValuesOfOneCall ==
    result # None => \A p \in Params : result.values[p] = result.call

\* A readable result is that of the call that ended last: a call that failed,
\* while binding or executing, leaves none (duckdb_statement.c:3236).
ResultOfLastCall ==
    result # None => result.call = last.id

\* A call for which every parameter is bound is not refused for a missing one,
\* even if a remote database was attached while its values were converted; only
\* one during which the statement was executed again is.
CompleteCallsRun ==
    last.missing /\ last.complete => last.outer

=============================================================================
