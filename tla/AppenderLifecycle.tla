-------------------------- MODULE AppenderLifecycle --------------------------
(***************************************************************************)
(* Bulk appenders on one native connection (duckdb_appender.c), the        *)
(* transaction their rows land in, and the orders in which PHP frees       *)
(* appenders and PDO objects: by reference count, or by a garbage          *)
(* collection or shutdown sweep that ignores references.                   *)
(*                                                                         *)
(* Rows are tokens.  A native buffer is flushed, fails to flush, or is     *)
(* cleared; which row of a batch broke is not modelled.                    *)
(***************************************************************************)
EXTENDS Naturals, FiniteSets

CONSTANTS
    Appenders,   \* appender objects
    Pdos,        \* PDO objects that share the connection
    Rows,        \* rows a program appends, each at most once
    None,
    Kinds,       \* "ordinary": a connection of one PDO object at a time, that
                 \* closes with it; "persistent": one that outlives its objects
    Relaxable,   \* those that a later request may use after a refusal
    FlushEvery   \* rows after which DuckDB flushes by itself (204,800)

ASSUME AppenderAssumption ==
    /\ None \notin Pdos
    /\ Relaxable \subseteq Kinds /\ Kinds \subseteq {"ordinary", "persistent"}
    /\ FlushEvery \in Nat \ {0}

VARIABLES
    kind,       \* the kind of the connection, which never changes
    handle,     \* "none", "open", or "closing" while the closer runs
    allowed,    \* does native_enter let this thread in?
    pdo,        \* pdo[w]: "none", "live", or "freed" (IS_OBJ_FREE_CALLED)
    garbage,    \* PDO objects that only a sweep can reach
    app,        \* app[a]: the appender object
    inTxn,      \* PDO's transaction flag
    txn,        \* the native transaction: "none", "open" or "aborted"
    buffer,     \* buffer[a]: rows in a's native appender
    work,       \* rows in the open native transaction
    committed,  \* rows in the database
    accepted,   \* rows appendRow accepted
    abandoned   \* rows a rollback, a failure or the sandbox gave up

rowVars == <<buffer, work, committed, accepted, abandoned>>
phpVars == <<pdo, garbage>>
vars == <<kind, handle, allowed, phpVars, app, inTxn, txn, rowVars>>

AppenderRecord == [pdo: Pdos \cup {None}, native: BOOLEAN, closed: BOOLEAN,
                   linked: BOOLEAN]

NoAppender == [pdo |-> None, native |-> FALSE, closed |-> FALSE,
               linked |-> FALSE]

TypeOK ==
    /\ kind \in Kinds
    /\ handle \in {"none", "open", "closing"}
    /\ allowed \in BOOLEAN
    /\ pdo \in [Pdos -> {"none", "live", "freed"}]
    /\ garbage \subseteq Pdos
    /\ app \in [Appenders -> AppenderRecord]
    /\ inTxn \in BOOLEAN
    /\ txn \in {"none", "open", "aborted"}
    /\ buffer \in [Appenders -> SUBSET Rows]
    /\ work \subseteq Rows
    /\ committed \subseteq Rows
    /\ accepted \subseteq Rows
    /\ abandoned \subseteq Rows

Init ==
    /\ kind \in Kinds
    /\ handle = "none"
    /\ allowed = TRUE
    /\ pdo = [w \in Pdos |-> "none"]
    /\ garbage = {}
    /\ app = [a \in Appenders |-> NoAppender]
    /\ inTxn = FALSE
    /\ txn = "none"
    /\ buffer = [a \in Appenders |-> {}]
    /\ work = {}
    /\ committed = {}
    /\ accepted = {}
    /\ abandoned = {}

LivePdos == {w \in Pdos : pdo[w] = "live"}
Linked == {a \in Appenders : app[a].linked}
OwnedBy(W) == {a \in Appenders : app[a].pdo \in W}
BufferedIn(S) == UNION {buffer[a] : a \in S}

\* Rows reach the open transaction or, in autocommit, the database.
Land(R) ==
    /\ txn # "aborted" \/ R = {}
    /\ work' = IF txn = "none" THEN work ELSE work \cup R
    /\ committed' = IF txn = "none" THEN committed \cup R ELSE committed

\* A failed native write aborts the transaction it was part of.
AbortTxn == txn' = IF txn = "none" THEN "none" ELSE "aborted"

-----------------------------------------------------------------------------
(* Connections and transactions.                                           *)

\* A constructor opens a connection, or checks a persistent one out; a
\* checkout by the only object runs SQL, which an aborted transaction refuses.
NewPdo(w) ==
    /\ pdo[w] # "live" /\ OwnedBy({w}) = {}
    /\ handle = "none" \/ (kind = "persistent" /\ handle = "open")
    /\ LivePdos = {} => txn # "aborted"
    /\ allowed
    /\ handle' = "open"
    /\ pdo' = [pdo EXCEPT ![w] = "live"]
    /\ garbage' = garbage \ {w}
    /\ UNCHANGED <<allowed, app, inTxn, txn, rowVars>>

\* check_liveness refuses the persistent connection, or finds it dirty or
\* remote, and closes it if no PDO object holds it.
DiscardPersistent ==
    /\ kind = "persistent" /\ handle = "open" /\ LivePdos = {}
    /\ handle' = "closing"
    /\ UNCHANGED <<allowed, phpVars, app, inTxn, txn, rowVars>>

Usable(w) == pdo[w] = "live" /\ w \notin garbage /\ allowed

\* Mutant: BEGIN as SQL is not tracked.
Begin_Untracked(w) ==
    /\ Usable(w) /\ handle = "open"
    /\ txn = "none"
    /\ txn' = "open"
    /\ UNCHANGED <<handle, allowed, phpVars, app, inTxn, rowVars>>

\* beginTransaction(), or SQL whose effect the driver tracks.
Begin(w) ==
    /\ Usable(w) /\ handle = "open"
    /\ txn = "none"
    /\ txn' = "open" /\ inTxn' = TRUE
    /\ UNCHANGED <<handle, allowed, phpVars, app, rowVars>>

\* DuckDB rolls an aborted transaction back when asked to commit it, and may
\* report that as an error, which leaves PDO's flag set.
Commit(w) ==
    /\ Usable(w) /\ handle = "open"
    /\ txn # "none"
    /\ txn' = "none"
    /\ work' = {}
    /\ IF txn = "open"
       THEN committed' = committed \cup work /\ abandoned' = abandoned
       ELSE committed' = committed /\ abandoned' = abandoned \cup work
    /\ inTxn' \in IF txn = "open" THEN {FALSE} ELSE {FALSE, inTxn}
    /\ UNCHANGED <<handle, allowed, phpVars, app, buffer, accepted>>

\* Mutant: every appender's rows are discarded.
Discards_All(a, W) == app[a].native /\ ~app[a].closed

\* The appenders discard_for_rollback clears, when the objects W were freed.
Discards(a, W) == app[a].native /\ ~app[a].closed /\ app[a].pdo \in W

DiscardForRollback(W) ==
    buffer' = [a \in Appenders |-> IF Discards(a, W) /\ a \in Linked THEN {}
                                   ELSE buffer[a]]

FreedPdos == {w \in Pdos : pdo[w] = "freed"}

\* rollBack() on a live object: buffered rows stay buffered.
Rollback(w) ==
    /\ Usable(w) /\ handle = "open" /\ inTxn
    /\ DiscardForRollback(FreedPdos)
    /\ txn' = "none" /\ inTxn' = FALSE
    /\ work' = {}
    /\ abandoned' = abandoned \cup work \cup BufferedIn(OwnedBy(FreedPdos))
    /\ UNCHANGED <<handle, allowed, phpVars, app, committed, accepted>>

\* A statement fails in a transaction, which aborts it (README.md:702).
StatementFails(w) ==
    /\ Usable(w) /\ handle = "open"
    /\ txn = "open" /\ txn' = "aborted"
    /\ UNCHANGED <<handle, allowed, phpVars, app, inTxn, rowVars>>

-----------------------------------------------------------------------------
(* Appender objects.                                                       *)

Live(a) == app[a].native /\ ~app[a].closed /\ allowed

\* The rows of a poisoned native appender stay in its buffer.
Poison(a) ==
    /\ app' = [app EXCEPT ![a].closed = TRUE]
    /\ abandoned' = abandoned \cup buffer[a]
    /\ UNCHANGED <<handle, allowed, phpVars, inTxn, buffer, work, committed,
                   accepted>>

Create(a, w) ==
    /\ Usable(w) /\ handle = "open"
    /\ app[a].pdo = None
    /\ txn # "aborted"
    /\ app' = [app EXCEPT ![a] = [pdo |-> w, native |-> TRUE, linked |-> TRUE,
                                  closed |-> FALSE]]
    /\ UNCHANGED <<handle, allowed, phpVars, inTxn, txn, rowVars>>

\* A column that cannot be added makes the new object closed; it is freed.
CreateFails(a, w) ==
    /\ Usable(w) /\ handle = "open"
    /\ app[a].pdo = None
    /\ app' = [app EXCEPT ![a] = [pdo |-> w, native |-> TRUE, linked |-> TRUE,
                                  closed |-> TRUE]]
    /\ UNCHANGED <<handle, allowed, phpVars, inTxn, txn, rowVars>>

\* Can the program still call a method of the appender?  A warning handler
\* can, while the closer releases another appender.
Reachable(a) == app[a].pdo # None /\
                (handle = "closing" \/ app[a].pdo \notin garbage)

\* A valid row is buffered; a full buffer is flushed on the way.
AppendRow(a, r) ==
    /\ Reachable(a) /\ Live(a)
    /\ r \notin accepted
    /\ \/ /\ Cardinality(buffer[a]) + 1 < FlushEvery
          /\ buffer' = [buffer EXCEPT ![a] = @ \cup {r}]
          /\ UNCHANGED <<work, committed>>
       \/ /\ Cardinality(buffer[a]) + 1 >= FlushEvery
          /\ buffer' = [buffer EXCEPT ![a] = {}]
          /\ Land(buffer[a] \cup {r})
    /\ accepted' = accepted \cup {r}
    /\ UNCHANGED <<handle, allowed, phpVars, app, inTxn, txn, abandoned>>

\* The CAST probe of a value fails: the row is refused and the appender stays
\* usable, but the probe ran in the transaction, which it may have aborted.
ProbeFails(a) ==
    /\ Reachable(a) /\ Live(a)
    /\ txn = "open" /\ txn' = "aborted"
    /\ UNCHANGED <<handle, allowed, phpVars, app, inTxn, rowVars>>

\* The native append, or the flush it triggers, fails.
AppendRowFails(a) ==
    /\ Reachable(a) /\ Live(a)
    /\ Poison(a)
    /\ AbortTxn \/ txn' = txn

Flush(a) ==
    /\ Reachable(a) /\ Live(a)
    /\ Land(buffer[a])
    /\ buffer' = [buffer EXCEPT ![a] = {}]
    /\ UNCHANGED <<handle, allowed, phpVars, app, inTxn, txn, accepted,
                   abandoned>>

\* flush() or close() fails.
FlushFails(a) ==
    /\ Reachable(a) /\ Live(a)
    /\ buffer[a] # {}
    /\ Poison(a)
    /\ AbortTxn

CloseAppender(a) ==
    /\ Reachable(a) /\ Live(a)
    /\ Land(buffer[a])
    /\ buffer' = [buffer EXCEPT ![a] = {}]
    /\ app' = [app EXCEPT ![a].closed = TRUE]
    /\ UNCHANGED <<handle, allowed, phpVars, inTxn, txn, accepted, abandoned>>

-----------------------------------------------------------------------------
(* Destruction.                                                            *)

\* Mutant: destroy is reached with the rows of a failed close in the buffer.
Cleared_Not(R) == R

\* What duckdb_appender_clear leaves for the destroy, which closes again.
Cleared(R) == {}

Closes(a) == app[a].native /\ ~app[a].closed /\ allowed

\* release_native: close if the appender is live and may, then clear,
\* destroy and unlink it, whatever the close did.
ReleaseNative(a) ==
    /\ \/ /\ Closes(a)
          /\ Land(buffer[a])
          /\ UNCHANGED <<txn, abandoned>>
       \/ /\ Closes(a)
          /\ buffer[a] # {}
          /\ AbortTxn
          /\ Land(Cleared(buffer[a]))
          /\ abandoned' = abandoned \cup buffer[a]
       \/ /\ ~Closes(a)
          /\ txn' = txn
          /\ Land(Cleared(buffer[a]))
          /\ abandoned' = IF app[a].closed \/ ~allowed
                          THEN abandoned \cup buffer[a] ELSE abandoned
    /\ buffer' = [buffer EXCEPT ![a] = {}]
    /\ accepted' = accepted

\* free_obj of an appender, when its references are gone or a sweep runs.
FreeAppender(a) ==
    /\ app[a].pdo # None
    /\ IF app[a].linked THEN ReleaseNative(a)
       ELSE UNCHANGED <<txn, rowVars>>
    /\ app' = [app EXCEPT ![a] = NoAppender]
    /\ UNCHANGED <<handle, allowed, phpVars, inTxn>>

\* A PDO object and the appenders that refer to it become unreachable
\* together, in a reference cycle or at shutdown.
BecomeGarbage(w) ==
    /\ pdo[w] = "live"
    /\ garbage' = garbage \cup {w}
    /\ UNCHANGED <<handle, allowed, pdo, app, inTxn, txn, rowVars>>

\* free_obj of a PDO object rolls an open transaction back.  Of several
\* objects on a persistent handle, PHP versions do so for the first freed or
\* for the last.  PDO resets its flag even when the driver's rollback is
\* denied.  An ordinary connection is then closed.
FreePdo(w) ==
    /\ pdo[w] = "live"
    /\ w \in garbage \/ OwnedBy({w}) = {}
    /\ pdo' = [pdo EXCEPT ![w] = "freed"]
    /\ garbage' = garbage \ {w}
    /\ \/ /\ inTxn
          /\ DiscardForRollback(FreedPdos \cup {w})
          /\ abandoned' = abandoned \cup work
                            \cup BufferedIn(OwnedBy(FreedPdos \cup {w}))
          /\ IF allowed THEN txn' = "none" /\ work' = {}
             ELSE UNCHANGED <<txn, work>>
          /\ inTxn' = FALSE
       \/ /\ ~inTxn \/ LivePdos # {w}
          /\ UNCHANGED <<txn, inTxn, work, buffer, abandoned>>
    /\ handle' = IF kind = "persistent" THEN handle ELSE "closing"
    /\ UNCHANGED <<allowed, app, committed, accepted>>

\* Mutant: a released appender stays in the list.
CloserReleases_KeepsLink(a) ==
    /\ handle = "closing"
    /\ app[a].linked
    /\ ReleaseNative(a)
    /\ app' = [app EXCEPT ![a].native = FALSE, ![a].closed = TRUE]
    /\ UNCHANGED <<handle, allowed, phpVars, inTxn>>

\* The closer releases the first appender of the handle's list; a warning
\* handler may run before it looks for the next.
CloserReleases(a) ==
    /\ handle = "closing"
    /\ app[a].linked
    /\ ReleaseNative(a)
    /\ app' = [app EXCEPT ![a].native = FALSE, ![a].closed = TRUE,
                          ![a].linked = FALSE]
    /\ UNCHANGED <<handle, allowed, phpVars, inTxn>>

\* Mutant: the closer disconnects without looking at the list.
ReadyToDisconnect_Always == TRUE

ReadyToDisconnect == Linked = {}

\* Disconnecting ends the native transaction.
Disconnect ==
    /\ handle = "closing"
    /\ ReadyToDisconnect
    /\ handle' = "none"
    /\ txn' = "none" /\ inTxn' = FALSE
    /\ work' = {}
    /\ abandoned' = abandoned \cup work
    /\ UNCHANGED <<allowed, phpVars, app, buffer, committed, accepted>>

\* The sandbox starts to refuse the thread: open_basedir is tightened, or a
\* transition failed.  A later request, which starts when no object is left
\* and no closer runs, may have the recorded value again.
SandboxCheck(b) ==
    /\ b # allowed
    /\ b => kind \in Relaxable /\ LivePdos = {} /\ OwnedBy(Pdos) = {} /\ handle # "closing"
    /\ allowed' = b
    /\ UNCHANGED <<handle, phpVars, app, inTxn, txn, rowVars>>

-----------------------------------------------------------------------------

\* The closer is a loop.
Closer == Disconnect \/ \E a \in Appenders : CloserReleases(a)

Next ==
    /\ UNCHANGED kind
    /\ \/ \E w \in Pdos : \/ NewPdo(w) \/ Begin(w) \/ Commit(w) \/ Rollback(w)
                          \/ StatementFails(w) \/ BecomeGarbage(w) \/ FreePdo(w)
                          \/ \E a \in Appenders : Create(a, w) \/ CreateFails(a, w)
       \/ \E a \in Appenders : \/ \E r \in Rows : AppendRow(a, r)
                               \/ ProbeFails(a) \/ AppendRowFails(a) \/ Flush(a) \/ FlushFails(a)
                               \/ CloseAppender(a) \/ FreeAppender(a)
       \/ DiscardPersistent \/ Closer
       \/ \E b \in BOOLEAN : SandboxCheck(b)

Spec == Init /\ [][Next]_vars

\* The closer goes on when a warning handler returns.
Fairness == WF_vars(UNCHANGED kind /\ Closer)

FairSpec == Spec /\ Fairness

-----------------------------------------------------------------------------
(* Properties.                                                             *)

\* A row of a transaction that was rolled back, or of a buffer that was
\* discarded or whose write failed, never reaches the database, whichever of
\* the appender and its PDO object PHP frees first (README, "Appender":
\* "They are never flushed later").
AbandonedRowsStayOut == abandoned \cap committed = {}

\* Every accepted row is buffered, in the open transaction, committed, or
\* lost for a reason the program was told of or asked for: release_native
\* flushes what it may, and rollBack() keeps what is buffered.
RowsAccountedFor ==
    accepted \subseteq BufferedIn(Appenders) \cup work \cup committed
                          \cup abandoned

\* No native appender outlives its connection, and no appender object keeps
\* the freed handle: handle_closer releases them all before it disconnects.
ReleasedBeforeDisconnect ==
    handle = "none" =>
        \A a \in Appenders : ~app[a].native /\ ~app[a].linked

\* A transaction that is open on a connection in use shows in PDO's flag, so
\* that freeing the PDO object rolls it back (README, "Transactions": "so a
\* persistent handle can't keep an invisible transaction after PHP releases
\* the PDO object").
NoInvisibleTransaction ==
    LivePdos # {} /\ allowed /\ txn # "none" => inTxn

\* A closer that starts ends with the connection closed, whatever warning
\* handlers do between the appenders it releases.
CloserFinishes == handle = "closing" ~> handle = "none"

=============================================================================
