# pdo_duckdb in TLA+

A model of the parts of pdo_duckdb whose correctness depends on order: which
thread holds which lock, which object PHP frees first, which step of several
fails. Paths below are relative to the repository root. `PROJECT.json` maps
every definition to the lines it stands for.

## 1. The system

pdo_duckdb is a PDO driver: PHP calls it through the method tables of PDO core
and it calls DuckDB's C API, plus a C++ bridge for what that API lacks. One
process may run many request threads (a ZTS build); each thread runs one
request at a time.

| Component | Code | State | Operations |
|---|---|---|---|
| Instance registry | `duckdb_driver.c` 45-298, 380-436 | list `pdo_duckdb_instances`; per instance a recursive mutex, path, (device, inode), member handles, sandbox flags | open, share, refuse, close, free |
| Sandbox | `duckdb_driver.c` 1524-2001 | `external_access_disabled`, `sandbox_refused`, `sandbox_basedir` of the instance; settings locked in the database | `native_enter`, transition, refusal, cleanup entry |
| Bulk appender | `duckdb_appender.c` | per appender: native handle, `closed`, link to the handle's list, reference to the PDO object | create, appendRow, flush, close, free, discard for rollback |
| Transactions | `duckdb_driver.c` 444-1345 | PDO's `in_txn`, DuckDB's transaction | begin, commit, rollback, SQL whose effect a scanner finds, several statements in one `exec()` |
| Persistent connections | `duckdb_driver.c` 2003-2128 | the handle in PHP's persistent list | checkout (`check_liveness`), discard |
| Statements | `duckdb_statement.c` | prepared statement, bindings, result, current chunk, thread-local caches | prepare, bind, execute, fetch, close cursor, destroy |
| Filesystem guard | `pdo_duckdb_bridge_filesystem.cpp` | canonical path per live file, owners, references of unfinished queries | canonicalise, register, capture, install, refresh |
| Connection factory | `duckdb_driver.c` 2131-2870 | configuration being built | parse options, open, enter sandbox, bailout cleanup |
| SQL plan | `pdo_duckdb_sql.c` | token list of a statement | find placeholders, expand them |
| Value conversion | `duckdb_value.c`, `pdo_duckdb_bridge_types.cpp`, `pdo_duckdb_bridge_variant.cpp`, `pdo_duckdb_bridge_appender.cpp` | none beyond a call | render a cell, build a cell |
| Query and logging bridges | `pdo_duckdb_bridge_query.cpp`, `pdo_duckdb_bridge_logging.cpp` | a deferred result; sinks of a database | query, stop file writers |
| Profiles, table names, module entry, static extensions | `duckdb_driver.c`, `pdo_duckdb.c`, `duckdb_static_extensions.c` | none of their own | read-only reports; startup |

**How they interact.** Opens and closes take the registry mutex and, inside it,
the mutex of one instance. Every other native call takes the instance mutex
only, through `native_enter`, which first checks the sandbox of the instance
against the thread's `open_basedir` and may put the sandbox in place. Freeing a
PDO object rolls a transaction back (PDO core) and then calls the closer, which
releases the appenders of the handle before it takes any mutex, because
releasing one can raise a warning and so run PHP code. The appender keeps its
PDO object alive by a reference, which a cycle collection or the shutdown sweep
ignores. The filesystem guard sits under DuckDB's instance cache and decides
whether two paths are one database.

**What is hard.** Two threads meeting in the registry while an instance dies; a
file renamed or linked between two opens, or between a `stat` and the open it
guards; a sandbox put in place by one handle under the feet of its siblings;
refusals, failures and bailouts in the middle of a transition; object
destruction in an order no reference counting would produce; a native flush that
fails while PHP is already tearing down. `PROJECT.json` lists these as hazards
with their lines.

**What makes each component correct.**

- Registry: no mutex or record is used after it is freed, none leaks, and one
  database has one instance, hence one mutex and one sandbox state.
- Sandbox: a thread under an `open_basedir` runs SQL only on a database confined
  to that value; confinement and refusal last.
- Appender: a row is either in the database or lost for a reason the program was
  told of or asked for, and a row given up never returns.
- Transactions: what PDO believes is what DuckDB does, as far as PDO relies on it
  to clean up.
- Persistent connections: a checkout hands out a clean, permitted connection.
- Statements: no stale binding, chunk or result; results are freed exactly once.
- Filesystem guard: a live file has one canonical path for as long as any
  database uses it.

## 2. The modules

| Module | What it is |
|---|---|
| `InstanceRegistry` | registry, instance mutexes, opens and closes, `native_enter`, the sandbox decision |
| `SharedDatabase` | what the driver promises of a shared database, without locks and memory |
| `InstanceRefinement` | the mapping under which the first implements the second |
| `InstanceRegistryProofs` | who holds what, which handles share an instance and a database, and the refinement: theorems |
| `InstanceRaces` | the first, with a note of files that change in the middle of an open |
| `SandboxProfile` | the sandbox transition call by call, which `InstanceRegistry` takes as one step |
| `SandboxProfileProofs` | what is in force before each call of it, and theorems |
| `FilesystemIdentity` | the guard beneath DuckDB's instance cache, which `InstanceRegistry` takes as `Known` |
| `FilesystemIdentityProofs` | which file an entry stands for, and theorems |
| `AppenderLifecycle` | appenders, their transaction, PDO objects, destruction orders |
| `AppenderLifecycleProofs` | where an accepted row can be, and theorems |
| `AppenderChecks` | what `appendRow()` checks of a scalar before the native append |
| `NumberRendering` | the digits of wide integers, DECIMALs, times and intervals |
| `TransactionTracking` | PDO's transaction flag and DuckDB's transaction |
| `SqlScanner` | the transaction scanner: tokens of a text, effects of a batch |
| `SqlReference`, `SqlGrammar` | what DuckDB makes of a text, and of a batch (external) |
| `SqlBatches` | the scanner's effects against the grammar |
| `SqlPlanLexer`, `SqlPlan` | where `prepare()` finds placeholders; how it numbers and expands them |
| `SqlProofs` | when the flag is exact and what it is owed; where the scanner meets the lexers; how it finds the statements of a batch; theorems |
| `StatementBindings` | parameters of a statement, re-entrant `execute()`, deferred queries |
| `StatementBindingsProofs` | what the innermost call has converted; what the plan of a statement is as its text is read; theorems |
| `StatementResults` | results, streams, chunks and the caches the statements of a thread share |
| `StatementResultsProofs` | who holds a chunk and what the caches describe, and theorems |
| `Recursion` | induction and recursive definitions, for the proofs about data |
| `MC...` | model values, symmetry and inputs for TLC |

### InstanceRegistry

A step of the model is what a thread does between two lock operations, with
`ctl[t].pc` naming the place:

- *Open* (`open_registry` … `open_finish`): `pdo_duckdb_open_instance`.
  `OpenShare`, `OpenCreate` and `OpenLookupFails` are the outcomes of the search
  of the list; `OpenLinked` and `OpenNativeFails` those of the native open,
  connect and identity check made under the instance mutex; `OpenFailed` frees a
  record this call created.
- *Use* (`enter_lock`, `enter_check`, `running`): `native_enter`. `Admit`,
  `Deny`, `Sandbox` and `SandboxFails` are the outcomes of
  `enforce_sandbox_locked`. `plain_lock`/`plain_held` is the second, unchecked
  lock a refused caller takes to read the error or discard an appender.
- *Close* (`close_registry` … `close_finish`): `duckdb_handle_closer`.
- `SetBasedir` is `ini_set` or the next request on the thread; `ChangeFile` is
  another process renaming, linking or unlinking a file.

The memory of instance records is explicit: `allocated` says which addresses
are live, an address is reused by a later open, and a freed record is blank.
Native databases are addresses too, so that a new database may get the place of
an old one. DuckDB's instance cache and the guard beneath it appear as what they
promise, in `Known`, `NativeShared` and `NativeOpened`.

Abstractions, all of them decided for what the properties tell apart:

- The transition to the sandbox (`disable_external_access` and what it calls) is
  one step, because all of it runs under the instance mutex. That hides the order
  *within* it, which is the subject of `SandboxProfile`.
- A persistent handle belongs to one thread (PHP's persistent list is
  per thread), so `owner` covers both kinds of handle.
- The `stat` after the native open is taken in the same step as the open. The
  window before the open, the one that matters for the check, is there when
  `RacingReplacement` is true.
- `same_path` compares case-sensitively, as on POSIX.
- Without ZTS both mutexes are no-ops and one thread exists: a special case.

### SharedDatabase and InstanceRefinement

`SharedDatabase` has handles that join and leave databases, a policy per
database (the value it is confined to, whether it refuses) and users whose SQL
runs alone. `InstanceRefinement` maps a handle's session to `hDb`, the policy of
a database to what the instance of its handles records, and running SQL to the
threads in `running`. Opening, closing, lock traffic and the life of records
become stuttering or a single abstract step.

### AppenderLifecycle

One native connection, its appenders, and the PDO objects that use it: one for
an ordinary connection, two for a persistent one. Rows are tokens that move from
`accepted` through a native `buffer` to the open transaction (`work`) and to
`committed`, or to `abandoned`.

Objects die in the orders PHP allows: `FreeAppender` and `FreePdo` follow
references while the object is reachable and come in any order once it is
garbage (`BecomeGarbage`), as in a cycle collection or at shutdown. `FreePdo`
contains PDO core's rollback; `CloserReleases` is one round of the closer's
loop, and other actions may come between rounds because a warning handler may
run. `ReleaseNative` is the whole of `appender_release_native`: an optional
close, which may fail, then clear and destroy. A native destroy closes once
more, so what `Cleared` leaves in the buffer would still be written.

DuckDB's part is modelled from the way the driver uses it and marked external:
a flush lands rows in the open transaction or in the database, and a failed
write aborts the transaction it is part of.

A connection is `ordinary` or `persistent`; `Relaxable` says for which of them
`open_basedir` may be loosened again by a later request.

Not in this module: the conversion of a row's values.

### AppenderChecks

A failed native append discards every row its appender has buffered, so
`appendRow()` judges each scalar first. `Check` is the table that
`plan_checks` fills for a column: no check, an integer range, bounds inside
which no probe is needed (`Bounds`), the float limit, or the probe, a prepared
`CAST`. `Casts` is DuckDB's answer, for a double cut off or rounded. Widths and
precisions are scaled down together, so that a bound is rounded when it becomes a
double, and so is a `long` that is compared with it, as in the code. A column
without a probe (`probed` is false, for a type that has none or because the
probe could not be prepared) leaves the decision to the append.

### NumberRendering

What `fast_col_to_string` and its cached variant write for HUGEINT, UHUGEINT,
DECIMAL, TIME_NS, INTERVAL and for the offset of TIMETZ. `Stored` is the vector's
two words, `Magnitude` the negation with its carry, `FormatWide` the digits in
both builds, with the compiler's 128-bit integers or by `Divide`, bit by bit. A
text keeps its sign, digits and point. `Damaged` has the metadata that only a
damaged file contains and that must go to DuckDB's own cast.

### SandboxProfile

`pdo_duckdb_disable_external_access` and what it calls, one action per native
call, in `step`: clear the instance's log and open an inspector (`Start`,
`Connect`), stop the file sinks of every member (`ClearWriters`), list the
extensions (`ListExtensions`, `Retry`, `ListFails`, `ListBreaks`), stop quack
listeners and contain a refused instance (`StopListeners`, `ContainSetting`), then
the two lists of settings with the detaching of databases between them
(`RunSetting`, `Detach`), and the record (`Record`). Every call may fail and the
allocator may bail out (`Bailout`). The instance mutex is held, so only clients
of a listener (`Attach`, `SetTemp`, `EnableLogging`), other processes that
install extensions (`Install`) and time (`Late`) interleave. DuckDB's rules for
settings are in `Settable` and `Effect`: an allowlist cannot be emptied once
external access is off, and turning it off allows what is attached.

### FilesystemIdentity

Each operation of the registry of paths is a step, because its mutex is held
throughout. `entries` holds a path, the file it was seen to name, the DuckDB
instances that own it and the unfinished queries that wait for a file to appear.
`Canonicalize`, `Completed` (the end of a query), `Refresh`, `Close` and `Detach`
are the code's; `Open` and `CreateLater` are DuckDB's, and `OtherProcess` links,
replaces and unlinks names. Two assumptions: a name that is being opened or
created is left alone by other processes, the contract of the repository's
`README.md` 119-123, since the check and DuckDB's open are two system calls; and a
new file does not get an identity that an entry still remembers, because the
file is open and its inode is in use.

### The SQL modules

Texts are sequences of abstract characters, one for each way in which some lexer
tells characters apart: `E` (which opens an escape literal) and `a` for the other
ASCII letters and the underscore, a digit, blanks, quotes, backslash, comment
characters, semicolon, dollar, `?` and `:`; `hi` for a character of bytes >= 0x80,
`us` for a Unicode space, which is made of such bytes too, and `bq` for the
backtick, which quotes names in builds against DuckDB 2.0 (against 1.5 it is like any
character without a meaning of its own). `SqlScanner` and
`SqlPlanLexer` translate the two hand-written lexers of the driver; `SqlReference`
reads one character at a time with a mode, the way a lexer generated from a grammar
would. The three do not class the characters alike, and each keeps its own classes:

| Class | Scanner (`duckdb_driver.c`) | `prepare()` (`pdo_duckdb_sql.c`) | DuckDB |
|---|---|---|---|
| starts a word | `Letters` (728-731) | `Letters`, `hi`; `us` is a blank there (9-12) | `Letters`, `hi` |
| continues a word | `Letters`, `Digits`, `$` (733-736) | the same, `hi`, `us` (14-17) | the same and `hi` |
| tag of a dollar quote | `Letters`, `hi`, `us`, then `Digits` (752-754) | the same (100-123) | the same |
| backtick | a token of one character | quotes (311-316, 346-351) | quotes |

So a name can be cut by the scanner, and what `README.md` 320 and 356 say of quoted
text and of transaction control then fails. `Splits` is that case: a token of the
scanner inside one name that opens a literal for the scanner, or a name in
backticks. `SeparatorsAgree` and `PlaceholdersAgree` are claimed of all other texts,
since they are false of the code on these; section 3 (*Split names*) has the texts.
What DuckDB reads as code (`code`) is also compared with the placeholders directly,
in `PlaceholdersAreCode`, without the scanner between: there a split name does no
harm, and only a Unicode space right after a name does. `Ambiguous` takes out
the texts on which the driver's two lexers need not meet: a placeholder whose name
ends for one of them in the middle of a word or an escape literal of the other
(`:a$`, `:E'...'`, `$E'...'` or `$ a$`, a name behind a blank). No statement that
DuckDB accepts has one of these beside a placeholder of PDO's. Numbers with a
digit separator (`1_1`) are not modelled. Batches are sequences
of tokens. `SqlGrammar` says which statements they hold and what each does. A
statement for `SqlPlan` is the sequence of its placeholders; `DuckNumbers` says
which number DuckDB gives each.

### TransactionTracking

`native` is DuckDB's transaction, `inTxn` is PDO's flag. `Begin`, `Commit` and
`Rollback` are PDO's methods, `Execute` is a prepared statement, and `Exec` picks
the path of `exec()`: one native query, the driver's own loop over the statements
(`multi`), or the bridge. Whatever runs may fail (`Outcomes`), and `native_enter`
may deny a call, between two statements of a batch too. `lost` notes a transaction
that ended in a failed `COMMIT`.

### StatementBindings

`calls` is the stack of `execute()` calls: converting a parameter runs PHP code
(`EnterHook`), which may close the cursor, change whether queries must be deferred, or
execute the same statement again. A value is identified by the call that converted
it and is stored twice, for DuckDB's statement (`prepared`) and for the text of a
deferred query (`expanded`). A re-entrant `execute([...])` is left out: PDO core
itself then frees the table it is walking (`CHANGELOG.md` 266, `tests/080`).

### StatementResults

Two or more statements on one connection. `heap` says which chunk is at each
address, so an address can be reused by the next chunk; `chunkCache` and
`auxCache` are the thread-local caches. A streaming result occupies the connection:
under DuckDB 1.5 the next query ends it, under 2.0 it refuses the query
(`README.md` 596-612). `fetch()` is a step per chunk (`PullChunk`), because the
sandbox may deny one of them (`PullDenied`) and each may fail.

## 3. Model checking

Run `tlc -config <run>.cfg <module>` from this directory.

| Run (cfg) | Module | Checks | Shows |
|---|---|---|---|
| `InstanceRegistry_racing` | `MCInstanceRegistry` | `TypeOK`, `NoUseAfterFree`, `RegisteredWhileUsed`, `OneInstanceUnlessRaced` | records are neither freed in use nor leaked; instances and databases match one to one while files change between the steps of an open or at any other moment |
| `InstanceRefinement_shared` | `MCInstanceRefinement` | `SqlIsContained`, `SqlRunsSealed`, `ContainmentLasts`, `ImplementsSharedDatabase` | SQL runs only under the confinement its thread requires, confinement lasts, and the locked implementation implements the lock-free promise |
| `InstanceRegistry_live` | `InstanceRegistry` | `EveryCallReturns` | no deadlock and no lost mutex, refusals and bailouts included |
| `SandboxProfile_seal` | `SandboxProfile` | `Sealed`, `NeverHalfApplied`, `OneFailureSparesNoSink`, `RefusalStopsListeners`, `TransitionEnds` | however the transition ends, the instance is sealed or refused, and a refusal leaves running only what could not be stopped |
| `FilesystemIdentity` | `MCFilesystemIdentity` | `TypeOK`, `OneNamePerFile`, `AttachedIsKnown` | a file in use has one canonical path, also when a query creates it and then fails |
| `AppenderLifecycle_objects` | `AppenderLifecycle` | `AbandonedRowsStayOut`, `RowsAccountedFor`, `ReleasedBeforeDisconnect`, `NoInvisibleTransaction`, `CloserFinishes` | in every order of destruction, rows are neither lost nor revived, and the closer's loop ends |
| `AppenderLifecycle_relaxed` | `AppenderLifecycle` | `NoInvisibleTransaction` | *violated*: finding 1 |
| `TransactionTracking` | `MCTransactionTracking` | `FlagCoversTransaction`, `PhantomOnlyAfterLostCommit` | PDO's flag covers DuckDB's transaction, whichever statement of a batch fails |
| `TransactionTracking_explain` | `MCTransactionTracking` | `FlagCoversTransaction` | *violated*: finding 2 |
| `Inputs` | `MCInputs` | `SeparatorsAgree`, `MultipleIsSeen`, `PlaceholdersAgree`, `PlaceholdersAreCode`, `EffectsAgree`, `SlotsFitTheArray`, `ExpansionBindsAlike`, `ChecksDecideTheCast`, `RenderedExactly` | both lexers, the scanner and the placeholder plan read SQL as DuckDB does, except where a name is split; the appender's checks decide as its casts do, and numbers read back from their text |
| `StatementBindings` | `StatementBindings` | `ValuesOfOneCall`, `ResultOfLastCall`, `CompleteCallsRun` | no execution mixes the values of two calls, and a result is that of the last call |
| `StatementResults` | `MCStatementResults` | `CachesAreCurrent`, `ChunksAreOwned`, `EveryRowOnce`, `NothingIsPinned` | interleaved statements read their own rows, each once, and a chunk is freed once |

Each property of a passing run has a mutant in `PROJECT.json`: a plausible bug
in the mapped code, written as an operator beside the original, under which the
run fails.

**Bounds.** *Registry:* two threads are enough for a race on one lock, and three
handles let two share an instance while a third opens or closes. Two instance
and two database addresses allow a record to be replaced and its address reused.
Two paths and three files cover an alias by hard link, a replaced file and a
file still held open after its path was unlinked; `MaxFileChanges` = 2 lets the
environment do two of these in one behaviour. Two `open_basedir` values let
threads disagree. The refinement run fixes the file (`MaxFileChanges` = 0, one
path) since file identity is the other run's subject. The liveness run uses two
handles, one instance and one database address, and lets one file change: what it
asks is whether locks are released. *Sandbox:* two members, two listeners, a path inside and one
outside: one of each may fail while the other must still be dealt with. One retry
(`PDO_DUCKDB_EXTENSIONS_MAX_RETRIES` is 1000) is enough to be inside, at and past
the limit. *Filesystem:* two instances and two names; three files leave one for a
replacement; two queries, one inside the other's lifetime; two foreign changes.
*Appender:* `FlushEvery` = 2 stands for the 204,800 rows after which DuckDB flushes
on its own; three rows fill a buffer, flush it and fill it again. Rows are never
appended twice, which bounds `accepted`. *Transactions:* every batch of up to three
of six statements, so that any one of them fails first, last or between. *SQL:*
texts of six or seven characters are long enough for a nested comment or a
tagged dollar quote with a semicolon after it, also behind a name that bytes >= 0x80
or a Unicode space end; four phrases for an `EXPLAIN` with options
in a batch; four placeholders for a name, its repetition and two neighbours. *Appender values:*
every integer of 11 bits and every double of 7 significant bits below 2^13, so each
limit of each column has values on it and on both sides; a double is coarser than
one unit there, as a real one is beside 2^63 or 10^18. *Rendering:* every integer of
two words of six bits, so every carry between the words, the least integer and all
lengths of text; every DECIMAL of up to three digits, of which those of two and
three need both words; seconds of 100 ticks, and sixty replaced by three.
*Bindings:* three calls, one inside another, two parameters and a position too many.
*Results:* two statements and three executions let one be overtaken and run again;
three addresses leave one to reuse; the shapes are no chunk, one of two rows,
and an empty one between two others.

**Symmetry** is declared on the model values that only identify things, for
safety runs. Runs with a liveness property use none.

**Histories.** `InstanceRaces` adds `raced`, which remembers that a file
changed in the middle of an open: what the driver cannot promise after that is
`OneInstancePerDatabase`, all it still promises is checked.

**Deadlock** is checked in the registry runs. Elsewhere the system may stop: a
program that was denied access for good and has released everything has nothing
left to do, a finished transition is not started again, and inputs and counters
are bounded. So those runs say `CHECK_DEADLOCK FALSE`.

**Fairness.** In `InstanceRegistry`, native calls return (weak fairness of
`Proceed`), which the code cannot do without, and a mutex that is released again
and again is granted to a waiting thread eventually (strong fairness of
`Acquire`), which holds of the platform mutexes unless one thread is starved
for ever. Nothing is assumed of `Begin`: a program need not open, use or close
anything. In `AppenderLifecycle`, only the closer's loop is fair. That is enough
although a warning handler may act between rounds, because the closer's own
step stays enabled meanwhile. In `SandboxProfile` the thread that runs the
transition is fair, and neither installs nor the clock are: the number of retries
alone must bound it.

**Finding 1.** The repository's `README.md` 356-358 says that "a persistent handle
can't keep an invisible transaction after PHP releases the PDO object".
`duckdb_handle_rollback` (`duckdb_driver.c` 1341) goes through `native_enter`,
which denies it when the thread's `open_basedir` was tightened after the
transaction began. PDO core ignores that result and clears its flag; the native
transaction stays open. `check_liveness` does not look for one, so a later
request whose `open_basedir` is again the recorded value gets the connection
with a transaction PDO does not know of. `AppenderLifecycle_relaxed` shows it in
six steps; in `AppenderLifecycle_objects`, where a refusal of a persistent
connection is final, the promise holds.

**Finding 2.** The same lines say "The driver also reflects raw
transaction-control SQL through `inTransaction()`". `pdo_duckdb_sql_scan_explain`
(`duckdb_driver.c` 946) takes any parenthesis after `EXPLAIN` for an option list, so
`exec("EXPLAIN (SELECT 1); BEGIN")` counts as one statement without effect: the
token after the list is the semicolon, and the `BEGIN` is skipped as its
statement. DuckDB runs both statements; `inTransaction()` stays false.
`TransactionTracking_explain` shows it. `EffectsAgree` excludes exactly these
batches. `TransactionTracking` also has a batch with such an `EXPLAIN` whose statements
DuckDB counts differently than the driver's own loop over them does; that loop
refuses it.

**Split names.** Two more places where the code does not do what the repository
says, which the hypotheses of the properties name instead of a run.

- `SELECT 1 AS é$$; BEGIN`: the scanner's word characters are ASCII
  (`duckdb_driver.c` 728-736), its tag characters are not (752-754). It reads the
  name as a byte sequence without meaning and then `$$`, an untagged dollar quote
  that swallows `; BEGIN`; DuckDB reads one identifier and two statements. The flag
  misses the transaction that `README.md` 356-358 says it reflects, and that the
  comment at `duckdb_driver.c` 748-751 means to keep visible. In the model the text
  is `hi $ $ ;`: without `Splits`, `SeparatorsAgree` fails on it, and in a 2.0 build
  on a semicolon in backticks, `bq ;`. `prepare()`'s lexer has the full classes, so
  the two lexers differ too, on a question mark in `é$a$ ?` or in backticks.
- `SELECT<U+00A0>$$?$$`, with a no-break space: it separates words for DuckDB and for the scanner
  (`tests/059_transaction_aliases.phpt` 46 uses such separators), but `prepare()`'s
  `identifier_continue` (`pdo_duckdb_sql.c` 14-17, 370-374) takes its bytes for the
  rest of the word, and `$$` with them. It then finds a placeholder in what is a
  literal, against `README.md` 320. In the model it is any letter before `us $ $ ?`:
  without its hypothesis on `us`, `PlaceholdersAreCode` fails on `hi us $ $ ?`.

`MultipleIsSeen` needs no such hypothesis: the cheap test of `exec()` looks for a
semicolon and anything behind it, wherever they are.

**Not claimed of files.** The guard that canonicalises a path and DuckDB's open of
it are two system calls; `InstanceRegistry` takes them as one step (`NativeOpened`),
so a file replaced between them is not in the model, and no property says that two
databases never have one file. `README.md` 122-124 puts such a replacement outside the
contract. A change between the registry's own look at a path and that step is in the
model, and is what `raced` remembers.

## 4. Proofs

Each `...Proofs` module is checked with `tlapm <module>.tla`. The theorems hold
for any number of the things a run has two or three of, and rest on nothing but
the `ASSUME`s of the model: that NULL is none of the objects (`NoneAssumption`,
part of `AppenderAssumption` and `ProfileAssumption`) and that bounds are
numbers, that a placeholder has one of the four styles (`PlacementsAssumption`), that
the texts of `TransactionTracking` parse (`BatchesAssumption`) and that the phrases of a
batch are sequences of tokens (`PiecesAssumption`).
Two theorems of `InstanceRegistryProofs` and those of `SqlProofs` about the flag
state a further hypothesis, in their own text; it is explained there. The
unqualified "`Spec => []P`" is meant where only `P` is named. Every `Invariance` theorem states the inductive invariant
`IInv` of its module; no property listed here is inductive by itself.

### InstanceRegistryProofs: locks

| Theorem | States |
|---|---|
| `TypeCorrect` | `TypeOK` |
| `NoDanglingInstance` | `NoUseAfterFree` |
| `Containment` | `SqlIsContained` |
| `ContainmentPersists` | `Spec => ContainmentLasts` |

`IInv` adds to `TypeOK`:

- `RegistryHeld` and `MutexHeld`: a mutex is held by exactly the thread whose
  control is inside its critical section. Exclusion is the source of everything
  else: it makes the thread at `close_finish` the only one to touch the list.
- `Owned` and `AtRest`: a thread works on a handle of its own, and a handle is
  worked on by one thread at a time.
- `Phases`: what a thread has established by each label, such as that a handle
  in `open_registry` has no instance yet and one past `enter_lock` has both an
  instance and a database.
- `Linked`: a connected handle is a member of a registered instance, the fact
  that keeps `Abandoned` empty while another handle is in use; a handle with an
  instance and no connection is that of the thread holding the registry.
- `Memory`: a registered record or one some handle points at is allocated.
- `Fresh`: a record created by an open in progress is not registered until its
  handle connects, so that no other thread reaches it and `OpenFailed` may free
  it.

`Containment` needs one more observation: only the holder of the instance mutex
can write the sandbox fields of its record while a thread is in `running`, and
an `open_basedir` changes only in a thread that is idle. The proof has one lemma
per action; `ContainmentPersists` follows from the invariant and `NoUseAfterFree`.

### InstanceRegistryProofs: instances and databases

| Theorem | States |
|---|---|
| `UsageInvariance` | the invariant `Usage` |
| `NothingLeaks` | `RegisteredWhileUsed` |
| `InstancesMatchDatabases` | `RacedSpec => []OneInstanceUnlessRaced` |
| `SqlIsSealed` | `RacingReplacement = FALSE` implies `Spec => []SqlRunsSealed` |
| `RegistryImplementsSharedDatabase` | `RacingReplacement = FALSE` implies `Spec => ImplementsSharedDatabase` |

`Usage` holds whatever other processes do. Its parts are `MembersExact` (the
member list of a record is the handles connected through it), `EmptyIsHeld` (a
record without members is the one the holder of the registry opens or closes),
`JoinsMembers`, `NotYetConnected` and `ValueNeedsProfile`. `OneDatabasePerFile`, which
the other parts lean on, is no result: it restates what the model assumes of a
native open (section 3, *Not claimed of files*).

`Sharing` holds while no file changes in the middle of an open: `Matching` (an
instance records the path and file of its members' database), `OnePerPath`,
`LookupHolds` (what an open found in the list is still so when it connects, the
fact a race destroys), `OneInstancePerDatabase` and `SealMatches`. For
`InstancesMatchDatabases`, `raced` says when that was; `SqlIsSealed` excludes it by
the constant, since a thread may join a database it would not have found, sealed
for another value. That is the contract of the repository's `README.md` 119-123.
`SqlIsContained`, which only needs the instance, has no such hypothesis.

`RegistryImplementsSharedDatabase` is the refinement, under the same hypothesis
(with a race two instances may stand for one database, and the mapping would have
no policy to name). `OnePolicy` shows that the mapping's `CHOOSE` does not matter,
as all handles of a database have one instance (`PolicyIsRecorded`), and that no
SQL runs on a database whose mutex another thread holds (`Exclusive`). Steps that
leave alone what connected handles record are `Unseen` and stutter; each of the
other seven has a lemma that names its abstract step: `OpenLinked` is `Connect`,
`CloseNative` is `Disconnect`, `Admit` and `Sandbox` are `Start`, `SandboxFails` is
`Refuse`, `Leave` is `Finish` and `SetBasedir` is itself. The one more thing to know
is `Closing`: a closer that holds the registry for a handle with an instance has a
connected handle to disconnect.

### SandboxProfileProofs: the transition

| Theorem | States |
|---|---|
| `TypeCorrect` | `TypeOK` |
| `SealHolds` | `Sealed` |
| `AllOrRefused` | `NeverHalfApplied` |
| `SinksAreStopped` | `OneFailureSparesNoSink` |
| `ListenersAreStopped` | `RefusalStopsListeners` |

`IInv` says what is in force before each native call: `PreProfile`,
`DetachProfile`, `PostProfile` and `FinalProfile` go through the two lists of
settings, so that the record is written only over the whole profile. `SinksStopped`
and `Listeners` say the same of sinks and listeners. What makes the profile stay
is that each setting closes the way to undo those before it, whatever a listener's
client does between two calls.

### FilesystemIdentityProofs: paths and files

| Theorem | States |
|---|---|
| `TypeCorrect` | `TypeOK`, the registry's own rules |
| `FilesHaveOnePath` | `OneNamePerFile` |
| `AttachedStaysKnown` | `AttachedIsKnown` |

An entry `Stands` for the file it remembers or, while it waits, for the one its
path names by now. `Sound` says that neither paths nor the files they stand for
repeat; `Serves`, that whatever is attached or about to be opened has the entry of
its path, which stands for its file and is referred to by that owner or query;
`Current`, that a path DuckDB may still open or create names what its entry stands
for. The operations that rewrite entries (`CaptureAll`, `QueryEnd`, `Close`) are
one lemma, `Replaced`: they map entries one by one to entries that stand for the
same and lose only references of databases that are let go in the same step.

### AppenderLifecycleProofs: rows

| Theorem | States |
|---|---|
| `TypeCorrect` | `TypeOK` |
| `NoRowIsLost` | `RowsAccountedFor` |
| `NoAppenderOutlives` | `ReleasedBeforeDisconnect` |
| `NoRowReturns` | `"persistent" \notin Relaxable` implies `Spec => []AbandonedRowsStayOut` |
| `TransactionsAreVisible` | the same for `NoInvisibleTransaction` |

`Apart` says where a row can be: a buffer that may still be written holds no row
that is also in the transaction, in the database or given up; two buffers share
none; a closed appender's buffer holds only rows given up. `Tracked` says that PDO
knows of the transaction wherever the driver lets it act, and `GivenUp` that rows
given up are out of the transaction there: a rollback that is denied gives up rows
that are still in it, and is harmless only because no commit will be admitted
either. The last two theorems are false without their hypothesis, by finding 1: a
persistent connection that refused a rollback comes back to a later request whose
`open_basedir` is the recorded one.

### StatementBindingsProofs: values and placeholders

| Theorem | States |
|---|---|
| `TypeCorrect` | `TypeOK` |
| `NoForeignValues` | `ValuesOfOneCall` |
| `NoStaleResult` | `ResultOfLastCall` |
| `BoundCallsRun` | `CompleteCallsRun` |
| `SlotsAlwaysFit` | `SlotsFitTheArray`, of `PlanSpec` |
| `ExpansionAlwaysBindsAlike` | `ExpansionBindsAlike`, of `PlanSpec` |

The stack of calls may have any depth. `OwnValues` is the heart of `IInv`: once
the bindings are cleared, what the innermost call has converted is its own, and
what it has not is of a parameter it still will convert, so that nothing of an
outer or earlier call is left when the query runs. `Nesting` and `CallsInOrder` order
the stack, `CopiesAgree` relates the two copies of a value until queries are
deferred, and `NothingLost` keeps what a call converted unless it was executed
again from within.

The two theorems of `PlanSpec` are about a statement with any number of placeholders, which
may be given in any order and spelling. Both rest on `Kept(Reading[i], i)`, which
says of the plan after `i` placeholders what it owes to them: an index for each
(`Indexed`), a slot for each position named (`PositionsKept`), one number per name
(`NamesKept`), one style among PDO's own (`OneStyle`), and which number comes next,
for each kind of placeholder (`NextKept`, `NumbersKept`, `DollarsKept`). It is an
induction over the text by `Recursion`, one lemma for each kind of placeholder. The
slots are a numbering without gaps (`Numberings`), also once PDO's parameters and
the numbers around them are merged. DuckDB numbers a statement by another
recursion, over the numbers it has already given; `NumberIsIndex` shows that the
two agree wherever DuckDB accepts the statement.

### StatementResultsProofs: chunks and caches

| Theorem | States |
|---|---|
| `TypeCorrect` | `TypeOK` |
| `NothingStaleIsRead` | `CachesAreCurrent` |
| `NoChunkLeaks` | `ChunksAreOwned` |
| `StreamsAreReleased` | `NothingIsPinned` |
| `RowsAreFetchedOnce` | `EveryRowOnce` |

`Reads` says of a statement that its chunk is the last one its run has fetched and
that, outside the loop of `fetch()`, its cursor and its rendered values are of a row
of that chunk. With `Distinct` and `Held` a chunk has one holder, so the address of
a destroyed chunk is free to be reused without a cache still answering for it
(`Cached`, `Described`). `Streaming` says that the stream can be fetched from,
also inside a `fetch()`. The six actions that let go of a chunk share one lemma
(`ReleasingStep`), which also covers results aborted by another query.

`RowsAreFetchedOnce` is about results of any number of chunks of any sizes.
`Through(shape)[k]` is the rows of the first `k` chunks, by recursion, and
`ThroughFacts` shows that the last of these is what `AllRows` flattens. `Progress`
then says of every statement how far its fetches are: through the chunks it has
fetched when the loop of `fetch()` looks for the next one or has met the end, and
otherwise through those before its chunk and that chunk's rows up to the cursor. An
empty chunk moves the first of these on without a row, which is why it cannot be
taken for the end.

### Recursion: induction over data

The library's induction theorems have an operator among their hypotheses, which
the provers cannot instantiate. `Induction`, `StrongInduction` and
`MeasureInduction` state the same about sets, and follow from the well-foundedness
of `<` on the numbers. The lemma `RecursiveFunction` shows that a recursive definition, given
as a function `D` from functions to functions that only looks at arguments of a
smaller measure, has a fixed point: what `LET f[x \in S] == ... IN f` in a model
chooses exists, and so has the values its body says. `Iteration` is the case of a
function on the numbers that is defined from its value before; `Descent` is that of
a function on the positions of a text, defined from its values at later ones.
`Upward` and `Downward` are the inductions that go with the two, and `LeastExists` is
that a set of numbers has a least element. None of these is about the program; the
other modules' theorems rest on them.

### SqlProofs: the flag, the separators, the placeholders and the statements

| Theorem | States |
|---|---|
| `Invariance` | `IInv` |
| `NoInvisibleTransactions` | `FlagCoversTransaction` |
| `PhantomsAreLostCommits` | `PhantomOnlyAfterLostCommit` |
| `SeparatorsAlwaysAgree` | `SeparatorsAgree`, of `TextSpec` |
| `MultipleIsAlwaysSeen` | `MultipleIsSeen`, of `TextSpec` |
| `PlaceholdersAlwaysAgree` | `PlaceholdersAgree`, of `TextSpec` |
| `EffectsAlwaysAgree` | `EffectsAgree`, of `BatchSpec` |
| `NoInvisibleAfterAnyBatch` | `FlagCoversTransaction` |
| `PhantomsAfterAnyBatch` | `PhantomOnlyAfterLostCommit` |

The first three assume `Understood(b)` of every text `b` that `exec()` or `prepare()` is
given: the scanner reads it as DuckDB does, as far as the way it is run depends
on it. The assumption cannot be dropped: finding 2 is a text without it, and the
flag then misses a transaction. It is met: TLC evaluates `PlainUnderstood` on every
text of the run `TransactionTracking`, and the last two theorems prove it
(`ParsedIsUnderstood`) of every text that DuckDB parses and that explains no query
in parentheses, so that of the scanner nothing is left to assume
(`NoneExplainsParentheses`). The first three say a little more: they also hold with
texts the scanner misreads, if it refuses to run them. The first conjunct of
`Understood` only says that both readings are finite sequences.

`IInv` has one part per way of running a text, since the flag is exact at different
moments: after each statement (`StepByStep`, `exec_transaction_multi`); only after
the text, with the whole text's effect applied (`InOneCall`); or when the last
effect the bridge has executed is applied, which it owes also if a later statement
fails (`Owed`). `SuccessAligns` and `FailureAligns` say what one command of DuckDB
does to an exact flag; each action is one of the two, or pays what is owed.

The three theorems of `TextSpec` are about a text of any length over any characters,
the ones no `CASE` of the model names included. `SeparatorsAlwaysAgree` and
`PlaceholdersAlwaysAgree` inherit the hypothesis of their property: the scanner
splits no name of the text. In the first two, the lexer reads forward, the
scanner is defined backward from the end of the text, and the proof lets them meet.
`TextInv` keeps a history `h` of the text: `h[i]` is the lexer after `i` characters
(`HistoryGrows`, which needs that the lexer does not look ahead, `LexedSame`). One
lemma per kind of token says where the scanner lands after it, that the lexer reads
the text there as code, and that it met no separator on the way (`Lands`):
`AfterQuotedLands`, `LineCommentLands`, `BlockCommentLands`, `DollarQuoteLands`.
`Fresh`, being read as code, is not enough between tokens: where the lexer reads on
in a name, the scanner may make several tokens of it, ASCII letters and single
characters in turn. `InName` describes that state, `InDollar` the one after a dollar
that opens nothing, whose letters the lexer takes for a tag, and `Resumes` says that
one of the three holds. A token of the scanner then ends within the name or with it
(`NameGoes`, `DollarGoes`, `WordGoes`, `CharGoes`), unless it is a literal, which
`NotSplit` excludes: the one use of the hypothesis. `TriviaGoes` and `TokenGoes` step
from one such place to the next, and `SameSeparators` adds them up from the end of
the text.

`PlaceholdersAlwaysAgree` compares two functions that both are defined from the end
of the text: the scanner's tokens and the placeholders of `prepare()`. What they
skip is the same (`SkipStringIs`, `SkipCommentIs`, `SkipTriviaIs`, `DollarStringIs`,
although each lexer has loops of its own), what they call a token is not: a run of
question marks is one step of the plan's lexer and as many tokens of the scanner, and
a name is one step, but may be several tokens. `Covered` says of
one step what is true all the same: the tokens from `p` to its end are the
placeholder at `p`, if it is a question mark, and no other question mark that stands
by itself. `CoverString`, `CoverWord`, `CoverRun`, `CoverNamed`, `CoverDollarName` and the
others show it, one for each kind of step, and `MarksAgree` adds the steps up. A step that
ended between two question marks would break the sum; `Apart` says that none does
(`QuotedEnds`, `BlockEnds`, `DollarEnds`, `TriviaEnds`). `CoverNamed` and
`CoverDollarName` are where `Ambiguous` is needed, each of its disjuncts for one of
the cases. An earlier form of it, which named fewer texts, failed there: TLC then
found `$ a$$?` and `:E'\'?`, longer than the texts of the run. `CoverWord` and
`CoverDollarName` need that no name is split: `NameTokens` shows that the tokens of a
name in which none is a literal end with it, blanks of bytes >= 0x80 in it included.

`EffectsAlwaysAgree` compares three recursions over a batch: the statements of the
grammar, the scanner's walk from each statement to the next, and its reading of the
options of an `EXPLAIN`. `Descent` gives that each function exists and takes the
value its definition says (`StatementsFunction`, `EffectsFunction`, `AfterFunction`,
`ListFunction`). The scanner only counts parentheses, the grammar wants them
balanced; `StatementEnds` shows, by an induction that keeps the depth of what is
left, that from the first token of balanced tokens `AfterStatement` comes to the
semicolon behind them and to none before. `OptionsEnd` is any parenthesis that
closes a list of well-formed options; since an option has no parenthesis in it, it
is the first one, and `ListRead` shows that the scanner stops behind it and collects
the first word of each option, where `Parts` cuts (`OptionFacts`). `ExplainAgrees`
concludes that both see the same wrapped statement and the same `ANALYZE`,
`StatementAgrees` that a statement has its effect and ends where it ends, and
`BatchAgrees` goes down the positions of the batch. It also shows that a second
statement stands behind a semicolon, so `exec()`'s cheap test sees it. An `EXPLAIN`
of a query in parentheses is where `ExplainAgrees` fails (finding 2). The theorem is
of any set `Pieces` of phrases; with one phrase for each token, its batches are all
sequences of them.

### What is only model-checked

- *Liveness* (`EveryCallReturns`, `CloserFinishes`, `TransitionEnds`): the proof
  system does not reason about fairness and enabledness here.
- *`RenderedExactly` and `ChecksDecideTheCast`*: about powers of two and ten, digits
  and the rounding of doubles. The provers know nothing of `^` beyond its type.

## 5. Plan

Everything the first plan named is modelled, except the resets at a persistent
checkout, and the safety properties of every component that has a state are proved,
with the refinement of `SharedDatabase`. What is left to prove is
`ChecksDecideTheCast` for integers.

**Not modelled, and why.**

- *Rendering and building nested and VARIANT values* (`duckdb_value.c`, the types,
  variant and appender bridges, the rest of `duckdb_statement.c`'s cell code): functions
  of one cell, a recursion over its data without state of the driver. An
  object that builds its properties on demand can run PHP code while a row is
  converted; which objects do is decided by PHP, and what an appender closed
  meanwhile answers is DuckDB's decision.
- *Parsing of options, `open_basedir` values and paths* (connection factory, sandbox):
  handling of strings. The decisions taken on the result are modelled.
- *Resets at a persistent checkout* (`check_liveness`): `AppenderLifecycle` and
  `InstanceRegistry` have the refusal and the discard of a connection that failed
  one. The resets themselves are a fixed list of settings, each of which either
  succeeds or leads to the discard, and what a setting means is DuckDB's.
- *Profiles, table names, column metadata*: reports that change nothing.
- *Module entry and static extensions*: run once, before any handle exists.
- *A bailout that leaves PDO core or the closer half done*: what runs after the
  longjmp is decided by the Zend engine. A bailout inside an open or a transition
  is modelled, because the driver catches it there.
- *DuckDB and PDO core* are outside the repository and appear as the driver uses
  them, marked external in the map.
