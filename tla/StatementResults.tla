-------------------------- MODULE StatementResults --------------------------
(***************************************************************************)
(* Results of the prepared statements of one connection, read by one       *)
(* thread (duckdb_statement.c): the native result each statement holds,    *)
(* the chunk it reads, and the two caches the statements of a thread       *)
(* share.  A streaming result occupies the connection, and a chunk's       *)
(* address may be that of a chunk destroyed before.                        *)
(***************************************************************************)
EXTENDS Naturals, Sequences, FiniteSets, SequencesExt

CONSTANTS
    Statements,
    Addresses,   \* where the allocator may place a chunk
    Shapes,      \* results, as the sequences of the sizes of their chunks
    Engines,     \* the DuckDB series the driver is built against: "1.5", "2.0"
    MaxRuns,     \* bound on the executions of a behaviour
    None

ASSUME AddressesAssumption == Cardinality(Addresses) >= Cardinality(Statements)

\* What the driver keeps of a native result, and a chunk of one, by its number.
Results == [run : 1..MaxRuns, shape : Shapes, fetched : Nat,
            aborted : BOOLEAN, streams : BOOLEAN]
Chunks == (1..MaxRuns) \X Nat

ASSUME BoundsAssumption == MaxRuns \in Nat /\ Shapes \subseteq Seq(Nat)
ASSUME NoneAssumption == /\ None \notin Statements /\ None \notin Addresses
                         /\ None \notin Results /\ None \notin Chunks

VARIABLES
    engine,      \* the series this build uses
    stmt,        \* what a pdo_duckdb_stmt holds
    stream,      \* the statement whose stream occupies the connection, or None
    heap,        \* the chunk at each address, as <<run, number>>, or None
    chunkCache,  \* pdo_duckdb_tls_chunk_cache: an address and what was read there
    auxCache,    \* pdo_duckdb_tls_col_aux: a statement and the run it describes
    pulling,     \* the statement whose fetch() is inside its loop, or None
    denied,      \* does the sandbox deny native calls?
    runs,        \* executions so far
    seen,        \* the rows each statement's fetches consumed in its run
    atEnd        \* did a fetch report the end of the run without an error?

vars == <<engine, stmt, stream, heap, chunkCache, auxCache, pulling, denied,
          runs, seen, atEnd>>

Empty == [result |-> None, chunk |-> None, size |-> 0, cur |-> 0,
          started |-> FALSE, done |-> FALSE, converted |-> None]

NoChunk == [key |-> None, chunk |-> None]
NoAux == [owner |-> None, run |-> None]

AllRows(shape) == FlattenSeq([k \in 1..Len(shape) |->
                                [i \in 1..shape[k] |-> <<k, i>>]])

TypeOK ==
    /\ engine \in Engines
    /\ \A s \in Statements :
          LET S == stmt[s] IN
          /\ S.result # None => /\ S.result.run \in 1..runs
                                /\ S.result.shape \in Shapes
                                /\ S.result.fetched <= Len(S.result.shape)
          /\ S.chunk \in Addresses \cup {None}
          /\ S.chunk # None => S.result # None
          /\ S.chunk # None /\ pulling = None => S.cur < S.size
    /\ stream \in Statements \cup {None} /\ pulling \in Statements \cup {None}
    /\ chunkCache.key \in Addresses \cup {None}
    /\ auxCache.owner \in Statements \cup {None}
    /\ denied \in BOOLEAN /\ runs \in 0..MaxRuns

Init ==
    /\ engine \in Engines
    /\ stmt = [s \in Statements |-> Empty]
    /\ stream = None /\ pulling = None
    /\ heap = [a \in Addresses |-> None]
    /\ chunkCache = NoChunk /\ auxCache = NoAux
    /\ denied = FALSE /\ runs = 0
    /\ seen = [s \in Statements |-> <<>>]
    /\ atEnd = [s \in Statements |-> FALSE]

-----------------------------------------------------------------------------
(* Chunks, the caches and the result.                                       *)

Invalidated(address) ==
    IF address # None /\ chunkCache.key = address THEN NoChunk ELSE chunkCache

\* Mutant: the chunk is forgotten, not destroyed.
Destroyed_Leaked(address) == heap
Destroyed(address) == [a \in Addresses |-> IF a = address THEN None ELSE heap[a]]

\* Mutant: the key is stored before room for the columns is found.
Loaded_PublishesFirst(address, room) ==
    [key |-> address,
     chunk |-> IF room THEN heap'[address] ELSE chunkCache.chunk]
\* chunk_cache_load: nothing is published unless every column was read.
Loaded(address, room) ==
    IF room THEN [key |-> address, chunk |-> heap'[address]] ELSE NoChunk

AuxReleased(s) == IF auxCache.owner = s THEN NoAux ELSE auxCache

\* cache_col_aux: the last executed statement takes the entry, or nobody has it.
AuxCached(s, run, room) == IF room THEN [owner |-> s, run |-> run] ELSE NoAux

\* reset_result of a statement's record.
ResetResult(s) ==
    /\ stmt' = [stmt EXCEPT ![s] = Empty]
    /\ chunkCache' = Invalidated(stmt[s].chunk)
    /\ heap' = Destroyed(stmt[s].chunk)
    /\ auxCache' = AuxReleased(s)

WithoutStream(s) == IF stream = s THEN None ELSE stream

\* Statements other than s whose stream another query of the connection ends.
Aborted(s) == {t \in Statements : stream = t /\ t # s /\ engine = "1.5"}

WithAborted(f, s) ==
    [t \in Statements |->
        IF t \in Aborted(s) THEN [f[t] EXCEPT !.result.aborted = TRUE] ELSE f[t]]

Idle == pulling = None

-----------------------------------------------------------------------------
(* Statements.                                                              *)

\* closeCursor(), or the destructor, whose statement may be replaced by one at
\* the same address.
CloseCursor(s) ==
    /\ Idle /\ ResetResult(s) /\ stream' = WithoutStream(s)
    /\ seen' = [seen EXCEPT ![s] = <<>>] /\ atEnd' = [atEnd EXCEPT ![s] = FALSE]
    /\ UNCHANGED <<pulling, denied, runs>>

\* execute() fails before its query runs: denied, its parameters incomplete, or
\* the query refused by DuckDB.
ExecuteRefused(s) ==
    /\ Idle /\ ResetResult(s) /\ stream' = WithoutStream(s)
    /\ seen' = [seen EXCEPT ![s] = <<>>] /\ atEnd' = [atEnd EXCEPT ![s] = FALSE]
    /\ UNCHANGED <<pulling, denied, runs>>

\* The query runs, which ends another stream, but fails or leaves columns that
\* cannot be cached: the result is reset again.
ExecuteUnreadable(s) ==
    /\ Idle /\ ~denied /\ Aborted(s) # {}
    /\ stmt' = WithAborted([stmt EXCEPT ![s] = Empty], s) /\ stream' = None
    /\ chunkCache' = Invalidated(stmt[s].chunk)
    /\ heap' = Destroyed(stmt[s].chunk)
    /\ auxCache' = AuxReleased(s)
    /\ seen' = [seen EXCEPT ![s] = <<>>] /\ atEnd' = [atEnd EXCEPT ![s] = FALSE]
    /\ UNCHANGED <<pulling, denied, runs>>

\* execute(): DuckDB 2.0 refuses a query while another result streams.
Execute(s, shape, unbuffered) ==
    /\ Idle /\ ~denied /\ runs < MaxRuns
    /\ engine = "2.0" => stream \in {s, None}
    /\ runs' = runs + 1
    /\ stmt' = WithAborted([stmt EXCEPT ![s] = [Empty EXCEPT !.result =
                  [run |-> runs + 1, shape |-> shape, fetched |-> 0,
                   aborted |-> FALSE, streams |-> unbuffered]]], s)
    /\ stream' = IF unbuffered THEN s ELSE None
    /\ chunkCache' = Invalidated(stmt[s].chunk)
    /\ heap' = Destroyed(stmt[s].chunk)
    /\ \E room \in BOOLEAN : auxCache' = AuxCached(s, runs + 1, room)
    /\ seen' = [seen EXCEPT ![s] = <<>>] /\ atEnd' = [atEnd EXCEPT ![s] = FALSE]
    /\ UNCHANGED <<pulling, denied>>

\* A query that is not one of these statements: exec() or beginTransaction().
OtherQuery ==
    /\ Idle /\ ~denied /\ Aborted(None) # {}
    /\ stmt' = WithAborted(stmt, None) /\ stream' = None
    /\ UNCHANGED <<heap, chunkCache, auxCache, pulling, denied, runs, seen, atEnd>>

-----------------------------------------------------------------------------
(* fetch().                                                                 *)

CanFetch(s) == stmt[s].result # None /\ ~stmt[s].done

Converted(s, ok, row) == IF ok THEN row ELSE None

\* fetched_row: the row's nested values are rendered, or the fetch fails and
\* the cursor stays where it is.
FetchedRow(s, S, row) ==
    /\ \E ok \in BOOLEAN :
          stmt' = [stmt EXCEPT ![s] = [S EXCEPT !.converted = Converted(s, ok, row)]]
    /\ seen' = [seen EXCEPT ![s] = Append(@, <<row[2], row[3]>>)]

FetchInChunk(s) ==
    /\ Idle /\ CanFetch(s) /\ stmt[s].started /\ stmt[s].cur + 1 < stmt[s].size
    /\ LET S == [stmt[s] EXCEPT !.cur = @ + 1]
       IN FetchedRow(s, S, Append(heap[S.chunk], S.cur + 1))
    /\ UNCHANGED <<stream, heap, chunkCache, auxCache, pulling, denied, runs, atEnd>>

\* The rows of the chunk are read: fetch() enters its loop.
StartPull(s) ==
    /\ Idle /\ CanFetch(s)
    /\ ~stmt[s].started \/ stmt[s].cur + 1 >= stmt[s].size
    /\ pulling' = s
    /\ stmt' = [stmt EXCEPT ![s].started = TRUE,
                            ![s].cur = IF stmt[s].started THEN @ + 1 ELSE @]
    /\ UNCHANGED <<stream, heap, chunkCache, auxCache, denied, runs, seen, atEnd>>

\* Mutant: only the flag is set.
FailedFetch_KeepsResult(s) ==
    /\ stmt' = [stmt EXCEPT ![s].done = TRUE]
    /\ UNCHANGED <<heap, chunkCache, auxCache, stream>>
\* Every failure in the loop releases the native result.
FailedFetch(s) ==
    /\ stmt' = [stmt EXCEPT ![s] = [Empty EXCEPT !.done = TRUE]]
    /\ chunkCache' = Invalidated(stmt[s].chunk)
    /\ heap' = Destroyed(stmt[s].chunk)
    /\ auxCache' = AuxReleased(s)
    /\ stream' = WithoutStream(s)

\* native_enter denies the chunk: open_basedir was tightened since execute().
PullDenied(s) ==
    /\ pulling = s /\ denied /\ FailedFetch(s) /\ pulling' = None
    /\ UNCHANGED <<denied, runs, seen, atEnd>>

\* DuckDB cannot produce the next chunk of a stream.
PullFails(s) ==
    /\ pulling = s /\ ~denied /\ stmt[s].result.streams
    /\ FailedFetch(s) /\ pulling' = None
    /\ UNCHANGED <<denied, runs, seen, atEnd>>

\* Mutant: a chunk without rows is taken for the end.
IsEnd_Empty(r) == IF r.fetched = Len(r.shape) THEN TRUE
                  ELSE r.shape[r.fetched + 1] = 0
IsEnd(r) == r.fetched = Len(r.shape)

PullEnd(s) ==
    /\ pulling = s /\ ~denied
    /\ ~stmt[s].result.aborted /\ IsEnd(stmt[s].result)
    /\ stmt' = [stmt EXCEPT ![s].chunk = None, ![s].done = TRUE]
    /\ chunkCache' = Invalidated(stmt[s].chunk)
    /\ heap' = Destroyed(stmt[s].chunk)
    /\ stream' = WithoutStream(s)
    /\ atEnd' = [atEnd EXCEPT ![s] = TRUE] /\ pulling' = None
    /\ UNCHANGED <<auxCache, denied, runs, seen>>

\* The next chunk replaces the one that was read, at any address that is free
\* by then, and becomes the cached one.  One without rows is skipped.
PullChunk(s) ==
    /\ pulling = s /\ ~denied
    /\ ~stmt[s].result.aborted /\ ~IsEnd(stmt[s].result)
    /\ \E a \in Addresses, room \in BOOLEAN :
          LET S == stmt[s]
              k == S.result.fetched + 1
              size == S.result.shape[k]
              T == [S EXCEPT !.result.fetched = k, !.chunk = a, !.size = size,
                             !.cur = 0]
          IN /\ Destroyed(S.chunk)[a] = None
             /\ heap' = [Destroyed(S.chunk) EXCEPT ![a] = <<S.result.run, k>>]
             /\ chunkCache' = Loaded(a, room)
             /\ IF size = 0
                THEN stmt' = [stmt EXCEPT ![s] = T] /\ UNCHANGED <<pulling, seen>>
                ELSE /\ FetchedRow(s, T, <<S.result.run, k, T.cur + 1>>)
                     /\ pulling' = None
    /\ UNCHANGED <<stream, auxCache, denied, runs, atEnd>>

\* get_col: another statement's chunk may be cached by now.
ReadColumn(s) ==
    /\ Idle /\ stmt[s].chunk # None /\ stmt[s].cur < stmt[s].size
    /\ chunkCache.key # stmt[s].chunk
    /\ UNCHANGED heap
    /\ \E room \in BOOLEAN : chunkCache' = Loaded(stmt[s].chunk, room)
    /\ UNCHANGED <<stmt, stream, auxCache, pulling, denied, runs, seen, atEnd>>

\* ini_set('open_basedir').
ChangeBasedir ==
    /\ Idle /\ denied' = ~denied
    /\ UNCHANGED <<stmt, stream, heap, chunkCache, auxCache, pulling, runs, seen,
                   atEnd>>

Next ==
    /\ UNCHANGED engine
    /\ \/ \E s \in Statements :
             \/ CloseCursor(s) \/ ExecuteRefused(s) \/ ExecuteUnreadable(s)
             \/ \E shape \in Shapes, unbuffered \in BOOLEAN :
                   Execute(s, shape, unbuffered)
             \/ FetchInChunk(s) \/ StartPull(s)
             \/ PullDenied(s) \/ PullFails(s) \/ PullEnd(s) \/ PullChunk(s)
             \/ ReadColumn(s)
       \/ OtherQuery \/ ChangeBasedir

Spec == Init /\ [][Next]_vars

-----------------------------------------------------------------------------
\* The chunk cached under an address is the one now at that address, the cached
\* columns are of the result their statement holds, and the values rendered
\* for a row are those of the row under the cursor (duckdb_statement.c:103).
CachesAreCurrent ==
    /\ chunkCache.key # None => heap[chunkCache.key] = chunkCache.chunk
                                /\ chunkCache.chunk # None
    /\ auxCache.owner # None =>
          LET r == stmt[auxCache.owner].result
          IN r # None /\ r.run = auxCache.run
    /\ \A s \in Statements :
          LET S == stmt[s] IN
          Idle /\ S.chunk # None /\ S.converted # None =>
             S.converted = Append(heap[S.chunk], S.cur + 1)

\* A chunk that is allocated is held by exactly one statement, as a chunk of its
\* current run: none leaks, and none is destroyed while it is read.
ChunksAreOwned ==
    \A a \in Addresses :
       LET holders == {s \in Statements : stmt[s].chunk = a} IN
       /\ heap[a] = None <=> holders = {}
       /\ Cardinality(holders) <= 1
       /\ \A s \in holders : heap[a][1] = stmt[s].result.run

\* The fetches of a run consume its rows in order and each once, whatever chunks
\* they come in and whatever is done with other statements meanwhile, and
\* report the end only after the last one.
EveryRowOnce ==
    \A s \in Statements : stmt[s].result # None =>
       LET rows == AllRows(stmt[s].result.shape)
       IN IsPrefix(seen[s], rows) /\ (atEnd[s] => seen[s] = rows)

\* A stream occupies the connection only while the application can still fetch
\* from it: a denied or failed fetch releases it (duckdb_statement.c:2824).
NothingIsPinned ==
    Idle /\ stream # None => CanFetch(stream) /\ ~stmt[stream].result.aborted

=============================================================================
