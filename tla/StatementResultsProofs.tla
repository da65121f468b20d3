----------------------- MODULE StatementResultsProofs -----------------------
(***************************************************************************)
(* Theorems about StatementResults for any number of statements, chunks    *)
(* and executions: each chunk has one holder, what is cached is what is    *)
(* there, a stream that nobody can read occupies no connection, and every  *)
(* row is fetched once.                                                    *)
(***************************************************************************)
EXTENDS StatementResults, Recursion, FiniteSetTheorems, SequenceTheorems, TLAPS

Records == [result : Results \cup {None}, chunk : Addresses \cup {None},
            size : Nat, cur : Nat, started : BOOLEAN, done : BOOLEAN,
            converted : ((1..MaxRuns) \X Nat \X Nat) \cup {None}]

Fields ==
    /\ engine \in Engines
    /\ stmt \in [Statements -> Records]
    /\ heap \in [Addresses -> Chunks \cup {None}]
    /\ stream \in Statements \cup {None} /\ pulling \in Statements \cup {None}
    /\ chunkCache.key \in Addresses \cup {None}
    /\ auxCache.owner \in Statements \cup {None}
    /\ denied \in BOOLEAN /\ runs \in 0..MaxRuns

\* The chunk of a statement is the last one its run has fetched.  Outside the
\* loop of fetch() its cursor is on a row of that chunk, and the values that are
\* rendered are of that row.
Reads(s) ==
    LET S == stmt[s] IN
    /\ S.result # None => /\ S.result.run <= runs
                          /\ S.result.fetched <= Len(S.result.shape)
    /\ S.chunk # None =>
          /\ S.result # None
          /\ heap[S.chunk] = <<S.result.run, S.result.fetched>>
          /\ pulling # s =>
                /\ S.cur < S.size
                /\ S.converted \in {None, <<S.result.run, S.result.fetched, S.cur + 1>>}
    /\ S.chunk = None /\ ~S.done => S.size = 0

\* No chunk has two holders, or none.
Distinct == \A s, t \in Statements :
    stmt[s].chunk # None /\ stmt[s].chunk = stmt[t].chunk => s = t

Held == \A a \in Addresses : heap[a] # None => \E s \in Statements : stmt[s].chunk = a

Cached == chunkCache.key # None => heap[chunkCache.key] = chunkCache.chunk
                                   /\ chunkCache.chunk # None

Described == auxCache.owner # None =>
    LET r == stmt[auxCache.owner].result IN r # None /\ r.run = auxCache.run

\* A stream can be fetched from, also by the fetch() in its loop.
Streaming == stream # None =>
    CanFetch(stream) /\ ~stmt[stream].result.aborted

Pulling == pulling # None => CanFetch(pulling)

IInv ==
    /\ Fields /\ \A s \in Statements : Reads(s)
    /\ Distinct /\ Held /\ Cached /\ Described /\ Streaming /\ Pulling

-----------------------------------------------------------------------------
(* Statements that let go of their chunk, and those beside them.            *)

USE BoundsAssumption, NoneAssumption

\* All but whether the result is aborted.
Alike(S, T) ==
    /\ T.chunk = S.chunk /\ T.size = S.size /\ T.cur = S.cur
    /\ T.started = S.started /\ T.done = S.done /\ T.converted = S.converted
    /\ T.result = None <=> S.result = None
    /\ S.result # None => /\ T.result.run = S.result.run
                          /\ T.result.shape = S.result.shape
                          /\ T.result.fetched = S.result.fetched

\* A record whose result another query aborts.
LEMMA AbortedRecord ==
  ASSUME NEW S \in Records, S.result # None
  PROVE  LET T == [S EXCEPT !.result.aborted = TRUE]
         IN  T \in Records /\ Alike(S, T)
<1> DEFINE r == [S.result EXCEPT !.aborted = TRUE]
           T == [S EXCEPT !.result = r]
<1>1. S.result \in Results  BY DEF Records
<1>2. /\ r \in Results /\ r.run = S.result.run /\ r.shape = S.result.shape
      /\ r.fetched = S.result.fetched
  BY <1>1 DEF Results
<1>3. r # None  BY <1>2
<1> HIDE DEF r
<1>4. /\ T \in Records /\ T.result = r /\ T.chunk = S.chunk /\ T.size = S.size
      /\ T.cur = S.cur /\ T.started = S.started /\ T.done = S.done /\ T.converted = S.converted
  BY <1>2 DEF Records
<1>5. T = [S EXCEPT !.result.aborted = TRUE]  BY DEF r
<1> HIDE DEF T
<1>6. Alike(S, T)  BY <1>2, <1>3, <1>4 DEF Alike
<1> QED  BY <1>4, <1>5, <1>6

LEMMA Aborting ==
  ASSUME NEW f \in [Statements -> Records], NEW s,
         stream # None => f[stream].result # None
  PROVE  /\ WithAborted(f, s) \in [Statements -> Records]
         /\ \A t \in Statements : Alike(f[t], WithAborted(f, s)[t])
         /\ \A t \in Statements : t \notin Aborted(s) => WithAborted(f, s)[t] = f[t]
         /\ s \notin Aborted(s)
<1> DEFINE W == WithAborted(f, s)
<1>1. ASSUME NEW t \in Statements
      PROVE  /\ W[t] \in Records /\ Alike(f[t], W[t])
             /\ t \notin Aborted(s) => W[t] = f[t]
  <2>1. CASE t \in Aborted(s)
    <3>1. f[t] \in Records /\ f[t].result # None  BY <2>1 DEF Aborted
    <3>2. W[t] = [f[t] EXCEPT !.result.aborted = TRUE]  BY <2>1 DEF WithAborted
    <3> QED  BY <2>1, <3>1, <3>2, AbortedRecord
  <2>2. CASE t \notin Aborted(s)
    <3>1. W[t] = f[t]  BY <2>2 DEF WithAborted
    <3>2. Alike(f[t], f[t])  BY DEF Alike
    <3> QED  BY <3>1, <3>2
  <2> QED  BY <2>1, <2>2
<1>2. W = [t \in Statements |-> W[t]]  BY DEF WithAborted
<1>3. W \in [Statements -> Records]  BY <1>1, <1>2
<1>4. s \notin Aborted(s)  BY DEF Aborted
<1> QED  BY <1>1, <1>3, <1>4

LEMMA EmptyRecord == Empty \in Records
  BY DEF Empty, Records

\* The chunk of s is destroyed, and forgotten by the cache.
Releases(s) ==
    /\ stmt' \in [Statements -> Records] /\ stmt'[s].chunk = None
    /\ \A t \in Statements : t # s => Alike(stmt[t], stmt'[t])
    /\ heap' = Destroyed(stmt[s].chunk)
    /\ chunkCache' = Invalidated(stmt[s].chunk)
    /\ pulling \in {s, None} /\ pulling' \in {pulling, None}
    /\ runs' \in runs..MaxRuns

LEMMA Released ==
  ASSUME IInv, NEW s \in Statements, Releases(s)
  PROVE  /\ heap' \in [Addresses -> Chunks \cup {None}]
         /\ chunkCache'.key \in Addresses \cup {None}
         /\ \A t \in Statements : t # s => Reads(t)'
         /\ Distinct' /\ Held' /\ Cached'
<1> USE DEF Releases
<1> DEFINE c == stmt[s].chunk
<1>1. /\ c \in Addresses \cup {None}
      /\ heap' = [a \in Addresses |-> IF a = c THEN None ELSE heap[a]]
      /\ heap \in [Addresses -> Chunks \cup {None}]
  BY DEF IInv, Fields, Records, Destroyed
<1>2. heap' \in [Addresses -> Chunks \cup {None}]  BY <1>1
<1>3. chunkCache'.key \in Addresses \cup {None}
  BY DEF Invalidated, NoChunk, IInv, Fields
<1>4. ASSUME NEW t \in Statements, t # s
      PROVE  /\ Alike(stmt[t], stmt'[t])
             /\ stmt'[t].chunk # None => heap'[stmt'[t].chunk] = heap[stmt[t].chunk]
  <2>1. stmt[t].chunk \in Addresses \cup {None}  BY DEF IInv, Fields, Records
  <2>2. stmt[t].chunk # None => stmt[t].chunk # c  BY <1>4 DEF IInv, Distinct
  <2> QED  BY <1>1, <1>4, <2>1, <2>2 DEF Alike
<1>5. ASSUME NEW t \in Statements, t # s  PROVE Reads(t)'
  <2>1. Reads(t)  BY DEF IInv
  <2>2. stmt[t] \in Records /\ stmt'[t] \in Records  BY DEF IInv, Fields
  <2>3. pulling # t /\ pulling' # t  BY <1>5
  <2>4. runs \in Nat /\ runs' \in Nat /\ runs <= runs'  BY DEF IInv, Fields
  <2>5. stmt'[t].result # None =>
           stmt'[t].result.run <= runs'
           /\ stmt'[t].result.fetched <= Len(stmt'[t].result.shape)
    <3> SUFFICES ASSUME stmt'[t].result # None
                 PROVE  stmt'[t].result.run <= runs'
                        /\ stmt'[t].result.fetched <= Len(stmt'[t].result.shape)
      OBVIOUS
    <3>1. stmt[t].result \in Results  BY <1>4, <1>5, <2>2 DEF Alike, Records
    <3>2. /\ stmt[t].result # None
          /\ stmt'[t].result.run = stmt[t].result.run
          /\ stmt'[t].result.shape = stmt[t].result.shape
          /\ stmt'[t].result.fetched = stmt[t].result.fetched
      BY <1>4, <1>5 DEF Alike
    <3>3. /\ stmt[t].result.run <= runs
          /\ stmt[t].result.fetched <= Len(stmt[t].result.shape)
      BY <2>1, <3>2 DEF Reads
    <3>4. stmt[t].result.run \in Nat  BY <3>1 DEF Results
    <3>5. stmt[t].result.run <= runs'  BY <2>4, <3>3, <3>4
    <3> QED  BY <3>2, <3>3, <3>5
  <2> QED  BY <1>4, <1>5, <2>1, <2>3, <2>5 DEF Alike, Reads
<1>6. Distinct'  BY <1>4 DEF IInv, Distinct, Alike
<1>7. Held'
  <2> SUFFICES ASSUME NEW a \in Addresses, heap'[a] # None
               PROVE  \E t \in Statements : stmt'[t].chunk = a
    BY DEF Held
  <2>1. a # c /\ heap[a] # None  BY <1>1
  <2>2. PICK t \in Statements : stmt[t].chunk = a  BY <2>1 DEF IInv, Held
  <2> QED  BY <2>1, <2>2, <1>4 DEF Alike
<1>8. Cached'
  <2> SUFFICES ASSUME chunkCache'.key # None
               PROVE  /\ heap'[chunkCache'.key] = chunkCache'.chunk
                      /\ chunkCache'.chunk # None
    BY DEF Cached
  <2>1. chunkCache' = chunkCache /\ (c = None \/ chunkCache.key # c)
    BY DEF Invalidated, NoChunk
  <2>2. chunkCache.key \in Addresses  BY <2>1 DEF IInv, Fields
  <2> QED  BY <1>1, <2>1, <2>2 DEF IInv, Cached
<1> QED  BY <1>2, <1>3, <1>5, <1>6, <1>7, <1>8

\* The record s is left with; whose the column cache is, and the stream.
Leaves(s) ==
    LET S == stmt'[s] IN
    /\ S.result # None => /\ S.result.run <= runs'
                          /\ S.result.fetched <= Len(S.result.shape)
    /\ S.done \/ S.size = 0
    /\ \/ auxCache'.owner = None
       \/ auxCache'.owner = s /\ S.result # None /\ S.result.run = auxCache'.run
       \/ auxCache' = auxCache /\ auxCache.owner # s
    /\ \/ stream' = None
       \/ stream' = s /\ S.result # None /\ ~S.done /\ ~S.result.aborted
       \/ stream' = stream /\ stream # s /\ stmt'[stream] = stmt[stream]
    /\ pulling' = None
    /\ UNCHANGED engine /\ denied' \in BOOLEAN

LEMMA ReleasingStep ==
  ASSUME IInv, NEW s \in Statements, Releases(s), Leaves(s)
  PROVE  IInv'
<1> USE DEF Leaves
<1>1. /\ heap' \in [Addresses -> Chunks \cup {None}]
      /\ chunkCache'.key \in Addresses \cup {None}
      /\ \A t \in Statements : t # s => Reads(t)'
      /\ Distinct' /\ Held' /\ Cached'
  BY Released
<1>2. Fields'
  <2>1. stream' \in Statements \cup {None}  BY DEF IInv, Fields
  <2>2. auxCache'.owner \in Statements \cup {None}  BY DEF IInv, Fields
  <2>3. runs' \in 0..MaxRuns  BY DEF IInv, Fields, Releases
  <2> QED  BY <1>1, <2>1, <2>2, <2>3 DEF IInv, Fields, Releases
<1>3. Reads(s)'  BY DEF Reads, Releases
<1>4. \A t \in Statements : Reads(t)'  BY <1>1, <1>3
<1>5. Described'
  <2> SUFFICES ASSUME auxCache'.owner # None
               PROVE  /\ stmt'[auxCache'.owner].result # None
                      /\ stmt'[auxCache'.owner].result.run = auxCache'.run
    BY DEF Described
  <2>1. CASE auxCache'.owner = s  BY <2>1
  <2>2. CASE auxCache' = auxCache /\ auxCache.owner # s
    <3>1. auxCache.owner \in Statements  BY <2>2 DEF IInv, Fields
    <3> QED  BY <2>2, <3>1 DEF IInv, Described, Releases, Alike
  <2> QED  BY <2>1, <2>2
<1>6. Streaming'
  BY DEF IInv, Streaming, CanFetch
<1>7. Pulling'  BY DEF Pulling
<1> QED  BY <1>1, <1>2, <1>4, <1>5, <1>6, <1>7 DEF IInv

-----------------------------------------------------------------------------
(* The actions that let go of a chunk.                                      *)

\* reset_result, when no other statement is disturbed.
LEMMA ResetPreserves ==
  ASSUME IInv, NEW s \in Statements, Idle, ResetResult(s),
         stream' = WithoutStream(s), UNCHANGED <<engine, pulling, denied, runs>>
  PROVE  IInv'
<1>1. stmt' \in [Statements -> Records] /\ stmt'[s] = Empty
      /\ \A t \in Statements : t # s => stmt'[t] = stmt[t]
  BY EmptyRecord DEF ResetResult, IInv, Fields
<1>2. \A t \in Statements : t # s => Alike(stmt[t], stmt'[t])
  BY <1>1 DEF Alike
<1>3. Releases(s)
  BY <1>1, <1>2 DEF Releases, ResetResult, Empty, Idle, IInv, Fields
<1>4. Leaves(s)
  BY <1>1 DEF Leaves, ResetResult, Empty, Idle, WithoutStream, AuxReleased, NoAux,
     IInv, Fields
<1> QED  BY <1>3, <1>4, ReleasingStep

LEMMA CloseCursorPreserves ==
  ASSUME IInv, NEW s \in Statements, UNCHANGED engine, CloseCursor(s)
  PROVE  IInv'
  BY ResetPreserves DEF CloseCursor

LEMMA ExecuteRefusedPreserves ==
  ASSUME IInv, NEW s \in Statements, UNCHANGED engine, ExecuteRefused(s)
  PROVE  IInv'
  BY ResetPreserves DEF ExecuteRefused

LEMMA ExecuteUnreadablePreserves ==
  ASSUME IInv, NEW s \in Statements, UNCHANGED engine, ExecuteUnreadable(s)
  PROVE  IInv'
<1> DEFINE f == [stmt EXCEPT ![s] = Empty]
           W == WithAborted(f, s)
<1>1. PICK t \in Statements : t \in Aborted(s)
  BY DEF ExecuteUnreadable, Aborted
<1>2. stream = t /\ t # s  BY <1>1 DEF Aborted
<1>3. /\ f \in [Statements -> Records] /\ f[s] = Empty
      /\ \A u \in Statements : u # s => f[u] = stmt[u]
  BY EmptyRecord DEF IInv, Fields
<1>4. stream # None => f[stream].result # None
  BY <1>2, <1>3 DEF IInv, Streaming, CanFetch
<1> HIDE DEF f
<1>5. /\ W \in [Statements -> Records]
      /\ \A u \in Statements : Alike(f[u], W[u])
      /\ W[s] = f[s]
  BY <1>3, <1>4, Aborting
<1>6. stmt' = W  BY DEF ExecuteUnreadable, f
<1> HIDE DEF W
<1>7. Releases(s)
  <2>1. \A u \in Statements : u # s => Alike(stmt[u], stmt'[u])
    BY <1>3, <1>5, <1>6
  <2>2. /\ heap' = Destroyed(stmt[s].chunk) /\ pulling = None /\ pulling' = None
        /\ chunkCache' = Invalidated(stmt[s].chunk)
    BY DEF ExecuteUnreadable, Idle
  <2>3. runs' \in runs..MaxRuns  BY DEF ExecuteUnreadable, IInv, Fields
  <2> QED  BY <1>3, <1>5, <1>6, <2>1, <2>2, <2>3 DEF Releases, Empty
<1>8. Leaves(s)
  BY <1>3, <1>5, <1>6 DEF ExecuteUnreadable, Leaves, Empty, Idle, AuxReleased, NoAux,
     IInv, Fields
<1> QED  BY <1>7, <1>8, ReleasingStep

LEMMA ExecutePreserves ==
  ASSUME IInv, NEW s \in Statements, NEW shape \in Shapes, NEW unbuffered \in BOOLEAN,
         UNCHANGED engine, Execute(s, shape, unbuffered)
  PROVE  IInv'
<1> DEFINE r == [run |-> runs + 1, shape |-> shape, fetched |-> 0,
                 aborted |-> FALSE, streams |-> unbuffered]
           N == [Empty EXCEPT !.result = r]
           f == [stmt EXCEPT ![s] = N]
           W == WithAborted(f, s)
<1>1. /\ runs \in Nat /\ runs + 1 \in 1..MaxRuns /\ runs' = runs + 1
      /\ pulling = None
  BY DEF Execute, IInv, Fields, Idle
<1>2. r \in Results /\ r.run = runs + 1 /\ r.shape = shape /\ r.fetched = 0
      /\ ~r.aborted
  BY <1>1 DEF Results
<1> HIDE DEF r
<1>3. r # None /\ Len(r.shape) \in Nat
  <2>1. r # None  BY <1>2
  <2>2. shape \in Seq(Nat)  OBVIOUS
  <2>3. Len(r.shape) \in Nat  BY <1>2, <2>2
  <2> QED  BY <2>1, <2>3
<1>4. N \in Records /\ N.result = r /\ N.chunk = None /\ N.size = 0 /\ ~N.done
  BY <1>2, EmptyRecord DEF Records, Empty
<1> HIDE DEF N
<1>5. /\ f \in [Statements -> Records] /\ f[s] = N
      /\ \A u \in Statements : u # s => f[u] = stmt[u]
  BY <1>4 DEF IInv, Fields
<1>6. stream # None => f[stream].result # None
  BY <1>3, <1>4, <1>5 DEF IInv, Streaming, CanFetch, Fields
<1> HIDE DEF f
<1>7. /\ W \in [Statements -> Records]
      /\ \A u \in Statements : Alike(f[u], W[u])
      /\ W[s] = f[s]
  BY <1>5, <1>6, Aborting
<1>8. stmt' = W  BY DEF Execute, f, N, r
<1> HIDE DEF W
<1>9. Releases(s)
  <2>1. \A u \in Statements : u # s => Alike(stmt[u], stmt'[u])
    BY <1>5, <1>7, <1>8
  <2>2. /\ heap' = Destroyed(stmt[s].chunk) /\ pulling = None /\ pulling' = None
        /\ chunkCache' = Invalidated(stmt[s].chunk)
    BY DEF Execute, Idle
  <2> QED  BY <1>1, <1>4, <1>5, <1>7, <1>8, <2>1, <2>2 DEF Releases
<1>10. stmt'[s] = N  BY <1>5, <1>7, <1>8
<1>11. Leaves(s)
  <2>1. \/ auxCache'.owner = None
        \/ auxCache'.owner = s /\ auxCache'.run = runs + 1
    BY DEF Execute, AuxCached, NoAux
  <2>2. stream' \in {s, None}  BY DEF Execute
  <2>3. pulling' = None /\ denied' \in BOOLEAN
    BY <1>1 DEF Execute, IInv, Fields
  <2> QED  BY <1>1, <1>2, <1>3, <1>4, <1>10, <2>1, <2>2, <2>3 DEF Leaves
<1> QED  BY <1>9, <1>11, ReleasingStep

\* A failure in the loop of fetch() leaves the statement at its end.
LEMMA FailedFetchPreserves ==
  ASSUME IInv, NEW s \in Statements, pulling = s, FailedFetch(s), pulling' = None,
         UNCHANGED <<engine, denied, runs>>
  PROVE  IInv'
<1> DEFINE N == [Empty EXCEPT !.done = TRUE]
<1>1. N \in Records /\ N.result = None /\ N.chunk = None /\ N.done
  BY EmptyRecord DEF Records, Empty
<1>2. stmt' = [stmt EXCEPT ![s] = N]  BY DEF FailedFetch
<1> HIDE DEF N
<1>3. /\ stmt' \in [Statements -> Records] /\ stmt'[s] = N
      /\ \A t \in Statements : t # s => stmt'[t] = stmt[t]
  BY <1>1, <1>2 DEF IInv, Fields
<1>4. \A t \in Statements : t # s => Alike(stmt[t], stmt'[t])
  BY <1>3 DEF Alike
<1>5. Releases(s)
  <2>1. /\ heap' = Destroyed(stmt[s].chunk)
        /\ chunkCache' = Invalidated(stmt[s].chunk)
    BY DEF FailedFetch
  <2>2. runs' \in runs..MaxRuns  BY DEF IInv, Fields
  <2> QED  BY <1>1, <1>3, <1>4, <2>1, <2>2 DEF Releases
<1>6. Leaves(s)
  BY <1>1, <1>3 DEF Leaves, FailedFetch, WithoutStream, AuxReleased, NoAux, IInv,
     Fields
<1> QED  BY <1>5, <1>6, ReleasingStep

LEMMA PullDeniedPreserves ==
  ASSUME IInv, NEW s \in Statements, UNCHANGED engine, PullDenied(s)
  PROVE  IInv'
  BY FailedFetchPreserves DEF PullDenied

LEMMA PullFailsPreserves ==
  ASSUME IInv, NEW s \in Statements, UNCHANGED engine, PullFails(s)
  PROVE  IInv'
  BY FailedFetchPreserves DEF PullFails

LEMMA PullEndPreserves ==
  ASSUME IInv, NEW s \in Statements, UNCHANGED engine, PullEnd(s)
  PROVE  IInv'
<1> DEFINE N == [stmt[s] EXCEPT !.chunk = None, !.done = TRUE]
<1>1. pulling = s /\ stmt[s] \in Records /\ stmt[s].result # None
  BY DEF PullEnd, IInv, Fields, Pulling, CanFetch
<1>2. /\ N \in Records /\ N.result = stmt[s].result /\ N.chunk = None /\ N.done
  BY <1>1 DEF Records
<1>3. stmt' = [stmt EXCEPT ![s] = N]  BY DEF PullEnd, IInv, Fields
<1> HIDE DEF N
<1>4. /\ stmt' \in [Statements -> Records] /\ stmt'[s] = N
      /\ \A t \in Statements : t # s => stmt'[t] = stmt[t]
  BY <1>2, <1>3 DEF IInv, Fields
<1>5. \A t \in Statements : t # s => Alike(stmt[t], stmt'[t])
  BY <1>4 DEF Alike
<1>6. Releases(s)
  BY <1>1, <1>2, <1>4, <1>5 DEF Releases, PullEnd, IInv, Fields
<1>7. Leaves(s)
  <2>1. /\ N.result.run <= runs' /\ N.result.fetched <= Len(N.result.shape)
    BY <1>1, <1>2 DEF PullEnd, IInv, Reads
  <2>2. \/ auxCache'.owner = None
        \/ auxCache'.owner = s /\ N.result.run = auxCache'.run
        \/ auxCache' = auxCache /\ auxCache.owner # s
    BY <1>1, <1>2 DEF PullEnd, IInv, Described
  <2>3. \/ stream' = None
        \/ stream' = stream /\ stream # s /\ stmt'[stream] = stmt[stream]
    BY <1>4 DEF PullEnd, WithoutStream, IInv, Fields
  <2>4. pulling' = None /\ denied' \in BOOLEAN
    BY DEF PullEnd, IInv, Fields
  <2> QED  BY <1>1, <1>2, <1>4, <2>1, <2>2, <2>3, <2>4 DEF Leaves
<1> QED  BY <1>6, <1>7, ReleasingStep

-----------------------------------------------------------------------------
(* The other actions.                                                       *)

LEMMA OtherQueryPreserves ==
  ASSUME IInv, UNCHANGED engine, OtherQuery
  PROVE  IInv'
<1>1. /\ stmt' = WithAborted(stmt, None) /\ stream' = None
      /\ UNCHANGED <<heap, chunkCache, auxCache, pulling, denied, runs>>
  BY DEF OtherQuery
<1>2. stream # None => stmt[stream].result # None
  BY DEF IInv, Streaming, CanFetch
<1>3. /\ stmt' \in [Statements -> Records]
      /\ \A t \in Statements : Alike(stmt[t], stmt'[t])
  BY <1>1, <1>2, Aborting DEF IInv, Fields
<1>4. Fields'  BY <1>1, <1>3 DEF IInv, Fields
<1>5. ASSUME NEW t \in Statements  PROVE Reads(t)'
  <2>1. Reads(t) /\ Alike(stmt[t], stmt'[t])  BY <1>3 DEF IInv
  <2> QED  BY <1>1, <2>1 DEF Reads, Alike
<1>6. Distinct'  BY <1>3 DEF IInv, Distinct, Alike
<1>7. Held'  BY <1>1, <1>3 DEF IInv, Held, Alike
<1>8. Cached'  BY <1>1 DEF IInv, Cached
<1>9. Described'
  BY <1>1, <1>3 DEF IInv, Fields, Described, Alike
<1>10. Streaming'  BY <1>1 DEF Streaming
<1>11. Pulling'
  BY <1>1, <1>3 DEF IInv, Fields, Pulling, CanFetch, Alike
<1> QED  BY <1>4, <1>5, <1>6, <1>7, <1>8, <1>9, <1>10, <1>11 DEF IInv

\* A statement's cursor moves within the chunk it has.
LEMMA CursorStep ==
  ASSUME IInv, NEW s \in Statements, NEW N \in Records,
         stmt' = [stmt EXCEPT ![s] = N],
         N.result = stmt[s].result, N.chunk = stmt[s].chunk, N.done = stmt[s].done,
         CanFetch(s), Reads(s)', pulling = None, pulling' \in {None, s},
         UNCHANGED <<engine, stream, heap, chunkCache, auxCache, denied, runs>>
  PROVE  IInv'
<1>1. /\ stmt' \in [Statements -> Records] /\ stmt'[s] = N
      /\ \A t \in Statements : t # s => stmt'[t] = stmt[t]
  BY DEF IInv, Fields
<1>2. \A t \in Statements :
         /\ stmt'[t].chunk = stmt[t].chunk /\ stmt'[t].result = stmt[t].result
         /\ stmt'[t].done = stmt[t].done
  BY <1>1
<1>3. Fields'  BY <1>1 DEF IInv, Fields
<1>4. ASSUME NEW t \in Statements  PROVE Reads(t)'
  <2>1. CASE t = s  BY <2>1
  <2>2. CASE t # s
    <3>1. Reads(t) /\ pulling # t /\ stmt'[t] = stmt[t]  BY <1>1, <2>2 DEF IInv
    <3> QED  BY <3>1 DEF Reads
  <2> QED  BY <2>1, <2>2
<1>5. Distinct'  BY <1>2 DEF IInv, Distinct
<1>6. Held'  BY <1>2 DEF IInv, Held
<1>7. Cached'  BY DEF IInv, Cached
<1>8. Described'  BY <1>2 DEF IInv, Fields, Described
<1>9. Streaming'  BY <1>2 DEF IInv, Fields, Streaming, CanFetch
<1>10. Pulling'  BY <1>2 DEF Pulling, CanFetch
<1> QED  BY <1>3, <1>4, <1>5, <1>6, <1>7, <1>8, <1>9, <1>10 DEF IInv

LEMMA AppendedRow ==
  ASSUME NEW S, NEW run \in S, NEW k \in S, NEW row \in S
  PROVE  Append(<<run, k>>, row) = <<run, k, row>>
<1> DEFINE q == <<run, k>>
           r == <<run, k, row>>
           a == Append(q, row)
<1>1. q \in Seq(S) /\ Len(q) = 2 /\ q[1] = run /\ q[2] = k
  OBVIOUS
<1>2. r \in Seq(S) /\ Len(r) = 3 /\ r[1] = run /\ r[2] = k /\ r[3] = row
  OBVIOUS
<1> HIDE DEF q, r
<1> HIDE BoundsAssumption, NoneAssumption
<1>3. /\ a \in Seq(S) /\ Len(a) = Len(q) + 1
      /\ \A j \in 1..Len(q) : a[j] = q[j]
      /\ a[Len(q) + 1] = row
  BY SMTT(30), <1>1, AppendProperties
<1> HIDE DEF a
<1>4. Len(a) = 3 /\ a[1] = run /\ a[2] = k /\ a[3] = row
  BY <1>1, <1>3
<1>5. \A j \in 1..Len(a) : a[j] = r[j]  BY <1>2, <1>4
<1>6. a = r  BY <1>2, <1>3, <1>4, <1>5, SeqEqual
<1> QED  BY <1>6 DEF a, q, r

\* A row is fetched: its values are rendered, or not.
LEMMA RenderedRecord ==
  ASSUME NEW S \in Records, NEW row \in (1..MaxRuns) \X Nat \X Nat,
         NEW s, NEW ok
  PROVE  LET N == [S EXCEPT !.converted = Converted(s, ok, row)]
         IN  /\ N \in Records /\ N.result = S.result /\ N.chunk = S.chunk
             /\ N.size = S.size /\ N.cur = S.cur /\ N.done = S.done
             /\ N.converted \in {None, row}
<1>1. Converted(s, ok, row) \in {None, row}  BY DEF Converted
<1> QED  BY <1>1 DEF Records

LEMMA FetchInChunkPreserves ==
  ASSUME IInv, NEW s \in Statements, UNCHANGED engine, FetchInChunk(s)
  PROVE  IInv'
<1> DEFINE S == [stmt[s] EXCEPT !.cur = @ + 1]
           row == Append(heap[S.chunk], S.cur + 1)
<1>1. /\ pulling = None /\ pulling' = None
      /\ CanFetch(s) /\ stmt[s].cur + 1 < stmt[s].size
      /\ stmt[s] \in Records /\ stmt[s].result # None /\ ~stmt[s].done
      /\ UNCHANGED <<engine, stream, heap, chunkCache, auxCache, denied, runs>>
  BY DEF FetchInChunk, Idle, CanFetch, IInv, Fields
<1>2. /\ S \in Records /\ S.result = stmt[s].result /\ S.chunk = stmt[s].chunk
      /\ S.done = stmt[s].done /\ S.size = stmt[s].size /\ S.cur = stmt[s].cur + 1
      /\ S.cur \in Nat /\ S.size \in Nat
  BY SMTT(30), <1>1 DEF Records
<1>3. PICK ok \in BOOLEAN :
         stmt' = [stmt EXCEPT ![s] = [S EXCEPT !.converted = Converted(s, ok, row)]]
  BY DEF FetchInChunk, FetchedRow
<1> HIDE DEF S
<1>4. /\ stmt[s].chunk # None
      /\ heap[S.chunk] = <<S.result.run, S.result.fetched>>
      /\ S.result \in Results
  BY <1>1, <1>2 DEF IInv, Reads, Records
<1>5. /\ S.result.run \in 1..MaxRuns /\ S.result.fetched \in Nat
      /\ S.cur + 1 \in Nat
  BY <1>2, <1>4 DEF Results
<1>6. row = <<S.result.run, S.result.fetched, S.cur + 1>>
  BY <1>4, <1>5, AppendedRow
<1>7. row \in (1..MaxRuns) \X Nat \X Nat  BY <1>5, <1>6
<1> HIDE DEF row
<1> DEFINE N == [S EXCEPT !.converted = Converted(s, ok, row)]
<1>8. /\ N \in Records /\ N.result = S.result /\ N.chunk = S.chunk
      /\ N.size = S.size /\ N.cur = S.cur /\ N.done = S.done
      /\ N.converted \in {None, row}
  BY <1>2, <1>7, RenderedRecord
<1>9. stmt' = [stmt EXCEPT ![s] = N]  BY <1>3
<1> HIDE DEF N
<1>10. stmt'[s] = N  BY <1>9 DEF IInv, Fields
<1>11. Reads(s)'
  <2>1. N.result.run <= runs /\ N.result.fetched <= Len(N.result.shape)
    BY <1>1, <1>2, <1>8 DEF IInv, Reads
  <2>2. N.cur < N.size  BY <1>1, <1>2, <1>8
  <2>3. heap[N.chunk] = <<N.result.run, N.result.fetched>>  BY <1>4, <1>8
  <2>4. N.converted \in {None, <<N.result.run, N.result.fetched, N.cur + 1>>}
    BY <1>6, <1>8
  <2>5. N.result # None /\ N.chunk # None  BY <1>1, <1>2, <1>4, <1>8
  <2> QED  BY <1>1, <1>10, <2>1, <2>2, <2>3, <2>4, <2>5 DEF Reads
<1> QED  BY <1>1, <1>2, <1>8, <1>9, <1>11, CursorStep

LEMMA StartPullPreserves ==
  ASSUME IInv, NEW s \in Statements, UNCHANGED engine, StartPull(s)
  PROVE  IInv'
<1> DEFINE N == [stmt[s] EXCEPT !.started = TRUE,
                                !.cur = IF stmt[s].started THEN @ + 1 ELSE @]
<1>1. /\ pulling = None /\ pulling' = s
      /\ CanFetch(s) /\ stmt[s] \in Records /\ ~stmt[s].done
      /\ UNCHANGED <<engine, stream, heap, chunkCache, auxCache, denied, runs>>
  BY DEF StartPull, Idle, CanFetch, IInv, Fields
<1>2. stmt' = [stmt EXCEPT ![s] = N]  BY DEF StartPull, IInv, Fields
<1> DEFINE moved == IF stmt[s].started THEN stmt[s].cur + 1 ELSE stmt[s].cur
<1>3. /\ N \in Records /\ N.result = stmt[s].result /\ N.chunk = stmt[s].chunk
      /\ N.size = stmt[s].size /\ N.done = stmt[s].done
  <2>1. N = [stmt[s] EXCEPT !.started = TRUE, !.cur = moved]  OBVIOUS
  <2>2. moved \in Nat  BY <1>1 DEF Records
  <2> HIDE DEF moved
  <2> QED  BY <1>1, <2>1, <2>2 DEF Records
<1> HIDE DEF N
<1>4. stmt'[s] = N  BY <1>2 DEF IInv, Fields
<1>5. Reads(s)'
  BY <1>1, <1>3, <1>4 DEF Reads, IInv
<1> QED  BY <1>1, <1>2, <1>3, <1>5, CursorStep

LEMMA ReadColumnPreserves ==
  ASSUME IInv, NEW s \in Statements, UNCHANGED engine, ReadColumn(s)
  PROVE  IInv'
<1>1. UNCHANGED <<engine, stmt, stream, heap, auxCache, pulling, denied, runs>>
  BY DEF ReadColumn
<1>2. PICK room \in BOOLEAN : chunkCache' = Loaded(stmt[s].chunk, room)
  BY DEF ReadColumn
<1>3. stmt[s].chunk # None /\ stmt[s].chunk \in Addresses
  BY DEF ReadColumn, IInv, Fields, Records
<1>4. chunkCache'.key \in Addresses \cup {None}
  BY <1>2, <1>3 DEF Loaded, NoChunk
<1>5. Cached'
  <2>1. heap[stmt[s].chunk] # None
    <3>1. stmt[s].result \in Results
      BY <1>3 DEF IInv, Reads, Fields, Records
    <3>2. <<stmt[s].result.run, stmt[s].result.fetched>> \in Chunks
      BY <3>1 DEF Results, Chunks
    <3>3. heap[stmt[s].chunk] \in Chunks  BY <1>3, <3>2 DEF IInv, Reads
    <3> QED  BY <3>3
  <2> QED  BY <1>1, <1>2, <2>1 DEF Cached, Loaded, NoChunk
<1>6. Fields'  BY <1>1, <1>4 DEF IInv, Fields
<1>7. \A t \in Statements : Reads(t)'  BY <1>1 DEF IInv, Reads
<1>8. Distinct' /\ Held' /\ Described' /\ Streaming' /\ Pulling'
  BY <1>1 DEF IInv, Distinct, Held, Described, Streaming, Pulling, CanFetch
<1> QED  BY <1>5, <1>6, <1>7, <1>8 DEF IInv

\* The next chunk takes the place of the last one, at a free address.
LEMMA PullChunkPreserves ==
  ASSUME IInv, NEW s \in Statements, UNCHANGED engine, PullChunk(s)
  PROVE  IInv'
<1> DEFINE S == stmt[s]
           c == S.chunk
           k == S.result.fetched + 1
           size == S.result.shape[k]
           r == [S.result EXCEPT !.fetched = k]
<1>1. PICK a \in Addresses, room \in BOOLEAN :
         LET T == [S EXCEPT !.result.fetched = k, !.chunk = a, !.size = size,
                            !.cur = 0]
         IN /\ Destroyed(c)[a] = None
            /\ heap' = [Destroyed(c) EXCEPT ![a] = <<S.result.run, k>>]
            /\ chunkCache' = Loaded(a, room)
            /\ IF size = 0
               THEN stmt' = [stmt EXCEPT ![s] = T] /\ UNCHANGED <<pulling, seen>>
               ELSE /\ FetchedRow(s, T, <<S.result.run, k, T.cur + 1>>)
                    /\ pulling' = None
  BY DEF PullChunk
<1> DEFINE T == [S EXCEPT !.result = r, !.chunk = a, !.size = size, !.cur = 0]
           row == <<S.result.run, k, T.cur + 1>>
<1>2. /\ pulling = s /\ ~IsEnd(S.result) /\ ~S.result.aborted
      /\ UNCHANGED <<engine, stream, auxCache, denied, runs>>
      /\ CanFetch(s) /\ S \in Records /\ S.result # None /\ ~S.done
  BY DEF PullChunk, IInv, Fields, Pulling, CanFetch
<1>3. S.result \in Results  BY <1>2 DEF Records
<1>4. /\ S.result.run \in 1..MaxRuns /\ S.result.run <= runs
      /\ k \in Nat /\ k <= Len(S.result.shape) /\ size \in Nat
  <2>1. S.result.shape \in Seq(Nat) /\ S.result.fetched \in Nat
    BY <1>3 DEF Results
  <2>2. /\ S.result.run <= runs /\ S.result.fetched <= Len(S.result.shape)
        /\ S.result.fetched # Len(S.result.shape)
    BY <1>2 DEF IInv, Reads, IsEnd
  <2>3. S.result.run \in 1..MaxRuns  BY <1>3 DEF Results
  <2>4. k \in 1..Len(S.result.shape)
    <3> DEFINE n == Len(S.result.shape)
    <3>1. n \in Nat  BY <2>1
    <3> HIDE DEF n
    <3> QED  BY SMTT(30), <2>1, <2>2, <3>1 DEF n
  <2>5. size \in Nat  BY <2>1, <2>4, ElementOfSeq
  <2> QED  BY <2>2, <2>3, <2>4, <2>5
<1>5. /\ r \in Results /\ r.run = S.result.run /\ r.shape = S.result.shape
      /\ r.fetched = k /\ r.aborted = S.result.aborted
  BY <1>3, <1>4 DEF Results
<1> HIDE DEF r
<1>6. r # None  BY <1>5
<1> HIDE DEF size, k
<1>7. /\ T \in Records /\ T.result = r /\ T.chunk = a /\ T.size = size /\ T.cur = 0
      /\ T.done = S.done
  BY <1>2, <1>4, <1>5 DEF Records
<1>8. /\ Destroyed(c)[a] = None
      /\ heap' = [Destroyed(c) EXCEPT ![a] = <<S.result.run, k>>]
      /\ chunkCache' = Loaded(a, room)
  BY <1>1
<1>9. T = [S EXCEPT !.result.fetched = k, !.chunk = a, !.size = size, !.cur = 0]
  BY DEF r
<1>10. \/ size = 0 /\ stmt' = [stmt EXCEPT ![s] = T] /\ pulling' = s
       \/ size # 0 /\ FetchedRow(s, T, row) /\ pulling' = None
  BY <1>1, <1>2, <1>9
<1> HIDE DEF T, S, c
<1>11. row = <<r.run, r.fetched, 1>> /\ row \in (1..MaxRuns) \X Nat \X Nat
  BY <1>4, <1>5, <1>7
<1> HIDE DEF row
\* What the step leaves in the statement.
<1>12. PICK N \in Records :
          /\ stmt' = [stmt EXCEPT ![s] = N]
          /\ N.result = r /\ N.chunk = a /\ N.size = size /\ N.cur = 0
          /\ N.done = S.done
          /\ pulling' # s => size # 0 /\ N.converted \in {None, row}
  <2>1. CASE size = 0 /\ stmt' = [stmt EXCEPT ![s] = T] /\ pulling' = s
    BY <2>1, <1>7
  <2>2. CASE size # 0 /\ FetchedRow(s, T, row) /\ pulling' = None
    <3>1. PICK ok \in BOOLEAN :
             stmt' = [stmt EXCEPT ![s] = [T EXCEPT !.converted = Converted(s, ok, row)]]
      BY <2>2 DEF FetchedRow
    <3> DEFINE N == [T EXCEPT !.converted = Converted(s, ok, row)]
    <3>2. /\ N \in Records /\ N.result = T.result /\ N.chunk = T.chunk
          /\ N.size = T.size /\ N.cur = T.cur /\ N.done = T.done
          /\ N.converted \in {None, row}
      BY <1>7, <1>11, RenderedRecord
    <3>3. stmt' = [stmt EXCEPT ![s] = N]  BY <3>1
    <3> HIDE DEF N
    <3> QED  BY <2>2, <3>2, <3>3, <1>7
  <2> QED  BY <1>10, <2>1, <2>2
<1>13. pulling' \in {s, None}  BY <1>10
<1>14. /\ stmt' \in [Statements -> Records] /\ stmt'[s] = N
       /\ \A t \in Statements : t # s => stmt'[t] = stmt[t]
  BY <1>12 DEF IInv, Fields
\* What it leaves on the heap.
<1>15. /\ c \in Addresses \cup {None} /\ heap \in [Addresses -> Chunks \cup {None}]
       /\ heap' = [b \in Addresses |->
                     IF b = a THEN <<r.run, r.fetched>>
                     ELSE IF b = c THEN None ELSE heap[b]]
       /\ a = c \/ heap[a] = None
  BY <1>2, <1>5, <1>8 DEF Destroyed, IInv, Fields, Records, c, S
<1>16. <<r.run, r.fetched>> \in Chunks /\ <<r.run, r.fetched>> # None
  <2>1. <<r.run, r.fetched>> \in Chunks  BY <1>4, <1>5 DEF Chunks
  <2> QED  BY <2>1
<1>17. heap' \in [Addresses -> Chunks \cup {None}] /\ heap'[a] = <<r.run, r.fetched>>
  BY <1>15, <1>16
\* The other statements' chunks are elsewhere.
<1>18. ASSUME NEW t \in Statements, t # s, stmt[t].chunk # None
       PROVE  stmt[t].chunk # a /\ heap'[stmt[t].chunk] = heap[stmt[t].chunk]
  <2>1. stmt[t].chunk # c  BY <1>18 DEF IInv, Distinct, c, S
  <2>2. stmt[t].chunk \in Addresses /\ stmt[t].result \in Results
    BY <1>18 DEF IInv, Fields, Records, Reads
  <2>3. heap[stmt[t].chunk] # None
    <3>1. <<stmt[t].result.run, stmt[t].result.fetched>> \in Chunks
      BY <2>2 DEF Results, Chunks
    <3>2. heap[stmt[t].chunk] \in Chunks  BY <3>1, <1>18 DEF IInv, Reads
    <3> QED  BY <3>2
  <2>4. stmt[t].chunk # a  BY <2>1, <2>3, <1>15
  <2> QED  BY <2>1, <2>2, <2>4, <1>15
<1>19. Fields'
  <2>1. chunkCache'.key \in Addresses \cup {None}
    BY <1>8 DEF Loaded, NoChunk
  <2> QED  BY <1>2, <1>13, <1>14, <1>17, <2>1 DEF IInv, Fields
<1>20. ASSUME NEW t \in Statements  PROVE Reads(t)'
  <2>1. CASE t # s
    <3>1. Reads(t) /\ pulling # t /\ pulling' # t /\ stmt'[t] = stmt[t]
      BY <2>1, <1>2, <1>13, <1>14 DEF IInv, Fields
    <3> QED  BY <3>1, <1>2, <1>18, <2>1 DEF Reads
  <2>2. CASE t = s
    <3>1. N.result.run <= runs /\ N.result.fetched <= Len(N.result.shape)
      BY <1>4, <1>5, <1>12
    <3>2. heap'[N.chunk] = <<N.result.run, N.result.fetched>>
      BY <1>12, <1>17
    <3>3. pulling' # s =>
             /\ N.cur < N.size
             /\ N.converted \in {None, <<N.result.run, N.result.fetched, N.cur + 1>>}
      BY <1>4, <1>11, <1>12
    <3>4. N.result # None /\ N.chunk # None  BY <1>6, <1>12
    <3> QED  BY <2>2, <1>2, <1>14, <3>1, <3>2, <3>3, <3>4 DEF Reads
  <2> QED  BY <2>1, <2>2
<1>21. Distinct'
  BY <1>12, <1>14, <1>18 DEF IInv, Distinct
<1>22. Held'
  <2> SUFFICES ASSUME NEW b \in Addresses, heap'[b] # None
               PROVE  \E t \in Statements : stmt'[t].chunk = b
    BY DEF Held
  <2>1. CASE b = a  BY <2>1, <1>12, <1>14
  <2>2. CASE b # a
    <3>1. b # c /\ heap[b] # None  BY <2>2, <1>15
    <3>2. PICK t \in Statements : stmt[t].chunk = b  BY <3>1 DEF IInv, Held
    <3>3. t # s  BY <3>1, <3>2 DEF c, S
    <3> QED  BY <3>2, <3>3, <1>14
  <2> QED  BY <2>1, <2>2
<1>23. Cached'
  BY <1>8, <1>16, <1>17 DEF Cached, Loaded, NoChunk
<1>24. Described'
  <2> SUFFICES ASSUME auxCache.owner # None
               PROVE  /\ stmt'[auxCache.owner].result # None
                      /\ stmt'[auxCache.owner].result.run = auxCache.run
    BY <1>2 DEF Described
  <2>1. auxCache.owner \in Statements  BY DEF IInv, Fields
  <2>2. CASE auxCache.owner = s
    BY <2>2, <1>5, <1>6, <1>12, <1>14 DEF IInv, Described, S
  <2>3. CASE auxCache.owner # s
    BY <2>1, <2>3, <1>14 DEF IInv, Described
  <2> QED  BY <2>2, <2>3
<1>25. Streaming'
  <2> SUFFICES ASSUME stream # None
               PROVE  /\ stmt'[stream].result # None /\ ~stmt'[stream].done
                      /\ ~stmt'[stream].result.aborted
    BY <1>2 DEF Streaming, CanFetch
  <2>1. CASE stream = s
    BY <2>1, <1>2, <1>5, <1>6, <1>12, <1>14 DEF S
  <2>2. CASE stream # s
    <3>1. stmt'[stream] = stmt[stream]  BY <2>2, <1>14 DEF IInv, Fields
    <3> QED  BY <3>1 DEF IInv, Streaming, CanFetch
  <2> QED  BY <2>1, <2>2
<1>26. Pulling'
  BY <1>2, <1>6, <1>12, <1>13, <1>14 DEF Pulling, CanFetch
<1> QED
  BY SMTT(30), <1>19, <1>20, <1>21, <1>22, <1>23, <1>24, <1>25, <1>26 DEF IInv

\* Steps that touch no result.
LEMMA QuietStep ==
  ASSUME IInv, UNCHANGED <<engine, stmt, stream, heap, chunkCache, auxCache,
                           pulling, runs>>, denied' \in BOOLEAN
  PROVE  IInv'
<1>1. Fields'  BY DEF IInv, Fields
<1>2. \A t \in Statements : Reads(t)'  BY DEF IInv, Reads
<1> QED
  BY <1>1, <1>2 DEF IInv, Distinct, Held, Cached, Described, Streaming, Pulling,
     CanFetch

-----------------------------------------------------------------------------
(* The theorems.                                                            *)

LEMMA Initially == Init => IInv
<1> SUFFICES ASSUME Init PROVE IInv  OBVIOUS
<1>1. Fields
  <2>1. stmt \in [Statements -> Records]  BY EmptyRecord DEF Init
  <2>2. heap \in [Addresses -> Chunks \cup {None}]  BY DEF Init
  <2>3. runs \in 0..MaxRuns  BY DEF Init
  <2> QED  BY <2>1, <2>2, <2>3 DEF Init, Fields, NoChunk, NoAux
<1>2. \A s \in Statements : Reads(s)  BY DEF Init, Reads, Empty
<1>3. Distinct /\ Held /\ Cached /\ Described /\ Streaming /\ Pulling
  BY DEF Init, Distinct, Held, Cached, Described, Streaming, Pulling, Empty, NoChunk,
     NoAux
<1> QED  BY <1>1, <1>2, <1>3 DEF IInv

LEMMA Preserved == IInv /\ [Next]_vars => IInv'
<1> SUFFICES ASSUME IInv, [Next]_vars PROVE IInv'  OBVIOUS
<1>1. CASE UNCHANGED vars
  BY <1>1, QuietStep DEF vars, IInv, Fields
<1>2. CASE Next
  <2>1. UNCHANGED engine  BY <1>2 DEF Next
  <2>2. CASE \E s \in Statements : CloseCursor(s)
    BY <2>1, <2>2, CloseCursorPreserves
  <2>3. CASE \E s \in Statements : ExecuteRefused(s)
    BY <2>1, <2>3, ExecuteRefusedPreserves
  <2>4. CASE \E s \in Statements : ExecuteUnreadable(s)
    BY <2>1, <2>4, ExecuteUnreadablePreserves
  <2>5. CASE \E s \in Statements : \E shape \in Shapes, unbuffered \in BOOLEAN :
                Execute(s, shape, unbuffered)
    BY <2>1, <2>5, ExecutePreserves
  <2>6. CASE \E s \in Statements : FetchInChunk(s)
    BY <2>1, <2>6, FetchInChunkPreserves
  <2>7. CASE \E s \in Statements : StartPull(s)
    BY <2>1, <2>7, StartPullPreserves
  <2>8. CASE \E s \in Statements : PullDenied(s)
    BY <2>1, <2>8, PullDeniedPreserves
  <2>9. CASE \E s \in Statements : PullFails(s)
    BY <2>1, <2>9, PullFailsPreserves
  <2>10. CASE \E s \in Statements : PullEnd(s)
    BY <2>1, <2>10, PullEndPreserves
  <2>11. CASE \E s \in Statements : PullChunk(s)
    BY <2>1, <2>11, PullChunkPreserves
  <2>12. CASE \E s \in Statements : ReadColumn(s)
    BY <2>1, <2>12, ReadColumnPreserves
  <2>13. CASE OtherQuery  BY <2>1, <2>13, OtherQueryPreserves
  <2>14. CASE ChangeBasedir
    BY <2>1, <2>14, QuietStep DEF ChangeBasedir
  <2> QED
    BY <1>2, <2>2, <2>3, <2>4, <2>5, <2>6, <2>7, <2>8, <2>9, <2>10, <2>11, <2>12,
       <2>13, <2>14 DEF Next
<1> QED  BY <1>1, <1>2

\* The statements, the heap and the two caches agree with each other.
THEOREM Invariance == Spec => []IInv
<1> QED  BY Initially, Preserved, PTL DEF Spec

\* A statement with a chunk has the result it comes from, and its cursor is on a
\* row of it whenever no fetch() is in its loop (duckdb_statement.c, fetch).
THEOREM TypeCorrect == Spec => []TypeOK
<1>1. IInv => TypeOK
  <2> SUFFICES ASSUME IInv PROVE TypeOK  OBVIOUS
  <2>1. ASSUME NEW s \in Statements
        PROVE  LET S == stmt[s] IN
               /\ S.result # None => /\ S.result.run \in 1..runs
                                     /\ S.result.shape \in Shapes
                                     /\ S.result.fetched <= Len(S.result.shape)
               /\ S.chunk \in Addresses \cup {None}
               /\ S.chunk # None => S.result # None
               /\ S.chunk # None /\ pulling = None => S.cur < S.size
    <3>1. Reads(s) /\ stmt[s] \in Records /\ runs \in Nat
      BY DEF IInv, Fields
    <3>2. stmt[s].result # None => stmt[s].result \in Results
      BY <3>1 DEF Records
    <3> QED  BY <3>1, <3>2 DEF Reads, Records, Results
  <2> QED  BY <2>1 DEF IInv, Fields, TypeOK
<1> QED  BY <1>1, Invariance, PTL

\* Neither cache answers for a chunk or a result that is gone, and a row is not
\* given the values of another.
THEOREM NothingStaleIsRead == Spec => []CachesAreCurrent
<1>1. IInv => CachesAreCurrent
  <2> SUFFICES ASSUME IInv PROVE CachesAreCurrent  OBVIOUS
  <2>1. ASSUME NEW s \in Statements, Idle, stmt[s].chunk # None,
               stmt[s].converted # None
        PROVE  stmt[s].converted = Append(heap[stmt[s].chunk], stmt[s].cur + 1)
    <3>1. /\ stmt[s].result \in Results /\ stmt[s].cur \in Nat
          /\ heap[stmt[s].chunk] = <<stmt[s].result.run, stmt[s].result.fetched>>
          /\ stmt[s].converted = <<stmt[s].result.run, stmt[s].result.fetched,
                                   stmt[s].cur + 1>>
      BY <2>1 DEF IInv, Reads, Idle, Fields, Records
    <3>2. /\ stmt[s].result.run \in Nat /\ stmt[s].result.fetched \in Nat
          /\ stmt[s].cur + 1 \in Nat
      BY SMTT(30), <3>1 DEF Results
    <3> QED  BY <3>1, <3>2, AppendedRow
  <2>2. Cached /\ Described  BY DEF IInv
  <2> QED  BY <2>1, <2>2 DEF CachesAreCurrent, Cached, Described
<1> QED  BY <1>1, Invariance, PTL

\* No chunk leaks, is destroyed twice or is read by two statements, whatever
\* order results are executed, fetched, aborted and closed in.
THEOREM NoChunkLeaks == Spec => []ChunksAreOwned
<1>1. IInv => ChunksAreOwned
  <2> SUFFICES ASSUME IInv, NEW a \in Addresses
               PROVE  LET holders == {s \in Statements : stmt[s].chunk = a} IN
                      /\ heap[a] = None <=> holders = {}
                      /\ Cardinality(holders) <= 1
                      /\ \A s \in holders : heap[a][1] = stmt[s].result.run
    BY DEF ChunksAreOwned
  <2> DEFINE holders == {s \in Statements : stmt[s].chunk = a}
  <2>1. a # None  OBVIOUS
  <2>2. ASSUME NEW s \in holders
        PROVE  heap[a] # None /\ heap[a][1] = stmt[s].result.run
    <3>1. /\ stmt[s].result \in Results
          /\ heap[a] = <<stmt[s].result.run, stmt[s].result.fetched>>
      BY <2>1 DEF IInv, Reads, Fields, Records
    <3>2. heap[a] \in Chunks  BY <3>1 DEF Results, Chunks
    <3> QED  BY <3>1, <3>2
  <2>3. heap[a] # None => holders # {}  BY DEF IInv, Held
  <2>4. Cardinality(holders) <= 1
    <3> HIDE BoundsAssumption, NoneAssumption
    <3>1. CASE holders = {}
      <4>1. Cardinality(holders) = 0  BY <3>1, FS_EmptySet
      <4> QED  BY <4>1
    <3>2. CASE holders # {}
      <4>1. PICK s \in holders : TRUE  BY <3>2
      <4>2. \A t \in holders : t = s  BY <2>1 DEF IInv, Distinct
      <4>3. holders = {s}  BY <4>1, <4>2
      <4>4. Cardinality(holders) = 1  BY <4>3, FS_Singleton
      <4> QED  BY <4>4
    <3> QED  BY <3>1, <3>2
  <2> QED  BY <2>2, <2>3, <2>4
<1> QED  BY <1>1, Invariance, PTL

\* A failed, denied or finished stream never keeps the connection occupied.
THEOREM StreamsAreReleased == Spec => []NothingIsPinned
<1>1. IInv => NothingIsPinned  BY DEF IInv, Streaming, NothingIsPinned
<1> QED  BY <1>1, Invariance, PTL

-----------------------------------------------------------------------------
(* The rows of a result, and how far the fetches of a statement are in it.  *)

Rows == Nat \X Nat

\* The first c rows of the k-th chunk.
FirstRows(k, c) == [i \in 1..c |-> <<k, i>>]

\* The rows of the first k chunks of a result, for every k.
Through(shape) ==
    LET F[k \in 0..Len(shape)] ==
           IF k = 0 THEN <<>> ELSE F[k - 1] \o FirstRows(k, shape[k])
    IN F

\* How far a statement's fetches are in its result: through the chunks that were
\* fetched when the last of them is read or skipped, and otherwise on a row of
\* the last one.
Progress(s) ==
    LET S == stmt[s]
        r == S.result
        F == Through(r.shape)
        k == r.fetched
    IN r # None =>
       /\ ~S.started => k = 0 /\ S.chunk = None /\ ~S.done
       /\ S.chunk # None => k # 0 /\ S.size = r.shape[k]
       /\ IF ~S.started \/ pulling = s \/ S.done
          THEN seen[s] = F[k]
          ELSE S.chunk # None /\ seen[s] = F[k - 1] \o FirstRows(k, S.cur + 1)
       /\ pulling = s => S.started
       /\ S.done => k = Len(r.shape)
       /\ atEnd[s] => S.done

LEMMA FirstRowsFacts ==
  ASSUME NEW k \in Nat, NEW c \in Nat
  PROVE  /\ FirstRows(k, c) \in Seq(Rows) /\ Len(FirstRows(k, c)) = c
         /\ \A i \in 1..c : FirstRows(k, c)[i] = <<k, i>>
<1> HIDE BoundsAssumption, NoneAssumption
<1> QED  BY DEF FirstRows, Rows

\* A chunk's next row is appended.
LEMMA NextRow ==
  ASSUME NEW before \in Seq(Rows), NEW k \in Nat, NEW c \in Nat
  PROVE  Append(before \o FirstRows(k, c), <<k, c + 1>>)
           = before \o FirstRows(k, c + 1)
<1> HIDE BoundsAssumption, NoneAssumption
<1> DEFINE row == <<k, c + 1>>
           a == FirstRows(k, c)
           b == FirstRows(k, c + 1)
<1>1. row \in Rows /\ c + 1 \in Nat  BY DEF Rows
<1>2. a \in Seq(Rows) /\ Len(a) = c /\ \A i \in 1..c : a[i] = <<k, i>>
  BY FirstRowsFacts
<1>3. b \in Seq(Rows) /\ Len(b) = c + 1 /\ \A i \in 1..c + 1 : b[i] = <<k, i>>
  BY FirstRowsFacts, <1>1
<1> HIDE DEF a, b
<1>4. Append(a, row) = b
  <2> DEFINE s == Append(a, row)
  <2> HIDE DEF row
  <2>1. s \in Seq(Rows) /\ Len(s) = c + 1 /\ s[c + 1] = row
        /\ \A i \in 1..c : s[i] = a[i]
    BY <1>1, <1>2, AppendProperties
  <2> HIDE DEF s
  <2>2. ASSUME NEW i \in 1..c + 1  PROVE s[i] = b[i]
    <3>1. CASE i \in 1..c
      <4>1. s[i] = a[i] /\ a[i] = <<k, i>> /\ b[i] = <<k, i>>
        BY <1>2, <1>3, <2>1, <3>1
      <4> QED  BY <4>1
    <3>2. CASE i = c + 1
      <4>1. b[c + 1] = <<k, c + 1>>  BY <1>3, <3>2
      <4> QED  BY <2>1, <3>2, <4>1 DEF row
    <3> QED  BY <3>1, <3>2
  <2>3. s = b  BY <1>3, <2>1, <2>2, SeqEqual
  <2> QED  BY <2>3 DEF s
<1> HIDE DEF row
<1>5. <<row>> \in Seq(Rows)  BY <1>1
<1>6. before \o a \in Seq(Rows)  BY <1>2, ConcatProperties
<1>7. Append(before \o a, row) = (before \o a) \o <<row>>
  BY <1>1, <1>6, AppendIsConcat
<1>8. Append(a, row) = a \o <<row>>  BY <1>1, <1>2, AppendIsConcat
<1>9. (before \o a) \o <<row>> = before \o (a \o <<row>>)
  BY SMTT(30), <1>2, <1>5, ConcatAssociative
<1>10. Append(before \o a, row) = before \o b
  BY <1>4, <1>7, <1>8, <1>9
<1> QED  BY <1>10 DEF row, a, b

\* What Through is, and that it ends with all the rows.
LEMMA ThroughFacts ==
  ASSUME NEW shape \in Seq(Nat)
  PROVE  LET F == Through(shape) IN
         /\ F \in [0..Len(shape) -> Seq(Rows)] /\ F[0] = <<>>
         /\ \A k \in 1..Len(shape) : F[k] = F[k - 1] \o FirstRows(k, shape[k])
         /\ AllRows(shape) = F[Len(shape)]
<1> HIDE BoundsAssumption, NoneAssumption
<1> DEFINE n == Len(shape)
           chunks == [k \in 1..Len(shape) |-> [i \in 1..shape[k] |-> <<k, i>>]]
<1>1. n \in Nat  OBVIOUS
<1>2. /\ chunks \in Seq(Seq(Rows)) /\ Len(chunks) = n
      /\ \A k \in 1..n : chunks[k] = FirstRows(k, shape[k])
                         /\ chunks[k] \in Seq(Rows)
  <2>1. \A k \in 1..n : FirstRows(k, shape[k]) \in Seq(Rows)
    <3> SUFFICES ASSUME NEW k \in 1..n  PROVE FirstRows(k, shape[k]) \in Seq(Rows)
      OBVIOUS
    <3>1. k \in Nat /\ shape[k] \in Nat  BY <1>1, ElementOfSeq
    <3> QED  BY <3>1, FirstRowsFacts
  <2> QED  BY <1>1, <2>1 DEF FirstRows
<1> HIDE DEF chunks
<1> DEFINE S == 0..n
           W == Seq(Rows)
           D == [f \in [S -> W] |-> [k \in S |->
                   IF k = 0 THEN <<>> ELSE f[k - 1] \o chunks[k]]]
           m == [k \in S |-> k]
<1>3. PICK F \in [S -> W] : F = D[F]
  <2> DEFINE Value(f, k) == IF k = 0 THEN <<>> ELSE f[k - 1] \o chunks[k]
  <2>0. ASSUME NEW f \in [S -> W], NEW k \in S  PROVE Value(f, k) \in W
    <3>1. CASE k = 0  BY <3>1, EmptySeq
    <3>2. CASE k # 0
      <4>1. k - 1 \in S /\ k \in 1..n  BY <1>1, <3>2
      <4>2. f[k - 1] \in W /\ chunks[k] \in W  BY <1>2, <4>1
      <4>3. f[k - 1] \o chunks[k] \in W  BY <4>2, ConcatProperties
      <4> QED  BY <3>2, <4>3
    <3> QED  BY <3>1, <3>2
  <2>1. D \in [[S -> W] -> [S -> W]]
    <3> DEFINE X == [S -> W]
               E(f) == [k \in S |-> Value(f, k)]
    <3>1. \A f \in X : E(f) \in X
      <4> HIDE DEF Value, W, S
      <4> QED  BY <2>0
    <3>2. D = [f \in X |-> E(f)]  OBVIOUS
    <3> HIDE DEF E, X, D
    <3>3. D \in [X -> X]  BY <3>1, <3>2
    <3> QED  BY <3>3 DEF X
  <2>2. m \in [S -> Nat] /\ W # {}
    <3>1. m \in [S -> Nat]  BY <1>1
    <3>2. <<>> \in W  OBVIOUS
    <3> QED  BY <3>1, <3>2
  <2>3. Defines(D, S, W, m)
    <3> SUFFICES ASSUME NEW k \in S, NEW g \in [S -> W], NEW h \in [S -> W],
                        \A y \in S : m[y] < m[k] => g[y] = h[y]
                 PROVE  D[g][k] = D[h][k]
      BY <2>1, <2>2 DEF Defines
    <3>1. k # 0 => g[k - 1] = h[k - 1]  BY <1>1
    <3>2. D[g][k] = Value(g, k) /\ D[h][k] = Value(h, k)
      <4> HIDE DEF W, Value
      <4> QED  BY SMTT(30)
    <3> HIDE DEF D, W, S
    <3> QED  BY <3>1, <3>2
  <2> HIDE DEF D, m, S, W
  <2> QED  BY <2>3, RecursiveFunction
<1>4. /\ F[0] = <<>>
      /\ \A k \in 1..n : F[k] = F[k - 1] \o chunks[k]
  <2>1. \A k \in S : F[k] = IF k = 0 THEN <<>> ELSE F[k - 1] \o chunks[k]
    <3>1. D[F] = [k \in S |-> IF k = 0 THEN <<>> ELSE F[k - 1] \o chunks[k]]
      OBVIOUS
    <3> HIDE DEF D, W
    <3> QED  BY <1>3, <3>1
  <2>2. 0 \in S /\ \A k \in 1..n : k \in S /\ k # 0  BY <1>1
  <2> HIDE DEF D, W, S, m
  <2> QED  BY <2>1, <2>2
<1>5. Through(shape) = F
  <2> DEFINE P(f) == f = [k \in 0..Len(shape) |-> IF k = 0 THEN <<>>
                            ELSE f[k - 1] \o FirstRows(k, shape[k])]
             G == CHOOSE f : P(f)
  <2>1. P(F)
    <3>1. ASSUME NEW k \in 0..Len(shape)
          PROVE  F[k] = IF k = 0 THEN <<>> ELSE F[k - 1] \o FirstRows(k, shape[k])
      <4>1. CASE k = 0  BY <1>4, <4>1
      <4>2. CASE k # 0
        <5>1. k \in 1..n  BY <1>1, <4>2
        <5> QED  BY <4>2, <5>1, <1>2, <1>4
      <4> QED  BY <4>1, <4>2
    <3>2. F = [k \in 0..Len(shape) |-> F[k]]  BY <1>3
    <3> HIDE DEF D, W
    <3> QED  BY <3>1, <3>2
  <2>2. P(G)  BY <2>1, Zenon
  <2>3. Through(shape) = G  BY Zenon DEF Through
  <2> HIDE DEF G
  <2>4. /\ G[0] = <<>>
        /\ \A k \in 1..n : G[k] = G[k - 1] \o chunks[k]
    <3>1. \A k \in 0..n : G[k] = IF k = 0 THEN <<>>
                                 ELSE G[k - 1] \o FirstRows(k, shape[k])
      BY <2>2
    <3>2. 0 \in 0..n /\ \A k \in 1..n : k \in 0..n /\ k # 0  BY <1>1
    <3> HIDE DEF P
    <3> QED  BY <1>2, <3>1, <3>2
  <2>5. G = [k \in 0..n |-> G[k]]  BY <2>2
  <2> HIDE DEF P
  <2> DEFINE T == {k \in Nat : k <= n => G[k] = F[k]}
  <2>6. 0 \in T  BY <1>4, <2>4
  <2>7. ASSUME NEW k \in Nat, k \in T  PROVE k + 1 \in T
    <3> SUFFICES ASSUME k + 1 <= n  PROVE G[k + 1] = F[k + 1]
      OBVIOUS
    <3> DEFINE j == k + 1
    <3>1. j \in 1..n /\ j - 1 = k /\ k <= n  BY <1>1
    <3>2. G[k] = F[k]  BY <2>7, <3>1
    <3> HIDE DEF j
    <3>3. G[j] = F[j]  BY <1>4, <2>4, <3>1, <3>2
    <3> QED  BY <3>3 DEF j
  <2>8. \A k \in Nat : k \in T
    <3> HIDE DEF T
    <3> QED  BY <2>6, <2>7, Induction
  <2>9. \A k \in S : G[k] = F[k]  BY <1>1, <2>8
  <2>10. F = [k \in S |-> F[k]]  BY <1>3
  <2> HIDE DEF D, W, T
  <2> QED  BY <2>3, <2>5, <2>9, <2>10
<1>6. AllRows(shape) = F[n]
  <2>1. AllRows(shape) = FlattenSeq(chunks)  BY DEF AllRows, chunks
  <2>2. CASE n = 0
    <3>1. FlattenSeq(chunks) = chunks  BY <1>2, <2>2, Zenon DEF FlattenSeq
    <3>2. chunks = <<>>  BY <1>2, <2>2, EmptySeq
    <3> QED  BY <1>4, <2>1, <2>2, <3>1, <3>2
  <2>3. CASE n # 0
    <3> DEFINE R == 1..Len(chunks)
               P(f) == f = [i \in 1..Len(chunks) |->
                              IF i = 1 THEN chunks[i] ELSE f[i - 1] \o chunks[i]]
               f0 == [i \in R |-> F[i]]
    <3>1. P(f0)
      <4> SUFFICES ASSUME NEW i \in R
                   PROVE  F[i] = IF i = 1 THEN chunks[i] ELSE f0[i - 1] \o chunks[i]
        OBVIOUS
      <4>1. i \in 1..n /\ chunks[i] \in W  BY <1>2
      <4>2. F[i] = F[i - 1] \o chunks[i]  BY <1>4, <4>1
      <4>3. CASE i = 1
        <5>1. F[i - 1] = <<>>  BY <1>4, <4>3
        <5>2. <<>> \o chunks[i] = chunks[i]  BY <4>1, ConcatEmptySeq
        <5> QED  BY <4>2, <4>3, <5>1, <5>2
      <4>4. CASE i # 1
        <5>1. i - 1 \in R  BY <4>1, <4>4, <1>2
        <5>2. f0[i - 1] = F[i - 1]  BY <5>1
        <5> QED  BY <4>2, <4>4, <5>2
      <4> QED  BY <4>3, <4>4
    <3> DEFINE g == CHOOSE f : P(f)
    <3>2. P(g)  BY <3>1, Zenon
    <3>3. FlattenSeq(chunks) = g[Len(chunks)]
      BY <1>2, <2>3, Zenon DEF FlattenSeq
    <3> HIDE DEF g
    <3>4. \A i \in 1..n : g[i] = IF i = 1 THEN chunks[i] ELSE g[i - 1] \o chunks[i]
      BY <1>2, <3>2
    <3> HIDE DEF P, f0
    <3> DEFINE T == {k \in Nat : k \in 1..n => g[k] = F[k]}
    <3>5. 0 \in T  OBVIOUS
    <3>6. ASSUME NEW k \in Nat, k \in T  PROVE k + 1 \in T
      <4> SUFFICES ASSUME k + 1 \in 1..n  PROVE g[k + 1] = F[k + 1]
        OBVIOUS
      <4>0. k + 1 \in 1..n /\ (k + 1) - 1 = k  OBVIOUS
      <4> DEFINE j == k + 1
      <4>1. /\ F[j] = F[k] \o chunks[j]
            /\ g[j] = IF j = 1 THEN chunks[j] ELSE g[k] \o chunks[j]
        <5>1. j \in 1..n /\ j - 1 = k  BY <4>0
        <5> HIDE DEF j
        <5> QED  BY <1>4, <3>4, <5>1
      <4>2. CASE k = 0
        <5>1. chunks[j] \in W  BY <1>2, <4>0
        <5>2. <<>> \o chunks[j] = chunks[j]  BY <5>1, ConcatEmptySeq
        <5>3. F[k] = <<>> /\ j = 1  BY <1>4, <4>2
        <5> QED  BY <4>1, <5>2, <5>3
      <4>3. CASE k # 0
        <5>1. k \in 1..n /\ j # 1  BY <1>1, <4>3
        <5> QED  BY <3>6, <4>1, <5>1
      <4> QED  BY <4>2, <4>3
    <3>7. \A k \in Nat : k \in T
      <4> HIDE DEF T
      <4> QED  BY <3>5, <3>6, Induction
    <3>8. g[n] = F[n]  BY <1>1, <2>3, <3>7
    <3> QED  BY <1>2, <2>1, <3>3, <3>8
  <2> QED  BY <2>2, <2>3
<1> QED  BY <1>2, <1>3, <1>4, <1>5, <1>6

\* t is s and more.
Continues(s, t) == \E u \in Seq(Rows) : t = s \o u

LEMMA PrefixOfMore ==
  ASSUME NEW s \in Seq(Rows), NEW t, Continues(s, t)
  PROVE  IsPrefix(s, t)
<1> HIDE BoundsAssumption, NoneAssumption
<1>1. PICK u \in Seq(Rows) : t = s \o u  BY DEF Continues
<1> DEFINE n == Len(s)
           p == SubSeq(t, 1, n)
<1>2. n \in Nat /\ Len(u) \in Nat  OBVIOUS
<1>3. /\ t \in Seq(Rows) /\ Len(t) = n + Len(u)
      /\ \A i \in 1..n + Len(u) : t[i] = IF i <= n THEN s[i] ELSE u[i - n]
  BY <1>1, ConcatProperties
<1>4. \A i \in 1..n : t[i] = s[i] /\ s[i] \in Rows
  <2> SUFFICES ASSUME NEW i \in 1..n  PROVE t[i] = s[i] /\ s[i] \in Rows
    OBVIOUS
  <2>1. i \in 1..n + Len(u) /\ i <= n  BY <1>2
  <2>2. s[i] \in Rows  BY ElementOfSeq
  <2> QED  BY <1>3, <2>1, <2>2
<1>5. /\ p \in Seq(Rows) /\ Len(p) = n
      /\ \A i \in 1..n : p[i] = s[i]
  <2> HIDE DEF n
  <2>1. /\ p \in Seq(Rows) /\ Len(p) = IF 1 <= n THEN n - 1 + 1 ELSE 0
        /\ \A i \in 1..n - 1 + 1 : p[i] = t[1 + i - 1]
    BY <1>2, <1>4, SubSeqProperties
  <2>2. Len(p) = n  BY <1>2, <2>1
  <2>3. ASSUME NEW i \in 1..n  PROVE p[i] = s[i]
    <3>1. i \in 1..n - 1 + 1 /\ 1 + i - 1 = i  BY <1>2
    <3> QED  BY <1>4, <2>1, <3>1
  <2> QED  BY <2>1, <2>2, <2>3
<1>6. p = s
  <2> HIDE DEF p
  <2> QED  BY <1>5, SeqEqual
<1>7. SubSeq(s, 1, n) = s
  <2> DEFINE q == SubSeq(s, 1, n)
  <2>1. /\ q \in Seq(Rows) /\ Len(q) = n
        /\ \A i \in 1..n : q[i] = s[i]
    <3> HIDE DEF n
    <3>1. /\ q \in Seq(Rows) /\ Len(q) = IF 1 <= n THEN n - 1 + 1 ELSE 0
          /\ \A i \in 1..n - 1 + 1 : q[i] = s[1 + i - 1]
      BY <1>2, <1>4, SubSeqProperties
    <3>2. Len(q) = n  BY <1>2, <3>1
    <3>3. ASSUME NEW i \in 1..n  PROVE q[i] = s[i]
      <4>1. i \in 1..n - 1 + 1 /\ 1 + i - 1 = i  BY <1>2
      <4> QED  BY <3>1, <4>1
    <3> QED  BY <3>1, <3>2, <3>3
  <2> HIDE DEF q
  <2>2. q = s  BY <2>1, SeqEqual
  <2> QED  BY <2>2 DEF q
<1> QED  BY <1>2, <1>3, <1>6, <1>7 DEF IsPrefix

\* A part of a chunk's rows is continued by the whole.
LEMMA PartOfChunk ==
  ASSUME NEW before \in Seq(Rows), NEW k \in Nat, NEW c \in Nat, NEW size \in Nat,
         c <= size
  PROVE  Continues(before \o FirstRows(k, c), before \o FirstRows(k, size))
<1> HIDE BoundsAssumption, NoneAssumption
<1> DEFINE T == {d \in Nat : Continues(before \o FirstRows(k, c),
                                       before \o FirstRows(k, c + d))}
<1>1. 0 \in T
  <2>1. before \o FirstRows(k, c) \in Seq(Rows)
    BY FirstRowsFacts, ConcatProperties
  <2>2. (before \o FirstRows(k, c)) \o <<>> = before \o FirstRows(k, c)
    BY <2>1, ConcatEmptySeq
  <2>3. c + 0 = c /\ <<>> \in Seq(Rows)  OBVIOUS
  <2> QED  BY <2>2, <2>3 DEF Continues
<1>2. ASSUME NEW d \in Nat, d \in T  PROVE d + 1 \in T
  <2> DEFINE s == before \o FirstRows(k, c)
             t == before \o FirstRows(k, c + d)
             row == <<k, c + d + 1>>
  <2>1. PICK u \in Seq(Rows) : t = s \o u  BY <1>2 DEF Continues
  <2>2. s \in Seq(Rows)  BY FirstRowsFacts, ConcatProperties
  <2>3. t \in Seq(Rows)
    <3>1. c + d \in Nat  OBVIOUS
    <3>2. FirstRows(k, c + d) \in Seq(Rows)  BY <3>1, FirstRowsFacts
    <3> QED  BY <3>2, ConcatProperties
  <2>4. Append(t, row) = before \o FirstRows(k, c + d + 1)
    <3>1. c + d \in Nat  OBVIOUS
    <3> QED  BY <3>1, NextRow
  <2>5. row \in Rows  BY DEF Rows
  <2> HIDE DEF s, t, row
  <2>6. <<row>> \in Seq(Rows)  BY <2>5
  <2>7. Append(t, row) = t \o <<row>>  BY <2>3, <2>5, AppendIsConcat
  <2>8. (s \o u) \o <<row>> = s \o (u \o <<row>>)
    BY <2>2, <2>6, ConcatAssociative
  <2>9. u \o <<row>> \in Seq(Rows)  BY <2>6, ConcatProperties
  <2>10. Append(t, row) = s \o (u \o <<row>>)  BY <2>1, <2>7, <2>8
  <2>11. Continues(s, before \o FirstRows(k, c + d + 1))
    BY <2>4, <2>9, <2>10 DEF Continues
  <2>12. c + d + 1 = c + (d + 1)  OBVIOUS
  <2> QED  BY <2>11, <2>12 DEF s
<1>3. \A d \in Nat : d \in T
  <2> HIDE DEF T
  <2> QED  BY <1>1, <1>2, Induction
<1>4. size - c \in Nat /\ c + (size - c) = size  OBVIOUS
<1>5. size - c \in T  BY <1>3, <1>4
<1> QED  BY <1>4, <1>5

LEMMA MoreOfMore ==
  ASSUME NEW s \in Seq(Rows), NEW t \in Seq(Rows), NEW v,
         Continues(s, t), Continues(t, v)
  PROVE  Continues(s, v)
<1> HIDE BoundsAssumption, NoneAssumption
<1>1. PICK u \in Seq(Rows) : t = s \o u  BY DEF Continues
<1>2. PICK w \in Seq(Rows) : v = t \o w  BY DEF Continues
<1>3. (s \o u) \o w = s \o (u \o w)  BY SMTT(30), ConcatAssociative
<1>4. u \o w \in Seq(Rows)  BY ConcatProperties
<1> QED  BY <1>1, <1>2, <1>3, <1>4 DEF Continues

\* All rows continue those of the first k chunks.
LEMMA AllContinue ==
  ASSUME NEW shape \in Seq(Nat), NEW k \in 0..Len(shape)
  PROVE  Continues(Through(shape)[k], AllRows(shape))
<1> HIDE BoundsAssumption, NoneAssumption
<1> DEFINE F == Through(shape)
           n == Len(shape)
<1>1. n \in Nat  OBVIOUS
<1>2. /\ F \in [0..n -> Seq(Rows)]
      /\ \A j \in 1..n : F[j] = F[j - 1] \o FirstRows(j, shape[j])
      /\ AllRows(shape) = F[n]
  BY ThroughFacts
<1> HIDE DEF F
<1> DEFINE T == {d \in Nat : k + d <= n => Continues(F[k], F[k + d])}
<1>3. F[k] \in Seq(Rows)  BY <1>2
<1>4. 0 \in T
  <2>1. F[k] \o <<>> = F[k]  BY <1>3, ConcatEmptySeq
  <2>2. k + 0 = k /\ <<>> \in Seq(Rows)  BY <1>1
  <2> QED  BY <2>1, <2>2 DEF Continues
<1>5. ASSUME NEW d \in Nat, d \in T  PROVE d + 1 \in T
  <2> SUFFICES ASSUME k + (d + 1) <= n
               PROVE  Continues(F[k], F[k + (d + 1)])
    OBVIOUS
  <2> DEFINE j == k + (d + 1)
  <2>1. j \in 1..n /\ j - 1 = k + d /\ k + d <= n /\ k + d \in 0..n  BY <1>1
  <2>2. Continues(F[k], F[k + d])  BY <1>5, <2>1
  <2> HIDE DEF j
  <2>3. F[j] = F[k + d] \o FirstRows(j, shape[j])  BY <1>2, <2>1
  <2>4. shape[j] \in Nat /\ j \in Nat  BY <1>1, <2>1, ElementOfSeq
  <2>5. FirstRows(j, shape[j]) \in Seq(Rows)  BY <2>4, FirstRowsFacts
  <2>6. Continues(F[k + d], F[j])  BY <2>3, <2>5 DEF Continues
  <2>7. F[k + d] \in Seq(Rows)  BY <1>2, <2>1
  <2> QED  BY <1>3, <2>2, <2>6, <2>7, MoreOfMore DEF j
<1>6. \A d \in Nat : d \in T
  <2> HIDE DEF T
  <2> QED  BY <1>4, <1>5, Induction
<1>7. n - k \in Nat /\ k + (n - k) = n /\ n <= n  BY <1>1
<1>8. n - k \in T  BY <1>6, <1>7
<1>9. Continues(F[k], F[n])  BY <1>7, <1>8
<1> QED  BY <1>2, <1>9 DEF F

-----------------------------------------------------------------------------
(* What the actions do to it.                                               *)

SeenTypes == seen \in [Statements -> Seq(Rows)] /\ atEnd \in [Statements -> BOOLEAN]

ProgressInv == SeenTypes /\ \A s \in Statements : Progress(s)

\* A statement whose result another query may have aborted is as far as it was.
LEMMA ProgressOfOthers ==
  ASSUME NEW t \in Statements, Progress(t), Alike(stmt[t], stmt'[t]),
         seen'[t] = seen[t], atEnd'[t] = atEnd[t], (pulling' = t) <=> (pulling = t)
  PROVE  Progress(t)'
<1> HIDE BoundsAssumption, NoneAssumption
<1>1. CASE stmt'[t].result = None  BY <1>1 DEF Progress
<1>2. CASE stmt'[t].result # None
  <2>1. /\ stmt[t].result # None
        /\ stmt'[t].result.shape = stmt[t].result.shape
        /\ stmt'[t].result.fetched = stmt[t].result.fetched
        /\ stmt'[t].chunk = stmt[t].chunk /\ stmt'[t].size = stmt[t].size
        /\ stmt'[t].cur = stmt[t].cur /\ stmt'[t].started = stmt[t].started
        /\ stmt'[t].done = stmt[t].done
    BY <1>2 DEF Alike
  <2> QED  BY <2>1 DEF Progress
<1> QED  BY <1>1, <1>2

\* A step of one statement, or of none.
LEMMA ProgressStep ==
  ASSUME ProgressInv, NEW s,
         \A t \in Statements : t # s => /\ Alike(stmt[t], stmt'[t])
                                        /\ seen'[t] = seen[t] /\ atEnd'[t] = atEnd[t]
                                        /\ (pulling' = t) <=> (pulling = t),
         SeenTypes', s \in Statements => Progress(s)'
  PROVE  ProgressInv'
<1> HIDE BoundsAssumption, NoneAssumption
<1>1. ASSUME NEW t \in Statements  PROVE Progress(t)'
  <2>1. CASE t = s  BY <2>1
  <2>2. CASE t # s
    <3>1. Progress(t)  BY DEF ProgressInv
    <3> QED  BY <2>2, <3>1, ProgressOfOthers
  <2> QED  BY <2>1, <2>2
<1> QED  BY <1>1 DEF ProgressInv

LEMMA AlikeItself == \A S : Alike(S, S)
  BY DEF Alike

\* The result of s is reset, and what its fetches saw is forgotten.
LEMMA ResetProgress ==
  ASSUME IInv, ProgressInv, NEW s \in Statements,
         \A t \in Statements : t # s => Alike(stmt[t], stmt'[t]),
         stmt'[s].result = None, pulling = None, pulling' = None,
         seen' = [seen EXCEPT ![s] = <<>>], atEnd' = [atEnd EXCEPT ![s] = FALSE]
  PROVE  ProgressInv'
<1> HIDE BoundsAssumption, NoneAssumption
<1>1. <<>> \in Seq(Rows)  OBVIOUS
<1>2. SeenTypes'  BY <1>1 DEF ProgressInv, SeenTypes
<1>3. Progress(s)'  BY DEF Progress
<1>4. \A t \in Statements : t # s => seen'[t] = seen[t] /\ atEnd'[t] = atEnd[t]
  BY DEF ProgressInv, SeenTypes
<1> QED  BY <1>2, <1>3, <1>4, ProgressStep

LEMMA CloseOrRefuseProgress ==
  ASSUME IInv, ProgressInv, NEW s \in Statements, CloseCursor(s) \/ ExecuteRefused(s)
  PROVE  ProgressInv'
<1>1. stmt' = [stmt EXCEPT ![s] = Empty] /\ pulling = None /\ pulling' = None
      /\ seen' = [seen EXCEPT ![s] = <<>>] /\ atEnd' = [atEnd EXCEPT ![s] = FALSE]
  BY DEF CloseCursor, ExecuteRefused, ResetResult, Idle
<1>2. stmt'[s].result = None  BY <1>1 DEF IInv, Fields, Empty
<1>3. \A t \in Statements : t # s => stmt'[t] = stmt[t]
  BY <1>1 DEF IInv, Fields
<1> QED  BY <1>1, <1>2, <1>3, AlikeItself, ResetProgress

LEMMA UnreadableProgress ==
  ASSUME IInv, ProgressInv, NEW s \in Statements, ExecuteUnreadable(s)
  PROVE  ProgressInv'
<1> DEFINE f == [stmt EXCEPT ![s] = Empty]
<1>1. PICK t \in Statements : t \in Aborted(s)
  BY DEF ExecuteUnreadable, Aborted
<1>2. stream = t /\ t # s  BY <1>1 DEF Aborted
<1>3. /\ f \in [Statements -> Records] /\ f[s] = Empty
      /\ \A u \in Statements : u # s => f[u] = stmt[u]
  BY EmptyRecord DEF IInv, Fields
<1>4. stream # None => f[stream].result # None
  BY <1>2, <1>3 DEF IInv, Streaming, CanFetch
<1>5. stmt' = WithAborted(f, s)  BY DEF ExecuteUnreadable
<1> HIDE DEF f
<1>6. /\ \A u \in Statements : Alike(f[u], stmt'[u])
      /\ stmt'[s] = f[s]
  BY <1>3, <1>4, <1>5, Aborting
<1>7. stmt'[s].result = None  BY <1>3, <1>6 DEF Empty
<1>8. \A u \in Statements : u # s => Alike(stmt[u], stmt'[u])
  BY <1>3, <1>6
<1>9. pulling = None /\ pulling' = None
      /\ seen' = [seen EXCEPT ![s] = <<>>] /\ atEnd' = [atEnd EXCEPT ![s] = FALSE]
  BY DEF ExecuteUnreadable, Idle
<1> QED  BY <1>7, <1>8, <1>9, ResetProgress

\* A run begins before its first chunk.
LEMMA ExecuteProgress ==
  ASSUME IInv, ProgressInv, NEW s \in Statements, NEW shape \in Shapes,
         NEW unbuffered \in BOOLEAN, Execute(s, shape, unbuffered)
  PROVE  ProgressInv'
<1> DEFINE r == [run |-> runs + 1, shape |-> shape, fetched |-> 0,
                 aborted |-> FALSE, streams |-> unbuffered]
           N == [Empty EXCEPT !.result = r]
           f == [stmt EXCEPT ![s] = N]
<1>1. r \in Results /\ r.shape = shape /\ r.fetched = 0
  BY DEF Results, Execute, IInv, Fields
<1> HIDE DEF r
<1>2. r # None  BY <1>1
<1>3. /\ N \in Records /\ N.result = r /\ N.chunk = None /\ N.started = FALSE
      /\ N.done = FALSE
  BY <1>1, EmptyRecord DEF Records, Empty
<1> HIDE DEF N
<1>4. /\ f \in [Statements -> Records] /\ f[s] = N
      /\ \A u \in Statements : u # s => f[u] = stmt[u]
  BY <1>3 DEF IInv, Fields
<1>5. stream # None => f[stream].result # None
  BY <1>2, <1>3, <1>4 DEF IInv, Streaming, CanFetch, Fields
<1>6. stmt' = WithAborted(f, s)  BY DEF Execute, f, N, r
<1> HIDE DEF f
<1>7. /\ \A u \in Statements : Alike(f[u], stmt'[u])
      /\ stmt'[s] = N
  BY <1>4, <1>5, <1>6, Aborting
<1>8. \A u \in Statements : u # s => Alike(stmt[u], stmt'[u])
  BY <1>4, <1>7
<1>9. pulling = None /\ pulling' = None
      /\ seen' = [seen EXCEPT ![s] = <<>>] /\ atEnd' = [atEnd EXCEPT ![s] = FALSE]
  BY DEF Execute, Idle
<1>10. <<>> \in Seq(Rows)  OBVIOUS
<1>11. SeenTypes' /\ seen'[s] = <<>> /\ ~atEnd'[s]
  BY <1>9, <1>10 DEF ProgressInv, SeenTypes
<1>12. Progress(s)'
  <2>1. shape \in Seq(Nat)  OBVIOUS
  <2>2. Through(shape)[0] = <<>>  BY <2>1, ThroughFacts
  <2>3. pulling' # s  BY <1>9
  <2> QED  BY <1>1, <1>3, <1>7, <1>11, <2>2, <2>3 DEF Progress
<1>13. \A t \in Statements : t # s => seen'[t] = seen[t] /\ atEnd'[t] = atEnd[t]
  BY <1>9 DEF ProgressInv, SeenTypes
<1> QED  BY <1>8, <1>9, <1>11, <1>12, <1>13, ProgressStep

LEMMA OtherQueryProgress ==
  ASSUME IInv, ProgressInv, OtherQuery
  PROVE  ProgressInv'
<1>1. stmt' = WithAborted(stmt, None) /\ UNCHANGED <<pulling, seen, atEnd>>
  BY DEF OtherQuery
<1>2. stream # None => stmt[stream].result # None
  BY DEF IInv, Streaming, CanFetch
<1>3. \A t \in Statements : Alike(stmt[t], stmt'[t])
  BY <1>1, <1>2, Aborting DEF IInv, Fields
<1>4. SeenTypes'  BY <1>1 DEF ProgressInv, SeenTypes
<1>5. None \notin Statements  OBVIOUS
<1> QED  BY <1>1, <1>3, <1>4, <1>5, ProgressStep

\* A statement's record and what it saw change.
LEMMA OneStep ==
  ASSUME IInv, ProgressInv, NEW s \in Statements, NEW N,
         stmt' = [stmt EXCEPT ![s] = N], SeenTypes',
         \A t \in Statements : t # s => /\ seen'[t] = seen[t] /\ atEnd'[t] = atEnd[t]
                                        /\ (pulling' = t) <=> (pulling = t),
         Progress(s)'
  PROVE  ProgressInv'
<1>1. \A t \in Statements : t # s => stmt'[t] = stmt[t]
  <2>1. stmt \in [Statements -> Records]  BY DEF IInv, Fields
  <2> QED  BY <2>1
<1> QED  BY <1>1, AlikeItself, ProgressStep

\* A statement with a result, in the terms of its progress.
LEMMA ResultFacts ==
  ASSUME IInv, ProgressInv, NEW s \in Statements, stmt[s].result # None
  PROVE  LET S == stmt[s]  r == S.result  F == Through(r.shape) IN
         /\ S \in Records /\ r \in Results /\ r.shape \in Seq(Nat)
         /\ r.fetched \in 0..Len(r.shape) /\ S.cur \in Nat /\ S.size \in Nat
         /\ F \in [0..Len(r.shape) -> Seq(Rows)] /\ F[0] = <<>>
         /\ \A k \in 1..Len(r.shape) : F[k] = F[k - 1] \o FirstRows(k, r.shape[k])
         /\ AllRows(r.shape) = F[Len(r.shape)]
         /\ seen[s] \in Seq(Rows)
<1> DEFINE S == stmt[s]
           r == S.result
<1>1. S \in Records  BY DEF IInv, Fields
<1>2. r \in Results /\ S.cur \in Nat /\ S.size \in Nat  BY <1>1 DEF Records
<1>3. r.shape \in Seq(Nat) /\ r.fetched \in Nat  BY <1>2 DEF Results
<1>4. r.fetched <= Len(r.shape)  BY DEF IInv, Reads
<1>5. r.fetched \in 0..Len(r.shape)
  <2>1. Len(r.shape) \in Nat  BY <1>3
  <2> QED  BY <1>3, <1>4, <2>1
<1>6. seen[s] \in Seq(Rows)  BY DEF ProgressInv, SeenTypes
<1> HIDE DEF r, S
<1>7. LET F == Through(r.shape) IN
      /\ F \in [0..Len(r.shape) -> Seq(Rows)] /\ F[0] = <<>>
      /\ \A k \in 1..Len(r.shape) : F[k] = F[k - 1] \o FirstRows(k, r.shape[k])
      /\ AllRows(r.shape) = F[Len(r.shape)]
  BY <1>3, ThroughFacts
<1> QED  BY <1>1, <1>2, <1>3, <1>5, <1>6, <1>7 DEF r, S

\* fetch() enters its loop when all rows of the chunk were seen.
LEMMA StartPullProgress ==
  ASSUME IInv, ProgressInv, NEW s \in Statements, StartPull(s)
  PROVE  ProgressInv'
<1> DEFINE S == stmt[s]
           r == S.result
           F == Through(r.shape)
           k == r.fetched
           N == [S EXCEPT !.started = TRUE,
                          !.cur = IF S.started THEN @ + 1 ELSE @]
<1>1. /\ pulling = None /\ pulling' = s /\ UNCHANGED <<seen, atEnd>>
      /\ r # None /\ ~S.done /\ (~S.started \/ S.cur + 1 >= S.size)
  BY DEF StartPull, Idle, CanFetch
<1>2. stmt' = [stmt EXCEPT ![s] = N]  BY DEF StartPull, IInv, Fields
<1>3. /\ S \in Records /\ S.cur \in Nat /\ S.size \in Nat /\ r \in Results
      /\ k \in 0..Len(r.shape) /\ F[0] = <<>> /\ r.shape \in Seq(Nat)
      /\ \A j \in 1..Len(r.shape) : F[j] = F[j - 1] \o FirstRows(j, r.shape[j])
  BY <1>1, ResultFacts
<1>4. /\ N.result = r /\ N.chunk = S.chunk /\ N.size = S.size /\ N.done = S.done
      /\ N.started = TRUE
  BY <1>3 DEF Records
<1> HIDE DEF N
<1>5. Progress(s)  BY DEF ProgressInv
<1>6. seen[s] = F[k]
  <2>1. CASE ~S.started  BY <1>1, <1>5, <2>1 DEF Progress
  <2>2. CASE S.started
    <3>1. /\ S.chunk # None /\ k # 0 /\ S.size = r.shape[k]
          /\ seen[s] = F[k - 1] \o FirstRows(k, S.cur + 1)
      BY <1>1, <1>5, <2>2 DEF Progress
    <3>2. S.cur < S.size  BY <1>1, <3>1 DEF IInv, Reads
    <3> HIDE DEF S, F, k, r
    <3>3. S.cur + 1 = r.shape[k]
      <4>1. S.cur \in Nat /\ S.size \in Nat  BY <1>3
      <4>2. S.cur + 1 >= S.size  BY <1>1, <2>2
      <4>3. S.cur + 1 = S.size  BY <3>2, <4>1, <4>2
      <4> QED  BY <3>1, <4>3
    <3>4. k \in 1..Len(r.shape)
      <4>1. r.shape \in Seq(Nat) /\ k \in 0..Len(r.shape)  BY <1>3
      <4>2. Len(r.shape) \in Nat  BY <4>1
      <4> QED  BY <3>1, <4>1, <4>2
    <3>5. F[k] = F[k - 1] \o FirstRows(k, r.shape[k])  BY <1>3, <3>4
    <3> QED  BY <3>1, <3>3, <3>5
  <2> QED  BY <2>1, <2>2
<1>7. stmt'[s] = N  BY <1>2 DEF IInv, Fields
<1>8. Progress(s)'
  BY <1>1, <1>4, <1>5, <1>6, <1>7 DEF Progress
<1>9. SeenTypes'  BY <1>1 DEF ProgressInv, SeenTypes
<1> QED  BY <1>1, <1>2, <1>8, <1>9, OneStep

\* A failure leaves no result, and the end is reported after the last chunk.
LEMMA FailedFetchProgress ==
  ASSUME IInv, ProgressInv, NEW s \in Statements, pulling = s, FailedFetch(s), pulling' = None,
         UNCHANGED <<seen, atEnd>>
  PROVE  ProgressInv'
<1> DEFINE N == [Empty EXCEPT !.done = TRUE]
<1>1. stmt' = [stmt EXCEPT ![s] = N]  BY DEF FailedFetch
<1>2. N.result = None  BY DEF Empty
<1> HIDE DEF N
<1>3. stmt'[s] = N  BY <1>1 DEF IInv, Fields
<1>4. Progress(s)'  BY <1>2, <1>3 DEF Progress
<1>5. SeenTypes'  BY DEF ProgressInv, SeenTypes
<1> QED  BY <1>1, <1>4, <1>5, OneStep

LEMMA PullEndProgress ==
  ASSUME IInv, ProgressInv, NEW s \in Statements, PullEnd(s)
  PROVE  ProgressInv'
<1> DEFINE S == stmt[s]
           N == [S EXCEPT !.chunk = None, !.done = TRUE]
<1>1. /\ pulling = s /\ pulling' = None /\ seen' = seen
      /\ atEnd' = [atEnd EXCEPT ![s] = TRUE] /\ S.result.fetched = Len(S.result.shape)
      /\ S.result # None
  BY DEF PullEnd, IsEnd, IInv, Pulling, CanFetch
<1>2. stmt' = [stmt EXCEPT ![s] = N]  BY DEF PullEnd, IInv, Fields
<1>3. S \in Records  BY DEF IInv, Fields
<1>4. N.result = S.result /\ N.chunk = None /\ N.done = TRUE /\ N.started = S.started
  BY <1>3 DEF Records
<1> HIDE DEF N
<1>5. stmt'[s] = N  BY <1>2 DEF IInv, Fields
<1>6. /\ S.started /\ seen[s] = Through(S.result.shape)[S.result.fetched]
  BY <1>1, NoneAssumption DEF ProgressInv, Progress
<1>7. SeenTypes' /\ \A t \in Statements : t # s => atEnd'[t] = atEnd[t]
  BY <1>1 DEF ProgressInv, SeenTypes
<1>8. Progress(s)'
  BY <1>1, <1>4, <1>5, <1>6 DEF Progress
<1>9. \A t \in Statements : t # s => ((pulling' = t) <=> (pulling = t))
  BY <1>1
<1> QED  BY <1>1, <1>2, <1>7, <1>8, <1>9, OneStep

\* The row under the cursor is the one after those that were seen.
LEMMA FetchInChunkProgress ==
  ASSUME IInv, ProgressInv, NEW s \in Statements, FetchInChunk(s)
  PROVE  ProgressInv'
<1> DEFINE S == stmt[s]
           r == S.result
           F == Through(r.shape)
           k == r.fetched
           T == [S EXCEPT !.cur = @ + 1]
           row == Append(heap[T.chunk], T.cur + 1)
<1>1. /\ pulling = None /\ pulling' = None /\ atEnd' = atEnd
      /\ r # None /\ ~S.done /\ S.started /\ FetchedRow(s, T, row)
  <2>1. /\ pulling = None /\ pulling' = None /\ atEnd' = atEnd
        /\ r # None /\ ~S.done /\ S.started
    BY DEF FetchInChunk, Idle, CanFetch
  <2>2. FetchedRow(s, T, row)  BY Zenon DEF FetchInChunk
  <2> QED  BY <2>1, <2>2
<1>2. /\ S \in Records /\ S.cur \in Nat /\ r \in Results /\ k \in Nat
      /\ r.shape \in Seq(Nat) /\ F \in [0..Len(r.shape) -> Seq(Rows)]
      /\ k \in 0..Len(r.shape) /\ Len(r.shape) \in Nat
  <2>1. /\ S \in Records /\ S.cur \in Nat /\ r \in Results
        /\ r.shape \in Seq(Nat) /\ F \in [0..Len(r.shape) -> Seq(Rows)]
        /\ k \in 0..Len(r.shape)
    BY <1>1, ResultFacts
  <2>2. Len(r.shape) \in Nat  BY <2>1
  <2>3. k \in 0..Len(r.shape)  BY <2>1
  <2>4. k \in Nat
    <3> HIDE DEF k, r
    <3> QED  BY <2>2, <2>3
  <2> HIDE DEF F
  <2> QED  BY SMTT(30), <2>1, <2>2, <2>4
<1>3. /\ T \in Records /\ T.result = r /\ T.chunk = S.chunk /\ T.size = S.size
      /\ T.done = S.done /\ T.started = S.started /\ T.cur = S.cur + 1
  <2>1. S \in Records /\ S.cur + 1 \in Nat  BY <1>2
  <2> HIDE DEF S
  <2> QED  BY SMTT(30), <2>1 DEF Records
<1>4. /\ S.chunk # None /\ k # 0 /\ S.size = r.shape[k]
      /\ seen[s] = F[k - 1] \o FirstRows(k, S.cur + 1)
  BY ZenonT(60), <1>1 DEF ProgressInv, Progress
<1>5. heap[S.chunk] = <<r.run, k>>  BY <1>4 DEF IInv, Reads
<1>6. row = <<r.run, k, S.cur + 2>>
  <2>1. r.run \in Nat /\ k \in Nat /\ S.cur + 2 \in Nat /\ S.cur + 1 + 1 = S.cur + 2
    BY SMTT(30), <1>2 DEF Results
  <2>2. row = Append(<<r.run, k>>, S.cur + 2)  BY <1>3, <1>5, <2>1
  <2> QED  BY ZenonT(60), <2>1, <2>2, AppendedRow
<1> HIDE DEF row, T
<1>7. PICK ok \in BOOLEAN :
         stmt' = [stmt EXCEPT ![s] = [T EXCEPT !.converted = Converted(s, ok, row)]]
  BY <1>1 DEF FetchedRow
<1> DEFINE N == [T EXCEPT !.converted = Converted(s, ok, row)]
<1>8. /\ N.result = r /\ N.chunk = S.chunk /\ N.size = S.size
      /\ N.done = S.done /\ N.started = S.started /\ N.cur = S.cur + 1
  BY <1>3 DEF Records
<1> HIDE DEF N
<1>9. stmt' = [stmt EXCEPT ![s] = N] /\ stmt'[s] = N
  BY <1>7 DEF N, IInv, Fields
<1>10. seen' = [seen EXCEPT ![s] = Append(seen[s], <<k, S.cur + 2>>)]
  <2>1. row[2] = k /\ row[3] = S.cur + 2  BY <1>6
  <2>2. seen' = [seen EXCEPT ![s] = Append(@, <<row[2], row[3]>>)]
    BY <1>1 DEF FetchedRow
  <2> HIDE DEF k, S
  <2> QED  BY <2>1, <2>2
<1>11. Append(seen[s], <<k, S.cur + 2>>) = F[k - 1] \o FirstRows(k, S.cur + 2)
  <2>1. F[k - 1] \in Seq(Rows)
    <3> HIDE DEF F, k, r, S
    <3>1. k \in 0..Len(r.shape) /\ Len(r.shape) \in Nat /\ k # 0  BY <1>2, <1>4
    <3>2. k - 1 \in 0..Len(r.shape)  BY <3>1
    <3>3. F \in [0..Len(r.shape) -> Seq(Rows)]  BY <1>2
    <3> QED  BY <3>2, <3>3
  <2>2. S.cur + 1 \in Nat /\ S.cur + 1 + 1 = S.cur + 2  BY <1>2
  <2> HIDE DEF F, k, S
  <2>3. Append(F[k - 1] \o FirstRows(k, S.cur + 1), <<k, S.cur + 1 + 1>>)
          = F[k - 1] \o FirstRows(k, S.cur + 1 + 1)
    BY <1>2, <2>1, <2>2, NextRow
  <2> QED  BY <1>4, <2>2, <2>3
<1>12. SeenTypes' /\ seen'[s] = F[k - 1] \o FirstRows(k, S.cur + 2)
       /\ \A t \in Statements : t # s => seen'[t] = seen[t]
  <2>1. seen[s] \in Seq(Rows) /\ <<k, S.cur + 2>> \in Rows
    <3>1. seen[s] \in Seq(Rows)  BY DEF ProgressInv, SeenTypes
    <3> HIDE DEF k, S
    <3>2. k \in Nat /\ S.cur + 2 \in Nat  BY <1>2
    <3> QED  BY <3>1, <3>2 DEF Rows
  <2> DEFINE next == Append(seen[s], <<k, S.cur + 2>>)
  <2>2. next \in Seq(Rows)  BY <2>1, AppendProperties
  <2> HIDE DEF next
  <2>3. seen' = [seen EXCEPT ![s] = next]  BY <1>10 DEF next
  <2>4. seen'[s] = next  BY <2>3 DEF ProgressInv, SeenTypes
  <2>5. seen'[s] = F[k - 1] \o FirstRows(k, S.cur + 2)
    BY <1>11, <2>4 DEF next
  <2>6. \A t \in Statements : t # s => seen'[t] = seen[t]
    BY <2>3 DEF ProgressInv, SeenTypes
  <2>7. SeenTypes'  BY <1>1, <2>2, <2>3 DEF ProgressInv, SeenTypes
  <2> QED  BY <2>5, <2>6, <2>7
<1>13. Progress(s)'
  <2>1. Progress(s)  BY DEF ProgressInv
  <2>2. S.cur + 1 + 1 = S.cur + 2  BY <1>2
  <2>3. N.cur + 1 = S.cur + 2  BY <1>8, <2>2
  <2>4. pulling' # s /\ pulling # s  BY <1>1
  <2> QED  BY ZenonT(60), <1>1, <1>4, <1>8, <1>9, <1>12, <2>1, <2>3, <2>4 DEF Progress
<1> QED  BY <1>1, <1>9, <1>12, <1>13, OneStep

\* The next chunk's first row follows the last chunk's last one.
LEMMA PullChunkProgress ==
  ASSUME IInv, ProgressInv, NEW s \in Statements, PullChunk(s)
  PROVE  ProgressInv'
<1> DEFINE S == stmt[s]
           r == S.result
           F == Through(r.shape)
           k == r.fetched + 1
           size == r.shape[k]
           q == [r EXCEPT !.fetched = k]
<1>1. PICK a \in Addresses, room \in BOOLEAN :
         LET T == [S EXCEPT !.result.fetched = k, !.chunk = a, !.size = size,
                            !.cur = 0]
         IN /\ Destroyed(S.chunk)[a] = None
            /\ heap' = [Destroyed(S.chunk) EXCEPT ![a] = <<r.run, k>>]
            /\ chunkCache' = Loaded(a, room)
            /\ IF size = 0
               THEN stmt' = [stmt EXCEPT ![s] = T] /\ UNCHANGED <<pulling, seen>>
               ELSE /\ FetchedRow(s, T, <<r.run, k, T.cur + 1>>)
                    /\ pulling' = None
  BY DEF PullChunk
<1> DEFINE T == [S EXCEPT !.result = q, !.chunk = a, !.size = size, !.cur = 0]
<1>2. /\ pulling = s /\ r # None /\ ~S.done /\ ~IsEnd(r) /\ atEnd' = atEnd
  BY DEF PullChunk, IInv, Pulling, CanFetch
<1>3. /\ S \in Records /\ r \in Results /\ r.shape \in Seq(Nat)
      /\ r.fetched \in 0..Len(r.shape) /\ Len(r.shape) \in Nat
      /\ F \in [0..Len(r.shape) -> Seq(Rows)]
      /\ \A j \in 1..Len(r.shape) : F[j] = F[j - 1] \o FirstRows(j, r.shape[j])
  <2>1. /\ S \in Records /\ r \in Results /\ r.shape \in Seq(Nat)
        /\ r.fetched \in 0..Len(r.shape)
        /\ F \in [0..Len(r.shape) -> Seq(Rows)]
        /\ \A j \in 1..Len(r.shape) : F[j] = F[j - 1] \o FirstRows(j, r.shape[j])
    BY <1>2, ResultFacts
  <2>2. Len(r.shape) \in Nat  BY <2>1
  <2> HIDE DEF S, r, F
  <2> QED  BY <2>1, <2>2
<1>4. /\ k \in 1..Len(r.shape) /\ k \in Nat /\ k # 0 /\ k - 1 = r.fetched
      /\ size \in Nat /\ k <= Len(r.shape)
  <2>1. r.fetched # Len(r.shape)  BY <1>2 DEF IsEnd
  <2>2. k \in 1..Len(r.shape) /\ k \in Nat /\ k # 0 /\ k - 1 = r.fetched
        /\ k <= Len(r.shape)
    <3> HIDE DEF r
    <3> QED  BY SMTT(30), <1>3, <2>1
  <2>3. size \in Nat  BY <1>3, <2>2, ElementOfSeq
  <2> QED  BY <2>2, <2>3
<1>5. seen[s] = F[k - 1] /\ S.started /\ ~atEnd[s]
  <2>1. Progress(s)  BY DEF ProgressInv
  <2> QED  BY <1>2, <1>4, <2>1 DEF Progress
<1>6. F[k - 1] \in Seq(Rows) /\ F[k] = F[k - 1] \o FirstRows(k, size)
  <2>1. k - 1 \in 0..Len(r.shape)  BY <1>3, <1>4
  <2> HIDE DEF F, k, r
  <2> QED  BY <1>3, <1>4, <2>1
<1>7. q # None /\ q.shape = r.shape /\ q.fetched = k
  <2>1. q \in Results /\ q.shape = r.shape /\ q.fetched = k
    <3> HIDE DEF k, S
    <3> QED  BY <1>3, <1>4 DEF Results
  <2> QED  BY <2>1
<1>8. /\ T.result = q /\ T.chunk = a /\ T.size = size /\ T.cur = 0
      /\ T.done = S.done /\ T.started = S.started
  <2> HIDE DEF S, q, size
  <2> QED  BY <1>3 DEF Records
<1>9. T = [S EXCEPT !.result.fetched = k, !.chunk = a, !.size = size, !.cur = 0]
  OBVIOUS
<1>10. a # None  OBVIOUS
<1>11. \/ size = 0 /\ stmt' = [stmt EXCEPT ![s] = T] /\ pulling' = s /\ seen' = seen
       \/ size # 0 /\ FetchedRow(s, T, <<r.run, k, T.cur + 1>>) /\ pulling' = None
  BY <1>1, <1>2, <1>9
<1> HIDE DEF T
\* A chunk without rows is skipped.
<1>12. CASE size = 0 /\ stmt' = [stmt EXCEPT ![s] = T] /\ pulling' = s /\ seen' = seen
  <2>1. stmt'[s] = T  BY <1>12 DEF IInv, Fields
  <2>2. F[k] = F[k - 1]
    <3>1. FirstRows(k, size) = <<>>
      <4>1. /\ FirstRows(k, size) \in Seq(Rows) /\ Len(FirstRows(k, size)) = 0
        BY <1>4, <1>12, FirstRowsFacts
      <4> QED  BY <4>1, EmptySeq
    <3>2. F[k - 1] \o <<>> = F[k - 1]  BY <1>6, ConcatEmptySeq
    <3> QED  BY <1>6, <3>1, <3>2
  <2>3. Progress(s)'
    <3>1. size = q.shape[q.fetched] /\ q.fetched # 0  BY <1>4, <1>7
    <3>2. Through(q.shape)[q.fetched] = F[k]  BY <1>7
    <3> HIDE DEF F, S, k, q, size
    <3>3. seen'[s] = Through(q.shape)[q.fetched] /\ ~atEnd'[s]
      BY <1>2, <1>5, <1>12, <2>2, <3>2
    <3>4. stmt'[s].started /\ ~stmt'[s].done /\ pulling' = s
      BY <1>2, <1>5, <1>8, <1>12, <2>1
    <3>5. stmt'[s].result = q /\ stmt'[s].size = size
      BY <1>8, <2>1
    <3> QED  BY <3>1, <3>3, <3>4, <3>5 DEF Progress
  <2>4. SeenTypes'  BY <1>2, <1>12 DEF ProgressInv, SeenTypes
  <2> QED  BY <1>2, <1>12, <2>3, <2>4, OneStep
\* The first row of another is fetched.
<1>13. CASE size # 0 /\ FetchedRow(s, T, <<r.run, k, T.cur + 1>>) /\ pulling' = None
  <2> DEFINE row == <<r.run, k, T.cur + 1>>
  <2>1. row[2] = k /\ row[3] = 1  BY <1>8
  <2>2. FetchedRow(s, T, row)  BY <1>13
  <2> HIDE DEF row
  <2>3. PICK ok \in BOOLEAN :
           stmt' = [stmt EXCEPT ![s] = [T EXCEPT !.converted = Converted(s, ok, row)]]
    BY <2>2 DEF FetchedRow
  <2> DEFINE N == [T EXCEPT !.converted = Converted(s, ok, row)]
             next == Append(F[k - 1], <<k, 1>>)
  <2>4. /\ N.result = q /\ N.chunk = a /\ N.size = size /\ N.cur = 0
        /\ N.done = S.done /\ N.started = S.started
    <3>1. T = [S EXCEPT !.result = q, !.chunk = a, !.size = size, !.cur = 0]
      BY DEF T
    <3>0. S \in Records  BY <1>3
    <3>2. /\ N.result = T.result /\ N.chunk = T.chunk /\ N.size = T.size
          /\ N.cur = T.cur /\ N.done = T.done /\ N.started = T.started
      <4> HIDE DEF S, q, size, k, row
      <4> QED  BY <3>0, <3>1 DEF Records
    <3> HIDE DEF N
    <3> QED  BY <1>8, <3>2
  <2>5. stmt' = [stmt EXCEPT ![s] = N]  BY <2>3
  <2> HIDE DEF N
  <2>6. stmt'[s] = N  BY <2>5 DEF IInv, Fields
  <2>7. next = F[k - 1] \o FirstRows(k, 1)
    <3> HIDE DEF F, k, r
    <3>1. Append(F[k - 1] \o FirstRows(k, 0), <<k, 0 + 1>>)
            = F[k - 1] \o FirstRows(k, 0 + 1)
      BY <1>4, <1>6, NextRow
    <3>2. FirstRows(k, 0) = <<>>
      <4>1. /\ FirstRows(k, 0) \in Seq(Rows) /\ Len(FirstRows(k, 0)) = 0
        BY <1>4, FirstRowsFacts
      <4> QED  BY <4>1, EmptySeq
    <3>3. F[k - 1] \o <<>> = F[k - 1]  BY <1>6, ConcatEmptySeq
    <3>4. 0 + 1 = 1  OBVIOUS
    <3>5. Append(F[k - 1] \o FirstRows(k, 0), <<k, 1>>) = F[k - 1] \o FirstRows(k, 1)
      BY <3>1, <3>4, Zenon
    <3>6. Append(F[k - 1], <<k, 1>>) = F[k - 1] \o FirstRows(k, 1)
      BY <3>2, <3>3, <3>5, Zenon
    <3> QED  BY <3>6
  <2>8. next \in Seq(Rows)
    <3>1. <<k, 1>> \in Rows  BY <1>4 DEF Rows
    <3> HIDE DEF F, k, r
    <3> QED  BY <1>6, <3>1, AppendProperties
  <2>9. seen' = [seen EXCEPT ![s] = next]
    <3>1. seen' = [seen EXCEPT ![s] = Append(@, <<row[2], row[3]>>)]
      BY <2>2 DEF FetchedRow
    <3> HIDE DEF k, S, F
    <3> QED  BY <1>5, <2>1, <3>1
  <2> HIDE DEF next
  <2>10. /\ SeenTypes' /\ seen'[s] = next
         /\ \A t \in Statements : t # s => seen'[t] = seen[t]
    BY <1>2, <2>8, <2>9 DEF ProgressInv, SeenTypes
  <2>11. Progress(s)'
    <3>1. N.cur + 1 = 1 /\ pulling' # s  BY <1>13, <2>4
    <3>2. q.fetched - 1 = k - 1  BY <1>7
    <3>3. seen'[s] = F[q.fetched - 1] \o FirstRows(q.fetched, N.cur + 1)
      BY <1>7, <2>7, <2>10, <3>1, <3>2
    <3>4. Through(q.shape) = F  BY <1>7
    <3> HIDE DEF F, S, k, q, size
    <3>5. stmt'[s].started /\ ~stmt'[s].done /\ ~atEnd'[s]
      BY <1>2, <1>5, <2>4, <2>6
    <3>6. stmt'[s].chunk # None /\ stmt'[s].result = q /\ stmt'[s].size = size
          /\ stmt'[s].cur = N.cur
      BY <1>10, <2>4, <2>6
    <3>7. size = q.shape[q.fetched] /\ q.fetched # 0
      BY <1>4, <1>7 DEF size
    <3> QED  BY <3>1, <3>3, <3>4, <3>5, <3>6, <3>7 DEF Progress
  <2> QED  BY <1>2, <1>13, <2>5, <2>10, <2>11, OneStep
<1> QED  BY <1>11, <1>12, <1>13

\* Steps that fetch nothing.
LEMMA QuietProgress ==
  ASSUME ProgressInv, UNCHANGED <<stmt, pulling, seen, atEnd>>
  PROVE  ProgressInv'
  BY DEF ProgressInv, SeenTypes, Progress

LEMMA InitialProgress == Init => ProgressInv
<1> SUFFICES ASSUME Init  PROVE ProgressInv  OBVIOUS
<1>1. <<>> \in Seq(Rows)  OBVIOUS
<1>2. SeenTypes  BY <1>1 DEF Init, SeenTypes
<1>3. \A s \in Statements : Progress(s)  BY DEF Init, Progress, Empty
<1> QED  BY <1>2, <1>3 DEF ProgressInv

LEMMA ProgressPreserved == IInv /\ ProgressInv /\ [Next]_vars => ProgressInv'
<1> SUFFICES ASSUME IInv, ProgressInv, [Next]_vars PROVE ProgressInv'  OBVIOUS
<1>1. CASE UNCHANGED vars  BY <1>1, QuietProgress DEF vars
<1>2. CASE Next
  <2>1. CASE \E s \in Statements : CloseCursor(s) \/ ExecuteRefused(s)
    BY <2>1, CloseOrRefuseProgress
  <2>2. CASE \E s \in Statements : ExecuteUnreadable(s)
    BY <2>2, UnreadableProgress
  <2>3. CASE \E s \in Statements : \E shape \in Shapes, unbuffered \in BOOLEAN :
                Execute(s, shape, unbuffered)
    BY <2>3, ExecuteProgress
  <2>4. CASE \E s \in Statements : FetchInChunk(s)
    BY <2>4, FetchInChunkProgress
  <2>5. CASE \E s \in Statements : StartPull(s)
    BY <2>5, StartPullProgress
  <2>6. CASE \E s \in Statements : PullDenied(s) \/ PullFails(s)
    BY <2>6, FailedFetchProgress DEF PullDenied, PullFails
  <2>7. CASE \E s \in Statements : PullEnd(s)
    BY <2>7, PullEndProgress
  <2>8. CASE \E s \in Statements : PullChunk(s)
    BY <2>8, PullChunkProgress
  <2>9. CASE \E s \in Statements : ReadColumn(s)
    BY <2>9, QuietProgress DEF ReadColumn
  <2>10. CASE OtherQuery  BY <2>10, OtherQueryProgress
  <2>11. CASE ChangeBasedir  BY <2>11, QuietProgress DEF ChangeBasedir
  <2> QED
    BY <1>2, <2>1, <2>2, <2>3, <2>4, <2>5, <2>6, <2>7, <2>8, <2>9, <2>10, <2>11
       DEF Next
<1> QED  BY <1>1, <1>2

\* The fetches of a run are where its cursor says, for any sizes of chunks.
THEOREM FetchesProgress == Spec => []ProgressInv
<1> QED  BY InitialProgress, ProgressPreserved, Invariance, PTL DEF Spec

\* The fetches of a run return its rows in order, none twice and none left out,
\* and report the end after the last (duckdb_statement.c, fetch).
THEOREM RowsAreFetchedOnce == Spec => []EveryRowOnce
<1>1. IInv /\ ProgressInv => EveryRowOnce
  <2> SUFFICES ASSUME IInv, ProgressInv, NEW s \in Statements, stmt[s].result # None
               PROVE  LET rows == AllRows(stmt[s].result.shape) IN
                      IsPrefix(seen[s], rows) /\ (atEnd[s] => seen[s] = rows)
    BY SMTT(30) DEF EveryRowOnce
  <2> DEFINE S == stmt[s]
             r == S.result
             F == Through(r.shape)
             k == r.fetched
             rows == AllRows(r.shape)
  <2>1. /\ r.shape \in Seq(Nat) /\ k \in 0..Len(r.shape) /\ S.cur \in Nat
        /\ F \in [0..Len(r.shape) -> Seq(Rows)]
        /\ \A j \in 1..Len(r.shape) : F[j] = F[j - 1] \o FirstRows(j, r.shape[j])
        /\ rows = F[Len(r.shape)] /\ seen[s] \in Seq(Rows) /\ F[0] = <<>>
    BY ResultFacts
  <2>2. Len(r.shape) \in Nat
    <3> HIDE DEF F, k, r, S, rows
    <3>1. r.shape \in Seq(Nat)  BY <2>1, Zenon
    <3> QED  BY <3>1
  <2>3. Progress(s)
    <3> HIDE DEF F, k, r, S, rows
    <3> QED  BY DEF ProgressInv
  <2>4. Continues(F[k], rows)  BY <2>1, AllContinue
  <2>5. F[k] \in Seq(Rows)
    <3> HIDE DEF F, k, r
    <3> QED  BY SMTT(30), <2>1
  <2>6. CASE ~S.started \/ pulling = s \/ S.done
    <3>1. seen[s] = F[k] /\ (S.done => k = Len(r.shape)) /\ (atEnd[s] => S.done)
      BY ZenonT(60), <2>3, <2>6 DEF Progress
    <3>2. IsPrefix(seen[s], rows)
      <4> HIDE DEF F, k, r, S, rows
      <4> QED  BY <2>4, <2>5, <3>1, PrefixOfMore
    <3>3. atEnd[s] => seen[s] = rows
      <4> HIDE DEF F, k, r, S, rows
      <4> QED  BY <2>1, <3>1
    <3> QED  BY <3>2, <3>3
  <2>7. CASE S.started /\ pulling # s /\ ~S.done
    <3>1. /\ S.chunk # None /\ k # 0 /\ S.size = r.shape[k] /\ ~atEnd[s]
          /\ seen[s] = F[k - 1] \o FirstRows(k, S.cur + 1)
      BY <2>3, <2>7 DEF Progress
    <3>2. S.cur < S.size  BY <2>7, <3>1 DEF IInv, Reads
    <3>3. k \in 1..Len(r.shape) /\ k \in Nat /\ k - 1 \in 0..Len(r.shape)
      <4> HIDE DEF F, k, r, S, rows
      <4>1. k \in 0..Len(r.shape)  BY <2>1, Zenon
      <4>2. k # 0  BY <3>1, Zenon
      <4> QED  BY <2>2, <4>1, <4>2
    <3>4. S.size \in Nat  BY <2>1, <3>1, <3>3, ElementOfSeq
    <3>5. F[k - 1] \in Seq(Rows) /\ F[k] = F[k - 1] \o FirstRows(k, S.size)
      <4> HIDE DEF F, k, r, S, rows
      <4> QED  BY <2>1, <3>1, <3>3
    <3>6. S.cur + 1 \in Nat /\ S.cur + 1 <= S.size
      <4> HIDE DEF F, k, r, S, rows
      <4>1. S.cur \in Nat  BY <2>1, Zenon
      <4> QED  BY <3>2, <3>4, <4>1
    <3>7. IsPrefix(seen[s], rows)
      <4> HIDE DEF F, k, r, S, rows
      <4>1. Continues(seen[s], F[k])
        BY <3>1, <3>3, <3>4, <3>5, <3>6, PartOfChunk
      <4>2. Continues(seen[s], rows)  BY <2>1, <2>4, <2>5, <4>1, MoreOfMore
      <4> QED  BY <2>1, <4>2, PrefixOfMore
    <3> QED  BY <3>1, <3>7
  <2> QED  BY <2>6, <2>7
<1> QED  BY <1>1, Invariance, FetchesProgress, PTL

=============================================================================
