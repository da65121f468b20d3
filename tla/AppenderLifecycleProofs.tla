----------------------- MODULE AppenderLifecycleProofs -----------------------
(***************************************************************************)
(* Theorems about AppenderLifecycle for any number of appenders, PDO       *)
(* objects and rows: where an accepted row can be, and what the orders in  *)
(* which objects die leave behind.  Two of them suppose that a persistent  *)
(* connection, once refused, stays so: the README of the repository        *)
(* promises them without that, and AppenderLifecycle_relaxed shows why     *)
(* they need it.                                                           *)
(***************************************************************************)
EXTENDS AppenderLifecycle, TLAPS

Pending(a) == app[a].native /\ ~app[a].closed

\* A native appender is in the handle's list, rows are only in native ones, and
\* the list is empty before the connection opens and after it closes.
Releases ==
    /\ \A a \in Appenders :
          /\ app[a].native => app[a].linked /\ app[a].pdo # None
          /\ ~app[a].native => buffer[a] = {}
          /\ app[a].linked => app[a].pdo # None
    /\ handle = "none" => Linked = {}

\* An ordinary connection has one object for as long as it is open; a
\* transaction exists only on an open connection, and so do its rows.
Occupancy ==
    /\ handle # "open" => LivePdos = {}
    /\ kind = "ordinary" =>
          /\ handle = "open" => LivePdos # {}
          /\ \A v, w \in LivePdos : v = w
    /\ handle = "none" => txn = "none"
    /\ txn = "none" => work = {}

\* Only a row of its buffer that was not given up lets an appender write: it is
\* nowhere else.
Apart ==
    /\ \A a \in Appenders :
          /\ buffer[a] \subseteq accepted
          /\ Pending(a) => buffer[a] \cap (work \cup committed \cup abandoned) = {}
          /\ app[a].closed => buffer[a] \subseteq abandoned
    /\ \A a, b \in Appenders : a # b => buffer[a] \cap buffer[b] = {}
    /\ work \subseteq accepted /\ committed \subseteq accepted
    /\ abandoned \subseteq accepted
    /\ work \cap committed = {}

RefusalLasts == "persistent" \notin Relaxable

\* A denied rollback gives rows up that are still in the transaction, but then
\* the transaction cannot be committed any more.
GivenUp ==
    RefusalLasts =>
       /\ allowed => work \cap abandoned = {}
       /\ AbandonedRowsStayOut

\* Where the driver is let in, PDO knows of the transaction.
Tracked == RefusalLasts => (allowed /\ txn # "none" => inTxn)

RowsInv == Apart /\ GivenUp /\ RowsAccountedFor

Control == TypeOK /\ Releases /\ Occupancy /\ Tracked

IInv == Control /\ RowsInv

-----------------------------------------------------------------------------
(* Rows: the ways in which they move.                                       *)

USE AppenderAssumption

\* Row r is in the buffer of some appender of S.
LEMMA InBuffers ==
  ASSUME NEW S \in SUBSET Appenders, NEW r
  PROVE  r \in BufferedIn(S) <=> \E a \in S : r \in buffer[a]
BY DEF BufferedIn

LEMMA InBuffersNext ==
  ASSUME NEW r
  PROVE  r \in BufferedIn(Appenders)' <=> \E a \in Appenders : r \in buffer'[a]
BY DEF BufferedIn

\* No row moves; an appender that starts to write has none, and so has one that
\* becomes closed; access comes back only to an empty transaction.
LEMMA RowsStay ==
  ASSUME TypeOK, RowsInv, UNCHANGED rowVars,
         \A a \in Appenders :
            /\ Pending(a)' => Pending(a) \/ buffer[a] = {}
            /\ app'[a].closed => app[a].closed \/ buffer[a] = {},
         RefusalLasts /\ allowed' => allowed \/ work = {}
  PROVE  RowsInv'
<1>1. RowsAccountedFor'
  BY DEF RowsInv, RowsAccountedFor, BufferedIn, rowVars
<1>2. Apart'
  <2>1. ASSUME NEW a \in Appenders
        PROVE  /\ buffer[a] \subseteq accepted
               /\ Pending(a)' =>
                     buffer[a] \cap (work \cup committed \cup abandoned) = {}
               /\ app'[a].closed => buffer[a] \subseteq abandoned
    <3>1. CASE buffer[a] = {}  BY <3>1
    <3>2. CASE buffer[a] # {}
      <4>1. Pending(a)' => Pending(a)  BY <3>2
      <4>2. app'[a].closed => app[a].closed  BY <3>2
      <4> QED  BY <4>1, <4>2 DEF RowsInv, Apart
    <3> QED  BY <3>1, <3>2
  <2> QED  BY <2>1 DEF RowsInv, Apart, rowVars, Pending
<1>3. GivenUp'
  BY DEF RowsInv, GivenUp, AbandonedRowsStayOut, rowVars, RefusalLasts
<1> QED  BY <1>1, <1>2, <1>3 DEF RowsInv

\* An appender writes its buffer, and with it a row N it has just accepted.
LEMMA RowsLand ==
  ASSUME TypeOK, Occupancy, RowsInv, NEW a \in Appenders, NEW N \in SUBSET Rows,
         Pending(a), N \cap accepted = {},
         Land(buffer[a] \cup N),
         buffer' = [buffer EXCEPT ![a] = {}],
         accepted' = accepted \cup N,
         \A b \in Appenders \ {a} : app'[b] = app[b],
         UNCHANGED <<allowed, abandoned>>
  PROVE  RowsInv'
<1> DEFINE R == buffer[a] \cup N
<1>1. /\ R \subseteq accepted' /\ R \cap abandoned = {}
      /\ R \cap work = {} /\ R \cap committed = {}
  BY DEF RowsInv, Apart
<1>2. \A b \in Appenders \ {a} : R \cap buffer[b] = {}
  BY DEF RowsInv, Apart
<1>3. /\ \A b \in Appenders : buffer'[b] = IF b = a THEN {} ELSE buffer[b]
      /\ \A b \in Appenders \ {a} : Pending(b)' = Pending(b)
  BY DEF TypeOK, Pending
<1> HIDE DEF R
<1>4. \/ work' = work \cup R /\ committed' = committed
      \/ work = {} /\ work' = work /\ committed' = committed \cup R
  BY DEF Land, Occupancy, R
<1>5. RowsAccountedFor'
  <2> SUFFICES ASSUME NEW r \in accepted'
               PROVE  r \in (BufferedIn(Appenders) \cup work \cup committed
                               \cup abandoned)'
    BY DEF RowsAccountedFor
  <2>1. CASE r \in R  BY <2>1, <1>4
  <2>2. CASE r \notin R
    <3>1. r \in accepted  BY <2>2 DEF R
    <3>2. CASE r \in BufferedIn(Appenders)
      <4>1. PICK b \in Appenders : r \in buffer[b]  BY <3>2 DEF BufferedIn
      <4>2. b # a  BY <4>1, <2>2 DEF R
      <4> QED  BY <4>1, <4>2, <1>3, InBuffersNext
    <3>3. CASE r \in work \cup committed \cup abandoned
      BY <3>3, <1>4
    <3> QED  BY <3>1, <3>2, <3>3 DEF RowsInv, RowsAccountedFor
  <2> QED  BY <2>1, <2>2
<1>6. Apart'
  <2>1. work' \subseteq accepted' /\ committed' \subseteq accepted'
        /\ abandoned' \subseteq accepted' /\ work' \cap committed' = {}
    BY <1>1, <1>4 DEF RowsInv, Apart
  <2>2. ASSUME NEW b \in Appenders
        PROVE  /\ buffer'[b] \subseteq accepted'
               /\ Pending(b)' =>
                     buffer'[b] \cap (work' \cup committed' \cup abandoned') = {}
               /\ app'[b].closed => buffer'[b] \subseteq abandoned'
    <3>1. CASE b = a  BY <3>1, <1>3
    <3>2. CASE b # a
      <4>1. buffer'[b] = buffer[b] /\ Pending(b)' = Pending(b) /\ app'[b] = app[b]
            /\ R \cap buffer[b] = {}
        BY <3>2, <1>2, <1>3
      <4> QED  BY <4>1, <1>4 DEF RowsInv, Apart
    <3> QED  BY <3>1, <3>2
  <2>3. \A b, c \in Appenders : b # c => buffer'[b] \cap buffer'[c] = {}
    BY <1>3 DEF RowsInv, Apart
  <2> QED  BY <2>1, <2>2, <2>3 DEF Apart
<1>7. GivenUp'
  BY <1>1, <1>4 DEF RowsInv, GivenUp, AbandonedRowsStayOut, RefusalLasts
<1> QED  BY <1>5, <1>6, <1>7 DEF RowsInv

\* The rows of an appender are given up, and are gone or stay in a poisoned one.
LEMMA RowsGivenUp ==
  ASSUME TypeOK, Releases, RowsInv, NEW a \in Appenders,
         \/ buffer' = [buffer EXCEPT ![a] = {}]
         \/ buffer' = buffer /\ ~Pending(a)',
         abandoned' = abandoned \cup buffer[a],
         \A b \in Appenders \ {a} : app'[b] = app[b],
         UNCHANGED <<allowed, work, committed, accepted>>
  PROVE  RowsInv'
<1>1. /\ buffer[a] \cap committed \subseteq abandoned
      /\ buffer[a] \cap work \subseteq abandoned
      /\ buffer[a] \subseteq accepted
  BY DEF RowsInv, Apart, Releases, Pending
<1>2. \A b \in Appenders :
         buffer'[b] = IF b = a THEN buffer'[a] ELSE buffer[b]
  BY DEF TypeOK
<1>3. /\ buffer'[a] \subseteq buffer[a]
      /\ Pending(a)' => buffer'[a] = {}
      /\ \A b \in Appenders \ {a} : Pending(b)' = Pending(b)
  BY DEF TypeOK, Pending
<1>4. RowsAccountedFor'
  <2> SUFFICES ASSUME NEW r \in accepted
               PROVE  r \in (BufferedIn(Appenders) \cup work \cup committed
                               \cup abandoned)'
    BY DEF RowsAccountedFor
  <2>1. CASE r \in BufferedIn(Appenders)
    <3>1. PICK b \in Appenders : r \in buffer[b]  BY <2>1 DEF BufferedIn
    <3>2. CASE b = a  BY <3>1, <3>2
    <3>3. CASE b # a  BY <3>1, <3>3, <1>2, InBuffersNext
    <3> QED  BY <3>2, <3>3
  <2>2. CASE r \in work \cup committed \cup abandoned
    BY <2>2
  <2> QED  BY <2>1, <2>2 DEF RowsInv, RowsAccountedFor
<1>5. Apart'
  <2>1. work' \subseteq accepted' /\ committed' \subseteq accepted'
        /\ abandoned' \subseteq accepted' /\ work' \cap committed' = {}
    BY <1>1 DEF RowsInv, Apart
  <2>2. ASSUME NEW b \in Appenders
        PROVE  /\ buffer'[b] \subseteq accepted'
               /\ Pending(b)' =>
                     buffer'[b] \cap (work' \cup committed' \cup abandoned') = {}
               /\ app'[b].closed => buffer'[b] \subseteq abandoned'
    <3>1. CASE b = a
      <4>1. /\ buffer'[a] \subseteq accepted' /\ buffer'[a] \subseteq abandoned'
        BY <1>1, <1>3
      <4>2. Pending(b)' => buffer'[b] = {}  BY <3>1, <1>3 DEF Pending
      <4> QED  BY <3>1, <4>1, <4>2
    <3>2. CASE b # a
      <4>1. buffer'[b] = buffer[b] /\ Pending(b)' = Pending(b) /\ app'[b] = app[b]
            /\ buffer[a] \cap buffer[b] = {}
        BY <3>2, <1>2, <1>3 DEF RowsInv, Apart
      <4> QED  BY <4>1 DEF RowsInv, Apart
    <3> QED  BY <3>1, <3>2
  <2>3. \A b, c \in Appenders : b # c => buffer'[b] \cap buffer'[c] = {}
    <3>1. ASSUME NEW b \in Appenders  PROVE buffer'[b] \subseteq buffer[b]
      <4>1. CASE b = a  BY <4>1, <1>3
      <4>2. CASE b # a  BY <4>2, <1>2
      <4> QED  BY <4>1, <4>2
    <3> QED  BY <3>1 DEF RowsInv, Apart
  <2> QED  BY <2>1, <2>2, <2>3 DEF Apart
<1>6. GivenUp'
  BY <1>1 DEF RowsInv, GivenUp, AbandonedRowsStayOut, RefusalLasts
<1> QED  BY <1>4, <1>5, <1>6 DEF RowsInv

\* A rollback for the objects W clears their appenders; the transaction's rows
\* are given up as well, though a denied one leaves them where they are.
LEMMA RowsRolledBack ==
  ASSUME TypeOK, Releases, RowsInv, NEW W \in SUBSET Pdos,
         DiscardForRollback(W),
         abandoned' = abandoned \cup work \cup BufferedIn(OwnedBy(W)),
         work' = {} \/ (work' = work /\ ~allowed),
         UNCHANGED <<allowed, app, committed, accepted>>
  PROVE  RowsInv'
<1> DEFINE D == BufferedIn(OwnedBy(W))
<1>1. OwnedBy(W) \in SUBSET Appenders  BY DEF OwnedBy
<1>2. \A r : r \in D <=> \E a \in OwnedBy(W) : r \in buffer[a]
  BY <1>1, InBuffers
<1>3. \A a \in Appenders :
         /\ buffer'[a] \in {buffer[a], {}}
         /\ buffer'[a] # buffer[a] => a \in OwnedBy(W)
         /\ a \in OwnedBy(W) /\ Pending(a) => buffer'[a] = {}
         /\ Pending(a)' = Pending(a) /\ app'[a] = app[a]
  BY DEF DiscardForRollback, Discards, Pending, OwnedBy, Linked, Releases
<1>4. D \cap committed \subseteq abandoned /\ D \subseteq accepted
  BY <1>1, <1>2 DEF RowsInv, Apart, Releases, Pending
<1>5. \A a \in Appenders : Pending(a) =>
         buffer'[a] \cap (work \cup committed \cup abandoned \cup D) = {}
  <2> SUFFICES ASSUME NEW a \in Appenders, Pending(a), a \notin OwnedBy(W)
               PROVE  buffer[a] \cap (work \cup committed \cup abandoned
                                         \cup D) = {}
    BY <1>3
  <2>1. buffer[a] \cap (work \cup committed \cup abandoned) = {}
    BY DEF RowsInv, Apart
  <2>2. buffer[a] \cap D = {}
    BY <1>1, <1>2 DEF RowsInv, Apart
  <2> QED  BY <2>1, <2>2
<1> HIDE DEF D
<1>6. RowsAccountedFor'
  <2> SUFFICES ASSUME NEW r \in accepted
               PROVE  r \in (BufferedIn(Appenders) \cup work \cup committed
                               \cup abandoned)'
    BY DEF RowsAccountedFor
  <2>1. CASE r \in BufferedIn(Appenders)
    <3>1. PICK b \in Appenders : r \in buffer[b]  BY <2>1 DEF BufferedIn
    <3>2. CASE b \in OwnedBy(W)  BY <3>1, <3>2, <1>2 DEF D
    <3>3. CASE b \notin OwnedBy(W)
      <4>1. r \in buffer'[b]  BY <3>1, <3>3, <1>3
      <4> QED  BY <4>1, InBuffersNext
    <3> QED  BY <3>2, <3>3
  <2>2. CASE r \in work \cup committed \cup abandoned
    BY <2>2
  <2> QED  BY <2>1, <2>2 DEF RowsInv, RowsAccountedFor
<1>7. Apart'
  <2>1. work' \subseteq accepted' /\ committed' \subseteq accepted'
        /\ abandoned' \subseteq accepted' /\ work' \cap committed' = {}
    BY <1>4 DEF RowsInv, Apart, D
  <2>2. ASSUME NEW b \in Appenders
        PROVE  /\ buffer'[b] \subseteq accepted'
               /\ Pending(b)' =>
                     buffer'[b] \cap (work' \cup committed' \cup abandoned') = {}
               /\ app'[b].closed => buffer'[b] \subseteq abandoned'
    <3>1. buffer'[b] \subseteq buffer[b] /\ app'[b] = app[b]
          /\ Pending(b)' = Pending(b)
      BY <1>3
    <3>2. Pending(b) =>
             buffer'[b] \cap (work' \cup committed' \cup abandoned') = {}
      BY <1>5 DEF D
    <3> QED  BY <3>1, <3>2 DEF RowsInv, Apart
  <2>3. \A b, c \in Appenders : b # c => buffer'[b] \cap buffer'[c] = {}
    <3>1. \A b \in Appenders : buffer'[b] \subseteq buffer[b]
      BY <1>3
    <3> QED  BY <3>1 DEF RowsInv, Apart
  <2> QED  BY <2>1, <2>2, <2>3 DEF Apart
<1>8. GivenUp'
  BY <1>4 DEF RowsInv, Apart, GivenUp, AbandonedRowsStayOut, RefusalLasts, D
<1> QED  BY <1>6, <1>7, <1>8 DEF RowsInv

\* The transaction ends and takes its rows to the database, or gives them up.
LEMMA RowsOfTransactionEnd ==
  ASSUME TypeOK, RowsInv, work' = {},
         \/ /\ committed' = committed \cup work /\ abandoned' = abandoned
            /\ allowed
         \/ committed' = committed /\ abandoned' = abandoned \cup work,
         UNCHANGED <<allowed, app, buffer, accepted>>
  PROVE  RowsInv'
<1>1. RowsAccountedFor'
  BY DEF RowsInv, RowsAccountedFor, BufferedIn
<1>2. Apart'
  <2>1. \A a \in Appenders : Pending(a)' = Pending(a)  BY DEF Pending
  <2> QED  BY <2>1 DEF RowsInv, Apart
<1>3. GivenUp'
  BY DEF RowsInv, Apart, GivenUp, AbandonedRowsStayOut, RefusalLasts
<1> QED  BY <1>1, <1>2, <1>3 DEF RowsInv

\* A row that is accepted into a buffer.
LEMMA RowsBuffered ==
  ASSUME TypeOK, RowsInv, NEW a \in Appenders, NEW r \in Rows, Pending(a),
         r \notin accepted,
         buffer' = [buffer EXCEPT ![a] = @ \cup {r}],
         accepted' = accepted \cup {r},
         UNCHANGED <<allowed, app, work, committed, abandoned>>
  PROVE  RowsInv'
<1>1. \A b \in Appenders :
         /\ buffer'[b] = IF b = a THEN buffer[a] \cup {r} ELSE buffer[b]
         /\ Pending(b)' = Pending(b)
  BY DEF TypeOK, Pending
<1>2. RowsAccountedFor'
  <2> SUFFICES ASSUME NEW q \in accepted'
               PROVE  q \in (BufferedIn(Appenders) \cup work \cup committed
                               \cup abandoned)'
    BY DEF RowsAccountedFor
  <2>1. CASE q = r  BY <2>1, <1>1, InBuffersNext
  <2>2. CASE q \in BufferedIn(Appenders)
    <3>1. PICK b \in Appenders : q \in buffer[b]  BY <2>2 DEF BufferedIn
    <3> QED  BY <3>1, <1>1, InBuffersNext
  <2>3. CASE q \in work \cup committed \cup abandoned
    BY <2>3
  <2> QED  BY <2>1, <2>2, <2>3 DEF RowsInv, RowsAccountedFor
<1>3. Apart'
  <2>1. ASSUME NEW b \in Appenders
        PROVE  /\ buffer'[b] \subseteq accepted'
               /\ Pending(b)' =>
                     buffer'[b] \cap (work' \cup committed' \cup abandoned') = {}
               /\ app'[b].closed => buffer'[b] \subseteq abandoned'
    <3>1. r \notin work \cup committed \cup abandoned  BY DEF RowsInv, Apart
    <3> QED  BY <3>1, <1>1 DEF RowsInv, Apart, Pending
  <2>2. \A b, c \in Appenders : b # c => buffer'[b] \cap buffer'[c] = {}
    BY <1>1 DEF RowsInv, Apart
  <2> QED  BY <2>1, <2>2 DEF RowsInv, Apart
<1>4. GivenUp'
  BY DEF RowsInv, GivenUp, AbandonedRowsStayOut, RefusalLasts
<1> QED  BY <1>2, <1>3, <1>4 DEF RowsInv

-----------------------------------------------------------------------------
(* Connections and transactions.                                            *)

LEMMA LandTyped ==
  ASSUME TypeOK, Occupancy, NEW R \in SUBSET Rows, Land(R)
  PROVE  /\ work' \subseteq Rows /\ committed' \subseteq Rows
         /\ txn = "none" => work' = {}
BY DEF TypeOK, Occupancy, Land

LEMMA BuffersTyped ==
  ASSUME TypeOK, NEW S \in SUBSET Appenders
  PROVE  BufferedIn(S) \subseteq Rows
BY DEF TypeOK, BufferedIn

LEMMA NewPdoPreserves ==
  ASSUME IInv, NEW w \in Pdos, NewPdo(w), UNCHANGED kind
  PROVE  IInv'
<1>1. TypeOK'  BY DEF IInv, Control, TypeOK, NewPdo, rowVars
<1>2. Releases'  BY DEF IInv, Control, Releases, NewPdo, rowVars, Linked
<1>3. Occupancy'
  <2>1. \A v \in Pdos : pdo'[v] = IF v = w THEN "live" ELSE pdo[v]
    BY DEF IInv, Control, TypeOK, NewPdo
  <2> QED
    BY <2>1 DEF IInv, Control, Occupancy, NewPdo, rowVars, LivePdos
<1>4. Tracked'  BY DEF IInv, Control, Tracked, NewPdo, RefusalLasts
<1>5. RowsInv'  BY RowsStay DEF IInv, Control, NewPdo, Pending
<1> QED  BY <1>1, <1>2, <1>3, <1>4, <1>5 DEF IInv, Control

LEMMA DiscardPersistentPreserves ==
  ASSUME IInv, DiscardPersistent, UNCHANGED kind
  PROVE  IInv'
<1>1. TypeOK'  BY DEF IInv, Control, TypeOK, DiscardPersistent, rowVars, phpVars
<1>2. Releases'
  BY DEF IInv, Control, Releases, DiscardPersistent, rowVars, Linked
<1>3. Occupancy'
  BY DEF IInv, Control, Occupancy, DiscardPersistent, rowVars, phpVars, LivePdos
<1>4. Tracked'  BY DEF IInv, Control, Tracked, DiscardPersistent, RefusalLasts
<1>5. RowsInv'  BY RowsStay DEF IInv, Control, DiscardPersistent, Pending
<1> QED  BY <1>1, <1>2, <1>3, <1>4, <1>5 DEF IInv, Control

\* A transaction that is begun with PDO's flag, or goes on with it.
LEMMA TransactionStep ==
  ASSUME IInv, UNCHANGED <<kind, handle, allowed, phpVars, app, rowVars>>,
         txn' \in {"open", "aborted"}, handle # "none",
         inTxn' = TRUE \/ (inTxn' = inTxn /\ txn # "none")
  PROVE  IInv'
<1>1. TypeOK'  BY DEF IInv, Control, TypeOK, rowVars, phpVars
<1>2. Releases'  BY DEF IInv, Control, Releases, rowVars, Linked
<1>3. Occupancy'
  BY DEF IInv, Control, Occupancy, rowVars, phpVars, LivePdos
<1>4. Tracked'  BY DEF IInv, Control, Tracked, RefusalLasts
<1>5. RowsInv'  BY RowsStay DEF IInv, Control, Pending
<1> QED  BY <1>1, <1>2, <1>3, <1>4, <1>5 DEF IInv, Control

LEMMA CommitPreserves ==
  ASSUME IInv, NEW w \in Pdos, Commit(w), UNCHANGED kind
  PROVE  IInv'
<1>1. TypeOK'
  BY DEF IInv, Control, TypeOK, Commit, rowVars, phpVars
<1>2. Releases'  BY DEF IInv, Control, Releases, Commit, Linked
<1>3. Occupancy'
  BY DEF IInv, Control, Occupancy, Commit, phpVars, LivePdos
<1>4. Tracked'  BY DEF Tracked, Commit
<1>5. RowsInv'
  BY RowsOfTransactionEnd DEF IInv, Control, Commit, Usable
<1> QED  BY <1>1, <1>2, <1>3, <1>4, <1>5 DEF IInv, Control

LEMMA OwnedTyped == \A W : OwnedBy(W) \in SUBSET Appenders
BY DEF OwnedBy

\* A rollback, denied or not, leaves a typed buffer, and none without a native
\* appender.
LEMMA DiscardTyped ==
  ASSUME TypeOK, Releases, NEW W, DiscardForRollback(W)
  PROVE  /\ buffer' \in [Appenders -> SUBSET Rows]
         /\ \A a \in Appenders : buffer'[a] \subseteq buffer[a]
BY DEF TypeOK, DiscardForRollback

LEMMA RollbackPreserves ==
  ASSUME IInv, NEW w \in Pdos, Rollback(w), UNCHANGED kind
  PROVE  IInv'
<1>1. /\ buffer' \in [Appenders -> SUBSET Rows]
      /\ \A a \in Appenders : buffer'[a] \subseteq buffer[a]
  BY DiscardTyped DEF IInv, Control, Rollback
<1>2. TypeOK'
  BY <1>1, BuffersTyped, OwnedTyped
     DEF IInv, Control, TypeOK, Rollback, phpVars
<1>3. Releases'  BY <1>1 DEF IInv, Control, Releases, Rollback, Linked
<1>4. Occupancy'
  BY DEF IInv, Control, Occupancy, Rollback, phpVars, LivePdos
<1>5. Tracked'  BY DEF Tracked, Rollback
<1>6. FreedPdos \in SUBSET Pdos  BY DEF FreedPdos
<1>7. RowsInv'
  BY <1>6, RowsRolledBack DEF IInv, Control, Rollback
<1> QED  BY <1>2, <1>3, <1>4, <1>5, <1>7 DEF IInv, Control

LEMMA FreePdoPreserves ==
  ASSUME IInv, NEW w \in Pdos, FreePdo(w), UNCHANGED kind
  PROVE  IInv'
<1> DEFINE W == FreedPdos \cup {w}
<1>1. W \in SUBSET Pdos  BY DEF FreedPdos
<1>2. \/ /\ inTxn /\ inTxn' = FALSE /\ DiscardForRollback(W)
         /\ abandoned' = abandoned \cup work \cup BufferedIn(OwnedBy(W))
         /\ \/ allowed /\ txn' = "none" /\ work' = {}
            \/ ~allowed /\ txn' = txn /\ work' = work
      \/ UNCHANGED <<txn, inTxn, work, buffer, abandoned>>
  BY DEF FreePdo
<1>3. UNCHANGED <<allowed, app, committed, accepted>>
  BY DEF FreePdo
<1> HIDE DEF W
<1>4. /\ buffer' \in [Appenders -> SUBSET Rows]
      /\ \A a \in Appenders : buffer'[a] \subseteq buffer[a]
  BY <1>2, DiscardTyped DEF IInv, Control, TypeOK
<1>5. /\ pdo' \in [Pdos -> {"none", "live", "freed"}]
      /\ \A v \in Pdos : pdo'[v] = IF v = w THEN "freed" ELSE pdo[v]
      /\ pdo[w] = "live" /\ garbage' \subseteq Pdos
      /\ handle' = IF kind = "persistent" THEN handle ELSE "closing"
  BY DEF IInv, Control, TypeOK, FreePdo
<1>6. TypeOK'
  <2>1. abandoned' \subseteq Rows
    BY <1>2, BuffersTyped, OwnedTyped DEF IInv, Control, TypeOK
  <2>2. work' \subseteq Rows /\ txn' \in {"none", "open", "aborted"}
        /\ inTxn' \in BOOLEAN
    BY <1>2 DEF IInv, Control, TypeOK
  <2> QED
    BY <1>3, <1>4, <1>5, <2>1, <2>2 DEF IInv, Control, TypeOK
<1>7. handle = "open"
  BY <1>5 DEF IInv, Control, Occupancy, LivePdos
<1>8. Releases'
  BY <1>3, <1>4, <1>5, <1>7 DEF IInv, Control, Releases, Linked
<1>9. Occupancy'
  <2>1. /\ LivePdos' = LivePdos \ {w} /\ w \in LivePdos
    BY <1>5 DEF LivePdos
  <2>2. kind \in {"ordinary", "persistent"}
    BY DEF IInv, Control, TypeOK
  <2> QED
    BY <1>2, <1>5, <1>7, <2>1, <2>2 DEF IInv, Control, Occupancy
<1>10. Tracked'  BY <1>2, <1>3 DEF IInv, Control, Tracked, RefusalLasts
<1>11. RowsInv'
  <2>1. CASE UNCHANGED <<txn, inTxn, work, buffer, abandoned>>
    BY <1>3, <2>1, RowsStay DEF IInv, Control, Pending, rowVars
  <2>2. CASE /\ DiscardForRollback(W)
             /\ abandoned' = abandoned \cup work \cup BufferedIn(OwnedBy(W))
             /\ work' = {} \/ (work' = work /\ ~allowed)
    BY <1>1, <1>3, <2>2, RowsRolledBack DEF IInv, Control
  <2> QED  BY <1>2, <2>1, <2>2
<1> QED  BY <1>6, <1>8, <1>9, <1>10, <1>11 DEF IInv, Control

LEMMA DisconnectPreserves ==
  ASSUME IInv, Disconnect, UNCHANGED kind
  PROVE  IInv'
<1>1. TypeOK'
  BY DEF IInv, Control, TypeOK, Disconnect, phpVars
<1>2. Releases'
  BY DEF IInv, Control, Releases, Disconnect, ReadyToDisconnect, Linked
<1>3. Occupancy'
  BY DEF IInv, Control, Occupancy, Disconnect, phpVars, LivePdos
<1>4. Tracked'  BY DEF Tracked, Disconnect
<1>5. RowsInv'
  BY RowsOfTransactionEnd DEF IInv, Control, Disconnect
<1> QED  BY <1>1, <1>2, <1>3, <1>4, <1>5 DEF IInv, Control

LEMMA SandboxCheckPreserves ==
  ASSUME IInv, NEW b \in BOOLEAN, SandboxCheck(b), UNCHANGED kind
  PROVE  IInv'
<1>1. RefusalLasts /\ allowed' => allowed \/ (txn = "none" /\ work = {})
  <2> SUFFICES ASSUME RefusalLasts, allowed'  PROVE txn = "none" /\ work = {}
    OBVIOUS
  <2>1. kind = "ordinary" /\ LivePdos = {} /\ handle # "closing"
    BY DEF IInv, Control, TypeOK, SandboxCheck, RefusalLasts
  <2>2. handle = "none"
    BY <2>1 DEF IInv, Control, TypeOK, Occupancy
  <2> QED  BY <2>2 DEF IInv, Control, Occupancy
<1>2. UNCHANGED <<handle, phpVars, app, inTxn, txn, rowVars>> /\ allowed' \in BOOLEAN
  BY DEF SandboxCheck
<1>3. TypeOK'  BY <1>2 DEF IInv, Control, TypeOK, rowVars, phpVars
<1>4. Releases'  BY <1>2 DEF IInv, Control, Releases, Linked, rowVars
<1>5. Occupancy'
  BY <1>2 DEF IInv, Control, Occupancy, rowVars, phpVars, LivePdos
<1>6. Tracked'
  BY <1>1, <1>2 DEF IInv, Control, Tracked, RefusalLasts
<1>7. RowsInv'
  BY <1>1, <1>2, RowsStay DEF IInv, Control, Pending
<1> QED  BY <1>3, <1>4, <1>5, <1>6, <1>7 DEF IInv, Control

-----------------------------------------------------------------------------
(* Appenders.                                                               *)

\* A new appender has nothing buffered.
LEMMA CreatePreserves ==
  ASSUME IInv, NEW a \in Appenders, NEW w \in Pdos,
         Create(a, w) \/ CreateFails(a, w), UNCHANGED kind
  PROVE  IInv'
<1>1. /\ UNCHANGED <<handle, allowed, phpVars, inTxn, txn, rowVars>>
      /\ handle = "open" /\ app[a].pdo = None
      /\ \E c \in BOOLEAN :
            app' = [app EXCEPT ![a] = [pdo |-> w, native |-> TRUE,
                                       linked |-> TRUE, closed |-> c]]
  BY DEF Create, CreateFails
<1>2. ~app[a].native /\ buffer[a] = {}  BY <1>1 DEF IInv, Control, Releases
<1>3. PICK c \in BOOLEAN :
         app' = [app EXCEPT ![a] = [pdo |-> w, native |-> TRUE,
                                    linked |-> TRUE, closed |-> c]]
  BY <1>1
<1>4. /\ app' \in [Appenders -> AppenderRecord]
      /\ \A b \in Appenders :
            app'[b] = IF b = a THEN [pdo |-> w, native |-> TRUE,
                                     linked |-> TRUE, closed |-> c]
                      ELSE app[b]
  BY <1>3 DEF IInv, Control, TypeOK, AppenderRecord
<1>5. TypeOK'  BY <1>1, <1>4 DEF IInv, Control, TypeOK, rowVars, phpVars
<1>6. Releases'
  <2>1. \A b \in Appenders :
           /\ app'[b].native => app'[b].linked /\ app'[b].pdo # None
           /\ ~app'[b].native => buffer'[b] = {}
           /\ app'[b].linked => app'[b].pdo # None
    BY <1>1, <1>4 DEF IInv, Control, Releases, rowVars
  <2> QED  BY <1>1, <2>1 DEF Releases
<1>7. Occupancy'
  BY <1>1 DEF IInv, Control, Occupancy, rowVars, phpVars, LivePdos
<1>8. Tracked'  BY <1>1 DEF IInv, Control, Tracked, RefusalLasts
<1>9. RowsInv'
  <2>1. \A b \in Appenders :
           /\ Pending(b)' => Pending(b) \/ buffer[b] = {}
           /\ app'[b].closed => app[b].closed \/ buffer[b] = {}
    BY <1>2, <1>4 DEF Pending
  <2>2. UNCHANGED rowVars /\ allowed' = allowed  BY <1>1
  <2>3. TypeOK /\ RowsInv  BY DEF IInv, Control
  <2>4. RefusalLasts /\ allowed' => allowed \/ work = {}  BY <2>2
  <2> QED  BY <2>1, <2>2, <2>3, <2>4, RowsStay
<1> QED  BY <1>5, <1>6, <1>7, <1>8, <1>9 DEF IInv, Control

\* What the control needs of a step of appender a, apart from its rows: the
\* record stays typed and linked while it is native.
LEMMA ControlOfAppender ==
  ASSUME Control, NEW a \in Appenders, NEW r \in AppenderRecord,
         app' = [app EXCEPT ![a] = r],
         r.native => r.linked /\ app[a].native,
         r.linked => r.pdo # None /\ app[a].linked,
         buffer' = buffer \/ buffer' = [buffer EXCEPT ![a] = {}]
           \/ (r.native /\ \E row \in Rows :
                 buffer' = [buffer EXCEPT ![a] = @ \cup {row}]),
         ~r.native => buffer'[a] = {},
         r.native => r.pdo # None,
         txn' \in {txn, "aborted"}, txn = "none" => txn' = "none" /\ work' = {},
         work' \subseteq Rows, committed' \subseteq Rows, accepted' \subseteq Rows,
         abandoned' \subseteq Rows,
         UNCHANGED <<kind, handle, allowed, phpVars, inTxn>>
  PROVE  Control'
<1>1. /\ app' \in [Appenders -> AppenderRecord]
      /\ \A b \in Appenders : app'[b] = IF b = a THEN r ELSE app[b]
  BY DEF Control, TypeOK
<1>2. /\ buffer' \in [Appenders -> SUBSET Rows]
      /\ \A b \in Appenders \ {a} : buffer'[b] = buffer[b]
  BY DEF Control, TypeOK
<1>3. TypeOK'
  BY <1>1, <1>2 DEF Control, TypeOK, phpVars
<1>4. Releases'
  <2>1. ASSUME NEW b \in Appenders
        PROVE  /\ app'[b].native => app'[b].linked /\ app'[b].pdo # None
               /\ ~app'[b].native => buffer'[b] = {}
               /\ app'[b].linked => app'[b].pdo # None
               /\ app'[b].linked => app[b].linked
    <3>1. CASE b = a  BY <3>1, <1>1
    <3>2. CASE b # a
      <4>1. app'[b] = app[b] /\ buffer'[b] = buffer[b]  BY <3>2, <1>1, <1>2
      <4> QED  BY <4>1 DEF Control, Releases
    <3> QED  BY <3>1, <3>2
  <2> QED  BY <2>1 DEF Control, Releases, Linked
<1>5. Occupancy'  BY DEF Control, Occupancy, phpVars, LivePdos
<1>6. Tracked'  BY DEF Control, Tracked, RefusalLasts
<1> QED  BY <1>3, <1>4, <1>5, <1>6 DEF Control

\* The record of an appender that a program can still use.
LEMMA RecordOf ==
  ASSUME IInv, NEW a \in Appenders
  PROVE  /\ app[a] \in AppenderRecord
         /\ app[a].native \in BOOLEAN /\ app[a].closed \in BOOLEAN
         /\ app[a].linked \in BOOLEAN
         /\ [app EXCEPT ![a] = app[a]] = app
         /\ app[a].native => app[a].linked /\ app[a].pdo # None
         /\ app[a].linked => app[a].pdo # None
         /\ ~app[a].native => buffer[a] = {}
         /\ buffer[a] \subseteq Rows
BY DEF IInv, Control, TypeOK, AppenderRecord, Releases

LEMMA AppendRowPreserves ==
  ASSUME IInv, NEW a \in Appenders, NEW r \in Rows, AppendRow(a, r),
         UNCHANGED kind
  PROVE  IInv'
<1>1. /\ Live(a) /\ r \notin accepted /\ accepted' = accepted \cup {r}
      /\ UNCHANGED <<handle, allowed, phpVars, app, inTxn, txn, abandoned>>
  BY DEF AppendRow
<1>2. Pending(a) /\ app[a].native  BY <1>1 DEF Live, Pending
<1>3. TypeOK /\ Occupancy /\ Releases /\ RowsInv /\ Control
  BY DEF IInv, Control
<1>4. CASE /\ buffer' = [buffer EXCEPT ![a] = @ \cup {r}]
           /\ UNCHANGED <<work, committed>>
  <2>1. RowsInv'  BY <1>1, <1>2, <1>3, <1>4, RowsBuffered
  <2>2. /\ work' \subseteq Rows /\ committed' \subseteq Rows
        /\ accepted' \subseteq Rows /\ abandoned' \subseteq Rows
        /\ txn = "none" => work' = {}
    BY <1>1, <1>3, <1>4 DEF TypeOK, Occupancy
  <2>3. Control'
    BY <1>1, <1>2, <1>3, <1>4, <2>2, RecordOf, ControlOfAppender
  <2> QED  BY <2>1, <2>3 DEF IInv
<1>5. CASE /\ buffer' = [buffer EXCEPT ![a] = {}]
           /\ Land(buffer[a] \cup {r})
  <2>1. {r} \in SUBSET Rows /\ {r} \cap accepted = {}  BY <1>1
  <2>2. RowsInv'  BY <1>1, <1>2, <1>3, <1>5, <2>1, RowsLand
  <2>3. buffer[a] \cup {r} \in SUBSET Rows  BY RecordOf
  <2>4. /\ work' \subseteq Rows /\ committed' \subseteq Rows
        /\ txn = "none" => work' = {}
    BY <1>3, <1>5, <2>3, LandTyped
  <2>5. accepted' \subseteq Rows /\ abandoned' \subseteq Rows
    BY <1>1, <1>3 DEF TypeOK
  <2>6. Control'
    BY <1>1, <1>2, <1>3, <1>5, <2>4, <2>5, RecordOf, ControlOfAppender
  <2> QED  BY <2>2, <2>6 DEF IInv
<1> QED  BY <1>4, <1>5 DEF AppendRow

\* A flush that succeeds, closing the appender or not.
LEMMA FlushPreserves ==
  ASSUME IInv, NEW a \in Appenders, NEW c \in BOOLEAN,
         Live(a), Land(buffer[a]), buffer' = [buffer EXCEPT ![a] = {}],
         app' = [app EXCEPT ![a] = [app[a] EXCEPT !.closed = c]],
         UNCHANGED <<kind, handle, allowed, phpVars, inTxn, txn, accepted,
                     abandoned>>
  PROVE  IInv'
<1> DEFINE r == [app[a] EXCEPT !.closed = c]
<1>1. Pending(a) /\ app[a].native  BY DEF Live, Pending
<1>2. TypeOK /\ Occupancy /\ Releases /\ RowsInv /\ Control
  BY DEF IInv, Control
<1>3. /\ r \in AppenderRecord /\ r.native = app[a].native
      /\ r.linked = app[a].linked /\ r.pdo = app[a].pdo
  BY RecordOf DEF AppenderRecord
<1>4. \A b \in Appenders \ {a} : app'[b] = app[b]
  BY <1>2 DEF TypeOK
<1> HIDE DEF r
<1>5. buffer[a] \cup {} = buffer[a] /\ accepted' = accepted \cup {}
      /\ {} \in SUBSET Rows /\ {} \cap accepted = {}
  OBVIOUS
<1>6. RowsInv'  BY <1>1, <1>2, <1>4, <1>5, RowsLand
<1>7. /\ work' \subseteq Rows /\ committed' \subseteq Rows
      /\ txn = "none" => work' = {}
  BY <1>2, RecordOf, LandTyped
<1>8. /\ accepted' \subseteq Rows /\ abandoned' \subseteq Rows
      /\ buffer'[a] = {}
  BY <1>2 DEF TypeOK
<1>9. app' = [app EXCEPT ![a] = r]  BY DEF r
<1>10. Control'
  BY ZenonT(60), <1>1, <1>2, <1>3, <1>7, <1>8, <1>9, RecordOf, ControlOfAppender
<1> QED  BY <1>6, <1>10 DEF IInv

\* A native write that fails closes the appender on the rows it gives up.
LEMMA PoisonPreserves ==
  ASSUME IInv, NEW a \in Appenders, Live(a), Poison(a),
         txn' = txn \/ AbortTxn, UNCHANGED kind
  PROVE  IInv'
<1> DEFINE r == [app[a] EXCEPT !.closed = TRUE]
<1>1. /\ app' = [app EXCEPT ![a] = r]
      /\ abandoned' = abandoned \cup buffer[a]
      /\ UNCHANGED <<handle, allowed, phpVars, inTxn, buffer, work, committed,
                     accepted>>
  BY RecordOf DEF Poison
<1>2. TypeOK /\ Occupancy /\ Releases /\ RowsInv /\ Control
  BY DEF IInv, Control
<1>3. /\ r \in AppenderRecord /\ r.native = app[a].native
      /\ r.linked = app[a].linked /\ r.pdo = app[a].pdo /\ r.closed
  BY RecordOf DEF AppenderRecord
<1>4. /\ \A b \in Appenders \ {a} : app'[b] = app[b]
      /\ app'[a] = r
  BY <1>1, <1>2 DEF TypeOK
<1> HIDE DEF r
<1>5. ~Pending(a)'  BY <1>3, <1>4 DEF Pending
<1>6. RowsInv'  BY <1>1, <1>2, <1>4, <1>5, RowsGivenUp
<1>7. /\ work' \subseteq Rows /\ committed' \subseteq Rows
      /\ accepted' \subseteq Rows /\ abandoned' \subseteq Rows
      /\ txn = "none" => txn' = "none" /\ work' = {}
      /\ txn' \in {txn, "aborted"}
  BY <1>1, <1>2 DEF TypeOK, Occupancy, AbortTxn
<1>8. Control'
  BY <1>1, <1>2, <1>3, <1>7, RecordOf, ControlOfAppender DEF Live
<1> QED  BY <1>6, <1>8 DEF IInv

\* release_native, and what becomes of the record: nothing of it writes again.
LEMMA ReleasePreserves ==
  ASSUME IInv, NEW a \in Appenders, ReleaseNative(a),
         NEW r \in AppenderRecord, ~r.native, ~r.linked,
         app' = [app EXCEPT ![a] = r],
         UNCHANGED <<kind, handle, allowed, phpVars, inTxn>>
  PROVE  IInv'
<1>1. TypeOK /\ Occupancy /\ Releases /\ RowsInv /\ Control
  BY DEF IInv, Control
<1>2. /\ \A b \in Appenders \ {a} : app'[b] = app[b]
      /\ buffer' = [buffer EXCEPT ![a] = {}] /\ accepted' = accepted
      /\ buffer'[a] = {}
  BY <1>1 DEF TypeOK, ReleaseNative
<1>3. CASE Closes(a) /\ Land(buffer[a]) /\ UNCHANGED <<txn, abandoned>>
  <2>1. Pending(a)  BY <1>3 DEF Closes, Pending
  <2>2. buffer[a] \cup {} = buffer[a] /\ accepted' = accepted \cup {}
        /\ {} \in SUBSET Rows /\ {} \cap accepted = {}
    BY <1>2
  <2>3. RowsInv'  BY <1>1, <1>2, <1>3, <2>1, <2>2, RowsLand
  <2>4. /\ work' \subseteq Rows /\ committed' \subseteq Rows
        /\ txn = "none" => work' = {}
    BY <1>1, <1>3, RecordOf, LandTyped
  <2>5. accepted' \subseteq Rows /\ abandoned' \subseteq Rows
    BY <1>1, <1>2, <1>3 DEF TypeOK
  <2>6. Control'
    BY <1>1, <1>2, <1>3, <2>4, <2>5, ControlOfAppender
  <2> QED  BY <2>3, <2>6 DEF IInv
<1>4. CASE ~(Closes(a) /\ Land(buffer[a]) /\ UNCHANGED <<txn, abandoned>>)
  <2>1. /\ work' = work /\ committed' = committed
        /\ txn' = txn \/ AbortTxn
        /\ abandoned' = abandoned \cup buffer[a]
    <3>1. CASE /\ AbortTxn /\ Land(Cleared(buffer[a]))
               /\ abandoned' = abandoned \cup buffer[a]
      BY <3>1 DEF Land, Cleared
    <3>2. CASE /\ ~Closes(a) /\ txn' = txn /\ Land(Cleared(buffer[a]))
               /\ abandoned' = IF app[a].closed \/ ~allowed
                               THEN abandoned \cup buffer[a] ELSE abandoned
      <4>1. work' = work /\ committed' = committed
        BY <3>2 DEF Land, Cleared
      <4>2. app[a].closed \/ ~allowed \/ buffer[a] = {}
        BY <3>2, RecordOf DEF Closes
      <4> QED  BY <3>2, <4>1, <4>2
    <3> QED  BY <1>4, <3>1, <3>2 DEF ReleaseNative
  <2>2. RowsInv'  BY <1>1, <1>2, <2>1, RowsGivenUp
  <2>3. /\ work' \subseteq Rows /\ committed' \subseteq Rows
        /\ accepted' \subseteq Rows /\ abandoned' \subseteq Rows
        /\ txn = "none" => txn' = "none" /\ work' = {}
        /\ txn' \in {txn, "aborted"}
    BY <1>1, <1>2, <2>1 DEF TypeOK, Occupancy, AbortTxn
  <2>4. Control'
    BY <1>1, <1>2, <2>3, ControlOfAppender
  <2> QED  BY <2>2, <2>4 DEF IInv
<1> QED  BY <1>3, <1>4

LEMMA FreeAppenderPreserves ==
  ASSUME IInv, NEW a \in Appenders, FreeAppender(a), UNCHANGED kind
  PROVE  IInv'
<1>1. /\ app' = [app EXCEPT ![a] = NoAppender]
      /\ UNCHANGED <<handle, allowed, phpVars, inTxn>>
  BY DEF FreeAppender
<1>2. NoAppender \in AppenderRecord /\ ~NoAppender.native /\ ~NoAppender.linked
      /\ ~NoAppender.closed
  BY DEF NoAppender, AppenderRecord
<1>3. CASE ReleaseNative(a)
  BY <1>1, <1>2, <1>3, ReleasePreserves
<1>4. CASE ~app[a].linked /\ UNCHANGED <<txn, rowVars>>
  <2>1. TypeOK /\ Occupancy /\ RowsInv /\ Control
    BY DEF IInv, Control
  <2>2. /\ ~app[a].native /\ buffer[a] = {} /\ buffer' = buffer
        /\ accepted' = accepted /\ work' = work /\ committed' = committed
        /\ abandoned' = abandoned
    BY <1>4, RecordOf DEF rowVars
  <2>3. \A b \in Appenders :
           /\ Pending(b)' => Pending(b) \/ buffer[b] = {}
           /\ app'[b].closed => app[b].closed \/ buffer[b] = {}
    BY <1>1, <1>2, <2>1, <2>2 DEF Pending, TypeOK
  <2>4. RowsInv'  BY <1>1, <1>4, <2>1, <2>3, RowsStay
  <2>5. /\ work' \subseteq Rows /\ committed' \subseteq Rows
        /\ accepted' \subseteq Rows /\ abandoned' \subseteq Rows
        /\ txn = "none" => txn' = "none" /\ work' = {}
        /\ txn' \in {txn, "aborted"}
    BY <1>4, <2>1, <2>2 DEF TypeOK, Occupancy
  <2>6. Control'
    BY <1>1, <1>2, <2>1, <2>2, <2>5, ControlOfAppender
  <2> QED  BY <2>4, <2>6 DEF IInv
<1> QED  BY <1>3, <1>4 DEF FreeAppender

LEMMA CloserReleasesPreserves ==
  ASSUME IInv, NEW a \in Appenders, CloserReleases(a), UNCHANGED kind
  PROVE  IInv'
<1> DEFINE r == [app[a] EXCEPT !.native = FALSE, !.closed = TRUE,
                               !.linked = FALSE]
<1>1. /\ ReleaseNative(a) /\ app' = [app EXCEPT ![a] = r]
      /\ UNCHANGED <<handle, allowed, phpVars, inTxn>>
  BY ZenonT(60), RecordOf DEF CloserReleases
<1>2. r \in AppenderRecord /\ ~r.native /\ ~r.linked
  BY RecordOf DEF AppenderRecord
<1> HIDE DEF r
<1> QED  BY <1>1, <1>2, ReleasePreserves

-----------------------------------------------------------------------------
(* The theorems.                                                            *)

\* Where rows are, who is linked and what PDO knows, after every step.
THEOREM Invariance == Spec => []IInv
<1>1. Init => IInv
  <2> SUFFICES ASSUME Init  PROVE IInv
    OBVIOUS
  <2>1. TypeOK  BY DEF Init, TypeOK, NoAppender, AppenderRecord
  <2>2. Releases  BY DEF Init, Releases, Linked, NoAppender
  <2>3. Occupancy  BY DEF Init, Occupancy, LivePdos
  <2>4. Tracked  BY DEF Init, Tracked
  <2>5. RowsInv
    BY DEF Init, RowsInv, Apart, GivenUp, AbandonedRowsStayOut, RowsAccountedFor
  <2> QED  BY <2>1, <2>2, <2>3, <2>4, <2>5 DEF IInv, Control
<1>2. IInv /\ [Next]_vars => IInv'
  <2> SUFFICES ASSUME IInv, [Next]_vars  PROVE IInv'
    OBVIOUS
  <2>1. CASE UNCHANGED vars
    <3>1. Control'
      BY <2>1 DEF IInv, Control, TypeOK, Releases, Occupancy, Tracked, vars,
                  phpVars, rowVars, LivePdos, Linked, RefusalLasts
    <3>2. RowsInv'  BY <2>1, RowsStay DEF IInv, Control, vars, Pending
    <3> QED  BY <3>1, <3>2 DEF IInv
  <2>2. ASSUME Next  PROVE IInv'
    <3>1. UNCHANGED kind  BY <2>2 DEF Next
    <3>2. ASSUME NEW w \in Pdos,
                 \/ NewPdo(w) \/ Begin(w) \/ Commit(w) \/ Rollback(w)
                 \/ StatementFails(w) \/ BecomeGarbage(w) \/ FreePdo(w)
                 \/ \E a \in Appenders : Create(a, w) \/ CreateFails(a, w)
          PROVE  IInv'
      <4>1. CASE NewPdo(w)  BY <3>1, <4>1, NewPdoPreserves
      <4>2. CASE Begin(w)
        BY <3>1, <4>2, TransactionStep DEF Begin
      <4>3. CASE Commit(w)  BY <3>1, <4>3, CommitPreserves
      <4>4. CASE Rollback(w)  BY <3>1, <4>4, RollbackPreserves
      <4>5. CASE StatementFails(w)
        BY <3>1, <4>5, TransactionStep DEF StatementFails
      <4>6. CASE BecomeGarbage(w)
        <5>1. Control'
          BY <3>1, <4>6 DEF IInv, Control, TypeOK, Releases, Occupancy, Tracked,
                 BecomeGarbage, rowVars, LivePdos, Linked, RefusalLasts
        <5>2. RowsInv'
          BY <4>6, RowsStay DEF IInv, Control, BecomeGarbage, Pending
        <5> QED  BY <5>1, <5>2 DEF IInv
      <4>7. CASE FreePdo(w)  BY <3>1, <4>7, FreePdoPreserves
      <4>8. ASSUME NEW a \in Appenders, Create(a, w) \/ CreateFails(a, w)
            PROVE  IInv'
        BY <3>1, <4>8, CreatePreserves
      <4> QED
        BY <3>2, <4>1, <4>2, <4>3, <4>4, <4>5, <4>6, <4>7, <4>8
    <3>3. ASSUME NEW a \in Appenders,
                 \/ \E r \in Rows : AppendRow(a, r)
                 \/ ProbeFails(a) \/ AppendRowFails(a) \/ Flush(a)
                 \/ FlushFails(a) \/ CloseAppender(a) \/ FreeAppender(a)
                 \/ CloserReleases(a)
          PROVE  IInv'
      <4>1. ASSUME NEW r \in Rows, AppendRow(a, r)  PROVE IInv'
        BY <3>1, <4>1, AppendRowPreserves
      <4>2. CASE ProbeFails(a)
        <5>1. handle # "none"
          BY <4>2 DEF IInv, Control, Occupancy, ProbeFails
        <5> QED  BY <3>1, <4>2, <5>1, TransactionStep DEF ProbeFails
      <4>3. CASE AppendRowFails(a)
        BY <3>1, <4>3, PoisonPreserves DEF AppendRowFails
      <4>4. CASE Flush(a)
        <5>1. app' = [app EXCEPT ![a] = [app[a] EXCEPT !.closed = app[a].closed]]
              /\ app[a].closed \in BOOLEAN
          <6>1. [app[a] EXCEPT !.closed = app[a].closed] = app[a]
            BY RecordOf DEF AppenderRecord
          <6> QED  BY <4>4, <6>1, RecordOf DEF Flush
        <5> QED  BY <3>1, <4>4, <5>1, FlushPreserves DEF Flush
      <4>5. CASE FlushFails(a)
        BY <3>1, <4>5, PoisonPreserves DEF FlushFails
      <4>6. CASE CloseAppender(a)
        <5>1. app' = [app EXCEPT ![a] = [app[a] EXCEPT !.closed = TRUE]]
          BY <4>6 DEF CloseAppender
        <5> QED  BY <3>1, <4>6, <5>1, FlushPreserves DEF CloseAppender
      <4>7. CASE FreeAppender(a)  BY <3>1, <4>7, FreeAppenderPreserves
      <4>8. CASE CloserReleases(a)  BY <3>1, <4>8, CloserReleasesPreserves
      <4> QED
        BY <3>3, <4>1, <4>2, <4>3, <4>4, <4>5, <4>6, <4>7, <4>8
    <3>4. CASE DiscardPersistent  BY <3>1, <3>4, DiscardPersistentPreserves
    <3>5. CASE Disconnect  BY <3>1, <3>5, DisconnectPreserves
    <3>6. ASSUME NEW b \in BOOLEAN, SandboxCheck(b)  PROVE IInv'
      BY <3>1, <3>6, SandboxCheckPreserves
    <3> QED  BY <2>2, <3>2, <3>3, <3>4, <3>5, <3>6 DEF Next, Closer
  <2> QED  BY <2>1, <2>2
<1> QED  BY <1>1, <1>2, PTL DEF Spec

\* Every field keeps its type, in every order of destruction.
THEOREM TypeCorrect == Spec => []TypeOK
<1>1. IInv => TypeOK  BY DEF IInv, Control
<1> QED  BY <1>1, Invariance, PTL

\* Every accepted row is buffered, in the open transaction, committed or given
\* up: release_native flushes what it may, and a failure between two closes
\* loses nothing silently.
THEOREM NoRowIsLost == Spec => []RowsAccountedFor
<1>1. IInv => RowsAccountedFor  BY DEF IInv, RowsInv
<1> QED  BY <1>1, Invariance, PTL

\* The closer leaves no native appender behind, and no appender object with
\* the freed handle.
THEOREM NoAppenderOutlives == Spec => []ReleasedBeforeDisconnect
<1>1. IInv => ReleasedBeforeDisconnect
  BY DEF IInv, Control, Releases, ReleasedBeforeDisconnect, Linked
<1> QED  BY <1>1, Invariance, PTL

\* A row of a rollback, a discarded buffer or a failed write never reaches the
\* database, in whichever order its objects are freed, if no later request
\* gets a persistent connection back that refused the rollback.
THEOREM NoRowReturns ==
  ASSUME "persistent" \notin Relaxable
  PROVE  Spec => []AbandonedRowsStayOut
<1>1. IInv => AbandonedRowsStayOut
  BY DEF IInv, RowsInv, GivenUp, RefusalLasts
<1> QED  BY <1>1, Invariance, PTL

\* On the same condition, an open transaction shows in PDO's flag wherever it
\* can be used, so that freeing the PDO object rolls it back.
THEOREM TransactionsAreVisible ==
  ASSUME "persistent" \notin Relaxable
  PROVE  Spec => []NoInvisibleTransaction
<1>1. IInv => NoInvisibleTransaction
  BY DEF IInv, Control, Tracked, NoInvisibleTransaction, RefusalLasts
<1> QED  BY <1>1, Invariance, PTL

=============================================================================
