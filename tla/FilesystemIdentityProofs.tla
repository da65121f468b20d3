---------------------- MODULE FilesystemIdentityProofs ----------------------
(***************************************************************************)
(* Theorems about FilesystemIdentity for any number of instances, paths,   *)
(* files and queries: every file in use is the file of one entry, and that *)
(* entry lasts as long as the use.                                         *)
(***************************************************************************)
EXTENDS FilesystemIdentity, TLAPS

\* The file an entry stands for: the one it remembers or, while it waits, the
\* one its path names by now.
Stands(e) == IF e.identity # None THEN e.identity ELSE disk[e.path]

Entries == [path : Paths, identity : Files \cup {None}, owners : SUBSET Owners,
            pending : SUBSET Reference]

Attachments == [owner : Owners, path : Paths, file : Files \cup {None},
                query : 0..MaxQueries]

Fields ==
    /\ disk \in [Paths -> Files \cup {None}]
    /\ query \in [Owners -> 0..MaxQueries \cup {None}]
    /\ opening \in [Owners -> Paths \cup {None}]
    /\ held \subseteq Attachments
    /\ queries \in 0..MaxQueries
    /\ \A o \in Owners : opening[o] # None => query[o] # None

\* An entry waits for its file, or has it and is owned; no two entries have one
\* path, and no two stand for one file.
Sound(es) ==
    /\ es \subseteq Entries
    /\ \A e \in es :
          /\ e.owners \cup e.pending # {}
          /\ e.pending # {} <=> e.identity = None
          /\ e.identity = None => e.owners = {}
    /\ \A e1, e2 \in es : e1.path = e2.path => e1 = e2
    /\ \A e1, e2 \in es : Stands(e1) # None /\ Stands(e1) = Stands(e2) => e1 = e2

Refers(e, o, q) == o \in e.owners \/ [owner |-> o, query |-> q] \in e.pending

\* What is attached, or about to be, has the entry of its path, which stands for
\* its file.
ServesThese(H, es) ==
    /\ \A h \in H : \E e \in es :
          /\ e.path = h.path /\ Refers(e, h.owner, h.query)
          /\ h.file # None => Stands(e) = h.file
    /\ \A o \in Owners : opening[o] # None =>
          \E e \in es : e.path = opening[o] /\ Refers(e, o, query[o])

Serves(es) == ServesThese(held, es)

\* A path that DuckDB may still open or create names what its entry stands for.
Unopened(p) ==
    \/ \E o \in Owners : opening[o] = p
    \/ \E h \in held : h.path = p /\ h.file = None

Current(es) == \A e \in es : Unopened(e.path) => Stands(e) = disk[e.path]

Guarded(es) == Sound(es) /\ Serves(es) /\ Current(es)

IInv == Fields /\ Guarded(entries)

-----------------------------------------------------------------------------
(* Entries that change without letting go of what they serve.               *)

USE NoneAssumption, BoundsAssumption

\* A single entry that captures the file its path names.
LEMMA CapturedEntry ==
  ASSUME Fields, NEW e \in Entries, Capturable(e)
  PROVE  LET c == Captured(e, Identify(e.path))
         IN  /\ c \in Entries /\ c.path = e.path
             /\ c.identity = disk[e.path] /\ c.identity # None
             /\ c.pending = {} /\ Stands(c) = Stands(e)
             /\ c.owners = e.owners \cup {r.owner : r \in e.pending}
             /\ \A o, q : Refers(e, o, q) => Refers(c, o, q)
<1> DEFINE f == Identify(e.path)
           c == Captured(e, f)
           new == {r.owner : r \in e.pending}
<1>1. /\ e.path \in Paths /\ e.identity = None /\ e.owners \subseteq Owners
      /\ e.pending \subseteq Reference
      /\ f = disk[e.path] /\ f \in Files /\ f # None
  BY DEF Entries, Capturable, Identify, Fields
<1>2. new \subseteq Owners  BY <1>1 DEF Reference
<1>3. c = [path |-> e.path, identity |-> f, owners |-> e.owners \cup new,
           pending |-> {}]
  <2>1. c = [e EXCEPT !.identity = f, !.pending = {}, !.owners = @ \cup new]
    BY DEF Captured
  <2> HIDE DEF f, new, c
  <2> QED  BY <2>1 DEF Entries
<1>4. c \in Entries  BY <1>1, <1>2, <1>3 DEF Entries
<1>5. Stands(c) = f /\ Stands(e) = f  BY <1>1, <1>3 DEF Stands
<1>6. ASSUME NEW o, NEW q, Refers(e, o, q)  PROVE Refers(c, o, q)
  <2>1. CASE o \in e.owners  BY <2>1, <1>3 DEF Refers
  <2>2. CASE [owner |-> o, query |-> q] \in e.pending
    <3>1. [owner |-> o, query |-> q].owner \in new  BY <2>2
    <3> QED  BY <3>1, <1>3 DEF Refers
  <2> QED  BY <1>6, <2>1, <2>2 DEF Refers
<1> QED  BY <1>1, <1>3, <1>4, <1>5, <1>6

\* Entries replaced one by one by the function G, each for its path and file;
\* those nobody refers to are left out.
Replaces(es, G) ==
    /\ G \in [entries -> Entries]
    /\ es \subseteq {G[e] : e \in entries}
    /\ \A e \in entries :
          /\ G[e].owners \cup G[e].pending # {} <=> G[e] \in es
          /\ G[e].path = e.path /\ Stands(G[e]) = Stands(e)
          /\ G[e].pending # {} => G[e].identity = None
          /\ G[e].identity = None => G[e].owners = {}

\* They still refer to the databases H, and to what is being opened.
Retains(H, G) ==
    /\ \A h \in H, e \in entries :
          e.path = h.path /\ Refers(e, h.owner, h.query) =>
             Refers(G[e], h.owner, h.query)
    /\ \A o \in Owners, e \in entries :
          opening[o] # None /\ e.path = opening[o] /\ Refers(e, o, query[o]) =>
             Refers(G[e], o, query[o])

LEMMA Replaced ==
  ASSUME Fields, Guarded(entries), NEW es, NEW H \in SUBSET held, NEW G,
         Replaces(es, G), Retains(H, G)
  PROVE  Sound(es) /\ Current(es) /\ ServesThese(H, es)
<1> USE DEF Replaces, Retains
<1>1. \A k \in es : \E e \in entries : k = G[e]
  OBVIOUS
<1>2. \A e \in entries : \A o, q : Refers(G[e], o, q) => G[e] \in es
  BY DEF Refers
<1>3. Sound(es)
  <2>1. es \subseteq Entries  BY <1>1
  <2>2. ASSUME NEW k \in es
        PROVE  /\ k.owners \cup k.pending # {}
               /\ k.pending # {} <=> k.identity = None
               /\ k.identity = None => k.owners = {}
    <3>1. PICK e \in entries : k = G[e]  BY <1>1
    <3>2. /\ G[e].owners \cup G[e].pending # {}
          /\ G[e].pending # {} => G[e].identity = None
          /\ G[e].identity = None => G[e].owners = {}
      BY <3>1
    <3>3. G[e].identity = None => G[e].pending # {}  BY <3>2
    <3> QED  BY <3>1, <3>2, <3>3
  <2>3. ASSUME NEW k1 \in es, NEW k2 \in es,
               \/ k1.path = k2.path
               \/ Stands(k1) # None /\ Stands(k1) = Stands(k2)
        PROVE  k1 = k2
    <3>1. PICK e1 \in entries : k1 = G[e1]  BY <1>1
    <3>2. PICK e2 \in entries : k2 = G[e2]  BY <1>1
    <3>3. \/ e1.path = e2.path
          \/ Stands(e1) # None /\ Stands(e1) = Stands(e2)
      BY <2>3, <3>1, <3>2
    <3>4. e1 = e2  BY <3>3 DEF Guarded, Sound
    <3> QED  BY <3>1, <3>2, <3>4
  <2> QED  BY <2>1, <2>2, <2>3 DEF Sound
<1>4. Current(es)
  <2> SUFFICES ASSUME NEW k \in es, Unopened(k.path)
               PROVE  Stands(k) = disk[k.path]
    BY DEF Current
  <2>1. PICK e \in entries : k = G[e]  BY <1>1
  <2>2. k.path = e.path /\ Stands(k) = Stands(e)  BY <2>1
  <2> QED  BY <2>2 DEF Guarded, Current
<1>5. ASSUME NEW h \in H
      PROVE  \E e \in es :
                /\ e.path = h.path /\ Refers(e, h.owner, h.query)
                /\ h.file # None => Stands(e) = h.file
  <2>1. PICK e \in entries :
           /\ e.path = h.path /\ Refers(e, h.owner, h.query)
           /\ h.file # None => Stands(e) = h.file
    BY DEF Guarded, Serves, ServesThese
  <2>2. Refers(G[e], h.owner, h.query)  BY <2>1
  <2>3. G[e] \in es  BY <2>2, <1>2
  <2> QED  BY <2>1, <2>2, <2>3
<1>6. ASSUME NEW o \in Owners, opening[o] # None
      PROVE  \E e \in es : e.path = opening[o] /\ Refers(e, o, query[o])
  <2>1. PICK e \in entries : e.path = opening[o] /\ Refers(e, o, query[o])
    BY <1>6 DEF Guarded, Serves, ServesThese
  <2>2. Refers(G[e], o, query[o])  BY <1>6, <2>1
  <2>3. G[e] \in es  BY <2>2, <1>2
  <2> QED  BY <2>1, <2>2, <2>3
<1> QED  BY <1>3, <1>4, <1>5, <1>6 DEF ServesThese

\* Capturing files lets go of nothing.
LEMMA Capturing ==
  ASSUME Fields, Guarded(entries),
         NEW chosen \in SUBSET {e \in entries : Capturable(e)}
  PROVE  Guarded(CaptureAll(chosen))
<1> DEFINE G == [e \in entries |->
                   IF e \in chosen THEN Captured(e, Identify(e.path)) ELSE e]
           es == CaptureAll(chosen)
<1>1. es = {G[e] : e \in entries}  BY DEF CaptureAll
<1>2. ASSUME NEW e \in entries
      PROVE  /\ G[e] \in Entries /\ G[e].path = e.path /\ Stands(G[e]) = Stands(e)
             /\ G[e].owners \cup G[e].pending # {}
             /\ G[e].pending # {} => G[e].identity = None
             /\ G[e].identity = None => G[e].owners = {}
             /\ \A o, q : Refers(e, o, q) => Refers(G[e], o, q)
  <2>1. /\ e \in Entries /\ e.owners \cup e.pending # {}
        /\ e.pending # {} <=> e.identity = None
        /\ e.identity = None => e.owners = {}
    BY DEF Guarded, Sound
  <2>2. CASE e \in chosen
    <3> DEFINE c == Captured(e, Identify(e.path))
    <3>1. G[e] = c /\ Capturable(e)  BY <2>2
    <3>2. /\ c \in Entries /\ c.path = e.path /\ c.identity # None
          /\ c.pending = {} /\ Stands(c) = Stands(e)
          /\ c.owners = e.owners \cup {r.owner : r \in e.pending}
          /\ \A o, q : Refers(e, o, q) => Refers(c, o, q)
      BY <2>1, <3>1, CapturedEntry
    <3>3. c.owners # {}  BY <2>1, <3>2
    <3> HIDE DEF c, G
    <3> QED  BY <3>1, <3>2, <3>3
  <2>3. CASE e \notin chosen
    <3>1. G[e] = e  BY <2>3
    <3> HIDE DEF G
    <3> QED  BY <2>1, <3>1
  <2> QED  BY <2>2, <2>3
<1>3. G \in [entries -> Entries]  BY <1>2
<1> HIDE DEF G, es
<1>4. \A e \in entries : G[e] \in es  BY <1>1
<1>5. Sound(es) /\ Current(es) /\ Serves(es)
  <2>1. es \subseteq {G[e] : e \in entries}  BY <1>1
  <2>2. Replaces(es, G)  BY <1>2, <1>3, <1>4, <2>1 DEF Replaces
  <2>3. Retains(held, G)  BY <1>2 DEF Retains
  <2>4. Sound(es) /\ Current(es) /\ ServesThese(held, es)
    BY <2>2, <2>3, Replaced
  <2> QED  BY <2>4 DEF Serves
<1> QED  BY <1>5 DEF Guarded, es

\* Once all are captured, no entry waits whose path names a file.
LEMMA AllCaptured ==
  ASSUME Fields, Guarded(entries),
         NEW k \in CaptureAll({e \in entries : Capturable(e)})
  PROVE  ~Capturable(k)
<1>1. PICK e \in entries :
         k = IF Capturable(e) THEN Captured(e, Identify(e.path)) ELSE e
  BY DEF CaptureAll
<1>2. e \in Entries  BY DEF Guarded, Sound
<1>3. CASE Capturable(e)
  <2>1. k = Captured(e, Identify(e.path))  BY <1>1, <1>3
  <2>2. k.identity # None  BY <1>2, <1>3, <2>1, CapturedEntry
  <2> QED  BY <2>2 DEF Capturable
<1>4. CASE ~Capturable(e)  BY <1>1, <1>4
<1> QED  BY <1>3, <1>4

\* A step that replaces the entries by es, and nothing that es has to serve.
LEMMA EntriesStep ==
  ASSUME Fields, NEW es, Guarded(es), entries' = es,
         UNCHANGED <<disk, opening, held, queries>>,
         query' \in [Owners -> 0..MaxQueries \cup {None}],
         \A o \in Owners : opening[o] # None => query'[o] = query[o]
  PROVE  IInv'
<1>1. Fields'  BY DEF Fields
<1>2. \A e : Stands(e)' = Stands(e)  BY DEF Stands
<1>3. Sound(entries)'  BY <1>2 DEF Guarded, Sound
<1>4. Serves(entries)'
  BY <1>2 DEF Guarded, Serves, ServesThese, Refers
<1>5. Current(entries)'
  BY <1>2 DEF Guarded, Current, Unopened
<1> QED  BY <1>1, <1>3, <1>4, <1>5 DEF IInv, Guarded

-----------------------------------------------------------------------------
(* The actions.                                                             *)

LEMMA BeginPreserves ==
  ASSUME IInv, NEW o \in Owners, Begin(o)
  PROVE  IInv'
<1>1. /\ query[o] = None /\ UNCHANGED <<disk, entries, opening, held>>
      /\ \E q \in 0..MaxQueries : query' = [query EXCEPT ![o] = q]
      /\ queries' \in 0..MaxQueries
  BY DEF Begin, IInv, Fields
<1>2. /\ query' \in [Owners -> 0..MaxQueries \cup {None}]
      /\ \A u \in Owners : opening[u] # None =>
            query'[u] = query[u] /\ query'[u] # None
  BY <1>1 DEF IInv, Fields
<1>3. Fields'  BY <1>1, <1>2 DEF IInv, Fields
<1>4. \A e : Stands(e)' = Stands(e)  BY <1>1 DEF Stands
<1>5. Sound(entries)'  BY <1>1, <1>4 DEF IInv, Guarded, Sound
<1>6. Serves(entries)'
  BY <1>1, <1>2, <1>4 DEF IInv, Guarded, Serves, ServesThese, Refers
<1>7. Current(entries)'
  BY <1>1, <1>4 DEF IInv, Guarded, Current, Unopened
<1> QED  BY <1>3, <1>5, <1>6, <1>7 DEF IInv, Guarded

LEMMA CanonicalizeFailsPreserves ==
  ASSUME IInv, NEW o \in Owners, CanonicalizeFails(o)
  PROVE  IInv'
<1>1. PICK some \in SUBSET {e \in entries : Capturable(e)} :
         entries' = CaptureAll(some)
  BY DEF CanonicalizeFails
<1>2. Guarded(CaptureAll(some))  BY Capturing DEF IInv
<1>3. UNCHANGED <<disk, query, opening, held, queries>>
  BY DEF CanonicalizeFails
<1> QED  BY <1>1, <1>2, <1>3, EntriesStep DEF IInv, Fields

LEMMA RefreshPreserves ==
  ASSUME IInv, NEW o \in Owners, Refresh(o)
  PROVE  IInv'
<1> DEFINE chosen == {e \in entries : Capturable(e) /\ References(e, o) # {}}
<1>1. /\ entries' = CaptureAll(chosen) /\ opening[o] = None
      /\ query' = [query EXCEPT ![o] = None]
      /\ UNCHANGED <<disk, opening, held, queries>>
  BY DEF Refresh
<1>2. chosen \in SUBSET {e \in entries : Capturable(e)}  OBVIOUS
<1>3. Guarded(CaptureAll(chosen))  BY <1>2, Capturing DEF IInv
<1>4. /\ query' \in [Owners -> 0..MaxQueries \cup {None}]
      /\ \A u \in Owners : opening[u] # None => query'[u] = query[u]
  BY <1>1 DEF IInv, Fields
<1> HIDE DEF chosen
<1> QED  BY <1>1, <1>3, <1>4, EntriesStep DEF IInv

\* A reference more, to a query or for the life of its owner.
LEMMA AddedEntry ==
  ASSUME NEW e \in Entries, NEW o \in Owners, NEW q \in 0..MaxQueries,
         e.pending # {} => e.identity = None,
         e.identity = None => e.owners = {}
  PROVE  LET a == Added(e, o, q)
         IN  /\ a \in Entries /\ a.path = e.path /\ a.identity = e.identity
             /\ a.owners \cup a.pending # {}
             /\ a.pending # {} <=> a.identity = None
             /\ a.identity = None => a.owners = {}
             /\ Refers(a, o, q) /\ Stands(a) = Stands(e)
             /\ \A u, r : Refers(e, u, r) => Refers(a, u, r)
<1> DEFINE a == Added(e, o, q)
           ref == [owner |-> o, query |-> q]
<1>1. ref \in Reference  BY DEF Reference
<1>2. CASE e.identity # None
  <2>1. a = [e EXCEPT !.owners = @ \cup {o}]  BY <1>2 DEF Added
  <2>2. /\ a \in Entries /\ a.path = e.path /\ a.identity = e.identity
        /\ a.owners = e.owners \cup {o} /\ a.pending = e.pending
    BY <2>1 DEF Entries
  <2> HIDE DEF a
  <2> QED  BY <1>2, <2>2 DEF Refers, Stands, a
<1>3. CASE e.identity = None
  <2>1. a = [e EXCEPT !.pending = @ \cup {ref}]  BY <1>3 DEF Added
  <2> HIDE DEF a, ref
  <2>2. /\ a \in Entries /\ a.path = e.path /\ a.identity = e.identity
        /\ a.owners = e.owners /\ a.pending = e.pending \cup {ref}
    BY <1>1, <2>1 DEF Entries
  <2> QED  BY <1>3, <2>2 DEF Refers, Stands, a, ref
<1> QED  BY <1>2, <1>3

\* The owner o is given the path p of an entry a, which names what a stands for.
Offers(K, es, o, p, a) ==
    /\ a \in es /\ a.path = p /\ Stands(a) = disk[p] /\ Refers(a, o, query[o])
    /\ \A e \in es : e # a => e \in K
    /\ \A k \in K : \E e \in es :
          /\ e.path = k.path /\ Stands(e) = Stands(k)
          /\ \A u, r : Refers(k, u, r) => Refers(e, u, r)

LEMMA OfferPreserves ==
  ASSUME Fields, NEW K, Guarded(K), NEW es, Sound(es), NEW a,
         NEW o \in Owners, NEW p \in Paths, Offers(K, es, o, p, a),
         opening[o] = None, query[o] # None,
         entries' = es, opening' = [opening EXCEPT ![o] = p],
         UNCHANGED <<disk, query, held, queries>>
  PROVE  IInv'
<1>1. /\ opening' \in [Owners -> Paths \cup {None}] /\ opening'[o] = p
      /\ \A u \in Owners : u # o => opening'[u] = opening[u]
  BY DEF Fields
<1>2. Fields'
  BY <1>1 DEF Fields
<1>3. \A e : Stands(e)' = Stands(e)  BY DEF Stands
<1>4. Sound(entries)'  BY <1>3 DEF Sound
<1>5. Serves(entries)'
  <2>1. ASSUME NEW h \in held
        PROVE  \E e \in es :
                  /\ e.path = h.path /\ Refers(e, h.owner, h.query)
                  /\ h.file # None => Stands(e) = h.file
    <3>1. PICK k \in K :
             /\ k.path = h.path /\ Refers(k, h.owner, h.query)
             /\ h.file # None => Stands(k) = h.file
      BY DEF Guarded, Serves, ServesThese
    <3> QED  BY <3>1 DEF Offers
  <2>2. ASSUME NEW u \in Owners, opening'[u] # None
        PROVE  \E e \in es : e.path = opening'[u] /\ Refers(e, u, query[u])
    <3>1. CASE u = o  BY <3>1, <1>1 DEF Offers
    <3>2. CASE u # o
      <4>1. opening'[u] = opening[u] /\ opening[u] # None  BY <1>1, <3>2, <2>2
      <4>2. PICK k \in K : k.path = opening[u] /\ Refers(k, u, query[u])
        BY <4>1 DEF Guarded, Serves, ServesThese
      <4> QED  BY <4>1, <4>2 DEF Offers
    <3> QED  BY <3>1, <3>2
  <2>3. \A e, u, r : Refers(e, u, r)' = Refers(e, u, r)  BY DEF Refers
  <2> QED  BY <1>3, <2>1, <2>2, <2>3 DEF Serves, ServesThese
<1>6. Current(entries)'
  <2> SUFFICES ASSUME NEW e \in es, Unopened(e.path)'
               PROVE  Stands(e) = disk[e.path]
    BY <1>3 DEF Current
  <2>1. CASE e.path = p
    <3>1. e = a  BY <2>1 DEF Sound, Offers
    <3> QED  BY <3>1, <2>1 DEF Offers
  <2>2. CASE e.path # p
    <3>1. e \in K  BY <2>2 DEF Offers
    <3>2. Unopened(e.path)  BY <2>2, <1>1 DEF Unopened
    <3> QED  BY <3>1, <3>2 DEF Guarded, Current
  <2> QED  BY <2>1, <2>2
<1> QED  BY <1>2, <1>4, <1>5, <1>6 DEF IInv, Guarded

LEMMA CanonicalizePreserves ==
  ASSUME IInv, NEW o \in Owners, NEW p \in Paths, Canonicalize(o, p)
  PROVE  IInv'
<1> DEFINE K == CaptureAll({e \in entries : Capturable(e)})
           matching == {e \in K : Matches(e, p)}
<1>1. /\ query[o] # None /\ opening[o] = None
      /\ UNCHANGED <<disk, query, held, queries>>
  BY DEF Canonicalize
<1>2. /\ query[o] \in 0..MaxQueries
      /\ disk[p] \in Files \cup {None}
  BY <1>1 DEF IInv, Fields
<1>3. Guarded(K)
  <2>1. {e \in entries : Capturable(e)} \in SUBSET {e \in entries : Capturable(e)}
    OBVIOUS
  <2> QED  BY <2>1, Capturing DEF IInv
<1>4. Sound(K)  BY <1>3 DEF Guarded
<1>5. CASE /\ matching = {}
           /\ entries' = K \cup {Added(NewEntry(p), o, query[o])}
           /\ opening' = [opening EXCEPT ![o] = p]
  <2> DEFINE n == NewEntry(p)
             a == Added(n, o, query[o])
             es == K \cup {a}
  <2>1. /\ n \in Entries /\ n.path = p /\ n.identity = disk[p]
        /\ n.owners = {} /\ n.pending = {}
    BY <1>2 DEF NewEntry, Identify, Entries
  <2>2. Stands(n) = disk[p]  BY <2>1 DEF Stands
  <2> HIDE DEF n
  <2>3. /\ a \in Entries /\ a.path = p
        /\ a.owners \cup a.pending # {}
        /\ a.pending # {} <=> a.identity = None
        /\ a.identity = None => a.owners = {}
        /\ Refers(a, o, query[o]) /\ Stands(a) = disk[p]
    BY <1>2, <2>1, <2>2, AddedEntry
  <2> HIDE DEF a
  <2>4. ASSUME NEW k \in K
        PROVE  /\ k.path # p
               /\ ~(disk[p] # None /\ Stands(k) = disk[p])
    <3>1. ~Matches(k, p)  BY <1>5
    <3>2. ~Capturable(k)  BY AllCaptured DEF IInv
    <3> QED  BY <3>1, <3>2 DEF Matches, Capturable, Identify, Stands
  <2> HIDE DEF K
  <2>5. Sound(es)
    <3>1. es \subseteq Entries  BY <1>4, <2>3 DEF Sound
    <3>2. ASSUME NEW k \in es
          PROVE  /\ k.owners \cup k.pending # {}
                 /\ k.pending # {} <=> k.identity = None
                 /\ k.identity = None => k.owners = {}
      BY <1>4, <2>3 DEF Sound
    <3>3. ASSUME NEW k1 \in es, NEW k2 \in es, k1.path = k2.path
          PROVE  k1 = k2
      BY <1>4, <2>3, <2>4, <3>3 DEF Sound
    <3>4. ASSUME NEW k1 \in es, NEW k2 \in es,
                 Stands(k1) # None /\ Stands(k1) = Stands(k2)
          PROVE  k1 = k2
      BY <1>4, <2>3, <2>4, <3>4 DEF Sound
    <3> QED  BY <3>1, <3>2, <3>3, <3>4 DEF Sound
  <2>6. Offers(K, es, o, p, a)  BY <2>3 DEF Offers
  <2>7. entries' = es  BY <1>5 DEF a, n
  <2> HIDE DEF es
  <2> QED  BY <1>1, <1>3, <1>5, <2>5, <2>6, <2>7, OfferPreserves DEF IInv
<1>6. ASSUME NEW e \in matching, Valid(e),
             entries' = (K \ {e}) \cup {Added(e, o, query[o])},
             opening' = [opening EXCEPT ![o] = e.path]
      PROVE  IInv'
  <2> DEFINE a == Added(e, o, query[o])
             es == (K \ {e}) \cup {a}
  <2>1. /\ e \in K /\ e \in Entries
        /\ e.pending # {} <=> e.identity = None
        /\ e.identity = None => e.owners = {}
    BY <1>4 DEF Sound
  <2>2. /\ a \in Entries /\ a.path = e.path
        /\ a.owners \cup a.pending # {}
        /\ a.pending # {} <=> a.identity = None
        /\ a.identity = None => a.owners = {}
        /\ Refers(a, o, query[o]) /\ Stands(a) = Stands(e)
        /\ \A u, r : Refers(e, u, r) => Refers(a, u, r)
    BY <1>2, <2>1, AddedEntry
  <2>3. Stands(e) = disk[e.path] /\ e.path \in Paths
    BY <1>6, <2>1 DEF Valid, Identify, Stands, Entries
  <2> HIDE DEF a, K
  <2>4. Sound(es)
    <3>1. es \subseteq Entries  BY <1>4, <2>2 DEF Sound
    <3>2. ASSUME NEW k \in es
          PROVE  /\ k.owners \cup k.pending # {}
                 /\ k.pending # {} <=> k.identity = None
                 /\ k.identity = None => k.owners = {}
      BY <1>4, <2>2 DEF Sound
    <3>3. ASSUME NEW k1 \in es, NEW k2 \in es, k1.path = k2.path
          PROVE  k1 = k2
      BY <1>4, <2>1, <2>2, <3>3 DEF Sound
    <3>4. ASSUME NEW k1 \in es, NEW k2 \in es,
                 Stands(k1) # None /\ Stands(k1) = Stands(k2)
          PROVE  k1 = k2
      BY <1>4, <2>1, <2>2, <3>4 DEF Sound
    <3> QED  BY <3>1, <3>2, <3>3, <3>4 DEF Sound
  <2>5. Offers(K, es, o, e.path, a)
    <3>1. ASSUME NEW k \in K
          PROVE  \E x \in es :
                    /\ x.path = k.path /\ Stands(x) = Stands(k)
                    /\ \A u, r : Refers(k, u, r) => Refers(x, u, r)
      <4>1. CASE k = e  BY <4>1, <2>2
      <4>2. CASE k # e  BY <4>2
      <4> QED  BY <4>1, <4>2
    <3> QED  BY <2>2, <2>3, <3>1 DEF Offers
  <2>6. entries' = es  BY <1>6 DEF a
  <2> HIDE DEF es
  <2> QED  BY <1>1, <1>3, <1>6, <2>3, <2>4, <2>5, <2>6, OfferPreserves DEF IInv
<1>7. CASE entries' = K /\ UNCHANGED opening
  <2> HIDE DEF K
  <2> QED  BY <1>1, <1>3, <1>7, EntriesStep DEF IInv, Fields
<1>8. \/ /\ matching = {}
         /\ entries' = K \cup {Added(NewEntry(p), o, query[o])}
         /\ opening' = [opening EXCEPT ![o] = p]
      \/ \E e \in matching :
            /\ Valid(e)
            /\ entries' = (K \ {e}) \cup {Added(e, o, query[o])}
            /\ opening' = [opening EXCEPT ![o] = e.path]
      \/ entries' = K /\ UNCHANGED opening
  BY DEF Canonicalize
<1> QED  BY <1>5, <1>6, <1>7, <1>8

\* DuckDB's open of the path p yields the file f.
Yields(p, f) ==
    \/ f = disk[p] /\ UNCHANGED disk
    \/ /\ disk[p] = None /\ f \in Unnamed
       /\ disk' = [disk EXCEPT ![p] = f]

\* A file that is created is the one its entry waits for.
LEMMA Yielding ==
  ASSUME IInv, NEW p \in Paths, Unopened(p), NEW f, Yields(p, f),
         UNCHANGED entries
  PROVE  /\ disk' \in [Paths -> Files \cup {None}] /\ f \in Files \cup {None}
         /\ disk'[p] = f /\ \A r \in Paths : r # p => disk'[r] = disk[r]
         /\ \A e \in entries :
               Stands(e)' = IF e.path = p THEN f ELSE Stands(e)
         /\ \A e \in entries : Stands(e) # None => Stands(e)' = Stands(e)
         /\ Sound(entries)'
<1>1. /\ disk' \in [Paths -> Files \cup {None}] /\ f \in Files \cup {None}
      /\ disk'[p] = f /\ \A r \in Paths : r # p => disk'[r] = disk[r]
  BY DEF IInv, Fields, Yields, Unnamed
<1>2. \A e \in entries : e \in Entries /\ e.path \in Paths
  BY DEF IInv, Guarded, Sound, Entries
<1>3. \A e \in entries : e.path = p => Stands(e) = disk[p]
  BY DEF IInv, Guarded, Current
<1>4. ASSUME NEW e \in entries
      PROVE  Stands(e)' = IF e.path = p THEN f ELSE Stands(e)
  <2>1. CASE e.path # p  BY <2>1, <1>1, <1>2 DEF Stands
  <2>2. CASE e.path = p
    <3>1. CASE f = disk[p] /\ UNCHANGED disk
      BY <3>1, <2>2, <1>3 DEF Stands
    <3>2. CASE disk[p] = None
      <4>1. e.identity = None  BY <3>2, <2>2, <1>3 DEF Stands
      <4> QED  BY <4>1, <2>2, <1>1 DEF Stands
    <3> QED  BY <3>1, <3>2 DEF Yields
  <2> QED  BY <2>1, <2>2
<1>5. ASSUME NEW e \in entries, Stands(e) # None  PROVE Stands(e)' = Stands(e)
  <2>1. e.path = p => f = disk[p]  BY <1>3, <1>5 DEF Yields
  <2> QED  BY <2>1, <1>3, <1>4
<1>6. ASSUME NEW e1 \in entries, NEW e2 \in entries,
             Stands(e1)' # None, Stands(e1)' = Stands(e2)'
      PROVE  e1 = e2
  <2>1. Stands(e1) # None /\ Stands(e1) = Stands(e2) => e1 = e2
    BY DEF IInv, Guarded, Sound
  <2>2. e1.path = e2.path => e1 = e2  BY DEF IInv, Guarded, Sound
  <2>3. CASE f = disk[p] /\ UNCHANGED disk
    BY <2>1, <2>3, <1>6 DEF Stands
  <2>4. CASE f \in Unnamed
    <3>1. ASSUME NEW e \in entries  PROVE Stands(e) # f
      <4>1. e.identity # f /\ disk[e.path] # f  BY <2>4, <1>2 DEF Unnamed
      <4> QED  BY <4>1 DEF Stands
    <3>2. Stands(e1) # f /\ Stands(e2) # f  BY <3>1
    <3> QED  BY <3>2, <2>1, <2>2, <1>4, <1>6
  <2> QED  BY <2>3, <2>4 DEF Yields
<1>7. Sound(entries)'
  <2>1. Sound(entries)  BY DEF IInv, Guarded
  <2> QED  BY <1>6, <2>1 DEF Sound
<1> QED  BY <1>1, <1>4, <1>5, <1>7

\* Fewer databases to serve, and fewer paths about to be opened.
LEMMA LettingGo ==
  ASSUME Fields, NEW es, NEW H \in SUBSET held,
         Sound(es), Current(es), ServesThese(H, es),
         entries' = es, held' = H, UNCHANGED <<disk, queries>>,
         query' \in [Owners -> 0..MaxQueries \cup {None}],
         opening' \in [Owners -> Paths \cup {None}],
         \A o \in Owners : opening'[o] # None =>
            opening'[o] = opening[o] /\ query'[o] = query[o]
  PROVE  IInv'
<1>1. Fields'  BY DEF Fields
<1>2. \A e : Stands(e)' = Stands(e)  BY DEF Stands
<1>3. Sound(entries)'  BY <1>2 DEF Sound
<1>4. Serves(entries)'
  BY <1>2 DEF Serves, ServesThese, Refers
<1>5. Current(entries)'
  <2> SUFFICES ASSUME NEW e \in es, Unopened(e.path)'
               PROVE  Stands(e) = disk[e.path]
    BY <1>2 DEF Current
  <2>1. e.path # None  BY DEF Sound, Entries
  <2>2. Unopened(e.path)  BY <2>1 DEF Unopened
  <2> QED  BY <2>2 DEF Current
<1> QED  BY <1>1, <1>3, <1>4, <1>5 DEF IInv, Guarded

LEMMA DetachPreserves ==
  ASSUME IInv, NEW h \in held, Detach(h)
  PROVE  IInv'
<1>1. held' = held \ {h} /\ UNCHANGED <<disk, entries, query, opening, queries>>
  BY DEF Detach
<1>2. ServesThese(held', entries)
  BY <1>1 DEF IInv, Guarded, Serves, ServesThese
<1> QED  BY <1>1, <1>2, LettingGo DEF IInv, Guarded, Fields

LEMMA OpenPreserves ==
  ASSUME IInv, NEW o \in Owners, Open(o)
  PROVE  IInv'
<1> DEFINE p == opening[o]
           N(f) == [owner |-> o, path |-> p, file |-> f, query |-> query[o]]
<1>1. /\ p # None /\ p \in Paths /\ query[o] \in 0..MaxQueries
      /\ opening' = [opening EXCEPT ![o] = None]
      /\ UNCHANGED <<entries, query, queries>>
  BY DEF Open, IInv, Fields
<1>2. /\ opening' \in [Owners -> Paths \cup {None}]
      /\ \A u \in Owners : opening'[u] # None => opening'[u] = opening[u]
  BY <1>1 DEF IInv, Fields
<1>3. Unopened(p)  BY DEF Unopened
<1>4. CASE UNCHANGED <<held, disk>>
  <2>1. ServesThese(held, entries)  BY DEF IInv, Guarded, Serves
  <2> QED  BY <1>1, <1>2, <1>4, <2>1, LettingGo DEF IInv, Guarded, Fields
<1>5. ASSUME NEW f, Yields(p, f), held' = held \cup {N(f)}
      PROVE  IInv'
  <2>1. /\ disk' \in [Paths -> Files \cup {None}] /\ f \in Files \cup {None}
        /\ disk'[p] = f /\ \A r \in Paths : r # p => disk'[r] = disk[r]
        /\ \A e \in entries :
              Stands(e)' = IF e.path = p THEN f ELSE Stands(e)
        /\ \A e \in entries : Stands(e) # None => Stands(e)' = Stands(e)
        /\ Sound(entries)'
    BY <1>1, <1>3, <1>5, Yielding
  <2>2. N(f) \in Attachments  BY <1>1, <2>1 DEF Attachments
  <2>3. Fields'  BY <1>1, <1>2, <1>5, <2>1, <2>2 DEF IInv, Fields
  <2>4. \A e, u, q : Refers(e, u, q)' = Refers(e, u, q)  BY DEF Refers
  <2>5. ASSUME NEW h \in held'
        PROVE  \E e \in entries :
                  /\ e.path = h.path /\ Refers(e, h.owner, h.query)
                  /\ h.file # None => Stands(e)' = h.file
    <3>1. CASE h \in held
      <4>1. PICK e \in entries :
               /\ e.path = h.path /\ Refers(e, h.owner, h.query)
               /\ h.file # None => Stands(e) = h.file
        BY <3>1 DEF IInv, Guarded, Serves, ServesThese
      <4>2. h.file # None => Stands(e)' = h.file  BY <4>1, <2>1
      <4> QED  BY <4>1, <4>2
    <3>2. CASE h = N(f)
      <4>1. PICK e \in entries : e.path = p /\ Refers(e, o, query[o])
        BY <1>1 DEF IInv, Guarded, Serves, ServesThese
      <4>2. Stands(e)' = f  BY <4>1, <2>1
      <4>3. h.path = p /\ h.owner = o /\ h.query = query[o] /\ h.file = f
        BY <3>2
      <4> QED  BY <4>1, <4>2, <4>3
    <3> QED  BY <1>5, <3>1, <3>2
  <2>6. ASSUME NEW u \in Owners, opening'[u] # None
        PROVE  \E e \in entries : e.path = opening'[u] /\ Refers(e, u, query'[u])
    <3>1. opening'[u] = opening[u] /\ opening[u] # None /\ query'[u] = query[u]
      BY <1>1, <1>2, <2>6
    <3> QED  BY <3>1 DEF IInv, Guarded, Serves, ServesThese
  <2>7. Serves(entries)'
    BY <1>1, <2>4, <2>5, <2>6 DEF Serves, ServesThese
  <2>8. Current(entries)'
    <3> SUFFICES ASSUME NEW e \in entries, Unopened(e.path)'
                 PROVE  Stands(e)' = disk'[e.path]
      BY <1>1 DEF Current
    <3>1. CASE e.path = p  BY <3>1, <2>1
    <3>2. CASE e.path # p
      <4>1. e.path \in Paths /\ e.path # None
        BY DEF IInv, Guarded, Sound, Entries
      <4>2. N(f).path = p  OBVIOUS
      <4>3. Unopened(e.path)  BY <3>2, <4>1, <4>2, <1>2, <1>5 DEF Unopened
      <4> QED  BY <3>2, <4>1, <4>3, <2>1 DEF IInv, Guarded, Current
    <3> QED  BY <3>1, <3>2
  <2> QED  BY <2>1, <2>3, <2>7, <2>8 DEF IInv, Guarded
<1>6. \/ \E f : Yields(p, f) /\ held' = held \cup {N(f)}
      \/ UNCHANGED <<held, disk>>
  BY DEF Open, Yields
<1> QED  BY <1>4, <1>5, <1>6

LEMMA CreateLaterPreserves ==
  ASSUME IInv, NEW h \in held, CreateLater(h)
  PROVE  IInv'
<1> DEFINE p == h.path
           N(f) == [h EXCEPT !.file = f]
<1>1. /\ h.file = None /\ UNCHANGED <<entries, query, opening, queries>>
      /\ h \in Attachments /\ p \in Paths
  BY DEF CreateLater, IInv, Fields, Attachments
<1>2. Unopened(p)  BY <1>1 DEF Unopened
<1>3. \E f : /\ Yields(p, f)
             /\ held' = (held \ {h}) \cup {N(f)}
  BY DEF CreateLater, Yields
<1>4. PICK f : Yields(p, f) /\ held' = (held \ {h}) \cup {N(f)}
  BY <1>3
<1>5. /\ disk' \in [Paths -> Files \cup {None}] /\ f \in Files \cup {None}
      /\ disk'[p] = f /\ \A r \in Paths : r # p => disk'[r] = disk[r]
      /\ \A e \in entries :
            Stands(e)' = IF e.path = p THEN f ELSE Stands(e)
      /\ \A e \in entries : Stands(e) # None => Stands(e)' = Stands(e)
      /\ Sound(entries)'
  BY <1>1, <1>2, <1>4, Yielding
<1> DEFINE n == N(f)
<1>6. /\ n \in Attachments /\ n.path = p /\ n.owner = h.owner
      /\ n.query = h.query /\ n.file = f
  BY <1>1, <1>5 DEF Attachments
<1>7. held' = (held \ {h}) \cup {n}  BY <1>4
<1> HIDE DEF n, N
<1>8. Fields'  BY <1>1, <1>5, <1>6, <1>7 DEF IInv, Fields
<1>9. \A e, u, q : Refers(e, u, q)' = Refers(e, u, q)  BY DEF Refers
<1>10. ASSUME NEW g \in held'
       PROVE  \E e \in entries :
                 /\ e.path = g.path /\ Refers(e, g.owner, g.query)
                 /\ g.file # None => Stands(e)' = g.file
  <2>1. CASE g \in held
    <3>1. PICK e \in entries :
             /\ e.path = g.path /\ Refers(e, g.owner, g.query)
             /\ g.file # None => Stands(e) = g.file
      BY <2>1 DEF IInv, Guarded, Serves, ServesThese
    <3>2. g.file # None => Stands(e)' = g.file  BY <3>1, <1>5
    <3> QED  BY <3>1, <3>2
  <2>2. CASE g = n
    <3>1. PICK e \in entries : e.path = p /\ Refers(e, h.owner, h.query)
      BY DEF IInv, Guarded, Serves, ServesThese
    <3>2. Stands(e)' = f  BY <3>1, <1>5
    <3> QED  BY <3>1, <3>2, <2>2, <1>6
  <2> QED  BY <1>7, <2>1, <2>2
<1>11. Serves(entries)'
  <2>1. \A u \in Owners : opening[u] # None =>
           \E e \in entries : e.path = opening[u] /\ Refers(e, u, query[u])
    BY DEF IInv, Guarded, Serves, ServesThese
  <2> QED  BY <1>1, <1>9, <1>10, <2>1 DEF Serves, ServesThese
<1>12. Current(entries)'
  <2> SUFFICES ASSUME NEW e \in entries, Unopened(e.path)'
               PROVE  Stands(e)' = disk'[e.path]
    BY <1>1 DEF Current
  <2>1. CASE e.path = p  BY <2>1, <1>5
  <2>2. CASE e.path # p
    <3>1. Unopened(e.path)  BY <2>2, <1>1, <1>6, <1>7 DEF Unopened
    <3>2. e.path \in Paths  BY DEF IInv, Guarded, Sound, Entries
    <3> QED  BY <2>2, <3>1, <3>2, <1>5 DEF IInv, Guarded, Current
  <2> QED  BY <2>1, <2>2
<1> QED  BY <1>5, <1>8, <1>11, <1>12 DEF IInv, Guarded

LEMMA QueryEndPreserves ==
  ASSUME IInv, NEW o \in Owners, NEW failed \in BOOLEAN, QueryEnd(o, failed)
  PROVE  IInv'
<1> DEFINE ref == [owner |-> o, query |-> query[o]]
           awaited == {e \in entries : ref \in e.pending}
<1>1. /\ query[o] # None /\ opening[o] = None
      /\ query' = [query EXCEPT ![o] = None]
      /\ UNCHANGED <<disk, opening, queries>>
      /\ held' = IF failed
                 THEN {h \in held : ~(h.owner = o /\ h.query = query[o])}
                 ELSE held
  BY DEF QueryEnd
<1>2. PICK examined \in SUBSET awaited :
         entries' = Used({IF e \in examined THEN Completed(e, o, failed) ELSE e :
                             e \in entries})
  BY DEF QueryEnd
<1> DEFINE G == [e \in entries |->
                   IF e \in examined THEN Completed(e, o, failed) ELSE e]
<1>3. entries' = Used({G[e] : e \in entries})  BY <1>2
<1>4. ASSUME NEW e \in entries
      PROVE  /\ G[e] \in Entries /\ G[e].path = e.path /\ Stands(G[e]) = Stands(e)
             /\ G[e].pending # {} => G[e].identity = None
             /\ G[e].identity = None => G[e].owners = {}
             /\ \A u, q : Refers(e, u, q) /\ ~(failed /\ u = o /\ q = query[o]) =>
                   Refers(G[e], u, q)
  <2>1. /\ e \in Entries
        /\ e.pending # {} <=> e.identity = None
        /\ e.identity = None => e.owners = {}
    BY DEF IInv, Guarded, Sound
  <2>2. CASE e \in examined /\ Identify(e.path) # None
    <3> DEFINE c == Captured(e, Identify(e.path))
    <3>1. G[e] = c  BY <2>2 DEF Completed
    <3>2. Capturable(e)  BY <2>1, <2>2 DEF Capturable
    <3>3. /\ c \in Entries /\ c.path = e.path /\ c.identity # None
          /\ c.pending = {} /\ Stands(c) = Stands(e)
          /\ \A u, q : Refers(e, u, q) => Refers(c, u, q)
      BY <2>1, <3>2, CapturedEntry DEF IInv
    <3> HIDE DEF c, G
    <3> QED  BY <3>1, <3>3
  <2>3. CASE e \in examined /\ Identify(e.path) = None /\ failed
    <3> DEFINE c == [e EXCEPT !.pending = @ \ {ref}]
    <3>1. G[e] = c  BY <2>3 DEF Completed, GivenUp
    <3> HIDE DEF G, ref
    <3>2. /\ c \in Entries /\ c.path = e.path /\ c.identity = e.identity
          /\ c.owners = e.owners /\ c.pending = e.pending \ {ref}
      BY <2>1 DEF Entries
    <3> HIDE DEF c
    <3>3. e.identity = None  BY <2>1, <2>3
    <3>4. Stands(c) = Stands(e)  BY <3>2 DEF Stands
    <3>5. ASSUME NEW u, NEW q, Refers(e, u, q), ~(u = o /\ q = query[o])
          PROVE  Refers(c, u, q)
      <4>1. [owner |-> u, query |-> q] # ref
        <5>1. ref.owner = o /\ ref.query = query[o]  BY DEF ref
        <5>2. [owner |-> u, query |-> q].owner = u  OBVIOUS
        <5>3. [owner |-> u, query |-> q].query = q  OBVIOUS
        <5> QED  BY <5>1, <5>2, <5>3, <3>5
      <4> QED  BY <4>1, <3>2, <3>5 DEF Refers
    <3> QED  BY <3>1, <3>2, <3>3, <3>4, <3>5, <2>1, <2>3
  <2>4. CASE \/ e \notin examined
             \/ Identify(e.path) = None /\ ~failed
    <3>1. G[e] = e  BY <2>4 DEF Completed, GivenUp
    <3> HIDE DEF G
    <3> QED  BY <2>1, <3>1
  <2> QED  BY <2>2, <2>3, <2>4
<1>5. G \in [entries -> Entries]  BY <1>4
<1> HIDE DEF G
<1>6. Replaces(entries', G)
  <2>1. entries' \subseteq {G[e] : e \in entries}  BY <1>3 DEF Used
  <2>2. ASSUME NEW e \in entries
        PROVE  G[e].owners \cup G[e].pending # {} <=> G[e] \in entries'
    BY <1>3 DEF Used
  <2> QED  BY <1>4, <1>5, <2>1, <2>2 DEF Replaces
<1>7. held' \in SUBSET held  BY <1>1
<1>8. Retains(held', G)
  <2>1. ASSUME NEW h \in held', NEW e \in entries, Refers(e, h.owner, h.query)
        PROVE  Refers(G[e], h.owner, h.query)
    <3>1. ~(failed /\ h.owner = o /\ h.query = query[o])  BY <1>1
    <3> QED  BY <1>4, <2>1, <3>1
  <2>2. ASSUME NEW u \in Owners, NEW e \in entries, opening[u] # None,
               Refers(e, u, query[u])
        PROVE  Refers(G[e], u, query[u])
    <3>1. u # o  BY <1>1, <2>2
    <3> QED  BY <1>4, <2>2, <3>1
  <2> QED  BY <2>1, <2>2 DEF Retains
<1>9. Sound(entries') /\ Current(entries') /\ ServesThese(held', entries')
  BY <1>6, <1>7, <1>8, Replaced DEF IInv
<1>10. /\ query' \in [Owners -> 0..MaxQueries \cup {None}]
       /\ opening' \in [Owners -> Paths \cup {None}]
       /\ \A u \in Owners : opening'[u] # None =>
             opening'[u] = opening[u] /\ query'[u] = query[u]
  BY <1>1 DEF IInv, Fields
<1> QED  BY <1>1, <1>7, <1>9, <1>10, LettingGo DEF IInv

LEMMA ClosePreserves ==
  ASSUME IInv, NEW o \in Owners, Close(o)
  PROVE  IInv'
<1> DEFINE G == [e \in entries |-> [e EXCEPT !.owners = @ \ {o},
                                             !.pending = @ \ References(e, o)]]
<1>1. /\ opening[o] = None /\ query' = [query EXCEPT ![o] = None]
      /\ held' = {h \in held : h.owner # o}
      /\ UNCHANGED <<disk, opening, queries>>
  BY DEF Close
<1>2. entries' = Used({G[e] : e \in entries})  BY DEF Close
<1>3. ASSUME NEW e \in entries
      PROVE  /\ G[e] \in Entries /\ G[e].path = e.path /\ Stands(G[e]) = Stands(e)
             /\ G[e].pending # {} => G[e].identity = None
             /\ G[e].identity = None => G[e].owners = {}
             /\ \A u, q : Refers(e, u, q) /\ u # o => Refers(G[e], u, q)
  <2>1. /\ e \in Entries
        /\ e.pending # {} => e.identity = None
        /\ e.identity = None => e.owners = {}
    BY DEF IInv, Guarded, Sound
  <2> DEFINE gone == References(e, o)
             c == [e EXCEPT !.owners = @ \ {o}, !.pending = @ \ gone]
  <2>2. G[e] = c  OBVIOUS
  <2>3. \A r \in gone : r.owner = o  BY DEF References
  <2> HIDE DEF gone, G
  <2>4. /\ c \in Entries /\ c.path = e.path /\ c.identity = e.identity
        /\ c.owners = e.owners \ {o} /\ c.pending = e.pending \ gone
    BY <2>1 DEF Entries
  <2> HIDE DEF c
  <2>5. Stands(c) = Stands(e)  BY <2>4 DEF Stands
  <2>6. ASSUME NEW u, NEW q, Refers(e, u, q), u # o  PROVE Refers(c, u, q)
    <3>1. [owner |-> u, query |-> q].owner # o  BY <2>6
    <3>2. [owner |-> u, query |-> q] \notin gone  BY <2>3, <3>1
    <3> QED  BY <3>2, <2>4, <2>6 DEF Refers
  <2> QED  BY <2>1, <2>2, <2>4, <2>5, <2>6
<1>4. G \in [entries -> Entries]  BY <1>3
<1> HIDE DEF G
<1>5. Replaces(entries', G)
  <2>1. entries' \subseteq {G[e] : e \in entries}  BY <1>2 DEF Used
  <2>2. ASSUME NEW e \in entries
        PROVE  G[e].owners \cup G[e].pending # {} <=> G[e] \in entries'
    BY <1>2 DEF Used
  <2> QED  BY <1>3, <1>4, <2>1, <2>2 DEF Replaces
<1>6. held' \in SUBSET held  BY <1>1
<1>7. Retains(held', G)
  <2>1. ASSUME NEW h \in held', NEW e \in entries, Refers(e, h.owner, h.query)
        PROVE  Refers(G[e], h.owner, h.query)
    BY <1>1, <1>3, <2>1
  <2>2. ASSUME NEW u \in Owners, NEW e \in entries, opening[u] # None,
               Refers(e, u, query[u])
        PROVE  Refers(G[e], u, query[u])
    BY <1>1, <1>3, <2>2
  <2> QED  BY <2>1, <2>2 DEF Retains
<1>8. Sound(entries') /\ Current(entries') /\ ServesThese(held', entries')
  BY <1>5, <1>6, <1>7, Replaced DEF IInv
<1>9. /\ query' \in [Owners -> 0..MaxQueries \cup {None}]
      /\ opening' \in [Owners -> Paths \cup {None}]
      /\ \A u \in Owners : opening'[u] # None =>
            opening'[u] = opening[u] /\ query'[u] = query[u]
  BY <1>1 DEF IInv, Fields
<1> QED  BY <1>1, <1>6, <1>8, <1>9, LettingGo DEF IInv

LEMMA OtherProcessPreserves ==
  ASSUME IInv, NEW p \in Paths, NEW f \in Files \cup {None}, OtherProcess(p, f)
  PROVE  IInv'
<1>1. /\ Settled(p) /\ disk' = [disk EXCEPT ![p] = f]
      /\ UNCHANGED <<entries, query, opening, held, queries>>
  BY DEF OtherProcess
<1>2. Fields'  BY <1>1 DEF IInv, Fields
<1>3. ASSUME NEW e \in entries  PROVE Stands(e)' = Stands(e)
  <2>1. /\ e.path \in Paths
        /\ e.path = p => e.identity # None
    BY <1>1 DEF IInv, Guarded, Sound, Entries, Settled
  <2> QED  BY <2>1, <1>1 DEF Stands, IInv, Fields
<1>4. Sound(entries)'  BY <1>1, <1>3 DEF IInv, Guarded, Sound
<1>5. Serves(entries)'
  <2>1. \A h \in held : \E e \in entries :
           /\ e.path = h.path /\ Refers(e, h.owner, h.query)
           /\ h.file # None => Stands(e)' = h.file
    BY <1>3 DEF IInv, Guarded, Serves, ServesThese
  <2>2. \A o \in Owners : opening[o] # None =>
           \E e \in entries : e.path = opening[o] /\ Refers(e, o, query[o])
    BY DEF IInv, Guarded, Serves, ServesThese
  <2>3. \A e, o, q : Refers(e, o, q)' = Refers(e, o, q)  BY DEF Refers
  <2> QED  BY <1>1, <2>1, <2>2, <2>3 DEF Serves, ServesThese
<1>6. Current(entries)'
  <2> SUFFICES ASSUME NEW e \in entries, Unopened(e.path)'
               PROVE  Stands(e)' = disk'[e.path]
    BY <1>1 DEF Current
  <2>1. Unopened(e.path)  BY <1>1 DEF Unopened
  <2>2. e.path # p  BY <2>1, <1>1 DEF Unopened, Settled
  <2>3. e.path \in Paths  BY DEF IInv, Guarded, Sound, Entries
  <2>4. disk'[e.path] = disk[e.path]  BY <2>2, <2>3, <1>1 DEF IInv, Fields
  <2> QED  BY <2>1, <2>4, <1>3 DEF IInv, Guarded, Current
<1> QED  BY <1>2, <1>4, <1>5, <1>6 DEF IInv, Guarded

-----------------------------------------------------------------------------
(* The theorems.                                                            *)

LEMMA Initially == Init => IInv
<1> SUFFICES ASSUME Init PROVE IInv  OBVIOUS
<1>1. Fields  BY DEF Init, Fields
<1>2. Sound(entries) /\ Serves(entries) /\ Current(entries)
  BY DEF Init, Sound, Serves, ServesThese, Current
<1> QED  BY <1>1, <1>2 DEF IInv, Guarded

LEMMA Preserved == IInv /\ [Next]_vars => IInv'
<1> SUFFICES ASSUME IInv, [Next]_vars PROVE IInv'  OBVIOUS
<1>1. CASE UNCHANGED vars
  <2> QED
    BY <1>1 DEF vars, IInv, Fields, Guarded, Sound, Serves, ServesThese, Current,
       Unopened, Stands, Refers
<1>2. CASE \E o \in Owners : Begin(o)  BY <1>2, BeginPreserves
<1>3. CASE \E o \in Owners : CanonicalizeFails(o)
  BY <1>3, CanonicalizeFailsPreserves
<1>4. CASE \E o \in Owners : Open(o)  BY <1>4, OpenPreserves
<1>5. CASE \E o \in Owners : Refresh(o)  BY <1>5, RefreshPreserves
<1>6. CASE \E o \in Owners : Close(o)  BY <1>6, ClosePreserves
<1>7. CASE \E o \in Owners, p \in Paths : Canonicalize(o, p)
  BY <1>7, CanonicalizePreserves
<1>8. CASE \E o \in Owners, failed \in BOOLEAN : QueryEnd(o, failed)
  BY <1>8, QueryEndPreserves
<1>9. CASE \E h \in held : CreateLater(h)  BY <1>9, CreateLaterPreserves
<1>10. CASE \E h \in held : Detach(h)  BY <1>10, DetachPreserves
<1>11. CASE \E p \in Paths : \E f \in Unnamed \cup {None} \cup {disk[r] : r \in Paths} :
               OtherProcess(p, f)
  <2>1. Unnamed \cup {None} \cup {disk[r] : r \in Paths} \subseteq Files \cup {None}
    BY DEF Unnamed, IInv, Fields
  <2> QED  BY <1>11, <2>1, OtherProcessPreserves
<1> QED
  BY <1>1, <1>2, <1>3, <1>4, <1>5, <1>6, <1>7, <1>8, <1>9, <1>10, <1>11 DEF Next

\* The registry is coherent, and every path DuckDB has or is about to get from
\* it has its entry.
THEOREM Invariance == Spec => []IInv
<1> QED  BY Initially, Preserved, PTL DEF Spec

\* The registry's own rules: one entry for a path, never without an owner or a
\* query that waits, and waiting exactly while its file is unknown
\* (pdo_duckdb_bridge_filesystem.cpp, struct Entry).
THEOREM TypeCorrect == Spec => []TypeOK
<1>1. IInv => TypeOK
  BY DEF IInv, Fields, Guarded, Sound, Entries, Attachments, TypeOK
<1> QED  BY <1>1, Invariance, PTL

\* DuckDB, which tells databases apart by path, never has one file open as two
\* databases, whatever links other processes make and remove.
THEOREM FilesHaveOnePath == Spec => []OneNamePerFile
<1>1. IInv => OneNamePerFile
  <2> SUFFICES ASSUME IInv, NEW h1 \in held, NEW h2 \in held,
                      h1.file # None, h2.file # None
               PROVE  h1.file = h2.file <=> h1.path = h2.path
    BY DEF OneNamePerFile
  <2>1. PICK e1 \in entries : e1.path = h1.path /\ Stands(e1) = h1.file
    BY DEF IInv, Guarded, Serves, ServesThese
  <2>2. PICK e2 \in entries : e2.path = h2.path /\ Stands(e2) = h2.file
    BY DEF IInv, Guarded, Serves, ServesThese
  <2> QED  BY <2>1, <2>2 DEF IInv, Guarded, Sound
<1> QED  BY <1>1, Invariance, PTL

\* The guard does not forget a database before its instance lets go of it: not
\* when the query that attached it ends, nor when another query fails.
THEOREM AttachedStaysKnown == Spec => []AttachedIsKnown
<1>1. IInv => AttachedIsKnown
  <2> SUFFICES ASSUME IInv, NEW h \in held
               PROVE  \E e \in entries :
                         /\ e.path = h.path
                         /\ \/ h.owner \in e.owners /\ h.file \in {None, e.identity}
                            \/ References(e, h.owner) # {}
    BY DEF AttachedIsKnown
  <2>1. PICK e \in entries :
           /\ e.path = h.path /\ Refers(e, h.owner, h.query)
           /\ h.file # None => Stands(e) = h.file
    BY DEF IInv, Guarded, Serves, ServesThese
  <2>2. CASE h.owner \in e.owners
    <3>1. e.identity # None  BY <2>2 DEF IInv, Guarded, Sound
    <3>2. h.file \in {None, e.identity}  BY <3>1, <2>1 DEF Stands
    <3> QED  BY <2>1, <2>2, <3>2
  <2>3. CASE [owner |-> h.owner, query |-> h.query] \in e.pending
    <3>1. [owner |-> h.owner, query |-> h.query] \in References(e, h.owner)
      BY <2>3 DEF References
    <3> QED  BY <2>1, <3>1
  <2> QED  BY <2>1, <2>2, <2>3 DEF Refers
<1> QED  BY <1>1, Invariance, PTL

=============================================================================
