------------------------- MODULE FilesystemIdentity -------------------------
(***************************************************************************)
(* The filesystem identity guard (pdo_duckdb_bridge_filesystem.cpp).  It   *)
(* gives DuckDB one path for every database file the process has open,     *)
(* whatever link the file is opened by, since DuckDB tells databases apart *)
(* by path.  The file behind a path that does not exist yet is learnt when *)
(* the query that creates it has ended, or at the next look.  The guard's  *)
(* mutex makes each of its operations one step.                            *)
(*                                                                         *)
(* Other processes link, unlink and replace names, except that of a file   *)
(* that is being opened or created: no check in this process can tell a    *)
(* file that is exchanged between the check and DuckDB's open.             *)
(***************************************************************************)
EXTENDS FiniteSets, Naturals

CONSTANTS
    Owners,       \* DuckDB instances of the process; one query each at a time
    Paths,
    Files,        \* (device, inode) pairs
    MaxQueries,   \* bound on queries
    MaxChanges,   \* bound on changes by other processes
    None

ASSUME NoneAssumption == None \notin Paths \cup Files \cup 0..MaxQueries
ASSUME BoundsAssumption == MaxQueries \in Nat /\ MaxChanges \in Nat

VARIABLES
    disk,         \* the file each path names, or None
    entries,      \* Registry::entries
    query,        \* the active query of each owner, or None; 0 opens the instance
    opening,      \* the path an owner is about to open, or None
    held,         \* what DuckDB has attached: owner, path, query, and file if opened
    queries, changes

vars == <<disk, entries, query, opening, held, queries, changes>>

Reference == [owner : Owners, query : 0..MaxQueries]

TypeOK ==
    /\ disk \in [Paths -> Files \cup {None}]
    /\ \A e \in entries :
          /\ e.path \in Paths /\ e.identity \in Files \cup {None}
          /\ e.owners \subseteq Owners /\ e.pending \subseteq Reference
          /\ e.owners \cup e.pending # {}
          /\ e.pending # {} <=> e.identity = None
    /\ \A e1, e2 \in entries : e1.path = e2.path => e1 = e2
    /\ query \in [Owners -> 0..MaxQueries \cup {None}]
    /\ opening \in [Owners -> Paths \cup {None}]
    /\ \A h \in held : h.owner \in Owners /\ h.path \in Paths

Init ==
    /\ disk = [p \in Paths |-> None] /\ entries = {}
    /\ query = [o \in Owners |-> None] /\ opening = [o \in Owners |-> None]
    /\ held = {} /\ queries = 0 /\ changes = 0

-----------------------------------------------------------------------------
(* Entries.                                                                 *)

\* The regular file a path names; nothing else is a database.
Identify(p) == disk[p]

NewEntry(p) ==
    [path |-> p, identity |-> Identify(p), owners |-> {}, pending |-> {}]

References(e, o) == {r \in e.pending : r.owner = o}

\* Capture: those who waited for the file own it.
Captured(e, f) ==
    [e EXCEPT !.identity = f, !.pending = {},
              !.owners = @ \cup {r.owner : r \in e.pending}]

Capturable(e) == e.identity = None /\ Identify(e.path) # None

CaptureAll(chosen) ==
    {IF e \in chosen THEN Captured(e, Identify(e.path)) ELSE e : e \in entries}

Added(e, o, q) ==
    IF e.identity # None THEN [e EXCEPT !.owners = @ \cup {o}]
    ELSE [e EXCEPT !.pending = @ \cup {[owner |-> o, query |-> q]}]

\* Mutant: an entry nobody refers to is kept.
Used_All(es) == es
Used(es) == {e \in es : e.owners # {} \/ e.pending # {}}

\* Mutant: entries are looked up by path alone.
Matches_Path(e, p) == e.path = p
\* The path is known, or the file it names is.
Matches(e, p) ==
    e.path = p \/ (Identify(p) # None /\ e.identity = Identify(p))

Valid(e) == e.identity = None \/ Identify(e.path) = e.identity

-----------------------------------------------------------------------------
(* An owner and its queries.                                                *)

\* QueryBegin, or the opening of an instance, which is no query.
Begin(o) ==
    /\ query[o] = None /\ queries < MaxQueries
    /\ \/ queries' = queries + 1 /\ query' = [query EXCEPT ![o] = queries + 1]
       \/ /\ ~\E h \in held : h.owner = o
          /\ query' = [query EXCEPT ![o] = 0] /\ UNCHANGED queries
    /\ UNCHANGED <<disk, entries, opening, held, changes>>

\* DuckDB asks for the canonical path of a database: the files awaited are
\* captured, and the entry of the path or of its file answers, if its own path
\* still names its file.
Canonicalize(o, p) ==
    LET known == CaptureAll({e \in entries : Capturable(e)})
        matching == {e \in known : Matches(e, p)}
    IN /\ query[o] # None /\ opening[o] = None
       /\ \/ /\ matching = {}
             /\ entries' = known \cup {Added(NewEntry(p), o, query[o])}
             /\ opening' = [opening EXCEPT ![o] = p]
          \/ \E e \in matching :
                /\ Valid(e)
                /\ entries' = (known \ {e}) \cup {Added(e, o, query[o])}
                /\ opening' = [opening EXCEPT ![o] = e.path]
          \/ \E e \in matching :
                ~Valid(e) /\ entries' = known /\ UNCHANGED opening
       /\ UNCHANGED <<disk, query, held, queries, changes>>

\* The file of some path cannot be examined, before or after others have been.
CanonicalizeFails(o) ==
    /\ query[o] # None /\ opening[o] = None
    /\ \E some \in SUBSET {e \in entries : Capturable(e)} :
          some # {} /\ entries' = CaptureAll(some)
    /\ UNCHANGED <<disk, query, opening, held, queries, changes>>

\* A new file has the number of no file that exists or that an entry remembers:
\* its owner has it open, or its removal is outside the contract (README.md:119).
Unnamed == {f \in Files : /\ \A p \in Paths : disk[p] # f
                          /\ \A h \in held : h.file # f
                          /\ \A e \in entries : e.identity # f}

Has(o, p) == \E h \in held : h.owner = o /\ h.path = p

\* DuckDB opens the path it was given, unless the instance has it attached.  A
\* file that does not exist is created now or later; or the open fails.
Open(o) ==
    LET p == opening[o]
        Attached(f) == held \cup {[owner |-> o, path |-> p, file |-> f,
                                   query |-> query[o]]}
    IN /\ p # None
       /\ opening' = [opening EXCEPT ![o] = None]
       /\ \/ ~Has(o, p) /\ held' = Attached(disk[p]) /\ UNCHANGED disk
          \/ /\ ~Has(o, p) /\ disk[p] = None
             /\ \E f \in Unnamed : held' = Attached(f) /\ disk' = [disk EXCEPT ![p] = f]
          \/ UNCHANGED <<held, disk>>
       /\ UNCHANGED <<entries, query, queries, changes>>

\* A database attached without its file creates it when it first writes.
CreateLater(h) ==
    /\ h.file = None
    /\ \/ /\ disk[h.path] # None
          /\ held' = (held \ {h}) \cup {[h EXCEPT !.file = disk[h.path]]}
          /\ UNCHANGED disk
       \/ /\ disk[h.path] = None
          /\ \E f \in Unnamed :
                /\ held' = (held \ {h}) \cup {[h EXCEPT !.file = f]}
                /\ disk' = [disk EXCEPT ![h.path] = f]
    /\ UNCHANGED <<entries, query, opening, queries, changes>>

\* Mutant: a path without a file is given up whether or not the query failed.
GivenUp_AlsoOnSuccess(failed) == TRUE
GivenUp(failed) == failed

\* Complete, for an entry the query waits on whose path can be examined.
Completed(e, o, failed) ==
    IF Identify(e.path) # None THEN Captured(e, Identify(e.path))
    ELSE IF GivenUp(failed)
         THEN [e EXCEPT !.pending = @ \ {[owner |-> o, query |-> query[o]]}]
         ELSE e

\* The query ends.  What a failed one attached is detached again.
QueryEnd(o, failed) ==
    LET awaited == {e \in entries : [owner |-> o, query |-> query[o]] \in e.pending}
    IN /\ query[o] \notin {None, 0} /\ opening[o] = None
       /\ \E examined \in SUBSET awaited :
             entries' = Used({IF e \in examined THEN Completed(e, o, failed) ELSE e :
                                 e \in entries})
       /\ held' = IF failed
                  THEN {h \in held : ~(h.owner = o /\ h.query = query[o])}
                  ELSE held
       /\ query' = [query EXCEPT ![o] = None]
       /\ UNCHANGED <<disk, opening, queries, changes>>

\* The instance is open: the driver has its files captured.
Refresh(o) ==
    /\ query[o] = 0 /\ opening[o] = None
    /\ entries' = CaptureAll({e \in entries : Capturable(e) /\ References(e, o) # {}})
    /\ query' = [query EXCEPT ![o] = None]
    /\ UNCHANGED <<disk, opening, held, queries, changes>>

\* Remove: the instance is destroyed, or its open failed.
Close(o) ==
    /\ query[o] \in {None, 0} /\ opening[o] = None
    /\ entries' = Used({[e EXCEPT !.owners = @ \ {o},
                                  !.pending = @ \ References(e, o)] : e \in entries})
    /\ held' = {h \in held : h.owner # o}
    /\ query' = [query EXCEPT ![o] = None]
    /\ UNCHANGED <<disk, opening, queries, changes>>

\* DETACH keeps the reference, and the entry with it.
Detach(h) ==
    /\ query[h.owner] = None /\ held' = held \ {h}
    /\ UNCHANGED <<disk, entries, query, opening, queries, changes>>

\* A name nobody is opening or waiting for, and nobody has yet to create.
Settled(p) ==
    /\ \A e \in entries : e.path = p => e.pending = {}
    /\ \A o \in Owners : opening[o] # p
    /\ \A h \in held : h.path = p => h.file # None

\* Another process creates, links, replaces or unlinks a name.
OtherProcess(p, f) ==
    /\ Settled(p) /\ disk[p] # f /\ changes < MaxChanges
    /\ disk' = [disk EXCEPT ![p] = f] /\ changes' = changes + 1
    /\ UNCHANGED <<entries, query, opening, held, queries>>

Next ==
    \/ \E o \in Owners :
          \/ Begin(o) \/ CanonicalizeFails(o) \/ Open(o) \/ Refresh(o) \/ Close(o)
          \/ \E p \in Paths : Canonicalize(o, p)
          \/ \E failed \in BOOLEAN : QueryEnd(o, failed)
    \/ \E h \in held : CreateLater(h) \/ Detach(h)
    \/ \E p \in Paths :
          \E f \in Unnamed \cup {None} \cup {disk[r] : r \in Paths} :
             OtherProcess(p, f)

Spec == Init /\ [][Next]_vars

-----------------------------------------------------------------------------
\* No database file is open under two paths, which DuckDB would take for two
\* databases, and no path stands for two open files.
OneNamePerFile ==
    \A h1, h2 \in held :
       h1.file # None /\ h2.file # None => (h1.file = h2.file <=> h1.path = h2.path)

\* The guard knows every attached database for as long as it is: the owner has
\* its file, or waits for the file its path will name, also after the query
\* that attached it has ended (pdo_duckdb_bridge_filesystem.cpp:307).
AttachedIsKnown ==
    \A h \in held : \E e \in entries :
       /\ e.path = h.path
       /\ \/ h.owner \in e.owners /\ h.file \in {None, e.identity}
          \/ References(e, h.owner) # {}

=============================================================================
