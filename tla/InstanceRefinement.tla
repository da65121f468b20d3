------------------------- MODULE InstanceRefinement -------------------------
(***************************************************************************)
(* The registry, its locks and its sandbox transitions implement           *)
(* SharedDatabase: the policy of a database is what the instance of its    *)
(* handles records.                                                        *)
(***************************************************************************)
EXTENDS InstanceRegistry

InstanceOf(d) == hInst[CHOOSE h \in Handles : hDb[h] = d]

PolicyOf(d) ==
    IF d \in LiveDbs
    THEN [value |-> inst[InstanceOf(d)].basedir,
          refused |-> inst[InstanceOf(d)].refused]
    ELSE [value |-> None, refused |-> FALSE]

Shared == INSTANCE SharedDatabase WITH
    Users <- Threads,
    session <- hDb,
    policy <- [d \in Dbs |-> PolicyOf(d)],
    running <- [t \in Threads |->
                  IF At(t, "running") THEN hDb[MyHandle(t)] ELSE None]

\* Every behaviour of the registry under its mutexes is one of the shared
\* database: closing a handle, opening another and the sandbox transition
\* never let SQL run together, on a refused database or under another value.
ImplementsSharedDatabase == Shared!Spec

=============================================================================
