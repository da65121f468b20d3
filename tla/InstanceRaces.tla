--------------------------- MODULE InstanceRaces ---------------------------
(***************************************************************************)
(* InstanceRegistry with a note of the moments at which other processes    *)
(* change a file in the middle of an open, between the look at the file    *)
(* and the native open.                                                    *)
(***************************************************************************)
EXTENDS InstanceRegistry

VARIABLE raced   \* did a file change while an open was under way?

Opening(t) == At(t, "open_instance") \/ At(t, "open_native")

RacedInit == Init /\ raced = FALSE

RacedNext ==
    /\ Next
    /\ raced' = (raced \/ (changes' # changes /\ \E t \in Threads : Opening(t)))

RacedSpec == RacedInit /\ [][RacedNext]_<<vars, raced>>

\* Handles share a native database exactly when they share the instance with
\* its mutex and sandbox state, however other processes link and replace
\* files between opens (duckdb_driver.c, pdo_duckdb_instance_same and the
\* identity check after the native open).
OneInstanceUnlessRaced == raced \/ OneInstancePerDatabase

=============================================================================
