--------------------------- MODULE SharedDatabase ---------------------------
(***************************************************************************)
(* What the driver promises of a database shared by PDO handles, without   *)
(* locks, registry or memory: handles join and leave a database; SQL of    *)
(* one user at a time runs on it; a user with an open_basedir confines it  *)
(* to that value for its remaining lifetime, every sibling handle          *)
(* included; and a refused database runs no further SQL.                   *)
(***************************************************************************)
CONSTANTS Users, Handles, Dbs, Basedirs, None

VARIABLES
    session,  \* session[h]: the database handle h is connected to
    policy,   \* policy[d]: the value d is confined to, and whether it refuses
    running,  \* running[u]: the database on which u's SQL runs
    basedir   \* basedir[u]: the open_basedir of user u

vars == <<session, policy, running, basedir>>

Unrestricted == [value |-> None, refused |-> FALSE]

Members(d) == {h \in Handles : session[h] = d}

Init ==
    /\ session = [h \in Handles |-> None]
    /\ policy = [d \in Dbs |-> Unrestricted]
    /\ running = [u \in Users |-> None]
    /\ basedir \in [Users -> Basedirs \cup {None}]

\* A handle joins a database and meets whatever policy it has by now.
Connect(h, d) ==
    /\ session[h] = None
    /\ session' = [session EXCEPT ![h] = d]
    /\ UNCHANGED <<policy, running, basedir>>

\* The last handle takes the policy with it; an earlier one may leave the
\* database refused.
Disconnect(h) ==
    LET d == session[h]
    IN  /\ d # None
        /\ \A u \in Users : running[u] # d
        /\ session' = [session EXCEPT ![h] = None]
        /\ \/ /\ Members(d) = {h}
              /\ policy' = [policy EXCEPT ![d] = Unrestricted]
           \/ /\ Members(d) # {h}
              /\ \E r \in {policy[d].refused, TRUE} :
                   policy' = [policy EXCEPT ![d].refused = r]
        /\ UNCHANGED <<running, basedir>>

\* SQL starts alone, on a database that is confined to the user's value if
\* the user has one; an unconfined database becomes so first.
Start(u, d) ==
    /\ Members(d) # {}
    /\ running[u] = None
    /\ \A v \in Users : running[v] # d
    /\ ~policy[d].refused
    /\ \/ basedir[u] \in {None, policy[d].value}
          /\ UNCHANGED policy
       \/ basedir[u] # None /\ policy[d].value = None
          /\ policy' = [policy EXCEPT ![d].value = basedir[u]]
    /\ running' = [running EXCEPT ![u] = d]
    /\ UNCHANGED <<session, basedir>>

Finish(u) ==
    /\ running[u] # None
    /\ running' = [running EXCEPT ![u] = None]
    /\ UNCHANGED <<session, policy, basedir>>

\* A database that cannot be confined is refused for good.
Refuse(d) ==
    /\ Members(d) # {}
    /\ \A u \in Users : running[u] # d
    /\ policy[d].value = None
    /\ policy' = [policy EXCEPT ![d].refused = TRUE]
    /\ UNCHANGED <<session, running, basedir>>

SetBasedir(u, b) ==
    /\ running[u] = None
    /\ basedir' = [basedir EXCEPT ![u] = b]
    /\ UNCHANGED <<session, policy, running>>

Next ==
    \/ \E h \in Handles : Disconnect(h) \/ \E d \in Dbs : Connect(h, d)
    \/ \E u \in Users : \/ Finish(u)
                        \/ \E d \in Dbs : Start(u, d)
                        \/ \E b \in Basedirs \cup {None} : SetBasedir(u, b)
    \/ \E d \in Dbs : Refuse(d)

Spec == Init /\ [][Next]_vars

=============================================================================
