-------------------------- MODULE InstanceRegistry --------------------------
(***************************************************************************)
(* The process-wide registry of shared DuckDB instances of duckdb_driver.c *)
(* under a thread-safe PHP build.  Request threads open, use and close PDO *)
(* handles; handles on one database file share one pdo_duckdb_instance,    *)
(* its recursive mutex and its open_basedir sandbox state.                 *)
(*                                                                         *)
(* A step is what a thread does between two lock operations.  The registry *)
(* mutex and the mutex of each instance are explicit, so are the memory of *)
(* the instance records (an address may be reused) and the native          *)
(* databases behind DuckDB's instance cache.                               *)
(***************************************************************************)
EXTENDS Naturals, FiniteSets

CONSTANTS
    Threads,           \* request threads
    Handles,           \* addresses of pdo_duckdb_db_handle
    Instances,         \* addresses of pdo_duckdb_instance
    Dbs,               \* native DatabaseInstance objects
    Paths,             \* canonical database paths (an in-memory DSN is None)
    Files,             \* (device, inode) pairs
    Basedirs,          \* non-empty open_basedir values
    None,              \* NULL: no thread, instance, path, identity, basedir
    MaxFileChanges,    \* bound: renames, links and unlinks by other processes
    RacingReplacement  \* do they also happen while an open is under way?

ASSUME NoneAssumption ==
    None \notin Threads \cup Handles \cup Instances \cup Dbs
                  \cup Paths \cup Files \cup Basedirs

ASSUME BoundAssumption ==
    MaxFileChanges \in Nat /\ RacingReplacement \in BOOLEAN

VARIABLES
    registry,   \* holder of the registry mutex
    mutex,      \* mutex[i]: holder of instance i's mutex
    allocated,  \* instance records that are not freed; others are blank
    registered, \* the list pdo_duckdb_instances
    inst,       \* inst[i]: the fields of the record
    owner,      \* owner[h]: the thread whose PDO object holds handle h
    hInst,      \* hInst[h]: H->instance
    hDb,        \* hDb[h]: the native database behind H->db and H->conn
    db,         \* db[d]: path, file and sandbox seal; blank when not live
    disk,       \* disk[p]: the file a path names
    changes,    \* file changes made by other processes so far
    basedir,    \* basedir[t]: PG(open_basedir)
    ctl         \* ctl[t]: control state and locals of thread t

nativeVars == <<hDb, db>>
fileVars == <<disk, changes>>
vars == <<registry, mutex, allocated, registered, inst, owner, hInst,
          nativeVars, fileVars, basedir, ctl>>

Opt(S) == S \cup {None}

Labels == {"idle",
           "open_registry", "open_instance", "open_native", "open_unlock",
           "open_finish",
           "enter_lock", "enter_check", "running",
           "plain_lock", "plain_held",
           "close_registry", "close_instance", "close_native",
           "close_unlock", "close_finish"}

\* Why a thread enters the instance: the constructor's enforce_sandbox, an
\* SQL entry point, the persistent checkout, or the closer's appender flush.
Goals == {"factory", "sql", "liveness", "flush"}

InstanceRecord == [path: Opt(Paths), identity: Opt(Files),
                   handles: SUBSET Handles, disabled: BOOLEAN,
                   refused: BOOLEAN, basedir: Opt(Basedirs)]

DbRecord == [path: Opt(Paths), file: Opt(Files), sealed: Opt(Basedirs)]

Control == [pc: Labels, h: Opt(Handles), path: Opt(Paths),
            identity: Opt(Files), created: BOOLEAN, goal: Goals]

TypeOK ==
    /\ registry \in Opt(Threads)
    /\ mutex \in [Instances -> Opt(Threads)]
    /\ allocated \subseteq Instances
    /\ registered \subseteq Instances
    /\ inst \in [Instances -> InstanceRecord]
    /\ owner \in [Handles -> Opt(Threads)]
    /\ hInst \in [Handles -> Opt(Instances)]
    /\ hDb \in [Handles -> Opt(Dbs)]
    /\ db \in [Dbs -> DbRecord]
    /\ disk \in [Paths -> Opt(Files)]
    /\ changes \in 0..MaxFileChanges
    /\ basedir \in [Threads -> Opt(Basedirs)]
    /\ ctl \in [Threads -> Control]

-----------------------------------------------------------------------------

NoDb == [path |-> None, file |-> None, sealed |-> None]

Blank == [path |-> None, identity |-> None, handles |-> {},
          disabled |-> FALSE, refused |-> FALSE, basedir |-> None]

\* Mutant: malloc for calloc, the flags start as garbage.
NewInstance_Malloc(p) == [Blank EXCEPT !.path = p, !.refused = None]

NewInstance(p) == [Blank EXCEPT !.path = p]

Idle == [pc |-> "idle", h |-> None, path |-> None, identity |-> None,
         created |-> FALSE, goal |-> "sql"]

Init ==
    /\ registry = None
    /\ mutex = [i \in Instances |-> None]
    /\ allocated = {}
    /\ registered = {}
    /\ inst = [i \in Instances |-> Blank]
    /\ owner = [h \in Handles |-> None]
    /\ hInst = [h \in Handles |-> None]
    /\ hDb = [h \in Handles |-> None]
    /\ db = [d \in Dbs |-> NoDb]
    /\ disk = [p \in Paths |-> None]
    /\ changes = 0
    /\ basedir \in [Threads -> Opt(Basedirs)]
    /\ ctl = [t \in Threads |-> Idle]

At(t, label) == ctl[t].pc = label
Goto(t, label) == ctl' = [ctl EXCEPT ![t].pc = label]
GotoIdle(t) == ctl' = [ctl EXCEPT ![t] = Idle]

MyHandle(t) == ctl[t].h
MyInstance(t) == hInst[MyHandle(t)]

LockRegistry(t) == registry = None /\ registry' = t
UnlockRegistry(t) == registry = t /\ registry' = None

LockInstance(t) ==
    /\ mutex[MyInstance(t)] = None
    /\ mutex' = [mutex EXCEPT ![MyInstance(t)] = t]

UnlockInstance(t) ==
    /\ mutex[MyInstance(t)] = t
    /\ mutex' = [mutex EXCEPT ![MyInstance(t)] = None]

\* instance_free.
Free(S) ==
    /\ allocated' = allocated \ S
    /\ inst' = [i \in Instances |-> IF i \in S THEN Blank ELSE inst[i]]

LiveDbs == {hDb[h] : h \in Handles} \ {None}
OpenFiles == {db[d].file : d \in LiveDbs} \ {None}

-----------------------------------------------------------------------------
(* Opening: handle_factory_impl and open_instance.                         *)

\* The constructor allocates a handle.  A refused path or option leaves it
\* without an instance, and PDO calls the closer.
Open(t, h, p) ==
    /\ At(t, "idle")
    /\ owner[h] = None
    /\ owner' = [owner EXCEPT ![h] = t]
    /\ \E label \in {"open_registry", "close_registry"} :
         ctl' = [ctl EXCEPT ![t] = [Idle EXCEPT !.pc = label, !.h = h,
                                                !.path = p, !.goal = "factory"]]
    /\ UNCHANGED <<registry, mutex, allocated, registered, inst, hInst,
                   nativeVars, fileVars, basedir>>

Identity(p) == IF p = None THEN None ELSE disk[p]

SamePath(p) == {i \in registered : p # None /\ inst[i].path = p}

Changed(i, f) == inst[i].identity # None /\ inst[i].identity # f

\* Mutant: hard-link aliases are not looked for.
Aliases_PathOnly(p, f) == {}

Aliases(p, f) == {i \in registered : /\ p # None /\ f # None
                                     /\ inst[i].path \notin {None, p}
                                     /\ inst[i].identity = f}

\* The path is registered with the identity it has now: share its instance.
OpenShare(t) ==
    /\ At(t, "open_registry")
    /\ LockRegistry(t)
    /\ \E i \in SamePath(ctl[t].path) :
         /\ ~Changed(i, Identity(ctl[t].path))
         /\ hInst' = [hInst EXCEPT ![MyHandle(t)] = i]
    /\ ctl' = [ctl EXCEPT ![t].pc = "open_instance",
                          ![t].identity = Identity(ctl[t].path)]
    /\ UNCHANGED <<mutex, allocated, registered, inst, owner, nativeVars,
                   fileVars, basedir>>

\* Nothing is registered for the path or for the file behind it.
OpenCreate(t) ==
    /\ At(t, "open_registry")
    /\ LockRegistry(t)
    /\ SamePath(ctl[t].path) = {}
    /\ Aliases(ctl[t].path, Identity(ctl[t].path)) = {}
    /\ \E i \in Instances \ allocated :
         /\ allocated' = allocated \cup {i}
         /\ inst' = [inst EXCEPT ![i] = NewInstance(ctl[t].path)]
         /\ hInst' = [hInst EXCEPT ![MyHandle(t)] = i]
    /\ ctl' = [ctl EXCEPT ![t].pc = "open_instance",
                          ![t].identity = Identity(ctl[t].path),
                          ![t].created = TRUE]
    /\ UNCHANGED <<mutex, registered, owner, nativeVars, fileVars, basedir>>

\* The file behind the registered path changed, another registered path
\* names this file, or the new record cannot be allocated.
OpenLookupFails(t) ==
    /\ At(t, "open_registry")
    /\ registry = None
    /\ LET p == ctl[t].path
           f == Identity(p)
       IN  \/ \E i \in SamePath(p) : Changed(i, f)
           \/ Aliases(p, f) # {}
           \/ SamePath(p) = {}
    /\ Goto(t, "close_registry")
    /\ UNCHANGED <<registry, mutex, allocated, registered, inst, owner, hInst,
                   nativeVars, fileVars, basedir>>

OpenLock(t) ==
    /\ At(t, "open_instance")
    /\ LockInstance(t)
    /\ Goto(t, "open_native")
    /\ UNCHANGED <<registry, allocated, registered, inst, owner, hInst,
                   nativeVars, fileVars, basedir>>

\* The live databases the filesystem identity guard knows by this path, or
\* by the file the path names now.
Known(p) == {d \in LiveDbs : /\ p # None
                             /\ \/ db[d].path = p
                                \/ disk[p] # None /\ db[d].file = disk[p]}

\* A file a process creates has an inode nothing else names or holds open.
NewFiles == Files \ (OpenFiles \cup {disk[q] : q \in Paths})

\* DuckDB's instance cache under the identity guard: a known database is
\* shared while its own path still names its file; otherwise the file is
\* opened, or created when the path names none.  The guard's look at the file
\* and the open are two system calls, taken as one step here: what a change
\* between them does is not modelled (README.md:122-124).
NativeShared(p, d) ==
    /\ d \in Known(p)
    /\ \A c \in Known(p) : disk[db[c].path] = db[c].file
    /\ UNCHANGED <<db, disk>>

NativeOpened(p, d) ==
    /\ Known(p) = {}
    /\ d \in Dbs \ LiveDbs
    /\ \E f \in IF p = None THEN {None}
                ELSE IF disk[p] # None THEN {disk[p]}
                ELSE NewFiles :
         /\ db' = [db EXCEPT ![d] = [NoDb EXCEPT !.path = p, !.file = f]]
         /\ disk' = IF p = None THEN disk ELSE [disk EXCEPT ![p] = f]

\* The identity recorded for a new instance after the open: the file must
\* exist, and be the one seen before the open if there was one.
Verified(t, f) ==
    ctl[t].created /\ ctl[t].path # None =>
        f # None /\ ctl[t].identity \in {None, f}

\* Mutant: each open starts the sandbox state of the instance afresh.
Joined_Fresh(r, t, f) ==
    [r EXCEPT !.handles = @ \cup {MyHandle(t)},
              !.identity = IF ctl[t].created THEN f ELSE @,
              !.disabled = FALSE, !.basedir = None]

\* The record with the handle linked and, if it is new, its identity.
Joined(r, t, f) ==
    [r EXCEPT !.handles = @ \cup {MyHandle(t)},
              !.identity = IF ctl[t].created THEN f ELSE @]

OpenLinked(t) ==
    /\ At(t, "open_native")
    /\ LET i == MyInstance(t)
           p == ctl[t].path
       IN  /\ \E d \in Dbs :
                /\ NativeShared(p, d) \/ NativeOpened(p, d)
                /\ hDb' = [hDb EXCEPT ![MyHandle(t)] = d]
           /\ LET f == IF p = None THEN None ELSE disk'[p]
              IN  /\ Verified(t, f)
                  /\ inst' = [inst EXCEPT ![i] = Joined(@, t, f)]
           /\ registered' = registered \cup {i}
    /\ Goto(t, "open_unlock")
    /\ UNCHANGED <<registry, mutex, allocated, owner, hInst, changes, basedir>>

\* The native open, the connect or the verification fails; whatever was
\* opened is closed again, but a file the open created stays.
OpenNativeFails(t) ==
    /\ At(t, "open_native")
    /\ LET p == ctl[t].path
       IN  \/ UNCHANGED disk
           \/ /\ p # None
              /\ Known(p) = {} /\ disk[p] = None
              /\ \E f \in NewFiles : disk' = [disk EXCEPT ![p] = f]
    /\ Goto(t, "open_unlock")
    /\ UNCHANGED <<registry, mutex, allocated, registered, inst, owner, hInst,
                   nativeVars, changes, basedir>>

OpenUnlock(t) ==
    /\ At(t, "open_unlock")
    /\ UnlockInstance(t)
    /\ Goto(t, "open_finish")
    /\ UNCHANGED <<registry, allocated, registered, inst, owner, hInst,
                   nativeVars, fileVars, basedir>>

OpenSucceeded(t) ==
    /\ At(t, "open_finish")
    /\ hDb[MyHandle(t)] # None
    /\ UnlockRegistry(t)
    /\ ctl' = [ctl EXCEPT ![t] = [Idle EXCEPT !.pc = "enter_lock",
                                              !.h = MyHandle(t),
                                              !.goal = "factory"]]
    /\ UNCHANGED <<mutex, allocated, registered, inst, owner, hInst,
                   nativeVars, fileVars, basedir>>

OpenFailed(t) ==
    /\ At(t, "open_finish")
    /\ hDb[MyHandle(t)] = None
    /\ IF ctl[t].created THEN Free({MyInstance(t)})
       ELSE UNCHANGED <<allocated, inst>>
    /\ hInst' = [hInst EXCEPT ![MyHandle(t)] = None]
    /\ UnlockRegistry(t)
    /\ ctl' = [ctl EXCEPT ![t] = [Idle EXCEPT !.pc = "close_registry",
                                              !.h = MyHandle(t),
                                              !.goal = "factory"]]
    /\ UNCHANGED <<mutex, registered, owner, nativeVars, fileVars, basedir>>

-----------------------------------------------------------------------------
(* Using a handle: native_enter and the work done under the instance lock. *)

Use(t, h, goal) ==
    /\ At(t, "idle")
    /\ owner[h] = t
    /\ goal \in {"sql", "liveness"}
    /\ ctl' = [ctl EXCEPT ![t] = [Idle EXCEPT !.pc = "enter_lock", !.h = h,
                                              !.goal = goal]]
    /\ UNCHANGED <<registry, mutex, allocated, registered, inst, owner, hInst,
                   nativeVars, fileVars, basedir>>

EnterLock(t) ==
    /\ At(t, "enter_lock")
    /\ LockInstance(t)
    /\ Goto(t, "enter_check")
    /\ UNCHANGED <<registry, allocated, registered, inst, owner, hInst,
                   nativeVars, fileVars, basedir>>

\* Mutant: a sandboxed instance admits any open_basedir.
Admissible_AnyBasedir(t) ==
    LET i == MyInstance(t)
    IN  ~inst[i].refused /\ (basedir[t] = None \/ inst[i].disabled)

\* Mutant: a failed transition is tried again or forgotten.
Admissible_IgnoresRefusal(t) ==
    LET i == MyInstance(t)
    IN  \/ basedir[t] = None
        \/ inst[i].disabled /\ inst[i].basedir = basedir[t]

\* enforce_sandbox_locked without a transition.
Admissible(t) ==
    LET i == MyInstance(t)
    IN  /\ ~inst[i].refused
        /\ \/ basedir[t] = None
           \/ inst[i].disabled /\ inst[i].basedir = basedir[t]

NeedsTransition(t) ==
    LET i == MyInstance(t)
    IN  ~inst[i].refused /\ basedir[t] # None /\ ~inst[i].disabled

Admit(t) ==
    /\ At(t, "enter_check")
    /\ Admissible(t)
    /\ Goto(t, "running")
    /\ UNCHANGED <<registry, mutex, allocated, registered, inst, owner, hInst,
                   nativeVars, fileVars, basedir>>

\* What a caller does after a refused entry: report the error under the
\* plain lock, or discard a persistent handle it alone holds.
AfterRefusal(t) ==
    IF ctl[t].goal # "liveness" THEN Goto(t, "plain_lock")
    ELSE Goto(t, "close_registry") \/ GotoIdle(t)

\* Mutant: a refused entry leaves the instance locked.
Deny_KeepsLock(t) ==
    /\ At(t, "enter_check")
    /\ ~Admissible(t) /\ ~NeedsTransition(t)
    /\ AfterRefusal(t)
    /\ UNCHANGED <<registry, mutex, allocated, registered, inst, owner, hInst,
                   nativeVars, fileVars, basedir>>

Deny(t) ==
    /\ At(t, "enter_check")
    /\ ~Admissible(t) /\ ~NeedsTransition(t)
    /\ UnlockInstance(t)
    /\ AfterRefusal(t)
    /\ UNCHANGED <<registry, allocated, registered, inst, owner, hInst,
                   nativeVars, fileVars, basedir>>

\* Mutant: the instance records a profile that was not locked.
Sandbox_Unlocked(t) ==
    /\ At(t, "enter_check")
    /\ NeedsTransition(t)
    /\ inst' = [inst EXCEPT ![MyInstance(t)].disabled = TRUE,
                            ![MyInstance(t)].basedir = basedir[t]]
    /\ Goto(t, "running")
    /\ UNCHANGED <<registry, mutex, allocated, registered, owner, hInst,
                   nativeVars, fileVars, basedir>>

\* disable_external_access: the profile goes onto the native database, whose
\* configuration must still be unlocked, and the instance records the value.
Sandbox(t) ==
    /\ At(t, "enter_check")
    /\ NeedsTransition(t)
    /\ LET i == MyInstance(t)
           d == hDb[MyHandle(t)]
       IN  /\ db[d].sealed = None
           /\ db' = [db EXCEPT ![d].sealed = basedir[t]]
           /\ inst' = [inst EXCEPT ![i].disabled = TRUE,
                                   ![i].basedir = basedir[t]]
    /\ Goto(t, "running")
    /\ UNCHANGED <<registry, mutex, allocated, registered, owner, hInst, hDb,
                   fileVars, basedir>>

\* A bailout ends the request: the constructor's handler closes the handle,
\* any other handle stays open until it is destroyed.
AfterBailout(t) ==
    \/ ctl[t].goal = "factory" /\ Goto(t, "close_registry")
    \/ ctl[t].goal = "sql" /\ GotoIdle(t)

\* The transition fails before the profile is locked, or after it, when the
\* value cannot be recorded; or a bailout interrupts it.
SandboxFails(t) ==
    /\ At(t, "enter_check")
    /\ NeedsTransition(t)
    /\ LET i == MyInstance(t)
           d == hDb[MyHandle(t)]
       IN  \/ /\ inst' = [inst EXCEPT ![i].refused = TRUE]
              /\ UNCHANGED db
              /\ AfterRefusal(t) \/ AfterBailout(t)
           \/ /\ db[d].sealed = None
              /\ db' = [db EXCEPT ![d].sealed = basedir[t]]
              /\ inst' = [inst EXCEPT ![i].refused = TRUE,
                                      ![i].disabled = TRUE]
              /\ AfterRefusal(t)
    /\ UnlockInstance(t)
    /\ UNCHANGED <<registry, allocated, registered, owner, hInst, hDb,
                   fileVars, basedir>>

\* The native call returns and the instance is unlocked.  A persistent
\* handle whose session is remote, or whose reset failed, is discarded.
Leave(t) ==
    /\ At(t, "running")
    /\ UnlockInstance(t)
    /\ \/ ctl[t].goal # "flush" /\ GotoIdle(t)
       \/ ctl[t].goal \in {"flush", "liveness"} /\ Goto(t, "close_registry")
    /\ UNCHANGED <<registry, allocated, registered, inst, owner, hInst,
                   nativeVars, fileVars, basedir>>

PlainLock(t) ==
    /\ At(t, "plain_lock")
    /\ LockInstance(t)
    /\ Goto(t, "plain_held")
    /\ UNCHANGED <<registry, allocated, registered, inst, owner, hInst,
                   nativeVars, fileVars, basedir>>

PlainUnlock(t) ==
    /\ At(t, "plain_held")
    /\ UnlockInstance(t)
    /\ IF ctl[t].goal = "sql" THEN GotoIdle(t) ELSE Goto(t, "close_registry")
    /\ UNCHANGED <<registry, allocated, registered, inst, owner, hInst,
                   nativeVars, fileVars, basedir>>

-----------------------------------------------------------------------------
(* Closing: handle_closer.                                                 *)

\* The closer first releases the handle's appenders: one still open is
\* flushed through native_enter, or discarded under the plain lock.
Close(t, h) ==
    /\ At(t, "idle")
    /\ owner[h] = t
    /\ \E label \in {"close_registry", "enter_lock"} :
         ctl' = [ctl EXCEPT ![t] = [Idle EXCEPT !.pc = label, !.h = h,
                                                !.goal = "flush"]]
    /\ UNCHANGED <<registry, mutex, allocated, registered, inst, owner, hInst,
                   nativeVars, fileVars, basedir>>

CloseRegistry(t) ==
    /\ At(t, "close_registry")
    /\ LockRegistry(t)
    /\ Goto(t, IF MyInstance(t) = None THEN "close_finish"
                                       ELSE "close_instance")
    /\ UNCHANGED <<mutex, allocated, registered, inst, owner, hInst,
                   nativeVars, fileVars, basedir>>

CloseLock(t) ==
    /\ At(t, "close_instance")
    /\ LockInstance(t)
    /\ Goto(t, "close_native")
    /\ UNCHANGED <<registry, allocated, registered, inst, owner, hInst,
                   nativeVars, fileVars, basedir>>

\* native_cleanup_enter stops the file writers under an open_basedir, and
\* refuses the instance when it cannot; then disconnect, close and unlink.
CloseNative(t) ==
    /\ At(t, "close_native")
    /\ \E refuse \in {FALSE, basedir[t] # None} :
         inst' = [inst EXCEPT ![MyInstance(t)].handles = @ \ {MyHandle(t)},
                              ![MyInstance(t)].refused = @ \/ refuse]
    /\ LET d == hDb[MyHandle(t)]
       IN  /\ hDb' = [hDb EXCEPT ![MyHandle(t)] = None]
           /\ db' = IF \E h \in Handles : hDb'[h] = d THEN db
                    ELSE [db EXCEPT ![d] = NoDb]
    /\ Goto(t, "close_unlock")
    /\ UNCHANGED <<registry, mutex, allocated, registered, owner, hInst,
                   fileVars, basedir>>

CloseUnlock(t) ==
    /\ At(t, "close_unlock")
    /\ UnlockInstance(t)
    /\ Goto(t, "close_finish")
    /\ UNCHANGED <<registry, allocated, registered, inst, owner, hInst,
                   nativeVars, fileVars, basedir>>

\* Mutants: the closer frees an instance that still has handles, or never.
Abandoned_InUse(i) == IF i # None THEN {i} ELSE {}
Abandoned_Never(i) == {}

\* The last handle unregisters and frees the instance, still under the
\* registry mutex.
Abandoned(i) == IF i # None /\ inst[i].handles = {} THEN {i} ELSE {}

CloseFinish(t) ==
    /\ At(t, "close_finish")
    /\ registered' = registered \ Abandoned(MyInstance(t))
    /\ Free(Abandoned(MyInstance(t)))
    /\ hInst' = [hInst EXCEPT ![MyHandle(t)] = None]
    /\ owner' = [owner EXCEPT ![MyHandle(t)] = None]
    /\ UnlockRegistry(t)
    /\ GotoIdle(t)
    /\ UNCHANGED <<mutex, nativeVars, fileVars, basedir>>

-----------------------------------------------------------------------------
(* The environment.                                                        *)

\* ini_set, or the next request of the thread; no driver code is running.
SetBasedir(t, b) ==
    /\ At(t, "idle")
    /\ basedir' = [basedir EXCEPT ![t] = b]
    /\ UNCHANGED <<registry, mutex, allocated, registered, inst, owner, hInst,
                   nativeVars, fileVars, ctl>>

\* Another process unlinks a path or makes it name a file, which may be one
\* another path names too.
ChangeFile(p, f) ==
    /\ changes < MaxFileChanges
    /\ RacingReplacement
         \/ \A t \in Threads : ~At(t, "open_instance") /\ ~At(t, "open_native")
    /\ f # disk[p]
    /\ disk' = [disk EXCEPT ![p] = f]
    /\ changes' = changes + 1
    /\ UNCHANGED <<registry, mutex, allocated, registered, inst, owner, hInst,
                   nativeVars, basedir, ctl>>

-----------------------------------------------------------------------------

\* The steps a thread takes once it holds what it needs, and the steps that
\* wait for a mutex.
Proceed(t) ==
    \/ OpenLinked(t) \/ OpenNativeFails(t) \/ OpenUnlock(t)
    \/ OpenSucceeded(t) \/ OpenFailed(t)
    \/ Admit(t) \/ Deny(t) \/ Sandbox(t) \/ SandboxFails(t) \/ Leave(t)
    \/ PlainUnlock(t)
    \/ CloseNative(t) \/ CloseUnlock(t) \/ CloseFinish(t)

Acquire(t) ==
    \/ OpenShare(t) \/ OpenCreate(t) \/ OpenLookupFails(t) \/ OpenLock(t)
    \/ EnterLock(t) \/ PlainLock(t) \/ CloseRegistry(t) \/ CloseLock(t)

Begin(t) ==
    \/ \E h \in Handles : \/ \E p \in Opt(Paths) : Open(t, h, p)
                          \/ \E goal \in Goals : Use(t, h, goal)
                          \/ Close(t, h)
    \/ \E b \in Opt(Basedirs) : SetBasedir(t, b)

Next ==
    \/ \E t \in Threads : Begin(t) \/ Acquire(t) \/ Proceed(t)
    \/ \E p \in Paths, f \in Opt(Files) : ChangeFile(p, f)

Spec == Init /\ [][Next]_vars

\* Native calls return, and a mutex that is released again and again is
\* eventually granted to each thread waiting for it.
Fairness == \A t \in Threads : WF_vars(Proceed(t)) /\ SF_vars(Acquire(t))

FairSpec == Spec /\ Fairness

(* Properties.                                                             *)

Connected == {h \in Handles : hDb[h] # None}

\* The threads that wait for the mutex of instance i, or hold it.
Involved(i) == {t \in Threads :
    /\ MyHandle(t) # None /\ MyInstance(t) = i
    /\ ctl[t].pc \notin {"idle", "open_registry", "close_registry",
                         "open_finish", "close_finish"}}

\* No thread waits for, holds or releases the mutex of a freed instance, and
\* no open handle points at one: handle_closer frees the record only when no
\* handle is left to reach it, and no open can find it meanwhile.
NoUseAfterFree ==
    /\ \A i \in Instances \ allocated : Involved(i) = {} /\ mutex[i] = None
    /\ \A h \in Connected : hInst[h] \in allocated
    /\ registered \subseteq allocated

\* When no open or close is under way, an instance is in the registry exactly
\* while it has handles: nothing leaks, and the next open of the path finds
\* the sandbox state of the database it joins.
RegisteredWhileUsed ==
    registry = None =>
        /\ allocated = registered
        /\ \A i \in registered :
             inst[i].handles = {h \in Connected : hInst[h] = i} /\
             inst[i].handles # {}

\* Handles share a native database exactly when they share the instance that
\* carries its mutex and sandbox state, whatever paths they were opened by.
OneInstancePerDatabase ==
    \A g, h \in Connected : hDb[g] = hDb[h] <=> hInst[g] = hInst[h]

\* Native SQL runs under the instance's mutex, never on a refused instance,
\* and for a thread with an open_basedir only on an instance sandboxed for
\* that value.
SqlIsContained ==
    \A t \in Threads : At(t, "running") =>
        LET i == MyInstance(t)
        IN  /\ mutex[i] = t
            /\ ~inst[i].refused
            /\ basedir[t] # None =>
                 inst[i].disabled /\ inst[i].basedir = basedir[t]

\* The native database behind the handle is then locked with the profile of
\* that value, although it was another handle, connected to what the instance
\* record stood for at the time, that locked it.
SqlRunsSealed ==
    \A t \in Threads : At(t, "running") /\ basedir[t] # None =>
        db[hDb[MyHandle(t)]].sealed = basedir[t]

KeepsContainment ==
    /\ \A i \in allocated \cap allocated' :
         /\ inst[i].refused => inst'[i].refused
         /\ inst[i].disabled =>
              inst'[i].disabled /\ inst'[i].basedir = inst[i].basedir
    /\ \A h \in Connected : hDb'[h] = hDb[h] /\ db[hDb[h]].sealed # None =>
         db'[hDb[h]].sealed = db[hDb[h]].sealed

\* A refusal or a sandbox, and the value it was applied for, last as long as
\* the instance, and the seal as long as the native database, whichever
\* handles come and go (README: "restricted for its remaining lifetime,
\* including sibling handles").
ContainmentLasts == [][KeepsContainment]_vars

\* Every open, close and use that starts also ends: the registry mutex and
\* the instance mutexes are taken in one order and always released.
EveryCallReturns ==
    \A t \in Threads : ~At(t, "idle") ~> At(t, "idle")

=============================================================================
