----------------------- MODULE InstanceRegistryProofs -----------------------
(***************************************************************************)
(* Theorems about InstanceRegistry for every number of threads, handles,   *)
(* instances, databases, paths and files, and with other processes         *)
(* replacing files at any moment: first who holds which mutex and which    *)
(* record, then which handles share an instance, a database and a file.    *)
(***************************************************************************)
EXTENDS InstanceRaces, InstanceRefinement, TLAPS

\* Where a thread holds the registry mutex, and the mutex of its instance.
RegistryLabels == {"open_instance", "open_native", "open_unlock",
                   "open_finish", "close_instance", "close_native",
                   "close_unlock", "close_finish"}

MutexLabels == {"open_native", "open_unlock", "enter_check", "running",
                "plain_held", "close_native", "close_unlock"}

OpeningLabels == {"open_instance", "open_native", "open_unlock",
                  "open_finish"}

UsingLabels == {"enter_lock", "enter_check", "running", "plain_lock",
                "plain_held"}

RegistryHeld ==
    \A t \in Threads : registry = t <=> ctl[t].pc \in RegistryLabels

MutexHeld ==
    /\ \A t \in Threads : ctl[t].pc \in MutexLabels =>
         mutex[hInst[ctl[t].h]] = t
    /\ \A i \in Instances : mutex[i] # None =>
         /\ ctl[mutex[i]].pc \in MutexLabels
         /\ hInst[ctl[mutex[i]].h] = i

\* A busy thread works on a handle of its own.
Owned ==
    \A t \in Threads :
        /\ ctl[t].pc = "idle" => ctl[t].h = None
        /\ ctl[t].pc # "idle" => ctl[t].h \in Handles /\ owner[ctl[t].h] = t

\* A handle no thread is busy with is connected, or does not exist.
AtRest ==
    \A h \in Handles :
        /\ owner[h] = None => hInst[h] = None
        /\ owner[h] # None /\ ctl[owner[h]].h # h => hDb[h] # None

\* What each phase of an open, a use and a close knows of its handle.
Phases ==
    \A t \in Threads :
        /\ ctl[t].pc = "open_registry" =>
             hInst[ctl[t].h] = None /\ ~ctl[t].created
        /\ ctl[t].pc \in OpeningLabels
                \cup {"close_instance", "close_native", "close_unlock"} =>
             hInst[ctl[t].h] # None
        /\ ctl[t].pc \in UsingLabels => hDb[ctl[t].h] # None
        /\ ctl[t].pc \in {"close_unlock", "close_finish"} =>
             hDb[ctl[t].h] = None

\* A connected handle is a member of a registered instance; a handle with an
\* instance and no connection belongs to the holder of the registry mutex.
Linked ==
    \A h \in Handles :
        /\ hDb[h] # None =>
             hInst[h] \in registered /\ h \in inst[hInst[h]].handles
        /\ hInst[h] # None /\ hDb[h] = None =>
             registry # None /\ ctl[registry].h = h

Memory ==
    /\ registered \subseteq allocated
    /\ \A h \in Handles : hInst[h] \in Opt(allocated)

\* A new instance is registered when its handle connects, not before.
Fresh ==
    \A t \in Threads :
        /\ ctl[t].pc \in OpeningLabels
        /\ ctl[t].created
        /\ hDb[ctl[t].h] = None
        => hInst[ctl[t].h] \notin registered

IInv == /\ TypeOK /\ RegistryHeld /\ MutexHeld /\ Owned /\ AtRest /\ Phases
        /\ Linked /\ Memory /\ Fresh /\ SqlIsContained

-----------------------------------------------------------------------------

USE NoneAssumption DEF At, Goto, GotoIdle, MyHandle, MyInstance, Opt,
        LockRegistry, UnlockRegistry, LockInstance, UnlockInstance,
        RegistryLabels, MutexLabels, OpeningLabels, UsingLabels,
        nativeVars, fileVars

\* Thread t goes to a label of L, with its handle or, when idle, without.
Moves(t, L) ==
    /\ ctl' \in [Threads -> Control]
    /\ \A u \in Threads \ {t} : ctl'[u] = ctl[u]
    /\ ctl'[t].pc \in L
    /\ ctl'[t].h = IF ctl'[t].pc = "idle" THEN None ELSE ctl[t].h

\* The labels and goals the actions assign are labels and goals; with this
\* lemma no proof needs to expand the two sets.
LEMMA LabelFacts ==
    /\ {"idle", "enter_lock", "open_registry", "close_registry"} \subseteq Labels
    /\ RegistryLabels \cup UsingLabels \subseteq Labels
    /\ {"factory", "sql", "flush", "liveness"} \subseteq Goals
BY DEF Labels, Goals

\* A thread that moves to another place keeps its locals.
LEMMA GotoTyped ==
    ASSUME ctl \in [Threads -> Control], NEW t \in Threads,
           NEW label \in Labels, Goto(t, label)
    PROVE  ctl' \in [Threads -> Control]
<1>1. [ctl[t] EXCEPT !.pc = label] \in Control
  BY DEF Control
<1> QED
  BY <1>1

\* What a thread returns to when a call of the driver ends is a control state.
LEMMA IdleTyped == Idle \in Control
BY LabelFacts DEF Idle, Control

\* SQL stays contained in a step that leaves alone what the running threads
\* depend on: the mutex and the sandbox fields of their instances.
LEMMA ContainedStep ==
    ASSUME SqlIsContained,
           \A u \in Threads : ctl'[u].pc = "running" =>
             /\ ctl[u].pc = "running" /\ basedir'[u] = basedir[u]
             /\ hInst'[ctl'[u].h] = hInst[ctl[u].h]
             /\ LET i == hInst[ctl[u].h]
                IN  /\ mutex'[i] = mutex[i]
                    /\ inst'[i].refused = inst[i].refused
                    /\ inst'[i].disabled = inst[i].disabled
                    /\ inst'[i].basedir = inst[i].basedir
    PROVE  SqlIsContained'
BY DEF SqlIsContained

\* handle_factory starts on a handle no thread owns.
LEMMA OpenInv ==
    ASSUME IInv, NEW t \in Threads,
           NEW h \in Handles, NEW p \in Opt(Paths),
           Open(t, h, p)
    PROVE  IInv'
<1>1. TypeOK'
  <2>1. PICK label \in {"open_registry", "close_registry"} :
          ctl' = [ctl EXCEPT ![t] = [Idle EXCEPT !.pc = label, !.h = h,
                                                 !.path = p, !.goal = "factory"]]
    BY DEF Open
  <2>2. [Idle EXCEPT !.pc = label, !.h = h, !.path = p, !.goal = "factory"]
          \in Control
    BY LabelFacts, IdleTyped DEF Control
  <2> QED
    BY <2>1, <2>2 DEF IInv, TypeOK, Open
<1>2. RegistryHeld'
  BY DEF IInv, TypeOK, RegistryHeld, Open
<1>3. MutexHeld'
  BY DEF IInv, TypeOK, MutexHeld, Open
<1>4. Owned' /\ AtRest' /\ Phases'
  BY DEF IInv, TypeOK, Owned, AtRest, Phases, Open, Idle
<1>5. Linked' /\ Memory'
  BY DEF IInv, TypeOK, Owned, Linked, Memory, Open
<1>6. Fresh'
  BY DEF IInv, TypeOK, Fresh, Open
<1>7. SqlIsContained'
  BY DEF IInv, TypeOK, SqlIsContained, Open
<1> QED
  BY <1>1, <1>2, <1>3, <1>4, <1>5, <1>6, <1>7 DEF IInv

\* open_instance joins a registered instance; sharing is safe because the
\* registry mutex it now holds keeps the instance registered.
LEMMA OpenShareInv ==
    ASSUME IInv, NEW t \in Threads,
           OpenShare(t)
    PROVE  IInv'
<1>1. TypeOK'
  <2>1. ctl[t] \in Control /\ Identity(ctl[t].path) \in Opt(Files)
    BY DEF IInv, TypeOK, Control, Identity
  <2>2. [ctl[t] EXCEPT !.pc = "open_instance",
                       !.identity = Identity(ctl[t].path)] \in Control
    BY <2>1, LabelFacts DEF Control
  <2>3. ctl' \in [Threads -> Control]
    BY <2>2 DEF IInv, TypeOK, OpenShare
  <2> QED
    BY ZenonT(60), <2>3 DEF IInv, TypeOK, OpenShare, SamePath
<1>2. RegistryHeld'
  BY DEF IInv, TypeOK, RegistryHeld, OpenShare
<1>3. MutexHeld'
  BY DEF IInv, TypeOK, MutexHeld, Phases, Linked, OpenShare
<1>4. Owned' /\ AtRest' /\ Phases'
  BY DEF IInv, TypeOK, Owned, AtRest, Phases, OpenShare, SamePath
<1>5. Linked' /\ Memory'
  BY DEF IInv, TypeOK, Phases, Linked, Memory, OpenShare, SamePath
<1>6. Fresh'
  BY DEF IInv, TypeOK, Phases, Fresh, OpenShare
<1>7. SqlIsContained'
  <2>1. PICK i \in Instances : hInst' = [hInst EXCEPT ![ctl[t].h] = i]
    BY DEF IInv, TypeOK, OpenShare, SamePath
  <2>2. \A u \in Threads : ctl'[u].pc = "running" =>
          u # t /\ ctl'[u] = ctl[u]
    BY DEF IInv, TypeOK, OpenShare
  <2>3. \A u \in Threads \ {t} : ctl[u].pc = "running" =>
          ctl[u].h # ctl[t].h
    BY DEF IInv, Owned, OpenShare
  <2>4. \A u \in Threads \ {t} : ctl[u].pc = "running" =>
          hInst'[ctl[u].h] = hInst[ctl[u].h]
    BY <2>1, <2>3 DEF IInv, TypeOK, Owned
  <2>5. UNCHANGED <<mutex, inst, basedir>>
    BY DEF OpenShare
  <2> QED
    BY <2>2, <2>4, <2>5, ContainedStep DEF IInv
<1> QED
  BY <1>1, <1>2, <1>3, <1>4, <1>5, <1>6, <1>7 DEF IInv

\* open_instance callocs a record; nobody has the address, since no connected
\* handle points at unallocated memory.
LEMMA OpenCreateInv ==
    ASSUME IInv, NEW t \in Threads,
           OpenCreate(t)
    PROVE  IInv'
<1>1. TypeOK'
  <2>1. ctl[t] \in Control
    BY DEF IInv, TypeOK
  <2>2. Identity(ctl[t].path) \in Opt(Files)
    BY <2>1 DEF IInv, TypeOK, Control, Identity
  <2>3. NewInstance(ctl[t].path) \in InstanceRecord
    BY <2>1 DEF NewInstance, Blank, InstanceRecord, Control
  <2>4. inst' \in [Instances -> InstanceRecord]
    BY <2>3 DEF IInv, TypeOK, OpenCreate
  <2>5. [ctl[t] EXCEPT !.pc = "open_instance", !.created = TRUE,
                       !.identity = Identity(ctl[t].path)] \in Control
    BY <2>1, <2>2, LabelFacts DEF Control
  <2>6. ctl' \in [Threads -> Control]
    BY ZenonT(60), <2>5 DEF IInv, TypeOK, OpenCreate
  <2> QED
    BY ZenonT(60), <2>4, <2>6 DEF IInv, TypeOK, OpenCreate
<1>2. RegistryHeld'
  BY DEF IInv, TypeOK, RegistryHeld, OpenCreate
<1>3. MutexHeld'
  <2>1. PICK i \in Instances : hInst' = [hInst EXCEPT ![ctl[t].h] = i]
    BY DEF OpenCreate
  <2>2. \A u \in Threads \ {t} : ctl'[u] = ctl[u]
    BY DEF IInv, TypeOK, OpenCreate
  <2>3. ctl'[t].pc = "open_instance" /\ ctl'[t].h = ctl[t].h
    BY DEF IInv, TypeOK, Control, OpenCreate
  <2>4. \A u \in Threads \ {t} : ctl[u].pc \in MutexLabels =>
          hInst'[ctl[u].h] = hInst[ctl[u].h]
    BY <2>1 DEF IInv, TypeOK, Owned, OpenCreate
  <2>5. \A j \in Instances : mutex[j] # None => mutex[j] \in Threads \ {t}
    BY DEF IInv, TypeOK, MutexHeld, OpenCreate
  <2>6. mutex' = mutex
    BY DEF OpenCreate
  <2> QED
    BY <2>2, <2>3, <2>4, <2>5, <2>6 DEF IInv, MutexHeld
<1>4. Owned' /\ AtRest' /\ Phases'
  <2>1. PICK i \in Instances : hInst' = [hInst EXCEPT ![ctl[t].h] = i]
    BY DEF OpenCreate
  <2>2. \A u \in Threads \ {t} : ctl'[u] = ctl[u]
    BY DEF IInv, TypeOK, OpenCreate
  <2>3. /\ ctl'[t].pc = "open_instance" /\ ctl'[t].h = ctl[t].h
        /\ ctl[t].h \in Handles /\ owner[ctl[t].h] = t
    BY DEF IInv, TypeOK, Control, Owned, OpenCreate
  <2>4. UNCHANGED <<owner, hDb>>
    BY DEF OpenCreate
  <2>5. Owned'
    BY <2>2, <2>3, <2>4 DEF IInv, Owned
  <2>6. AtRest'
    <3>1. \A k \in Handles : owner[k] # None =>
            owner[k] \in Threads /\ ctl'[owner[k]].h = ctl[owner[k]].h
      BY <2>2, <2>3 DEF IInv, TypeOK
    <3>2. \A k \in Handles : owner[k] = None => hInst'[k] = hInst[k]
      BY <2>1, <2>3 DEF IInv, TypeOK
    <3> QED
      BY <2>4, <3>1, <3>2 DEF IInv, AtRest
  <2>7. Phases'
    <3>1. \A u \in Threads \ {t} : ctl[u].pc # "idle" =>
            hInst'[ctl[u].h] = hInst[ctl[u].h]
      BY <2>1, <2>3 DEF IInv, TypeOK, Owned
    <3>2. hInst'[ctl[t].h] = i
      BY <2>1, <2>3 DEF IInv, TypeOK
    <3> QED
      BY <2>2, <2>3, <2>4, <3>1, <3>2 DEF IInv, Phases
  <2> QED
    BY <2>5, <2>6, <2>7
<1>5. Linked' /\ Memory'
  BY DEF IInv, TypeOK, Phases, Control, OpenCreate
<1>6. Fresh'
  BY DEF IInv, TypeOK, Phases, Control, OpenCreate
<1>7. SqlIsContained'
  <2>1. PICK i \in Instances \ allocated :
          /\ inst' = [inst EXCEPT ![i] = NewInstance(ctl[t].path)]
          /\ hInst' = [hInst EXCEPT ![ctl[t].h] = i]
    BY DEF OpenCreate
  <2>2. \A u \in Threads : ctl'[u].pc = "running" =>
          /\ ctl[u].pc = "running" /\ ctl'[u].h = ctl[u].h
          /\ hInst'[ctl[u].h] = hInst[ctl[u].h]
    BY <2>1 DEF IInv, TypeOK, Owned, OpenCreate
  <2>3. \A u \in Threads : ctl[u].pc = "running" =>
          hInst[ctl[u].h] \in allocated
    BY DEF IInv, TypeOK, Owned, Phases, Linked, Memory
  <2>4. \A u \in Threads : ctl[u].pc = "running" =>
          inst'[hInst[ctl[u].h]] = inst[hInst[ctl[u].h]]
    BY <2>1, <2>3 DEF IInv, TypeOK
  <2>5. UNCHANGED <<mutex, basedir>>
    BY DEF OpenCreate
  <2> QED
    BY <2>2, <2>4, <2>5 DEF IInv, SqlIsContained
<1> QED
  BY <1>1, <1>2, <1>3, <1>4, <1>5, <1>6, <1>7 DEF IInv

\* open_instance returns without touching a record.
LEMMA OpenLookupFailsInv ==
    ASSUME IInv, NEW t \in Threads,
           OpenLookupFails(t)
    PROVE  IInv'
<1>1. TypeOK'
  <2>1. ctl' \in [Threads -> Control]
    BY GotoTyped, LabelFacts DEF IInv, TypeOK, OpenLookupFails
  <2> QED
    BY <2>1 DEF IInv, TypeOK, OpenLookupFails
<1>2. RegistryHeld'
  BY DEF IInv, TypeOK, RegistryHeld, OpenLookupFails
<1>3. MutexHeld'
  BY DEF IInv, TypeOK, MutexHeld, OpenLookupFails
<1>4. Owned' /\ AtRest' /\ Phases'
  BY DEF IInv, TypeOK, Owned, AtRest, Phases, OpenLookupFails
<1>5. Linked' /\ Memory'
  BY DEF IInv, TypeOK, Linked, Memory, OpenLookupFails
<1>6. Fresh'
  BY DEF IInv, TypeOK, Fresh, OpenLookupFails
<1>7. SqlIsContained'
  BY DEF IInv, TypeOK, SqlIsContained, OpenLookupFails
<1> QED
  BY <1>1, <1>2, <1>3, <1>4, <1>5, <1>6, <1>7 DEF IInv

\* open_instance takes the instance mutex inside the registry mutex.
LEMMA OpenLockInv ==
    ASSUME IInv, NEW t \in Threads,
           OpenLock(t)
    PROVE  IInv'
<1>1. TypeOK'
  <2>1. ctl' \in [Threads -> Control]
    BY SMTT(30), LabelFacts, IdleTyped DEF IInv, TypeOK, Control, OpenLock
  <2> QED
    BY <2>1 DEF IInv, TypeOK, OpenLock
<1>2. RegistryHeld'
  BY DEF IInv, TypeOK, RegistryHeld, OpenLock
<1>3. MutexHeld'
  BY DEF IInv, TypeOK, MutexHeld, Owned, Phases, OpenLock
<1>4. Owned' /\ AtRest' /\ Phases'
  BY DEF IInv, TypeOK, Owned, AtRest, Phases, OpenLock
<1>5. Linked' /\ Memory'
  BY DEF IInv, TypeOK, Linked, Memory, OpenLock
<1>6. Fresh'
  BY DEF IInv, TypeOK, Fresh, OpenLock
<1>7. SqlIsContained'
  BY DEF IInv, TypeOK, SqlIsContained, OpenLock
<1> QED
  BY <1>1, <1>2, <1>3, <1>4, <1>5, <1>6, <1>7 DEF IInv

\* The native open succeeds, the handle is linked and the instance registered;
\* only fields no running thread depends on change.
LEMMA OpenLinkedInv ==
    ASSUME IInv, NEW t \in Threads, OpenLinked(t)
    PROVE  IInv'
<1> DEFINE h == ctl[t].h
           i == hInst[h]
           p == ctl[t].path
<1>1. h \in Handles /\ i \in Instances /\ owner[h] = t /\ p \in Opt(Paths)
  BY DEF IInv, TypeOK, Owned, Phases, OpenLinked, Control
<1>2. PICK d \in Dbs : /\ hDb' = [hDb EXCEPT ![h] = d]
                       /\ NativeShared(p, d) \/ NativeOpened(p, d)
  BY DEF OpenLinked
<1>3. disk' \in [Paths -> Opt(Files)] /\ db' \in [Dbs -> DbRecord]
  <2>1. CASE NativeShared(p, d)
    BY <2>1 DEF NativeShared, IInv, TypeOK
  <2>2. CASE NativeOpened(p, d)
    <3>1. PICK f \in Opt(Files) :
            /\ db' = [db EXCEPT ![d] = [NoDb EXCEPT !.path = p, !.file = f]]
            /\ disk' = IF p = None THEN disk ELSE [disk EXCEPT ![p] = f]
      BY <2>2, <1>1 DEF NativeOpened, NewFiles, IInv, TypeOK
    <3>2. [NoDb EXCEPT !.path = p, !.file = f] \in DbRecord
      BY <1>1 DEF NoDb, DbRecord
    <3> QED
      BY <3>1, <3>2, <1>1 DEF IInv, TypeOK
  <2> QED
    BY <1>2, <2>1, <2>2
<1>4. PICK f \in Opt(Files) : inst' = [inst EXCEPT ![i] = Joined(@, t, f)]
  BY <1>1, <1>3 DEF OpenLinked
<1>5. Joined(inst[i], t, f) \in InstanceRecord
  <2>1. inst[i] \in InstanceRecord
    BY <1>1 DEF IInv, TypeOK
  <2> QED
    BY <1>1, <2>1 DEF Joined, InstanceRecord
<1>6. /\ inst' \in [Instances -> InstanceRecord]
      /\ \A j \in Instances \ {i} : inst'[j] = inst[j]
      /\ inst'[i].handles = inst[i].handles \cup {h}
      /\ inst'[i].refused = inst[i].refused
      /\ inst'[i].disabled = inst[i].disabled
      /\ inst'[i].basedir = inst[i].basedir
  <2>1. inst \in [Instances -> InstanceRecord]
    BY DEF IInv, TypeOK
  <2>2. inst[i] \in InstanceRecord
    BY <1>1, <2>1
  <2>3. LET r == Joined(inst[i], t, f)
        IN  /\ r.handles = inst[i].handles \cup {h}
            /\ r.refused = inst[i].refused
            /\ r.disabled = inst[i].disabled
            /\ r.basedir = inst[i].basedir
    BY <2>2 DEF Joined, InstanceRecord
  <2>4. inst'[i] = Joined(inst[i], t, f)
    BY <1>1, <1>4, <2>1
  <2>5. \A j \in Instances \ {i} : inst'[j] = inst[j]
    BY <1>4, <2>1
  <2>6. inst' \in [Instances -> InstanceRecord]
    BY <1>4, <1>5, <2>1
  <2> QED
    BY <2>3, <2>4, <2>5, <2>6
<1>7. /\ At(t, "open_native")
      /\ registered' = registered \cup {i}
      /\ ctl' = [ctl EXCEPT ![t].pc = "open_unlock"]
      /\ UNCHANGED <<registry, mutex, allocated, owner, hInst, changes,
                     basedir>>
  BY DEF OpenLinked
<1>8. ctl' \in [Threads -> Control]
  <2>1. ctl \in [Threads -> Control] /\ Goto(t, "open_unlock")
    BY <1>7 DEF IInv, TypeOK
  <2> QED
    BY <2>1, GotoTyped, LabelFacts
<1>9. TypeOK'
  BY <1>1, <1>2, <1>3, <1>6, <1>7, <1>8 DEF IInv, TypeOK
<1>10. RegistryHeld' /\ Owned'
  BY <1>7 DEF IInv, TypeOK, RegistryHeld, Owned
<1>11. MutexHeld'
  BY <1>7 DEF IInv, TypeOK, MutexHeld
<1>12. AtRest' /\ Phases'
  BY <1>1, <1>2, <1>7 DEF IInv, TypeOK, Owned, AtRest, Phases
<1>13. Linked'
  BY <1>1, <1>2, <1>6, <1>7 DEF IInv, TypeOK, Linked
<1>14. Memory'
  BY <1>1, <1>7 DEF IInv, TypeOK, Memory
<1>15. Fresh'
  BY <1>1, <1>2, <1>7 DEF IInv, TypeOK, RegistryHeld, Fresh
<1>16. SqlIsContained'
  <2>1. \A u \in Threads : ctl'[u].pc = "running" =>
          u # t /\ ctl'[u] = ctl[u]
    BY <1>7 DEF IInv, TypeOK
  <2>2. \A u \in Threads : ctl[u].pc = "running" =>
          hInst[ctl[u].h] \in Instances
    BY DEF IInv, TypeOK, Owned, Phases, Linked
  <2>3. \A j \in Instances : /\ inst'[j].refused = inst[j].refused
                             /\ inst'[j].disabled = inst[j].disabled
                             /\ inst'[j].basedir = inst[j].basedir
    BY <1>6
  <2> QED
    BY <1>7, <2>1, <2>2, <2>3, ContainedStep DEF IInv
<1> QED
  BY <1>9, <1>10, <1>11, <1>12, <1>13, <1>14, <1>15, <1>16 DEF IInv

\* A failed native open leaves every record as it was.
LEMMA OpenNativeFailsInv ==
    ASSUME IInv, NEW t \in Threads,
           OpenNativeFails(t)
    PROVE  IInv'
<1>1. TypeOK'
  <2>1. ctl' \in [Threads -> Control]
    BY GotoTyped, LabelFacts DEF IInv, TypeOK, OpenNativeFails
  <2> QED
    BY <2>1 DEF IInv, TypeOK, OpenNativeFails, NewFiles
<1>2. RegistryHeld'
  BY DEF IInv, TypeOK, RegistryHeld, OpenNativeFails
<1>3. MutexHeld'
  BY DEF IInv, TypeOK, MutexHeld, OpenNativeFails
<1>4. Owned' /\ AtRest' /\ Phases'
  BY DEF IInv, TypeOK, Owned, AtRest, Phases, OpenNativeFails
<1>5. Linked' /\ Memory'
  BY DEF IInv, TypeOK, Linked, Memory, OpenNativeFails
<1>6. Fresh'
  BY DEF IInv, TypeOK, Fresh, OpenNativeFails
<1>7. SqlIsContained'
  BY DEF IInv, TypeOK, SqlIsContained, OpenNativeFails
<1> QED
  BY <1>1, <1>2, <1>3, <1>4, <1>5, <1>6, <1>7 DEF IInv

\* open_instance releases the instance mutex.
LEMMA OpenUnlockInv ==
    ASSUME IInv, NEW t \in Threads,
           OpenUnlock(t)
    PROVE  IInv'
<1>1. TypeOK'
  <2>1. ctl' \in [Threads -> Control]
    BY SMTT(30), LabelFacts, IdleTyped DEF IInv, TypeOK, Control, OpenUnlock
  <2> QED
    BY <2>1 DEF IInv, TypeOK, OpenUnlock
<1>2. RegistryHeld'
  BY DEF IInv, TypeOK, RegistryHeld, OpenUnlock
<1>3. MutexHeld'
  BY DEF IInv, TypeOK, MutexHeld, OpenUnlock
<1>4. Owned' /\ AtRest' /\ Phases'
  BY DEF IInv, TypeOK, Owned, AtRest, Phases, OpenUnlock
<1>5. Linked' /\ Memory'
  BY DEF IInv, TypeOK, Linked, Memory, OpenUnlock
<1>6. Fresh'
  BY DEF IInv, TypeOK, Fresh, OpenUnlock
<1>7. SqlIsContained'
  BY DEF IInv, TypeOK, SqlIsContained, OpenUnlock
<1> QED
  BY <1>1, <1>2, <1>3, <1>4, <1>5, <1>6, <1>7 DEF IInv

\* open_instance returns a connected handle and releases the registry.
LEMMA OpenSucceededInv ==
    ASSUME IInv, NEW t \in Threads,
           OpenSucceeded(t)
    PROVE  IInv'
<1>1. TypeOK'
  <2>1. ctl' \in [Threads -> Control]
    BY LabelFacts, IdleTyped DEF IInv, TypeOK, Control, OpenSucceeded
  <2> QED
    BY <2>1 DEF IInv, TypeOK, OpenSucceeded
<1>2. RegistryHeld'
  BY DEF IInv, TypeOK, RegistryHeld, OpenSucceeded
<1>3. MutexHeld'
  BY DEF IInv, TypeOK, MutexHeld, OpenSucceeded
<1>4. Owned' /\ AtRest' /\ Phases'
  BY DEF IInv, TypeOK, Owned, AtRest, Phases, OpenSucceeded
<1>5. Linked' /\ Memory'
  BY DEF IInv, TypeOK, Linked, Memory, OpenSucceeded
<1>6. Fresh'
  BY DEF IInv, TypeOK, Fresh, OpenSucceeded
<1>7. SqlIsContained'
  BY DEF IInv, TypeOK, SqlIsContained, OpenSucceeded
<1> QED
  BY <1>1, <1>2, <1>3, <1>4, <1>5, <1>6, <1>7 DEF IInv

\* open_instance frees the record it created, which is not registered and which
\* no other handle points at.
LEMMA OpenFailedInv ==
    ASSUME IInv, NEW t \in Threads,
           OpenFailed(t)
    PROVE  IInv'
<1>1. TypeOK'
  <2>1. [Idle EXCEPT !.pc = "close_registry", !.h = ctl[t].h,
                     !.goal = "factory"] \in Control
    BY LabelFacts, IdleTyped DEF IInv, TypeOK, Control
  <2>2. ctl' \in [Threads -> Control]
    BY <2>1 DEF IInv, TypeOK, OpenFailed
  <2>3. Blank \in InstanceRecord
    BY DEF Blank, InstanceRecord
  <2>4. inst' \in [Instances -> InstanceRecord]
    BY <2>3 DEF IInv, TypeOK, OpenFailed, Free
  <2> QED
    BY ZenonT(60), <2>2, <2>4 DEF IInv, TypeOK, OpenFailed, Free
<1>2. RegistryHeld'
  BY DEF IInv, TypeOK, RegistryHeld, OpenFailed
<1>3. MutexHeld'
  BY DEF IInv, TypeOK, MutexHeld, Owned, OpenFailed
<1>4. Owned' /\ AtRest' /\ Phases'
  BY DEF IInv, TypeOK, Owned, AtRest, Phases, OpenFailed
<1>5. Linked' /\ Memory'
  <2> DEFINE i == hInst[ctl[t].h]
  <2>1. /\ ctl[t].h \in Handles /\ hDb[ctl[t].h] = None /\ i \in Instances
        /\ registry = t /\ registry' = None
        /\ hInst' = [hInst EXCEPT ![ctl[t].h] = None]
        /\ UNCHANGED <<hDb, registered>>
    BY DEF IInv, TypeOK, Owned, Phases, OpenFailed
  <2>2. \A g \in Handles \ {ctl[t].h} : hInst[g] # None => hDb[g] # None
    BY <2>1 DEF IInv, TypeOK, Linked
  <2>3. CASE ctl[t].created
    <3>1. i \notin registered
      BY <2>1, <2>3 DEF IInv, TypeOK, Fresh, OpenFailed
    <3>2. /\ allocated' = allocated \ {i}
          /\ inst' = [j \in Instances |-> IF j = i THEN Blank ELSE inst[j]]
      BY <2>3 DEF OpenFailed, Free
    <3> QED
      BY <2>1, <2>2, <3>1, <3>2 DEF IInv, TypeOK, Linked, Memory
  <2>4. CASE ~ctl[t].created
    BY <2>1, <2>2, <2>4 DEF IInv, TypeOK, Linked, Memory, OpenFailed
  <2> QED
    BY <2>3, <2>4
<1>6. Fresh'
  BY DEF IInv, TypeOK, Fresh, OpenFailed
<1>7. SqlIsContained'
  BY DEF IInv, TypeOK, Owned, Phases, Linked, Fresh, SqlIsContained,
     OpenFailed, Free
<1> QED
  BY <1>1, <1>2, <1>3, <1>4, <1>5, <1>6, <1>7 DEF IInv

\* An SQL entry point or a persistent checkout starts on a connected handle.
LEMMA UseInv ==
    ASSUME IInv, NEW t \in Threads,
           NEW h \in Handles, NEW goal \in Goals,
           Use(t, h, goal)
    PROVE  IInv'
<1>1. TypeOK'
  <2>1. ctl' \in [Threads -> Control]
    BY LabelFacts, IdleTyped DEF IInv, TypeOK, Control, Use
  <2> QED
    BY <2>1 DEF IInv, TypeOK, Use
<1>2. RegistryHeld'
  BY DEF IInv, TypeOK, RegistryHeld, Use
<1>3. MutexHeld'
  BY DEF IInv, TypeOK, MutexHeld, Use
<1>4. Owned' /\ AtRest' /\ Phases'
  BY DEF IInv, TypeOK, Owned, AtRest, Phases, Use
<1>5. Linked' /\ Memory'
  BY DEF IInv, TypeOK, Owned, Linked, Memory, Use
<1>6. Fresh'
  BY DEF IInv, TypeOK, Fresh, Use
<1>7. SqlIsContained'
  BY DEF IInv, TypeOK, SqlIsContained, Use
<1> QED
  BY <1>1, <1>2, <1>3, <1>4, <1>5, <1>6, <1>7 DEF IInv

\* native_enter takes the instance mutex.
LEMMA EnterLockInv ==
    ASSUME IInv, NEW t \in Threads,
           EnterLock(t)
    PROVE  IInv'
<1>1. TypeOK'
  <2>1. ctl' \in [Threads -> Control]
    BY SMTT(30), LabelFacts, IdleTyped DEF IInv, TypeOK, Control, EnterLock
  <2> QED
    BY <2>1 DEF IInv, TypeOK, EnterLock
<1>2. RegistryHeld'
  BY DEF IInv, TypeOK, RegistryHeld, EnterLock
<1>3. MutexHeld'
  BY DEF IInv, TypeOK, MutexHeld, Owned, Phases, Linked, EnterLock
<1>4. Owned' /\ AtRest' /\ Phases'
  BY DEF IInv, TypeOK, Owned, AtRest, Phases, EnterLock
<1>5. Linked' /\ Memory'
  BY DEF IInv, TypeOK, Linked, Memory, EnterLock
<1>6. Fresh'
  BY DEF IInv, TypeOK, Fresh, EnterLock
<1>7. SqlIsContained'
  BY DEF IInv, TypeOK, SqlIsContained, EnterLock
<1> QED
  BY <1>1, <1>2, <1>3, <1>4, <1>5, <1>6, <1>7 DEF IInv

\* native_enter finds the instance confined to this thread's value, or the thread
\* without one.
LEMMA AdmitInv ==
    ASSUME IInv, NEW t \in Threads,
           Admit(t)
    PROVE  IInv'
<1>1. TypeOK'
  <2>1. ctl' \in [Threads -> Control]
    BY GotoTyped, LabelFacts DEF IInv, TypeOK, Admit
  <2> QED
    BY <2>1 DEF IInv, TypeOK, Admit
<1>2. RegistryHeld'
  BY DEF IInv, TypeOK, RegistryHeld, Admit
<1>3. MutexHeld'
  BY DEF IInv, TypeOK, MutexHeld, Admit
<1>4. Owned' /\ AtRest' /\ Phases'
  BY DEF IInv, TypeOK, Owned, AtRest, Phases, Admit
<1>5. Linked' /\ Memory'
  BY DEF IInv, TypeOK, Linked, Memory, Admit
<1>6. Fresh'
  BY SMTT(30) DEF IInv, TypeOK, Fresh, Admit
<1>7. SqlIsContained'
  BY DEF IInv, TypeOK, MutexHeld, SqlIsContained, Admit, Admissible
<1> QED
  BY <1>1, <1>2, <1>3, <1>4, <1>5, <1>6, <1>7 DEF IInv

\* Any action of the thread that holds an instance mutex which releases it, leaves
\* the sandbox fields alone or only refuses, and stops the thread running there.
LEMMA ReleaseInv ==
    ASSUME IInv, NEW t \in Threads,
           ctl[t].pc \in {"enter_check", "running", "plain_held"},
           Moves(t, {"idle", "plain_lock", "close_registry"}),
           mutex' = [mutex EXCEPT ![hInst[ctl[t].h]] = None],
           inst' \in [Instances -> InstanceRecord],
           \A i \in Instances : inst'[i].handles = inst[i].handles,
           \A i \in Instances \ {hInst[ctl[t].h]} : inst'[i] = inst[i],
           db' \in [Dbs -> DbRecord],
           UNCHANGED <<registry, allocated, registered, owner, hInst, hDb,
                       disk, changes, basedir>>
    PROVE  IInv'
<1>1. TypeOK'
  BY DEF IInv, TypeOK, Moves
<1>2. RegistryHeld'
  BY DEF IInv, TypeOK, RegistryHeld, Moves
<1>3. MutexHeld'
  <2>1. mutex[hInst[ctl[t].h]] = t
    BY DEF IInv, TypeOK, MutexHeld
  <2>2. \A u \in Threads : ctl'[u].pc \in MutexLabels =>
          u # t /\ mutex'[hInst[ctl'[u].h]] = u
    BY <2>1 DEF IInv, TypeOK, MutexHeld, Moves
  <2>3. \A j \in Instances : mutex'[j] # None =>
          mutex'[j] = mutex[j] /\ mutex[j] # t
    BY <2>1 DEF IInv, MutexHeld, TypeOK
  <2> QED
    BY <2>2, <2>3 DEF IInv, MutexHeld, Moves, TypeOK
<1>4. Owned'
  BY DEF IInv, TypeOK, Owned, Moves
<1>5. AtRest'
  BY DEF IInv, TypeOK, Owned, AtRest, Phases, Moves
<1>6. Phases'
  BY DEF IInv, TypeOK, Phases, Moves
<1>7. Linked'
  BY SMTT(30) DEF IInv, TypeOK, RegistryHeld, Linked, Moves
<1>8. Memory'
  BY DEF IInv, TypeOK, Memory
<1>9. Fresh'
  BY DEF IInv, TypeOK, Fresh, Moves
<1>10. SqlIsContained'
  <2>1. mutex[hInst[ctl[t].h]] = t
    BY DEF IInv, MutexHeld
  <2>2. \A u \in Threads : ctl'[u].pc = "running" =>
          u # t /\ ctl'[u] = ctl[u]
    BY DEF Moves
  <2>3. \A u \in Threads \ {t} : ctl[u].pc = "running" =>
          /\ mutex[hInst[ctl[u].h]] = u
          /\ hInst[ctl[u].h] \in Instances
    BY DEF IInv, TypeOK, Owned, Phases, Linked, SqlIsContained
  <2>4. \A u \in Threads \ {t} : ctl[u].pc = "running" =>
          /\ mutex'[hInst[ctl[u].h]] = u
          /\ inst'[hInst[ctl[u].h]] = inst[hInst[ctl[u].h]]
    BY <2>1, <2>3 DEF IInv, TypeOK
  <2> QED
    BY <2>2, <2>3, <2>4 DEF IInv, SqlIsContained
<1> QED
  BY <1>1, <1>2, <1>3, <1>4, <1>5, <1>6, <1>7, <1>8, <1>9, <1>10 DEF IInv

\* native_enter refuses and unlocks.
LEMMA DenyInv ==
    ASSUME IInv, NEW t \in Threads, Deny(t)
    PROVE  IInv'
<1>1. Moves(t, {"idle", "plain_lock", "close_registry"})
  <2>1. CASE GotoIdle(t)
    BY <2>1, IdleTyped DEF IInv, TypeOK, Moves, Idle
  <2>2. CASE \E label \in {"plain_lock", "close_registry"} : Goto(t, label)
    BY SMTT(30), <2>2, LabelFacts DEF IInv, TypeOK, Moves, Control
  <2> QED
    BY <2>1, <2>2 DEF Deny, AfterRefusal
<1>2. /\ inst' \in [Instances -> InstanceRecord]
      /\ \A i \in Instances : inst'[i].handles = inst[i].handles
      /\ \A i \in Instances \ {hInst[ctl[t].h]} : inst'[i] = inst[i]
      /\ db' \in [Dbs -> DbRecord]
  BY DEF IInv, TypeOK, Deny
<1> QED
  BY <1>1, <1>2, ReleaseInv DEF Deny

\* The transition succeeds; the thread that made it is the only one that can be
\* running on the instance.
LEMMA SandboxInv ==
    ASSUME IInv, NEW t \in Threads,
           Sandbox(t)
    PROVE  IInv'
<1>1. TypeOK'
  <2>1. basedir[t] \in Opt(Basedirs)
    BY DEF IInv, TypeOK
  <2>2. ctl' \in [Threads -> Control]
    <3>1. ctl \in [Threads -> Control] /\ Goto(t, "running")
      BY DEF IInv, TypeOK, Sandbox
    <3> QED
      BY <3>1, GotoTyped, LabelFacts
  <2>3. inst' \in [Instances -> InstanceRecord]
    <3>1. inst \in [Instances -> InstanceRecord]
      BY DEF IInv, TypeOK
    <3>2. \A i \in Instances :
            [inst[i] EXCEPT !.disabled = TRUE, !.basedir = basedir[t]]
              \in InstanceRecord
      BY ZenonT(60), <2>1, <3>1 DEF InstanceRecord
    <3>3. \A i \in Instances :
            inst'[i] \in {inst[i], [inst[i] EXCEPT !.disabled = TRUE,
                                                   !.basedir = basedir[t]]}
      BY <3>1 DEF Sandbox
    <3>4. inst' = [i \in Instances |-> inst'[i]]
      BY <3>1 DEF Sandbox
    <3> QED
      BY ZenonT(60), <3>1, <3>2, <3>3, <3>4
  <2>4. db' \in [Dbs -> DbRecord]
    <3>1. db \in [Dbs -> DbRecord]
      BY DEF IInv, TypeOK
    <3>2. db' = [db EXCEPT ![hDb[ctl[t].h]].sealed = basedir[t]]
      BY DEF Sandbox
    <3> QED
      BY ZenonT(60), <2>1, <3>1, <3>2 DEF DbRecord
  <2> QED
    BY <2>2, <2>3, <2>4 DEF IInv, TypeOK, Sandbox
<1>2. RegistryHeld'
  BY DEF IInv, TypeOK, RegistryHeld, Sandbox
<1>3. MutexHeld'
  BY DEF IInv, TypeOK, MutexHeld, Sandbox
<1>4. Owned' /\ AtRest' /\ Phases'
  BY DEF IInv, TypeOK, Owned, AtRest, Phases, Sandbox
<1>5. Linked' /\ Memory'
  <2>1. \A j \in Instances : inst'[j].handles = inst[j].handles
    BY DEF IInv, TypeOK, InstanceRecord, Sandbox
  <2>2. \A u \in Threads : ctl'[u].h = ctl[u].h
    BY DEF IInv, TypeOK, Control, Sandbox
  <2>3. UNCHANGED <<registry, registered, allocated, hInst, hDb>>
    BY DEF Sandbox
  <2>4. \A k \in Handles : hDb[k] # None => hInst[k] \in Instances
    BY DEF IInv, TypeOK, Linked
  <2> QED
    BY <2>1, <2>2, <2>3, <2>4 DEF IInv, TypeOK, Linked, Memory
<1>6. Fresh'
  BY DEF IInv, TypeOK, Fresh, Sandbox
<1>7. SqlIsContained'
  <2>1. /\ mutex[hInst[ctl[t].h]] = t
        /\ hInst[ctl[t].h] \in Instances
    BY DEF IInv, TypeOK, MutexHeld, Owned, Phases, Linked, Sandbox
  <2>2. \A u \in Threads \ {t} : ctl[u].pc = "running" =>
          mutex[hInst[ctl[u].h]] = u
    BY DEF IInv, SqlIsContained
  <2>3. \A u \in Threads \ {t} : ctl[u].pc = "running" =>
          inst'[hInst[ctl[u].h]] = inst[hInst[ctl[u].h]]
    <3>1. \A j \in Instances \ {hInst[ctl[t].h]} : inst'[j] = inst[j]
      BY DEF IInv, TypeOK, Sandbox
    <3>2. \A u \in Threads : ctl[u].pc = "running" =>
            hInst[ctl[u].h] \in Instances
      BY DEF IInv, TypeOK, Owned, Phases, Linked
    <3> QED
      BY <2>1, <2>2, <3>1, <3>2
  <2>4. \A u \in Threads \ {t} : ctl'[u] = ctl[u]
    BY DEF IInv, TypeOK, Sandbox
  <2>5. ctl'[t].h = ctl[t].h
    BY DEF IInv, TypeOK, Control, Sandbox
  <2>6. LET i == hInst[ctl[t].h]
        IN  ~inst'[i].refused /\ inst'[i].disabled
              /\ inst'[i].basedir = basedir[t]
    <3>1. inst[hInst[ctl[t].h]] \in InstanceRecord
      BY <2>1 DEF IInv, TypeOK
    <3>2. inst'[hInst[ctl[t].h]] = [inst[hInst[ctl[t].h]] EXCEPT
                                     !.disabled = TRUE, !.basedir = basedir[t]]
      BY <2>1 DEF IInv, TypeOK, Sandbox
    <3>3. ~inst[hInst[ctl[t].h]].refused
      BY DEF Sandbox, NeedsTransition
    <3> QED
      BY <3>1, <3>2, <3>3 DEF InstanceRecord
  <2>7. UNCHANGED <<mutex, hInst, basedir>>
    BY DEF Sandbox
  <2> QED
    BY <2>1, <2>2, <2>3, <2>4, <2>5, <2>6, <2>7 DEF IInv, SqlIsContained
<1> QED
  BY <1>1, <1>2, <1>3, <1>4, <1>5, <1>6, <1>7 DEF IInv

\* The transition fails or is interrupted by a bailout, which refuses the instance
\* while no other thread can be running on it.
LEMMA SandboxFailsInv ==
    ASSUME IInv, NEW t \in Threads, SandboxFails(t)
    PROVE  IInv'
<1>1. Moves(t, {"idle", "plain_lock", "close_registry"})
  <2>1. CASE GotoIdle(t)
    BY <2>1, IdleTyped DEF IInv, TypeOK, Moves, Idle
  <2>2. CASE \E label \in {"plain_lock", "close_registry"} : Goto(t, label)
    BY <2>2, LabelFacts DEF IInv, TypeOK, Moves, Control
  <2> QED
    BY <2>1, <2>2 DEF SandboxFails, AfterRefusal, AfterBailout
<1> DEFINE i == hInst[ctl[t].h]
<1>2. inst \in [Instances -> InstanceRecord]
  BY DEF IInv, TypeOK
<1>3. PICK x \in BOOLEAN :
        inst' = [inst EXCEPT ![i].refused = TRUE, ![i].disabled = @ \/ x]
  <2>1. CASE inst' = [inst EXCEPT ![i].refused = TRUE]
    <3>1. inst' = [inst EXCEPT ![i].refused = TRUE,
                               ![i].disabled = @ \/ FALSE]
      BY ZenonT(60), <1>2, <2>1 DEF InstanceRecord
    <3> QED
      BY ZenonT(60), <3>1
  <2>2. CASE inst' = [inst EXCEPT ![i].refused = TRUE, ![i].disabled = TRUE]
    <3>1. inst' = [inst EXCEPT ![i].refused = TRUE, ![i].disabled = @ \/ TRUE]
      BY <1>2, <2>2
    <3> QED
      BY <3>1
  <2> QED
    BY ZenonT(60), <2>1, <2>2 DEF SandboxFails
<1>4. inst' \in [Instances -> InstanceRecord]
  <2>1. \A j \in Instances :
          [inst[j] EXCEPT !.refused = TRUE, !.disabled = @ \/ x]
            \in InstanceRecord
    BY ZenonT(60), <1>2 DEF InstanceRecord
  <2>2. \A j \in Instances :
          inst'[j] \in {inst[j], [inst[j] EXCEPT !.refused = TRUE,
                                                 !.disabled = @ \/ x]}
    BY <1>2, <1>3
  <2> QED
    BY <1>2, <1>3, <2>1, <2>2
<1>5. /\ \A j \in Instances : inst'[j].handles = inst[j].handles
      /\ \A j \in Instances \ {i} : inst'[j] = inst[j]
  BY ZenonT(60), <1>2, <1>3 DEF InstanceRecord
<1>6. db' \in [Dbs -> DbRecord]
  <2>1. db' \in {db, [db EXCEPT ![hDb[ctl[t].h]].sealed = basedir[t]]}
    BY DEF SandboxFails
  <2>2. db \in [Dbs -> DbRecord] /\ basedir[t] \in Opt(Basedirs)
    BY DEF IInv, TypeOK
  <2> QED
    BY <2>1, <2>2 DEF DbRecord
<1> QED
  BY ZenonT(60), <1>1, <1>4, <1>5, <1>6, ReleaseInv DEF SandboxFails

\* A native call returns and the instance is unlocked.
LEMMA LeaveInv ==
    ASSUME IInv, NEW t \in Threads, Leave(t)
    PROVE  IInv'
<1>1. Moves(t, {"idle", "plain_lock", "close_registry"})
  <2>1. CASE GotoIdle(t)
    BY <2>1, IdleTyped DEF IInv, TypeOK, Moves, Idle
  <2>2. CASE \E label \in {"plain_lock", "close_registry"} : Goto(t, label)
    BY <2>2, LabelFacts DEF IInv, TypeOK, Moves, Control
  <2> QED
    BY <2>1, <2>2 DEF Leave
<1>2. /\ inst' \in [Instances -> InstanceRecord]
      /\ \A i \in Instances : inst'[i].handles = inst[i].handles
      /\ \A i \in Instances \ {hInst[ctl[t].h]} : inst'[i] = inst[i]
      /\ db' \in [Dbs -> DbRecord]
  BY DEF IInv, TypeOK, Leave
<1> QED
  BY <1>1, <1>2, ReleaseInv DEF Leave

\* A refused caller takes the instance mutex to read the error.
LEMMA PlainLockInv ==
    ASSUME IInv, NEW t \in Threads,
           PlainLock(t)
    PROVE  IInv'
<1>1. TypeOK'
  <2>1. ctl' \in [Threads -> Control]
    BY SMTT(30), LabelFacts, IdleTyped DEF IInv, TypeOK, Control, PlainLock
  <2> QED
    BY <2>1 DEF IInv, TypeOK, PlainLock
<1>2. RegistryHeld'
  BY DEF IInv, TypeOK, RegistryHeld, PlainLock
<1>3. MutexHeld'
  BY DEF IInv, TypeOK, MutexHeld, Owned, Phases, Linked, PlainLock
<1>4. Owned' /\ AtRest' /\ Phases'
  BY DEF IInv, TypeOK, Owned, AtRest, Phases, PlainLock
<1>5. Linked' /\ Memory'
  BY DEF IInv, TypeOK, Linked, Memory, PlainLock
<1>6. Fresh'
  BY DEF IInv, TypeOK, Fresh, PlainLock
<1>7. SqlIsContained'
  BY DEF IInv, TypeOK, SqlIsContained, PlainLock
<1> QED
  BY <1>1, <1>2, <1>3, <1>4, <1>5, <1>6, <1>7 DEF IInv

\* A refused caller releases the instance mutex.
LEMMA PlainUnlockInv ==
    ASSUME IInv, NEW t \in Threads, PlainUnlock(t)
    PROVE  IInv'
<1>1. Moves(t, {"idle", "plain_lock", "close_registry"})
  <2>1. CASE GotoIdle(t)
    BY <2>1, IdleTyped DEF IInv, TypeOK, Moves, Idle
  <2>2. CASE \E label \in {"plain_lock", "close_registry"} : Goto(t, label)
    BY <2>2, LabelFacts DEF IInv, TypeOK, Moves, Control
  <2> QED
    BY <2>1, <2>2 DEF PlainUnlock
<1>2. /\ inst' \in [Instances -> InstanceRecord]
      /\ \A i \in Instances : inst'[i].handles = inst[i].handles
      /\ \A i \in Instances \ {hInst[ctl[t].h]} : inst'[i] = inst[i]
      /\ db' \in [Dbs -> DbRecord]
  BY DEF IInv, TypeOK, PlainUnlock
<1> QED
  BY <1>1, <1>2, ReleaseInv DEF PlainUnlock

\* The closer starts on a handle of its own thread.
LEMMA CloseInv ==
    ASSUME IInv, NEW t \in Threads,
           NEW h \in Handles,
           Close(t, h)
    PROVE  IInv'
<1>1. TypeOK'
  <2>1. PICK label \in {"close_registry", "enter_lock"} :
          ctl' = [ctl EXCEPT ![t] = [Idle EXCEPT !.pc = label, !.h = h,
                                                 !.goal = "flush"]]
    BY DEF Close
  <2>2. [Idle EXCEPT !.pc = label, !.h = h, !.goal = "flush"] \in Control
    BY LabelFacts, IdleTyped DEF Control
  <2> QED
    BY <2>1, <2>2 DEF IInv, TypeOK, Close
<1>2. RegistryHeld'
  BY DEF IInv, TypeOK, RegistryHeld, Close
<1>3. MutexHeld'
  BY DEF IInv, TypeOK, MutexHeld, Close
<1>4. Owned' /\ AtRest' /\ Phases'
  BY DEF IInv, TypeOK, Owned, AtRest, Phases, Close
<1>5. Linked' /\ Memory'
  BY DEF IInv, TypeOK, Owned, Linked, Memory, Close
<1>6. Fresh'
  BY DEF IInv, TypeOK, Fresh, Close
<1>7. SqlIsContained'
  BY DEF IInv, TypeOK, SqlIsContained, Close
<1> QED
  BY <1>1, <1>2, <1>3, <1>4, <1>5, <1>6, <1>7 DEF IInv

\* handle_closer takes the registry mutex; a handle whose open failed has no
\* instance and goes straight to the end.
LEMMA CloseRegistryInv ==
    ASSUME IInv, NEW t \in Threads,
           CloseRegistry(t)
    PROVE  IInv'
<1>1. TypeOK'
  <2>1. PICK label \in {"close_finish", "close_instance"} : Goto(t, label)
    BY DEF CloseRegistry
  <2>2. label \in Labels
    BY <2>1, LabelFacts
  <2>3. ctl' \in [Threads -> Control]
    BY <2>1, <2>2, GotoTyped DEF IInv, TypeOK
  <2> QED
    BY <2>3 DEF IInv, TypeOK, CloseRegistry
<1>2. RegistryHeld'
  BY DEF IInv, TypeOK, RegistryHeld, CloseRegistry
<1>3. MutexHeld'
  BY DEF IInv, TypeOK, MutexHeld, CloseRegistry
<1>4. Owned' /\ AtRest' /\ Phases'
  BY DEF IInv, TypeOK, Owned, AtRest, Phases, Linked, CloseRegistry
<1>5. Linked' /\ Memory'
  BY DEF IInv, TypeOK, Linked, Memory, CloseRegistry
<1>6. Fresh'
  BY DEF IInv, TypeOK, Fresh, CloseRegistry
<1>7. SqlIsContained'
  BY DEF IInv, TypeOK, SqlIsContained, CloseRegistry
<1> QED
  BY <1>1, <1>2, <1>3, <1>4, <1>5, <1>6, <1>7 DEF IInv

\* native_cleanup_enter takes the instance mutex inside the registry mutex.
LEMMA CloseLockInv ==
    ASSUME IInv, NEW t \in Threads,
           CloseLock(t)
    PROVE  IInv'
<1>1. TypeOK'
  <2>1. ctl' \in [Threads -> Control]
    BY SMTT(30), LabelFacts, IdleTyped DEF IInv, TypeOK, Control, CloseLock
  <2> QED
    BY <2>1 DEF IInv, TypeOK, CloseLock
<1>2. RegistryHeld'
  BY DEF IInv, TypeOK, RegistryHeld, CloseLock
<1>3. MutexHeld'
  BY DEF IInv, TypeOK, MutexHeld, Owned, Phases, CloseLock
<1>4. Owned' /\ AtRest' /\ Phases'
  BY DEF IInv, TypeOK, Owned, AtRest, Phases, CloseLock
<1>5. Linked' /\ Memory'
  BY DEF IInv, TypeOK, Linked, Memory, CloseLock
<1>6. Fresh'
  BY DEF IInv, TypeOK, Fresh, CloseLock
<1>7. SqlIsContained'
  BY SMTT(30) DEF IInv, TypeOK, SqlIsContained, CloseLock
<1> QED
  BY <1>1, <1>2, <1>3, <1>4, <1>5, <1>6, <1>7 DEF IInv

\* handle_closer disconnects and unlinks its handle; the other members of the
\* instance stay linked.
LEMMA CloseNativeInv ==
    ASSUME IInv, NEW t \in Threads,
           CloseNative(t)
    PROVE  IInv'
<1>1. TypeOK'
  <2>1. ctl' \in [Threads -> Control]
    <3>1. ctl \in [Threads -> Control]
      BY DEF IInv, TypeOK
    <3>2. Goto(t, "close_unlock")
      BY DEF CloseNative
    <3> QED
      BY <3>1, <3>2, GotoTyped, LabelFacts
  <2>2. PICK refuse \in BOOLEAN :
          inst' = [inst EXCEPT ![hInst[ctl[t].h]].handles = @ \ {ctl[t].h},
                               ![hInst[ctl[t].h]].refused = @ \/ refuse]
    BY DEF CloseNative
  <2>3. inst \in [Instances -> InstanceRecord]
    BY DEF IInv, TypeOK
  <2>4. inst' \in [Instances -> InstanceRecord]
    <3>1. \A i \in Instances :
            [inst[i] EXCEPT !.handles = @ \ {ctl[t].h}, !.refused = @ \/ refuse]
              \in InstanceRecord
      BY ZenonT(60), <2>3 DEF InstanceRecord
    <3>2. \A i \in Instances :
            inst'[i] \in {inst[i], [inst[i] EXCEPT !.handles = @ \ {ctl[t].h},
                                                   !.refused = @ \/ refuse]}
      BY <2>2, <2>3
    <3> QED
      BY <2>2, <2>3, <3>1, <3>2
  <2>5. NoDb \in DbRecord
    BY DEF NoDb, DbRecord
  <2>6. db' \in [Dbs -> DbRecord]
    BY <2>5 DEF IInv, TypeOK, CloseNative
  <2> QED
    BY <2>1, <2>4, <2>6 DEF IInv, TypeOK, CloseNative
<1>2. RegistryHeld'
  BY DEF IInv, TypeOK, RegistryHeld, CloseNative
<1>3. MutexHeld'
  BY DEF IInv, TypeOK, MutexHeld, CloseNative
<1>4. Owned' /\ AtRest' /\ Phases'
  BY DEF IInv, TypeOK, Owned, AtRest, Phases, CloseNative
<1>5. Linked' /\ Memory'
  <2>1. \A i \in Instances : \A k \in Handles :
          k # ctl[t].h /\ k \in inst[i].handles => k \in inst'[i].handles
    <3>1. PICK refuse \in BOOLEAN :
            inst' = [inst EXCEPT ![hInst[ctl[t].h]].handles = @ \ {ctl[t].h},
                                 ![hInst[ctl[t].h]].refused = @ \/ refuse]
      BY DEF CloseNative
    <3> QED
      BY SMTT(30), <3>1 DEF IInv, TypeOK, InstanceRecord
  <2>2. hDb' = [hDb EXCEPT ![ctl[t].h] = None]
    BY DEF CloseNative
  <2>3. registry = t /\ ctl'[t].h = ctl[t].h
    BY SMTT(30) DEF IInv, TypeOK, Control, RegistryHeld, CloseNative
  <2>4. UNCHANGED <<registry, allocated, registered, hInst>>
    BY DEF CloseNative
  <2>5. \A k \in Handles : hDb[k] # None => hInst[k] \in Instances
    BY DEF IInv, TypeOK, Linked
  <2>6. Memory'
    BY <2>4 DEF IInv, Memory
  <2> QED
    BY <2>1, <2>2, <2>3, <2>4, <2>5, <2>6 DEF IInv, TypeOK, Linked
<1>6. Fresh'
  BY DEF IInv, TypeOK, Owned, Fresh, CloseNative
<1>7. SqlIsContained'
  <2>1. \A u \in Threads : ctl'[u].pc = "running" =>
          u # t /\ ctl'[u] = ctl[u]
    BY DEF IInv, TypeOK, CloseNative
  <2>2. mutex[hInst[ctl[t].h]] = t
    BY SMTT(30) DEF IInv, TypeOK, MutexHeld, CloseNative
  <2>3. \A j \in Instances \ {hInst[ctl[t].h]} : inst'[j] = inst[j]
    BY SMTT(30) DEF IInv, TypeOK, CloseNative
  <2>4. \A u \in Threads : ctl[u].pc = "running" =>
          hInst[ctl[u].h] \in Instances
    BY DEF IInv, TypeOK, Owned, Phases, Linked
  <2>5. UNCHANGED <<mutex, hInst, basedir>>
    BY DEF CloseNative
  <2> QED
    BY <2>1, <2>2, <2>3, <2>4, <2>5 DEF IInv, TypeOK, SqlIsContained
<1> QED
  BY <1>1, <1>2, <1>3, <1>4, <1>5, <1>6, <1>7 DEF IInv

\* handle_closer releases the instance mutex.
LEMMA CloseUnlockInv ==
    ASSUME IInv, NEW t \in Threads,
           CloseUnlock(t)
    PROVE  IInv'
<1>1. TypeOK'
  <2>1. ctl' \in [Threads -> Control]
    BY SMTT(30), LabelFacts, IdleTyped DEF IInv, TypeOK, Control, CloseUnlock
  <2> QED
    BY <2>1 DEF IInv, TypeOK, CloseUnlock
<1>2. RegistryHeld'
  BY DEF IInv, TypeOK, RegistryHeld, CloseUnlock
<1>3. MutexHeld'
  BY DEF IInv, TypeOK, MutexHeld, CloseUnlock
<1>4. Owned' /\ AtRest' /\ Phases'
  BY DEF IInv, TypeOK, Owned, AtRest, Phases, CloseUnlock
<1>5. Linked' /\ Memory'
  BY DEF IInv, TypeOK, Linked, Memory, CloseUnlock
<1>6. Fresh'
  BY DEF IInv, TypeOK, Fresh, CloseUnlock
<1>7. SqlIsContained'
  BY DEF IInv, TypeOK, SqlIsContained, CloseUnlock
<1> QED
  BY <1>1, <1>2, <1>3, <1>4, <1>5, <1>6, <1>7 DEF IInv

\* handle_closer frees the record when its member list is empty: then no connected
\* handle points at it, and under the registry mutex no open is about to join it.
LEMMA CloseFinishInv ==
    ASSUME IInv, NEW t \in Threads,
           CloseFinish(t)
    PROVE  IInv'
<1>1. TypeOK'
  <2>1. ctl' \in [Threads -> Control]
    BY LabelFacts, IdleTyped DEF IInv, TypeOK, CloseFinish
  <2> QED
    BY <2>1 DEF IInv, TypeOK, InstanceRecord, CloseFinish, Free, Blank
<1>2. RegistryHeld'
  BY DEF IInv, TypeOK, RegistryHeld, CloseFinish, Idle
<1>3. MutexHeld'
  BY DEF IInv, TypeOK, MutexHeld, Owned, CloseFinish, Idle
<1>4. Owned' /\ AtRest' /\ Phases'
  BY DEF IInv, TypeOK, Owned, AtRest, Phases, CloseFinish, Idle
<1>5. Linked' /\ Memory'
  <2>1. hInst' = [hInst EXCEPT ![ctl[t].h] = None] /\ registry = t
    BY DEF CloseFinish
  <2>2. hDb' = hDb /\ hDb[ctl[t].h] = None
    BY DEF IInv, Phases, CloseFinish
  <2>3. \A i \in registered : inst[i].handles # {} =>
          i \in registered' /\ inst'[i] = inst[i]
    BY DEF IInv, TypeOK, CloseFinish, Abandoned, Free
  <2>4. \A i \in Instances : i \in allocated /\ inst[i].handles # {} =>
          i \in allocated'
    BY DEF CloseFinish, Abandoned, Free
  <2>5. \A k \in Handles : hInst'[k] # None =>
          /\ k # ctl[t].h /\ hInst'[k] = hInst[k] /\ hDb[k] # None
    BY <2>1 DEF IInv, TypeOK, Linked
  <2>6. Linked'
    <3>1. \A k \in Handles : hDb[k] # None =>
            hInst'[k] = hInst[k] /\ hInst[k] \in registered
              /\ k \in inst[hInst[k]].handles
      BY <2>1, <2>2 DEF IInv, TypeOK, Linked
    <3> QED
      BY <2>2, <2>3, <2>5, <3>1 DEF Linked
  <2>7. registered' \subseteq allocated'
    <3>1. registered' = registered \ Abandoned(hInst[ctl[t].h])
      BY DEF CloseFinish
    <3>2. allocated' = allocated \ Abandoned(hInst[ctl[t].h])
      BY DEF CloseFinish, Free
    <3> QED
      BY <3>1, <3>2 DEF IInv, Memory
  <2>8. \A k \in Handles : hInst'[k] # None => hInst'[k] \in allocated'
    <3>1. \A k \in Handles : hInst'[k] # None =>
            /\ hInst'[k] \in registered /\ hInst'[k] \in Instances
            /\ inst[hInst'[k]].handles # {}
      BY <2>5 DEF IInv, TypeOK, Linked
    <3>2. registered \subseteq allocated
      BY DEF IInv, Memory
    <3> QED
      BY <2>4, <3>1, <3>2
  <2> QED
    BY <2>6, <2>7, <2>8 DEF Memory
<1>6. Fresh'
  BY DEF IInv, TypeOK, Fresh, CloseFinish, Idle
<1>7. SqlIsContained'
  <2>1. \A u \in Threads : ctl'[u].pc = "running" =>
          /\ u # t /\ ctl'[u] = ctl[u]
          /\ hInst'[ctl[u].h] = hInst[ctl[u].h]
    BY DEF IInv, TypeOK, Owned, Idle, CloseFinish
  <2>2. \A u \in Threads : ctl[u].pc = "running" =>
          /\ hInst[ctl[u].h] \in Instances
          /\ inst[hInst[ctl[u].h]].handles # {}
    BY DEF IInv, TypeOK, Owned, Phases, Linked
  <2>3. \A j \in Instances : inst[j].handles # {} => inst'[j] = inst[j]
    BY DEF CloseFinish, Free, Abandoned
  <2> QED
    BY <2>1, <2>2, <2>3 DEF IInv, TypeOK, SqlIsContained, CloseFinish
<1> QED
  BY <1>1, <1>2, <1>3, <1>4, <1>5, <1>6, <1>7 DEF IInv

\* open_basedir changes only while its thread runs no driver code.
LEMMA SetBasedirInv ==
    ASSUME IInv, NEW t \in Threads,
           NEW b \in Opt(Basedirs),
           SetBasedir(t, b)
    PROVE  IInv'
<1>1. TypeOK'
  <2>1. ctl' \in [Threads -> Control]
    BY LabelFacts, IdleTyped DEF IInv, TypeOK, SetBasedir
  <2> QED
    BY <2>1 DEF IInv, TypeOK, SetBasedir
<1>2. RegistryHeld'
  BY DEF IInv, TypeOK, RegistryHeld, SetBasedir
<1>3. MutexHeld'
  BY DEF IInv, TypeOK, MutexHeld, SetBasedir
<1>4. Owned' /\ AtRest' /\ Phases'
  BY DEF IInv, TypeOK, Owned, AtRest, Phases, SetBasedir
<1>5. Linked' /\ Memory'
  BY DEF IInv, TypeOK, Linked, Memory, SetBasedir
<1>6. Fresh'
  BY DEF IInv, TypeOK, Fresh, SetBasedir
<1>7. SqlIsContained'
  BY DEF IInv, TypeOK, SqlIsContained, SetBasedir
<1> QED
  BY <1>1, <1>2, <1>3, <1>4, <1>5, <1>6, <1>7 DEF IInv

\* Other processes change files, never the state of the driver.
LEMMA ChangeFileInv ==
    ASSUME IInv, NEW p \in Paths, NEW f \in Opt(Files), ChangeFile(p, f)
    PROVE  IInv'
<1>1. TypeOK'
  BY SMTT(30), BoundAssumption DEF IInv, TypeOK, ChangeFile
<1>2. /\ RegistryHeld' /\ MutexHeld' /\ Owned' /\ AtRest' /\ Phases'
      /\ Linked' /\ Memory' /\ Fresh' /\ SqlIsContained'
  BY DEF IInv, TypeOK, RegistryHeld, MutexHeld, Owned, AtRest, Phases, Linked,
     Memory, Fresh, SqlIsContained, ChangeFile
<1> QED
  BY <1>1, <1>2 DEF IInv

\* minit leaves an empty registry, with no mutex held and no handle open.
LEMMA InitInv == Init => IInv
<1> SUFFICES ASSUME Init PROVE IInv
  OBVIOUS
<1>1. TypeOK
  BY IdleTyped, BoundAssumption DEF Init, TypeOK, InstanceRecord, DbRecord,
     Blank, NoDb
<1>2. /\ RegistryHeld /\ MutexHeld /\ Owned /\ AtRest /\ Phases
      /\ Linked /\ Memory /\ Fresh /\ SqlIsContained
  BY DEF Init, Idle, RegistryHeld, MutexHeld, Owned, AtRest, Phases, Linked,
     Memory, Fresh, SqlIsContained
<1> QED
  BY <1>1, <1>2 DEF IInv

\* Every step of a thread or of another process preserves the invariant.
LEMMA NextInv == IInv /\ [Next]_vars => IInv'
<1> SUFFICES ASSUME IInv, [Next]_vars PROVE IInv'
  OBVIOUS
<1>1. CASE \E t \in Threads : Begin(t)
  BY <1>1, OpenInv, UseInv, CloseInv, SetBasedirInv DEF Begin
<1>2. CASE \E t \in Threads : Acquire(t)
  BY <1>2, OpenShareInv, OpenCreateInv, OpenLookupFailsInv, OpenLockInv,
     EnterLockInv, PlainLockInv, CloseRegistryInv, CloseLockInv DEF Acquire
<1>3. CASE \E t \in Threads : Proceed(t)
  BY <1>3, OpenLinkedInv, OpenNativeFailsInv, OpenUnlockInv, OpenSucceededInv,
     OpenFailedInv, AdmitInv, DenyInv, SandboxInv, SandboxFailsInv, LeaveInv,
     PlainUnlockInv, CloseNativeInv, CloseUnlockInv, CloseFinishInv DEF
     Proceed
<1>4. CASE \E p \in Paths, f \in Opt(Files) : ChangeFile(p, f)
  BY SMTT(30), <1>4, ChangeFileInv
<1>5. CASE UNCHANGED vars
  BY <1>5 DEF vars, IInv, TypeOK, RegistryHeld, MutexHeld, Owned, AtRest,
     Phases, Linked, Memory, Fresh, SqlIsContained
<1> QED
  BY <1>1, <1>2, <1>3, <1>4, <1>5 DEF Next

-----------------------------------------------------------------------------

\* IInv holds in every reachable state, whatever the threads and the other
\* processes do.
THEOREM Invariance == Spec => []IInv
BY InitInv, NextInv, PTL DEF Spec

\* Every field of a record, every local of a thread and every lock keeps its type:
\* a mutex is only ever held by a thread, a handle only ever points at an instance.
THEOREM TypeCorrect == Spec => []TypeOK
<1>1. IInv => TypeOK
  BY DEF IInv
<1> QED
  BY <1>1, Invariance, PTL

\* SQL runs only under the mutex of its instance, on an instance that is not
\* refused, and for a thread with an open_basedir on one confined to that value:
\* native_enter returns in no other state, and none is reached until it unlocks.
THEOREM Containment == Spec => []SqlIsContained
<1>1. IInv => SqlIsContained
  BY DEF IInv
<1> QED
  BY <1>1, Invariance, PTL

\* A thread involved with an instance works on a handle that points at it, and
\* such an instance is allocated.
LEMMA InvNoUseAfterFree == IInv => NoUseAfterFree
<1> SUFFICES ASSUME IInv PROVE NoUseAfterFree
  OBVIOUS
<1>1. \A t \in Threads : ctl[t].h # None => ctl[t].h \in Handles
  BY DEF IInv, TypeOK, Owned
<1>2. ASSUME NEW i \in Instances \ allocated
      PROVE  Involved(i) = {} /\ mutex[i] = None
  <2>1. Involved(i) = {}
    BY <1>1 DEF IInv, TypeOK, Memory, Involved
  <2>2. mutex[i] = None
    <3> SUFFICES ASSUME mutex[i] # None PROVE FALSE
      OBVIOUS
    <3>1. /\ mutex[i] \in Threads
          /\ ctl[mutex[i]].pc \in MutexLabels /\ hInst[ctl[mutex[i]].h] = i
      BY DEF IInv, TypeOK, MutexHeld
    <3>2. ctl[mutex[i]].h \in Handles
      BY <3>1 DEF IInv, TypeOK, Owned
    <3> QED
      BY <3>1, <3>2 DEF IInv, TypeOK, Memory
  <2> QED
    BY <2>1, <2>2
<1>3. \A h \in Connected : hInst[h] \in allocated
  BY DEF IInv, TypeOK, Linked, Memory, Connected
<1> QED
  BY <1>2, <1>3 DEF IInv, TypeOK, Memory, NoUseAfterFree

\* No thread waits for or holds the mutex of a freed instance, and no connected
\* handle points at one: handle_closer frees a record only when its last handle
\* has left, and open_instance only one that nobody else has seen.
THEOREM NoDanglingInstance == Spec => []NoUseAfterFree
BY InvNoUseAfterFree, Invariance, PTL

\* No action takes back a refusal, a recorded value or a seal; freeing a record is
\* the one way to lose them.
LEMMA ContainmentStep == IInv /\ [Next]_vars => KeepsContainment
<1> SUFFICES ASSUME IInv, [Next]_vars PROVE KeepsContainment
  OBVIOUS
<1> USE DEF KeepsContainment, Connected
<1>1. CASE UNCHANGED <<inst, hDb, db>>
  BY <1>1
<1>2. ASSUME NEW t \in Threads, OpenCreate(t)
      PROVE  KeepsContainment
  BY <1>2 DEF OpenCreate
<1>3. ASSUME NEW t \in Threads, OpenLinked(t)
      PROVE  KeepsContainment
  <2>1. \A i \in Instances : /\ inst'[i].refused = inst[i].refused
                             /\ inst'[i].disabled = inst[i].disabled
                             /\ inst'[i].basedir = inst[i].basedir
    BY <1>3 DEF OpenLinked, Joined
  <2>2. \A c \in LiveDbs : db'[c] = db[c]
    <3>1. PICK d \in Dbs : \/ NativeShared(ctl[t].path, d)
                           \/ NativeOpened(ctl[t].path, d)
      BY <1>3 DEF OpenLinked
    <3>2. CASE NativeShared(ctl[t].path, d)
      BY <3>2 DEF NativeShared
    <3>3. CASE NativeOpened(ctl[t].path, d)
      <4>1. d \notin LiveDbs
        BY <3>3 DEF NativeOpened
      <4>2. \A c \in Dbs \ {d} : db'[c] = db[c]
        BY <3>3 DEF NativeOpened
      <4> QED
        BY <4>1, <4>2 DEF IInv, TypeOK, LiveDbs
    <3> QED
      BY <3>1, <3>2, <3>3
  <2> QED
    BY <2>1, <2>2 DEF IInv, TypeOK, LiveDbs
<1>4. ASSUME NEW t \in Threads, OpenFailed(t)
      PROVE  KeepsContainment
  BY <1>4 DEF IInv, TypeOK, OpenFailed, Free
<1>5. ASSUME NEW t \in Threads, Sandbox(t)
      PROVE  KeepsContainment
  BY <1>5 DEF IInv, TypeOK, Sandbox, NeedsTransition
<1>6. ASSUME NEW t \in Threads, SandboxFails(t)
      PROVE  KeepsContainment
  BY ZenonT(60), <1>6 DEF IInv, TypeOK, InstanceRecord, DbRecord, SandboxFails,
     NeedsTransition
<1>7. ASSUME NEW t \in Threads, CloseNative(t)
      PROVE  KeepsContainment
  <2>1. \A i \in Instances :
          /\ inst[i].refused => inst'[i].refused
          /\ inst'[i].disabled = inst[i].disabled
          /\ inst'[i].basedir = inst[i].basedir
    <3>1. PICK refuse \in BOOLEAN :
            inst' = [inst EXCEPT ![hInst[ctl[t].h]].handles = @ \ {ctl[t].h},
                                 ![hInst[ctl[t].h]].refused = @ \/ refuse]
      BY <1>7 DEF CloseNative
    <3>2. inst \in [Instances -> InstanceRecord]
      BY DEF IInv, TypeOK
    <3>3. \A i \in Instances :
            inst'[i] = IF i = hInst[ctl[t].h]
                       THEN [inst[i] EXCEPT !.handles = @ \ {ctl[t].h},
                                            !.refused = @ \/ refuse]
                       ELSE inst[i]
      BY <3>1, <3>2
    <3>4. \A r \in InstanceRecord : \A H : \A x \in BOOLEAN :
            LET q == [r EXCEPT !.handles = H, !.refused = x]
            IN  q.refused = x /\ q.disabled = r.disabled
                  /\ q.basedir = r.basedir
      BY DEF InstanceRecord
    <3>5. \A i \in Instances : inst[i] \in InstanceRecord
      BY <3>2
    <3>6. \A i \in Instances : inst[i].refused \in BOOLEAN
      BY <3>5 DEF InstanceRecord
    <3> SUFFICES ASSUME NEW i \in Instances
                 PROVE  /\ inst[i].refused => inst'[i].refused
                        /\ inst'[i].disabled = inst[i].disabled
                        /\ inst'[i].basedir = inst[i].basedir
      OBVIOUS
    <3>7. CASE i # hInst[ctl[t].h]
      BY <3>3, <3>7
    <3>8. CASE i = hInst[ctl[t].h]
      <4> DEFINE H == inst[i].handles \ {ctl[t].h}
                 x == inst[i].refused \/ refuse
      <4>1. inst'[i] = [inst[i] EXCEPT !.handles = H, !.refused = x]
        BY <3>3, <3>8
      <4>2. x \in BOOLEAN /\ (inst[i].refused => x)
        BY <3>6
      <4> HIDE DEF H, x
      <4> QED
        BY <3>4, <3>5, <4>1, <4>2
    <3> QED
      BY <3>7, <3>8
  <2>2. \A h \in Connected : hDb'[h] = hDb[h] => db'[hDb[h]] = db[hDb[h]]
    BY <1>7 DEF IInv, TypeOK, CloseNative
  <2> QED
    BY <2>1, <2>2 DEF IInv, TypeOK
<1>8. ASSUME NEW t \in Threads, CloseFinish(t)
      PROVE  KeepsContainment
  BY <1>8 DEF IInv, TypeOK, CloseFinish, Free
<1>9. CASE \E t \in Threads : Begin(t)
  BY ZenonT(60), <1>9, <1>1 DEF Begin, Open, Use, Close, SetBasedir
<1>10. CASE \E t \in Threads : Acquire(t)
  BY ZenonT(60), <1>10, <1>1, <1>2 DEF Acquire, OpenShare, OpenLookupFails, OpenLock,
     EnterLock, PlainLock, CloseRegistry, CloseLock
<1>11. CASE \E t \in Threads : Proceed(t)
  BY ZenonT(60), <1>11, <1>1, <1>3, <1>4, <1>5, <1>6, <1>7, <1>8 DEF Proceed,
     OpenNativeFails, OpenUnlock, OpenSucceeded, Admit, Deny, Leave,
     PlainUnlock, CloseUnlock
<1>12. CASE \E p \in Paths, f \in Opt(Files) : ChangeFile(p, f)
  BY <1>12, <1>1 DEF ChangeFile
<1>13. CASE UNCHANGED vars
  BY <1>13, <1>1 DEF vars
<1> QED
  BY <1>9, <1>10, <1>11, <1>12, <1>13 DEF Next

\* A refusal or a sandbox lasts as long as the instance, and the seal as long as the
\* native database, whichever handles open_instance adds and handle_closer removes.
THEOREM ContainmentPersists == Spec => ContainmentLasts
BY ContainmentStep, Invariance, PTL DEF Spec, ContainmentLasts

-----------------------------------------------------------------------------
(* Which handles share an instance, a native database and a file.           *)

\* Where an open has looked a path up and not yet opened it.
LookedUp == {"open_instance", "open_native"}

\* The member list of a record, registered, new or freed, is exact.
MembersExact ==
    \A i \in Instances :
        inst[i].handles = {h \in Handles : hDb[h] # None /\ hInst[h] = i}

\* A record without members is the one the holder of the registry mutex
\* opens or closes.
EmptyIsHeld ==
    \A i \in allocated : inst[i].handles = {} =>
        registry # None /\ hInst[ctl[registry].h] = i

\* An open that found an instance found one with members, and keeps it so.
JoinsMembers ==
    \A t \in Threads : ctl[t].pc \in OpeningLabels /\ ~ctl[t].created =>
        inst[hInst[ctl[t].h]].handles # {}

\* The handle of an open is connected by the native open, not before.
NotYetConnected ==
    \A t \in Threads : ctl[t].pc \in LookedUp => hDb[ctl[t].h] = None

\* A value is recorded only for a complete profile.
ValueNeedsProfile ==
    \A i \in Instances : ~inst[i].disabled => inst[i].basedir = None

\* The model's open is one step with the guard that looks for the file among
\* those in use, so no other live database has it.
OneDatabasePerFile ==
    \A c, d \in LiveDbs : db[c].file = db[d].file /\ db[c].file # None => c = d

Usage == /\ MembersExact /\ EmptyIsHeld /\ JoinsMembers /\ NotYetConnected
         /\ ValueNeedsProfile /\ OneDatabasePerFile

\* The rest holds as long as no file changes in the middle of an open.  An
\* instance stands for the path and the file of its members' database.
Matching ==
    \A h \in Handles : hDb[h] # None =>
        /\ db[hDb[h]].path = inst[hInst[h]].path
        /\ db[hDb[h]].file = inst[hInst[h]].identity
        /\ db[hDb[h]].path = None => db[hDb[h]].file = None

OnePerPath ==
    \A i, j \in registered :
        inst[i].path = inst[j].path /\ inst[i].path # None => i = j

\* What the lookup of the registry found still holds at the native open.
LookupHolds ==
    \A t \in Threads : ctl[t].pc \in LookedUp =>
        /\ inst[hInst[ctl[t].h]].path = ctl[t].path
        /\ ctl[t].created =>
             /\ SamePath(ctl[t].path) = {} /\ Known(ctl[t].path) = {}
             /\ ~inst[hInst[ctl[t].h]].disabled
             /\ ~inst[hInst[ctl[t].h]].refused
        /\ ~ctl[t].created => ctl[t].path # None

\* The value an instance records is the one its members' database is locked
\* with.
SealMatches ==
    \A h \in Handles :
        hDb[h] # None /\ inst[hInst[h]].disabled
          /\ inst[hInst[h]].basedir # None =>
            db[hDb[h]].sealed = inst[hInst[h]].basedir

Sharing == /\ Matching /\ OnePerPath /\ LookupHolds
           /\ OneInstancePerDatabase /\ SealMatches

-----------------------------------------------------------------------------

USE DEF LookedUp, Connected

\* Steps of a thread outside the three places where records, databases and the
\* list change: no open is begun, and who holds the registry goes on with the
\* same handle.
Quiet ==
    /\ UNCHANGED <<allocated, registered, inst, hInst, hDb, db, disk>>
    /\ \A t \in Threads : ctl'[t].pc \in OpeningLabels =>
         /\ ctl[t].pc \in OpeningLabels
         /\ ctl'[t].pc \in LookedUp => ctl[t].pc \in LookedUp
         /\ ctl'[t].h = ctl[t].h /\ ctl'[t].path = ctl[t].path
         /\ ctl'[t].created = ctl[t].created
    /\ registry # None => registry' = registry
                            /\ ctl'[registry].h = ctl[registry].h

\* A quiet step keeps what is known of records and databases.
LEMMA QuietUsage ==
    ASSUME IInv, Usage, Quiet
    PROVE  Usage'
<1>1. MembersExact' /\ ValueNeedsProfile'
  BY DEF Usage, MembersExact, ValueNeedsProfile, Quiet
<1>2. EmptyIsHeld'
  BY DEF Usage, EmptyIsHeld, Quiet
<1>3. JoinsMembers' /\ NotYetConnected'
  BY DEF Usage, JoinsMembers, NotYetConnected, Quiet
<1>4. OneDatabasePerFile'
  BY DEF Usage, OneDatabasePerFile, LiveDbs, Quiet
<1> QED
  BY <1>1, <1>2, <1>3, <1>4 DEF Usage

\* A quiet step keeps who shares what.
LEMMA QuietSharing ==
    ASSUME IInv, Sharing, Quiet
    PROVE  Sharing'
<1>1. Matching' /\ OnePerPath' /\ OneInstancePerDatabase' /\ SealMatches'
  BY DEF Sharing, Matching, OnePerPath, OneInstancePerDatabase, SealMatches,
     Quiet
<1>2. LookupHolds'
  BY DEF Sharing, LookupHolds, SamePath, Known, LiveDbs, Quiet
<1> QED
  BY <1>1, <1>2 DEF Sharing

\* The lock operations, and the beginning of an open, a use or a close, are
\* quiet.
LEMMA QuietSteps ==
    ASSUME IInv, NEW t \in Threads,
           \/ \E h \in Handles : \/ \E p \in Opt(Paths) : Open(t, h, p)
                                 \/ \E goal \in Goals : Use(t, h, goal)
                                 \/ Close(t, h)
           \/ \E b \in Opt(Basedirs) : SetBasedir(t, b)
           \/ OpenLookupFails(t) \/ OpenLock(t) \/ OpenUnlock(t)
           \/ EnterLock(t) \/ Admit(t) \/ Deny(t) \/ Leave(t)
           \/ PlainLock(t) \/ PlainUnlock(t)
           \/ CloseRegistry(t) \/ CloseLock(t) \/ CloseUnlock(t)
    PROVE  Quiet
<1>1. /\ ctl \in [Threads -> Control]
      /\ registry # None => registry \in Threads
                              /\ ctl[registry].pc \in RegistryLabels
  BY DEF IInv, TypeOK, RegistryHeld
<1>2. ASSUME NEW h \in Handles, NEW p \in Opt(Paths), Open(t, h, p)
      PROVE  Quiet
  <2>1. PICK label \in {"open_registry", "close_registry"} :
          ctl' = [ctl EXCEPT ![t] = [Idle EXCEPT !.pc = label, !.h = h,
                                      !.path = p, !.goal = "factory"]]
    BY <1>2 DEF Open
  <2>2. ctl[t].pc = "idle"
    BY <1>2 DEF Open
  <2>3. /\ \A u \in Threads \ {t} : ctl'[u] = ctl[u]
        /\ ctl'[t].pc = label
    BY <1>1, <2>1 DEF Idle
  <2> QED
    BY <1>1, <1>2, <2>2, <2>3 DEF Quiet, Open
<1>3. ASSUME NEW h \in Handles, NEW goal \in Goals, Use(t, h, goal)
      PROVE  Quiet
  BY <1>1, <1>3 DEF Quiet, Use, Idle
<1>4. ASSUME NEW h \in Handles, Close(t, h)
      PROVE  Quiet
  <2>1. PICK label \in {"close_registry", "enter_lock"} :
          ctl' = [ctl EXCEPT ![t] = [Idle EXCEPT !.pc = label, !.h = h,
                                                 !.goal = "flush"]]
    BY <1>4 DEF Close
  <2>2. ctl[t].pc = "idle"
    BY <1>4 DEF Close
  <2>3. /\ \A u \in Threads \ {t} : ctl'[u] = ctl[u]
        /\ ctl'[t].pc = label
    BY <1>1, <2>1 DEF Idle
  <2> QED
    BY <1>1, <1>4, <2>2, <2>3 DEF Quiet, Close
<1>5. ASSUME NEW b \in Opt(Basedirs), SetBasedir(t, b)
      PROVE  Quiet
  BY <1>1, <1>5 DEF Quiet, SetBasedir
<1>6. CASE OpenLookupFails(t)
  BY <1>1, <1>6 DEF Quiet, OpenLookupFails, Control
<1>7. CASE OpenLock(t)
  BY <1>1, <1>7 DEF Quiet, OpenLock, Control
<1>8. CASE OpenUnlock(t)
  BY <1>1, <1>8 DEF Quiet, OpenUnlock, Control
<1>9. CASE EnterLock(t)
  BY <1>1, <1>9 DEF Quiet, EnterLock, Control
<1>10. CASE Admit(t)
  BY <1>1, <1>10 DEF Quiet, Admit, Control
<1>11. CASE Deny(t)
  BY <1>1, <1>11 DEF Quiet, Deny, AfterRefusal, Control, Idle
<1>12. CASE Leave(t)
  BY <1>1, <1>12 DEF Quiet, Leave, Control, Idle
<1>13. CASE PlainLock(t)
  BY <1>1, <1>13 DEF Quiet, PlainLock, Control
<1>14. CASE PlainUnlock(t)
  BY <1>1, <1>14 DEF Quiet, PlainUnlock, Control, Idle
<1>15. CASE CloseRegistry(t)
  BY <1>1, <1>15 DEF Quiet, CloseRegistry, Control
<1>16. CASE CloseLock(t)
  BY <1>1, <1>16 DEF Quiet, CloseLock, Control
<1>17. CASE CloseUnlock(t)
  BY <1>1, <1>17 DEF Quiet, CloseUnlock, Control
<1> QED
  BY <1>2, <1>3, <1>4, <1>5, <1>6, <1>7, <1>8, <1>9, <1>10, <1>11, <1>12,
     <1>13, <1>14, <1>15, <1>16, <1>17

-----------------------------------------------------------------------------
(* The steps at which records and databases change.                         *)

\* With no open or close under way, every allocated record has members and is
\* registered.
LEMMA AtPeace ==
    ASSUME IInv, Usage, registry = None
    PROVE  /\ \A i \in allocated : inst[i].handles # {}
           /\ allocated = registered
<1>1. \A i \in allocated : inst[i].handles # {}
  BY DEF Usage, EmptyIsHeld
<1>2. \A i \in Instances : inst[i].handles # {} => i \in registered
  BY DEF IInv, Linked, Usage, MembersExact
<1>3. allocated \subseteq Instances /\ registered \subseteq allocated
  BY DEF IInv, TypeOK, Memory
<1> QED
  BY <1>1, <1>2, <1>3

\* A thread that opens or closes does so alone.
LEMMA AloneInside ==
    ASSUME IInv, NEW t \in Threads, ctl[t].pc \in RegistryLabels
    PROVE  /\ registry = t
           /\ \A u \in Threads \ {t} : ctl[u].pc \notin RegistryLabels
BY DEF IInv, RegistryHeld

\* open_instance joins an instance that has members.
LEMMA OpenShareUsage ==
    ASSUME IInv, Usage, NEW t \in Threads, OpenShare(t)
    PROVE  Usage'
<1> DEFINE h == ctl[t].h
<1>1. PICK i \in SamePath(ctl[t].path) : hInst' = [hInst EXCEPT ![h] = i]
  BY DEF OpenShare
<1>2. /\ registry = None /\ registry' = t
      /\ UNCHANGED <<allocated, registered, inst, hDb, db>>
  BY DEF OpenShare
<1>3. /\ h \in Handles /\ hInst[h] = None /\ hDb[h] = None
      /\ ~ctl[t].created
  BY DEF IInv, TypeOK, Owned, Phases, Linked, OpenShare
<1>4. /\ \A u \in Threads \ {t} :
           ctl'[u] = ctl[u] /\ ctl[u].pc \notin RegistryLabels
      /\ ctl'[t].h = h /\ ctl'[t].created = ctl[t].created
  BY <1>2 DEF IInv, TypeOK, RegistryHeld, Control, OpenShare
<1>5. i \in allocated /\ i \in Instances /\ inst[i].handles # {}
  BY <1>2, AtPeace DEF IInv, TypeOK, Memory, SamePath
<1>6. hInst'[h] = i /\ \A k \in Handles \ {h} : hInst'[k] = hInst[k]
  BY <1>1, <1>3 DEF IInv, TypeOK
<1>7. MembersExact'
  BY <1>2, <1>3, <1>6 DEF Usage, MembersExact
<1>8. EmptyIsHeld'
  BY <1>2, AtPeace DEF EmptyIsHeld
<1>9. JoinsMembers' /\ NotYetConnected'
  BY <1>2, <1>3, <1>4, <1>5, <1>6 DEF JoinsMembers, NotYetConnected
<1>10. ValueNeedsProfile' /\ OneDatabasePerFile'
  BY <1>2 DEF Usage, ValueNeedsProfile, OneDatabasePerFile, LiveDbs
<1> QED
  BY <1>7, <1>8, <1>9, <1>10 DEF Usage

\* open_instance's new record is empty, and held.
LEMMA OpenCreateUsage ==
    ASSUME IInv, Usage, NEW t \in Threads, OpenCreate(t)
    PROVE  Usage'
<1> DEFINE h == ctl[t].h
<1>1. PICK i \in Instances \ allocated :
        /\ allocated' = allocated \cup {i}
        /\ inst' = [inst EXCEPT ![i] = NewInstance(ctl[t].path)]
        /\ hInst' = [hInst EXCEPT ![h] = i]
  BY DEF OpenCreate
<1>2. /\ registry = None /\ registry' = t
      /\ UNCHANGED <<registered, hDb, db>>
  BY DEF OpenCreate
<1>3. h \in Handles /\ hInst[h] = None /\ hDb[h] = None
  BY DEF IInv, TypeOK, Owned, Phases, Linked, OpenCreate
<1>4. /\ \A u \in Threads \ {t} :
           ctl'[u] = ctl[u] /\ ctl[u].pc \notin RegistryLabels
      /\ ctl'[t].h = h /\ ctl'[t].created
  BY <1>2 DEF IInv, TypeOK, RegistryHeld, Control, OpenCreate
<1>5. hInst'[h] = i /\ \A k \in Handles \ {h} : hInst'[k] = hInst[k]
  BY <1>1, <1>3 DEF IInv, TypeOK
<1>6. /\ inst'[i].handles = {} /\ inst'[i].basedir = None
      /\ \A j \in Instances \ {i} : inst'[j] = inst[j]
  BY <1>1 DEF IInv, TypeOK, NewInstance, Blank
<1>7. \A k \in Handles : hDb[k] # None => k # h /\ hInst[k] # i
  BY <1>1, <1>3 DEF IInv, TypeOK, Linked, Memory
<1>8. MembersExact'
  BY <1>2, <1>5, <1>6, <1>7 DEF Usage, MembersExact
<1>9. EmptyIsHeld'
  <2>1. \A j \in allocated : j # i /\ j \in Instances /\ inst'[j].handles # {}
    BY <1>1, <1>2, <1>6, AtPeace DEF IInv, TypeOK
  <2> QED
    BY <1>1, <1>2, <1>4, <1>5, <2>1 DEF EmptyIsHeld
<1>10. JoinsMembers' /\ NotYetConnected'
  BY <1>2, <1>3, <1>4 DEF JoinsMembers, NotYetConnected
<1>11. ValueNeedsProfile' /\ OneDatabasePerFile'
  BY <1>2, <1>6 DEF Usage, ValueNeedsProfile, OneDatabasePerFile, LiveDbs
<1> QED
  BY <1>8, <1>9, <1>10, <1>11 DEF Usage

\* The native open, as far as sharing is concerned: h joins the record and the
\* database d, which was live or is opened for a file of its own.
LEMMA LinkedFacts ==
    ASSUME IInv, Usage, NEW t \in Threads, OpenLinked(t)
    PROVE  LET h == ctl[t].h
               i == hInst[h]
           IN  /\ h \in Handles /\ i \in Instances /\ hDb[h] = None
               /\ registry = t /\ registered' = registered \cup {i}
               /\ UNCHANGED <<registry, allocated, hInst>>
               /\ \A u \in Threads \ {t} :
                    ctl'[u] = ctl[u] /\ ctl[u].pc \notin RegistryLabels
               /\ ctl'[t].pc = "open_unlock" /\ ctl'[t].h = h
               /\ \A j \in Instances \ {i} : inst'[j] = inst[j]
               /\ inst'[i].handles = inst[i].handles \cup {h}
               /\ inst'[i].disabled = inst[i].disabled
               /\ inst'[i].basedir = inst[i].basedir
               /\ inst'[i].refused = inst[i].refused
               /\ inst'[i].path = inst[i].path
               /\ inst'[i].identity =
                    IF ctl[t].created
                    THEN IF ctl[t].path = None THEN None ELSE disk'[ctl[t].path]
                    ELSE inst[i].identity
<1> DEFINE h == ctl[t].h
           i == hInst[h]
           f == IF ctl[t].path = None THEN None ELSE disk'[ctl[t].path]
<1>1. h \in Handles /\ i \in Instances
  BY DEF IInv, TypeOK, Owned, Phases, OpenLinked
<1>2. inst' = [inst EXCEPT ![i] = Joined(@, t, f)]
  BY DEF OpenLinked
<1>3. LET r == Joined(inst[i], t, f)
      IN  /\ r.handles = inst[i].handles \cup {h}
          /\ r.disabled = inst[i].disabled
          /\ r.basedir = inst[i].basedir
          /\ r.refused = inst[i].refused
          /\ r.path = inst[i].path
          /\ r.identity = IF ctl[t].created THEN f ELSE inst[i].identity
  <2>1. inst[i] \in InstanceRecord
    BY <1>1 DEF IInv, TypeOK
  <2> QED
    BY <2>1 DEF Joined, InstanceRecord
<1>4. /\ inst'[i] = Joined(inst[i], t, f)
      /\ \A j \in Instances \ {i} : inst'[j] = inst[j]
  BY <1>1, <1>2 DEF IInv, TypeOK
<1>5. /\ registry = t
      /\ \A u \in Threads \ {t} :
           ctl'[u] = ctl[u] /\ ctl[u].pc \notin RegistryLabels
      /\ ctl'[t].pc = "open_unlock" /\ ctl'[t].h = h
  BY AloneInside DEF IInv, TypeOK, Control, OpenLinked
<1>6. hDb[h] = None
  BY DEF Usage, NotYetConnected, OpenLinked
<1>7. registered' = registered \cup {i} /\ UNCHANGED <<registry, allocated, hInst>>
  BY DEF OpenLinked
<1> QED
  BY ZenonT(60), <1>1, <1>3, <1>4, <1>5, <1>6, <1>7

\* The native open itself.
LEMMA NativeFacts ==
    ASSUME IInv, Usage, NEW t \in Threads, OpenLinked(t)
    PROVE  \E d \in Dbs :
             LET h == ctl[t].h
                 p == ctl[t].path
             IN  /\ hDb' = [hDb EXCEPT ![h] = d]
                 /\ LiveDbs' = LiveDbs \cup {d}
                 /\ \A k \in Handles \ {h} : hDb'[k] = hDb[k]
                 /\ \/ /\ d \in Known(p) /\ UNCHANGED <<db, disk>>
                       /\ \A c \in Known(p) : disk[db[c].path] = db[c].file
                    \/ /\ Known(p) = {} /\ d \notin LiveDbs
                       /\ \A c \in Dbs \ {d} : db'[c] = db[c]
                       /\ db'[d].path = p /\ db'[d].sealed = None
                       /\ p = None => db'[d].file = None
                       /\ p # None => db'[d].file = disk'[p]
                       /\ p # None /\ disk[p] # None => disk' = disk
                       /\ p # None /\ disk[p] = None =>
                            db'[d].file \in NewFiles
<1> DEFINE h == ctl[t].h
           p == ctl[t].path
<1>1. PICK d \in Dbs : /\ NativeShared(p, d) \/ NativeOpened(p, d)
                       /\ hDb' = [hDb EXCEPT ![h] = d]
  BY DEF OpenLinked
<1>2. h \in Handles /\ hDb[h] = None /\ p \in Opt(Paths)
  BY LinkedFacts DEF IInv, TypeOK, Control
<1>3. /\ hDb'[h] = d
      /\ \A k \in Handles \ {h} : hDb'[k] = hDb[k]
  BY <1>1, <1>2 DEF IInv, TypeOK
<1>4. LiveDbs' = LiveDbs \cup {d}
  BY <1>2, <1>3 DEF LiveDbs
<1>5. CASE NativeShared(p, d)
  BY <1>1, <1>3, <1>4, <1>5 DEF NativeShared
<1>6. CASE NativeOpened(p, d)
  <2>1. PICK f \in IF p = None THEN {None}
                   ELSE IF disk[p] # None THEN {disk[p]}
                   ELSE NewFiles :
          /\ db' = [db EXCEPT ![d] = [NoDb EXCEPT !.path = p, !.file = f]]
          /\ disk' = IF p = None THEN disk ELSE [disk EXCEPT ![p] = f]
    BY <1>6 DEF NativeOpened
  <2>2. /\ db'[d].path = p /\ db'[d].file = f /\ db'[d].sealed = None
        /\ \A c \in Dbs \ {d} : db'[c] = db[c]
    BY <2>1 DEF IInv, TypeOK, NoDb
  <2>3. /\ p = None => f = None /\ disk' = disk
        /\ p # None => f = disk'[p]
        /\ p # None /\ disk[p] # None => disk' = disk
        /\ p # None /\ disk[p] = None => f \in NewFiles
    BY <1>2, <2>1 DEF IInv, TypeOK
  <2>4. Known(p) = {} /\ d \notin LiveDbs
    BY <1>6 DEF NativeOpened
  <2> QED
    BY <1>1, <1>3, <1>4, <2>2, <2>3, <2>4
<1> QED
  BY <1>1, <1>5, <1>6

\* open_instance links the handle to its record and to a database; a database
\* opened for a file is the only one on it, because the identity guard knows
\* the others.
LEMMA OpenLinkedUsage ==
    ASSUME IInv, Usage, NEW t \in Threads, OpenLinked(t)
    PROVE  Usage'
<1> DEFINE h == ctl[t].h
           i == hInst[h]
           p == ctl[t].path
<1>1. PICK d \in Dbs :
        /\ hDb' = [hDb EXCEPT ![h] = d]
        /\ LiveDbs' = LiveDbs \cup {d}
        /\ \A k \in Handles \ {h} : hDb'[k] = hDb[k]
        /\ \/ d \in Known(p) /\ UNCHANGED <<db, disk>>
           \/ /\ Known(p) = {} /\ d \notin LiveDbs
              /\ \A c \in Dbs \ {d} : db'[c] = db[c]
              /\ p = None => db'[d].file = None
              /\ p # None => db'[d].file = disk'[p]
              /\ p # None /\ disk[p] # None => disk' = disk
              /\ p # None /\ disk[p] = None => db'[d].file \in NewFiles
  BY SMTT(30), NativeFacts
<1>2. h \in Handles /\ i \in Instances /\ hDb[h] = None /\ hDb'[h] = d
  BY <1>1, LinkedFacts DEF IInv, TypeOK
<1>3. MembersExact'
  <2>1. UNCHANGED hInst /\ inst'[i].handles = inst[i].handles \cup {h}
        /\ \A j \in Instances \ {i} : inst'[j] = inst[j]
    BY LinkedFacts
  <2>2. \A k \in Handles : hDb'[k] # None <=> hDb[k] # None \/ k = h
    BY <1>1, <1>2
  <2>3. inst'[i].handles = {k \in Handles : hDb'[k] # None /\ hInst'[k] = i}
    BY <1>2, <2>1, <2>2 DEF Usage, MembersExact
  <2>4. ASSUME NEW j \in Instances \ {i}
        PROVE  inst'[j].handles =
                 {k \in Handles : hDb'[k] # None /\ hInst'[k] = j}
    BY <1>2, <2>1, <2>2, <2>4 DEF Usage, MembersExact
  <2> QED
    BY <2>3, <2>4 DEF MembersExact
<1>4. EmptyIsHeld'
  BY LinkedFacts DEF IInv, TypeOK, Usage, EmptyIsHeld
<1>5. JoinsMembers' /\ NotYetConnected'
  BY LinkedFacts DEF JoinsMembers, NotYetConnected
<1>6. ValueNeedsProfile'
  BY LinkedFacts DEF Usage, ValueNeedsProfile
<1>7. OneDatabasePerFile'
  <2>1. CASE d \in Known(p) /\ UNCHANGED db
    BY <1>1, <2>1 DEF Usage, OneDatabasePerFile, Known
  <2>2. CASE /\ Known(p) = {} /\ d \notin LiveDbs
             /\ \A c \in Dbs \ {d} : db'[c] = db[c]
             /\ p = None => db'[d].file = None
             /\ p # None => db'[d].file = disk'[p]
             /\ p # None /\ disk[p] # None => disk' = disk
             /\ p # None /\ disk[p] = None => db'[d].file \in NewFiles
    <3>1. LiveDbs \subseteq Dbs
      BY DEF IInv, TypeOK, LiveDbs
    <3>2. \A c \in LiveDbs : c # d /\ db'[c] = db[c]
      BY <2>2, <3>1
    <3>3. ASSUME NEW c \in LiveDbs, db'[d].file # None
          PROVE  db[c].file # db'[d].file
      <4>1. p # None
        BY <2>2, <3>3
      <4>2. CASE disk[p] # None
        BY <2>2, <4>1, <4>2 DEF Known
      <4>3. CASE disk[p] = None
        BY <2>2, <3>3, <4>1, <4>3 DEF NewFiles, OpenFiles
      <4> QED
        BY <4>2, <4>3
    <3> QED
      BY <1>1, <3>2, <3>3 DEF Usage, OneDatabasePerFile
  <2> QED
    BY <1>1, <2>1, <2>2
<1> QED
  BY <1>3, <1>4, <1>5, <1>6, <1>7 DEF Usage

\* A failed native open touches no record.
LEMMA OpenNativeFailsUsage ==
    ASSUME IInv, Usage, NEW t \in Threads, OpenNativeFails(t)
    PROVE  Usage'
<1>1. /\ UNCHANGED <<registry, allocated, registered, inst, hInst, hDb, db>>
      /\ \A u \in Threads \ {t} : ctl'[u] = ctl[u]
      /\ ctl'[t].pc = "open_unlock" /\ ctl[t].pc \in LookedUp
      /\ ctl'[t].h = ctl[t].h /\ ctl'[t].created = ctl[t].created
      /\ registry = t
  BY DEF IInv, TypeOK, RegistryHeld, Control, OpenNativeFails
<1> QED
  BY <1>1 DEF Usage, MembersExact, EmptyIsHeld, JoinsMembers,
     NotYetConnected, ValueNeedsProfile, OneDatabasePerFile, LiveDbs

\* An open that succeeded gives the registry up with its record in use.
LEMMA OpenSucceededUsage ==
    ASSUME IInv, Usage, NEW t \in Threads, OpenSucceeded(t)
    PROVE  Usage'
<1>1. /\ UNCHANGED <<allocated, registered, inst, hInst, hDb, db>>
      /\ \A u \in Threads \ {t} : ctl'[u] = ctl[u]
      /\ ctl'[t].pc = "enter_lock" /\ registry = t
  BY DEF IInv, TypeOK, OpenSucceeded, Idle
<1>2. /\ ctl[t].h \in Handles /\ hDb[ctl[t].h] # None
      /\ hInst[ctl[t].h] \in Instances
  BY DEF IInv, TypeOK, Owned, Phases, OpenSucceeded
<1>3. inst[hInst[ctl[t].h]].handles # {}
  BY <1>2 DEF Usage, MembersExact
<1>4. EmptyIsHeld'
  BY <1>1, <1>3 DEF Usage, EmptyIsHeld
<1> QED
  BY <1>1, <1>4 DEF Usage, MembersExact, JoinsMembers, NotYetConnected,
     ValueNeedsProfile, OneDatabasePerFile, LiveDbs

\* A record freed by an open or a close has no members, and the one it is
\* blanked to has none either.
LEMMA FreeFacts ==
    ASSUME IInv, NEW S, Free(S)
    PROVE  /\ allocated' = allocated \ S
           /\ \A i \in Instances \ S : inst'[i] = inst[i]
           /\ \A i \in Instances \cap S :
                inst'[i].handles = {} /\ inst'[i].basedir = None
BY DEF Free, Blank

\* An open that failed gives the registry up without an empty record.
LEMMA OpenFailedUsage ==
    ASSUME IInv, Usage, NEW t \in Threads, OpenFailed(t)
    PROVE  Usage'
<1> DEFINE h == ctl[t].h
           i == hInst[h]
<1>1. /\ UNCHANGED <<registered, hDb, db>>
      /\ \A u \in Threads \ {t} :
           ctl'[u] = ctl[u] /\ ctl[u].pc \notin RegistryLabels
      /\ ctl'[t].pc = "close_registry" /\ registry = t
  BY AloneInside DEF IInv, TypeOK, OpenFailed, Idle
<1>2. /\ h \in Handles /\ hDb[h] = None /\ i \in Instances
  BY DEF IInv, TypeOK, Owned, Phases, OpenFailed
<1>3. hInst'[h] = None /\ \A k \in Handles \ {h} : hInst'[k] = hInst[k]
  BY <1>2 DEF IInv, TypeOK, OpenFailed
<1>4. \A j \in allocated \ {i} : inst[j].handles # {}
  BY <1>1 DEF Usage, EmptyIsHeld
<1>5. CASE ctl[t].created
  <2>1. i \notin registered
    BY <1>2, <1>5 DEF IInv, Fresh, OpenFailed
  <2>2. \A k \in Handles : hDb[k] # None => k # h /\ hInst[k] # i
    BY <1>2, <2>1 DEF IInv, Linked
  <2>3. /\ allocated' = allocated \ {i}
        /\ \A j \in Instances \ {i} : inst'[j] = inst[j]
        /\ inst'[i].handles = {} /\ inst'[i].basedir = None
    BY <1>2, <1>5, FreeFacts DEF OpenFailed
  <2>4. MembersExact'
    BY <1>1, <1>2, <1>3, <2>2, <2>3 DEF Usage, MembersExact
  <2>5. EmptyIsHeld' /\ ValueNeedsProfile'
    BY <1>4, <2>3 DEF IInv, TypeOK, Usage, EmptyIsHeld, ValueNeedsProfile
  <2> QED
    BY <1>1, <2>4, <2>5 DEF Usage, JoinsMembers, NotYetConnected,
       OneDatabasePerFile, LiveDbs
<1>6. CASE ~ctl[t].created
  <2>1. UNCHANGED <<allocated, inst>>
    BY <1>6 DEF OpenFailed
  <2>2. inst[i].handles # {}
    BY <1>6 DEF Usage, JoinsMembers, OpenFailed
  <2>3. MembersExact'
    BY <1>1, <1>2, <1>3, <2>1 DEF Usage, MembersExact
  <2> QED
    BY <1>1, <1>4, <2>1, <2>2, <2>3 DEF Usage, EmptyIsHeld, JoinsMembers,
       NotYetConnected, ValueNeedsProfile, OneDatabasePerFile, LiveDbs
<1> QED
  BY <1>5, <1>6

\* disable_external_access writes the sandbox fields of one record and the seal
\* of one database, and nothing else that is shared.
LEMMA SandboxFacts ==
    ASSUME IInv, NEW t \in Threads, Sandbox(t) \/ SandboxFails(t)
    PROVE  LET h == ctl[t].h
               i == hInst[h]
               d == hDb[h]
           IN  /\ h \in Handles /\ i \in Instances /\ d \in Dbs
               /\ UNCHANGED <<registry, allocated, registered, hInst, hDb,
                              disk>>
               /\ \A u \in Threads \ {t} : ctl'[u] = ctl[u]
               /\ ctl'[t].pc \notin RegistryLabels /\ registry # t
               /\ \A j \in Instances :
                    /\ inst'[j].handles = inst[j].handles
                    /\ inst'[j].path = inst[j].path
                    /\ inst'[j].identity = inst[j].identity
               /\ \A j \in Instances \ {i} : inst'[j] = inst[j]
               /\ \A c \in Dbs : /\ db'[c].path = db[c].path
                                 /\ db'[c].file = db[c].file
               /\ \A c \in Dbs \ {d} : db'[c] = db[c]
               /\ ~inst[i].disabled /\ basedir[t] # None
               /\ \/ db' = db /\ ~inst'[i].disabled
                                /\ inst'[i].basedir = inst[i].basedir
                  \/ db[d].sealed = None /\ db'[d].sealed = basedir[t]
                       /\ inst'[i].disabled
                       /\ inst'[i].basedir \in {inst[i].basedir, basedir[t]}
<1> DEFINE h == ctl[t].h
           i == hInst[h]
           d == hDb[h]
<1>1. h \in Handles /\ i \in Instances /\ d \in Dbs
  <2>1. ctl[t].pc = "enter_check"
    BY DEF Sandbox, SandboxFails
  <2>2. h \in Handles /\ d # None
    BY <2>1 DEF IInv, Owned, Phases
  <2>3. hDb[h] \in Opt(Dbs) /\ hInst[h] \in registered
          /\ registered \subseteq Instances
    BY <2>2 DEF IInv, TypeOK, Linked
  <2> QED
    BY <2>2, <2>3
<1>2. inst \in [Instances -> InstanceRecord] /\ db \in [Dbs -> DbRecord]
      /\ ctl \in [Threads -> Control]
  BY DEF IInv, TypeOK
<1>3. /\ UNCHANGED <<registry, allocated, registered, hInst, hDb, disk>>
      /\ ~inst[i].disabled /\ basedir[t] # None
  BY ZenonT(60) DEF Sandbox, SandboxFails, NeedsTransition
<1>4. /\ \A u \in Threads \ {t} : ctl'[u] = ctl[u]
      /\ ctl'[t].pc \in {"running", "plain_lock", "close_registry", "idle"}
  <2>1. \/ GotoIdle(t)
        \/ \E label \in {"running", "plain_lock", "close_registry"} :
              Goto(t, label)
    BY Zenon DEF Sandbox, SandboxFails, AfterRefusal, AfterBailout
  <2>2. CASE GotoIdle(t)
    BY <1>2, <2>2 DEF Idle
  <2>3. CASE \E label \in {"running", "plain_lock", "close_registry"} :
               Goto(t, label)
    BY <1>2, <2>3 DEF Control
  <2> QED
    BY <2>1, <2>2, <2>3
<1>5. registry # t
  BY ZenonT(60) DEF IInv, RegistryHeld, Sandbox, SandboxFails
<1>6. \/ /\ inst' = [inst EXCEPT ![i].refused = TRUE]
         /\ db' = db
      \/ /\ db[d].sealed = None
         /\ db' = [db EXCEPT ![d].sealed = basedir[t]]
         /\ \/ inst' = [inst EXCEPT ![i].disabled = TRUE,
                                    ![i].basedir = basedir[t]]
            \/ inst' = [inst EXCEPT ![i].refused = TRUE, ![i].disabled = TRUE]
  BY DEF Sandbox, SandboxFails
<1>7. CASE inst' = [inst EXCEPT ![i].refused = TRUE] /\ db' = db
  BY <1>1, <1>2, <1>3, <1>4, <1>5, <1>7 DEF InstanceRecord
<1>8. CASE /\ db[d].sealed = None
           /\ db' = [db EXCEPT ![d].sealed = basedir[t]]
           /\ \/ inst' = [inst EXCEPT ![i].disabled = TRUE,
                                      ![i].basedir = basedir[t]]
              \/ inst' = [inst EXCEPT ![i].refused = TRUE,
                                      ![i].disabled = TRUE]
  <2>1. /\ \A c \in Dbs : db'[c].path = db[c].path /\ db'[c].file = db[c].file
        /\ \A c \in Dbs \ {d} : db'[c] = db[c]
        /\ db'[d].sealed = basedir[t]
    <3> HIDE DEF h, i, d
    <3>1. db' = [db EXCEPT ![d].sealed = basedir[t]]
      BY <1>8, Zenon
    <3> QED
      BY <1>1, <1>2, <3>1 DEF DbRecord
  <2>2. /\ \A j \in Instances : /\ inst'[j].handles = inst[j].handles
                                /\ inst'[j].path = inst[j].path
                                /\ inst'[j].identity = inst[j].identity
        /\ \A j \in Instances \ {i} : inst'[j] = inst[j]
        /\ inst'[i].disabled
        /\ inst'[i].basedir \in {inst[i].basedir, basedir[t]}
    <3> HIDE DEF h, i, d
    <3>1. \/ inst' = [inst EXCEPT ![i].disabled = TRUE,
                                  ![i].basedir = basedir[t]]
          \/ inst' = [inst EXCEPT ![i].refused = TRUE, ![i].disabled = TRUE]
      BY <1>8, Zenon
    <3>2. i \in Instances /\ inst \in [Instances -> InstanceRecord]
      BY <1>1, <1>2, Zenon
    <3> QED
      BY <3>1, <3>2 DEF InstanceRecord
  <2> QED
    BY ZenonT(60), <1>1, <1>3, <1>4, <1>5, <1>8, <2>1, <2>2
<1> QED
  BY <1>6, <1>7, <1>8

\* A sandbox transition, complete or not, leaves members and files alone.
LEMMA SandboxUsage ==
    ASSUME IInv, Usage, NEW t \in Threads, Sandbox(t) \/ SandboxFails(t)
    PROVE  Usage'
<1>0. /\ UNCHANGED <<registry, allocated, hInst, hDb>>
      /\ \A j \in Instances : inst'[j].handles = inst[j].handles
      /\ \A u \in Threads \ {t} : ctl'[u] = ctl[u]
      /\ registry # t /\ registry \in Opt(Threads)
      /\ allocated \subseteq Instances
  BY SandboxFacts DEF IInv, TypeOK
<1>1. MembersExact' /\ EmptyIsHeld'
  <2>1. MembersExact'
    BY <1>0 DEF Usage, MembersExact
  <2>2. EmptyIsHeld'
    BY <1>0 DEF Usage, EmptyIsHeld
  <2> QED
    BY <2>1, <2>2
<1>2. JoinsMembers' /\ NotYetConnected'
  <2>1. \A u \in Threads : ctl'[u].pc \in RegistryLabels => ctl'[u] = ctl[u]
    BY SandboxFacts
  <2>2. \A u \in Threads : ctl[u].pc \in OpeningLabels =>
          hInst[ctl[u].h] \in Instances
    BY DEF IInv, TypeOK, Owned, Phases
  <2>3. JoinsMembers'
    BY SMTT(30), <2>1, <2>2, SandboxFacts DEF Usage, JoinsMembers
  <2>4. NotYetConnected'
    BY SMTT(30), <2>1, SandboxFacts DEF Usage, NotYetConnected
  <2> QED
    BY <2>3, <2>4
<1>3. ValueNeedsProfile'
  BY SandboxFacts DEF Usage, ValueNeedsProfile
<1>4. OneDatabasePerFile'
  <2>1. LiveDbs \subseteq Dbs
    BY DEF IInv, TypeOK, LiveDbs
  <2>2. LiveDbs' = LiveDbs
    BY <1>0 DEF LiveDbs
  <2>3. \A c \in Dbs : db'[c].file = db[c].file
    BY SandboxFacts
  <2> QED
    BY <2>1, <2>2, <2>3 DEF Usage, OneDatabasePerFile
<1> QED
  BY <1>1, <1>2, <1>3, <1>4 DEF Usage

\* What handle_closer's native part changes that is shared.
LEMMA CloseNativeFacts ==
    ASSUME IInv, NEW t \in Threads, CloseNative(t)
    PROVE  LET h == ctl[t].h
               i == hInst[h]
           IN  /\ h \in Handles /\ i \in Instances
               /\ UNCHANGED <<registry, allocated, registered, hInst, disk>>
               /\ registry = t
               /\ \A u \in Threads \ {t} :
                    ctl'[u] = ctl[u] /\ ctl[u].pc \notin RegistryLabels
               /\ ctl'[t].pc = "close_unlock" /\ ctl'[t].h = h
               /\ \A j \in Instances \ {i} : inst'[j] = inst[j]
               /\ inst'[i].handles = inst[i].handles \ {h}
               /\ inst'[i].path = inst[i].path
               /\ inst'[i].identity = inst[i].identity
               /\ inst'[i].disabled = inst[i].disabled
               /\ inst'[i].basedir = inst[i].basedir
               /\ hDb'[h] = None
               /\ \A k \in Handles \ {h} : hDb'[k] = hDb[k]
               /\ \A k \in Handles : hDb'[k] # None =>
                    db'[hDb'[k]] = db[hDb'[k]]
<1> DEFINE h == ctl[t].h
           i == hInst[h]
<1>1. h \in Handles /\ i \in Instances
  BY DEF IInv, TypeOK, Owned, Phases, CloseNative
<1>2. /\ registry = t
      /\ \A u \in Threads \ {t} :
           ctl'[u] = ctl[u] /\ ctl[u].pc \notin RegistryLabels
      /\ ctl'[t].pc = "close_unlock" /\ ctl'[t].h = h
  BY AloneInside DEF IInv, TypeOK, Control, CloseNative
<1>3. hDb'[h] = None /\ \A k \in Handles \ {h} : hDb'[k] = hDb[k]
  BY <1>1 DEF IInv, TypeOK, CloseNative
<1>4. \A k \in Handles : hDb'[k] # None => db'[hDb'[k]] = db[hDb'[k]]
  BY <1>1, <1>3 DEF IInv, TypeOK, CloseNative
<1>5. PICK refuse \in BOOLEAN :
        inst' = [inst EXCEPT ![i].handles = @ \ {h},
                             ![i].refused = @ \/ refuse]
  BY DEF CloseNative
<1>6. \A r \in InstanceRecord : \A H, x :
        LET q == [r EXCEPT !.handles = H, !.refused = x]
        IN  /\ q.handles = H /\ q.path = r.path /\ q.identity = r.identity
            /\ q.disabled = r.disabled /\ q.basedir = r.basedir
  BY DEF InstanceRecord
<1>7. inst \in [Instances -> InstanceRecord]
  BY DEF IInv, TypeOK
<1>8. /\ \A j \in Instances \ {i} : inst'[j] = inst[j]
      /\ inst'[i] = [inst[i] EXCEPT !.handles = @ \ {h},
                                    !.refused = @ \/ refuse]
  BY <1>1, <1>5, <1>7
<1>9. /\ inst'[i].handles = inst[i].handles \ {h}
      /\ inst'[i].path = inst[i].path
      /\ inst'[i].identity = inst[i].identity
      /\ inst'[i].disabled = inst[i].disabled
      /\ inst'[i].basedir = inst[i].basedir
  <2> DEFINE H == inst[i].handles \ {h}
             x == inst[i].refused \/ refuse
  <2>1. inst'[i] = [inst[i] EXCEPT !.handles = H, !.refused = x]
    BY <1>8
  <2>2. inst[i] \in InstanceRecord
    BY <1>1, <1>7
  <2>3. inst'[i].handles = H
    <3> HIDE DEF H, x
    <3> QED
      BY <1>6, <2>1, <2>2
  <2>4. /\ inst'[i].path = inst[i].path
        /\ inst'[i].identity = inst[i].identity
        /\ inst'[i].disabled = inst[i].disabled
        /\ inst'[i].basedir = inst[i].basedir
    <3> HIDE DEF H, x
    <3> QED
      BY <1>6, <2>1, <2>2
  <2> QED
    BY <2>3, <2>4
<1>10. UNCHANGED <<registry, allocated, registered, hInst, disk>>
  BY DEF CloseNative
<1> QED
  BY <1>1, <1>2, <1>3, <1>4, <1>8, <1>9, <1>10

\* handle_closer takes the handle off its record, and may leave it empty.
LEMMA CloseNativeUsage ==
    ASSUME IInv, Usage, NEW t \in Threads, CloseNative(t)
    PROVE  Usage'
<1> DEFINE h == ctl[t].h
           i == hInst[h]
<1>1. MembersExact'
  <2>1. /\ UNCHANGED hInst /\ i \in Instances
        /\ \A j \in Instances \ {i} : inst'[j] = inst[j]
        /\ inst'[i].handles = inst[i].handles \ {h}
        /\ \A k \in Handles : hDb'[k] # None <=> hDb[k] # None /\ k # h
    BY CloseNativeFacts
  <2>2. inst'[i].handles = {k \in Handles : hDb'[k] # None /\ hInst'[k] = i}
    BY <2>1 DEF Usage, MembersExact
  <2>3. ASSUME NEW j \in Instances \ {i}
        PROVE  inst'[j].handles =
                 {k \in Handles : hDb'[k] # None /\ hInst'[k] = j}
    BY <2>1, <2>3 DEF Usage, MembersExact
  <2> QED
    BY <2>2, <2>3 DEF MembersExact
<1>2. EmptyIsHeld'
  BY CloseNativeFacts DEF IInv, TypeOK, Usage, EmptyIsHeld
<1>3. JoinsMembers' /\ NotYetConnected' /\ ValueNeedsProfile'
  BY CloseNativeFacts DEF Usage, JoinsMembers, NotYetConnected,
     ValueNeedsProfile
<1>4. OneDatabasePerFile'
  <2>1. \A c \in LiveDbs' : c \in LiveDbs /\ db'[c] = db[c]
    BY CloseNativeFacts DEF LiveDbs
  <2> QED
    BY <2>1 DEF Usage, OneDatabasePerFile
<1> QED
  BY <1>1, <1>2, <1>3, <1>4 DEF Usage

\* The last handle frees its record; another one leaves it with members.
LEMMA CloseFinishUsage ==
    ASSUME IInv, Usage, NEW t \in Threads, CloseFinish(t)
    PROVE  Usage'
<1> DEFINE h == ctl[t].h
           i == hInst[h]
<1>1. /\ UNCHANGED <<hDb, db>> /\ registry = t
      /\ \A u \in Threads \ {t} :
           ctl'[u] = ctl[u] /\ ctl[u].pc \notin RegistryLabels
      /\ ctl'[t].pc = "idle"
  BY AloneInside DEF IInv, TypeOK, CloseFinish, Idle
<1>2. h \in Handles /\ hDb[h] = None
  BY DEF IInv, Owned, Phases, CloseFinish
<1>3. hInst'[h] = None /\ \A k \in Handles \ {h} : hInst'[k] = hInst[k]
  BY SMTT(30), <1>2 DEF IInv, TypeOK, CloseFinish
<1>4. /\ allocated' = allocated \ Abandoned(i)
      /\ \A j \in Instances \ Abandoned(i) : inst'[j] = inst[j]
      /\ \A j \in Instances \cap Abandoned(i) :
           inst[j].handles = {} /\ inst'[j].handles = {}
             /\ inst'[j].basedir = None
  BY FreeFacts DEF CloseFinish, Abandoned
<1>5. MembersExact'
  <2>1. ASSUME NEW j \in Instances
        PROVE  inst'[j].handles = inst[j].handles
    BY <1>4, <2>1
  <2>2. \A k \in Handles : hDb'[k] # None => hInst'[k] = hInst[k]
    BY <1>1, <1>2, <1>3
  <2> QED
    BY <1>1, <1>2, <1>3, <2>1, <2>2 DEF Usage, MembersExact
<1>6. EmptyIsHeld'
  <2>1. \A j \in allocated \ {i} : inst[j].handles # {}
    BY <1>1 DEF Usage, EmptyIsHeld
  <2>2. i \in allocated' => inst[i].handles # {}
    BY <1>4 DEF IInv, TypeOK, Abandoned
  <2>3. \A j \in allocated' : j \in Instances /\ inst'[j].handles # {}
    BY <1>4, <2>1, <2>2 DEF IInv, TypeOK
  <2> QED
    BY <2>3 DEF EmptyIsHeld
<1>7. JoinsMembers' /\ NotYetConnected'
  BY <1>1 DEF JoinsMembers, NotYetConnected
<1>8. ValueNeedsProfile' /\ OneDatabasePerFile'
  BY <1>1, <1>4 DEF Usage, ValueNeedsProfile, OneDatabasePerFile, LiveDbs
<1> QED
  BY <1>5, <1>6, <1>7, <1>8 DEF Usage

\* Other processes change no record and no open database.
LEMMA ChangeFileUsage ==
    ASSUME Usage, NEW p \in Paths, NEW f \in Opt(Files), ChangeFile(p, f)
    PROVE  Usage'
BY DEF Usage, MembersExact, EmptyIsHeld, JoinsMembers, NotYetConnected,
     ValueNeedsProfile, OneDatabasePerFile, LiveDbs, ChangeFile

-----------------------------------------------------------------------------
(* Who shares what, as long as files rest during an open.                   *)

\* A connected handle has an instance and a database.
LEMMA ConnectedFacts ==
    ASSUME IInv, NEW h \in Handles, hDb[h] # None
    PROVE  /\ hDb[h] \in LiveDbs /\ hDb[h] \in Dbs
           /\ hInst[h] \in registered /\ hInst[h] \in Instances
BY DEF IInv, TypeOK, Linked, LiveDbs

\* A live database is that of a connected handle.
LEMMA LiveFacts ==
    ASSUME IInv, NEW d \in LiveDbs
    PROVE  d \in Dbs /\ \E h \in Handles : hDb[h] = d /\ hDb[h] # None
BY DEF IInv, TypeOK, LiveDbs

\* open_instance finds the record of a path.
LEMMA OpenShareSharing ==
    ASSUME IInv, Usage, Sharing, NEW t \in Threads, OpenShare(t)
    PROVE  Sharing'
<1> DEFINE h == ctl[t].h
<1>1. PICK i \in SamePath(ctl[t].path) : hInst' = [hInst EXCEPT ![h] = i]
  BY DEF OpenShare
<1>2. UNCHANGED <<registered, inst, hDb, db, disk>> /\ registry = None
  BY DEF OpenShare
<1>3. h \in Handles /\ hDb[h] = None /\ ~ctl[t].created
  BY DEF IInv, TypeOK, Owned, Phases, Linked, OpenShare
<1>4. /\ \A u \in Threads \ {t} :
           ctl'[u] = ctl[u] /\ ctl[u].pc \notin RegistryLabels
      /\ ctl'[t].h = h /\ ctl'[t].created = ctl[t].created
      /\ ctl'[t].path = ctl[t].path
  BY <1>2 DEF IInv, TypeOK, RegistryHeld, Control, OpenShare
<1>5. hInst'[h] = i /\ \A k \in Handles \ {h} : hInst'[k] = hInst[k]
  BY <1>1, <1>3 DEF IInv, TypeOK
<1>6. \A k \in Handles : hDb[k] # None => hInst'[k] = hInst[k]
  BY <1>3, <1>5
<1>7. Matching' /\ SealMatches'
  BY <1>2, <1>6 DEF Sharing, Matching, SealMatches
<1>8. OnePerPath' /\ OneInstancePerDatabase'
  BY <1>2, <1>6 DEF Sharing, OnePerPath, OneInstancePerDatabase
<1>9. LookupHolds'
  <2>1. inst[i].path = ctl[t].path /\ ctl[t].path # None
    BY DEF SamePath
  <2> QED
    BY <1>2, <1>3, <1>4, <1>5, <2>1 DEF LookupHolds
<1> QED
  BY <1>7, <1>8, <1>9 DEF Sharing

\* open_instance finds neither the path nor the file behind it, so the guard
\* knows no live database by them.
LEMMA OpenCreateSharing ==
    ASSUME IInv, Usage, Sharing, NEW t \in Threads, OpenCreate(t)
    PROVE  Sharing'
<1> DEFINE h == ctl[t].h
           p == ctl[t].path
<1>1. PICK i \in Instances \ allocated :
        /\ inst' = [inst EXCEPT ![i] = NewInstance(p)]
        /\ hInst' = [hInst EXCEPT ![h] = i]
  BY DEF OpenCreate
<1>2. /\ UNCHANGED <<registered, hDb, db, disk>> /\ registry = None
      /\ SamePath(p) = {} /\ Aliases(p, Identity(p)) = {}
  BY DEF OpenCreate
<1>3. h \in Handles /\ hDb[h] = None
  BY DEF IInv, TypeOK, Owned, Phases, Linked, OpenCreate
<1>4. /\ \A u \in Threads \ {t} :
           ctl'[u] = ctl[u] /\ ctl[u].pc \notin RegistryLabels
      /\ ctl'[t].h = h /\ ctl'[t].created /\ ctl'[t].path = p
  BY <1>2 DEF IInv, TypeOK, RegistryHeld, Control, OpenCreate
<1>5. hInst'[h] = i /\ \A k \in Handles \ {h} : hInst'[k] = hInst[k]
  BY <1>1, <1>3 DEF IInv, TypeOK
<1>6. /\ inst'[i].path = p /\ ~inst'[i].disabled /\ ~inst'[i].refused
      /\ \A j \in Instances \ {i} : inst'[j] = inst[j]
  BY <1>1 DEF IInv, TypeOK, NewInstance, Blank
<1>7. registered \subseteq Instances \ {i}
  BY <1>1 DEF IInv, TypeOK, Memory
<1>8. \A k \in Handles : hDb[k] # None =>
        hInst'[k] = hInst[k] /\ inst'[hInst[k]] = inst[hInst[k]]
  BY <1>3, <1>5, <1>6, <1>7, ConnectedFacts
<1>9. Matching' /\ SealMatches'
  BY <1>2, <1>8 DEF Sharing, Matching, SealMatches
<1>10. OnePerPath' /\ OneInstancePerDatabase'
  BY <1>2, <1>6, <1>7, <1>8 DEF Sharing, OnePerPath, OneInstancePerDatabase
<1>11. Known(p) = {}
  <2> SUFFICES ASSUME NEW d \in Known(p)
               PROVE  FALSE
    OBVIOUS
  <2>1. d \in LiveDbs /\ p # None
    BY DEF Known
  <2>2. PICK k \in Handles : hDb[k] = d /\ hDb[k] # None
    BY <2>1, LiveFacts
  <2>3. /\ hInst[k] \in registered
        /\ db[d].path = inst[hInst[k]].path
        /\ db[d].file = inst[hInst[k]].identity
        /\ db[d].path = None => db[d].file = None
    BY <2>2, ConnectedFacts DEF Sharing, Matching
  <2>4. CASE db[d].path = p
    BY <1>2, <2>1, <2>3, <2>4 DEF SamePath
  <2>5. CASE disk[p] # None /\ db[d].file = disk[p]
    BY <1>2, <2>1, <2>3, <2>5 DEF SamePath, Aliases, Identity
  <2> QED
    BY <2>4, <2>5 DEF Known
<1>12. SamePath(p)' = {} /\ Known(p)' = {}
  <2>1. p' = p
    BY <1>4
  <2>2. ASSUME NEW q
        PROVE  /\ {j \in registered' : q # None /\ inst'[j].path = q}
                    = {j \in registered : q # None /\ inst[j].path = q}
    BY <1>2, <1>6, <1>7
  <2> QED
    BY SMTT(30), <1>2, <1>11, <2>1, <2>2 DEF SamePath, Known, LiveDbs
<1>13. LookupHolds'
  <2>1. \A u \in Threads : ctl'[u].pc \in LookedUp => u = t
    BY <1>4
  <2> QED
    BY <1>4, <1>5, <1>6, <1>12, <2>1 DEF LookupHolds
<1> QED
  BY <1>9, <1>10, <1>13 DEF Sharing

\* An open that shares a record also shares its members' database: the guard
\* knows one by the path, and no other by the file.
LEMMA JoinsItsDatabase ==
    ASSUME IInv, Usage, Sharing, NEW t \in Threads, OpenLinked(t),
           ~ctl[t].created
    PROVE  \E g \in Handles : /\ hDb[g] # None /\ hInst[g] = hInst[ctl[t].h]
                              /\ hDb' = [hDb EXCEPT ![ctl[t].h] = hDb[g]]
                              /\ UNCHANGED db
<1> DEFINE h == ctl[t].h
           i == hInst[h]
           p == ctl[t].path
<1>1. i \in Instances /\ inst[i].path = p /\ p # None
        /\ inst[i].handles # {}
  BY LinkedFacts DEF Usage, JoinsMembers, Sharing, LookupHolds, OpenLinked
<1>2. PICK g \in Handles : hDb[g] # None /\ hInst[g] = i
  BY <1>1 DEF Usage, MembersExact
<1>3. hDb[g] \in LiveDbs /\ i \in registered /\ db[hDb[g]].path = p
  BY <1>1, <1>2, ConnectedFacts DEF Sharing, Matching
<1>4. hDb[g] \in Known(p)
  BY <1>1, <1>3 DEF Known
<1>5. PICK d \in Known(p) :
        /\ hDb' = [hDb EXCEPT ![h] = d] /\ UNCHANGED db
        /\ \A c \in Known(p) : disk[db[c].path] = db[c].file
  BY <1>4, NativeFacts
<1>6. d = hDb[g]
  <2>1. PICK k \in Handles : hDb[k] = d /\ hDb[k] # None
    BY LiveFacts DEF Known
  <2>2. CASE db[d].path = p
    <3>1. hInst[k] \in registered /\ inst[hInst[k]].path = p
      BY <2>1, <2>2, ConnectedFacts DEF Sharing, Matching
    <3>2. hInst[k] = i
      BY <1>1, <1>3, <3>1 DEF Sharing, OnePerPath
    <3> QED
      BY <1>2, <2>1, <3>2 DEF Sharing, OneInstancePerDatabase
  <2>3. CASE disk[p] # None /\ db[d].file = disk[p]
    <3>1. db[hDb[g]].file = disk[p]
      BY <1>3, <1>4, <1>5
    <3> QED
      BY <1>3, <2>3, <3>1 DEF Known, Usage, OneDatabasePerFile
  <2> QED
    BY <2>2, <2>3 DEF Known
<1> QED
  BY <1>2, <1>5, <1>6

\* A new record gets a database of its own; a shared one brings its database.
LEMMA OpenLinkedSharing ==
    ASSUME IInv, Usage, Sharing, NEW t \in Threads, OpenLinked(t)
    PROVE  Sharing'
<1> DEFINE h == ctl[t].h
           i == hInst[h]
           p == ctl[t].path
<1>0. inst[i].path = p
  BY SMTT(30) DEF Sharing, LookupHolds, OpenLinked
<1>1. /\ h \in Handles /\ i \in Instances /\ hDb[h] = None
      /\ registered' = registered \cup {i} /\ UNCHANGED hInst
      /\ \A u \in Threads : ctl'[u].pc \notin LookedUp
      /\ \A j \in Instances \ {i} : inst'[j] = inst[j]
      /\ inst'[i].disabled = inst[i].disabled
      /\ inst'[i].basedir = inst[i].basedir
      /\ inst'[i].path = inst[i].path /\ inst[i].path = p
  <2>1. \A u \in Threads : ctl'[u].pc \notin LookedUp
    BY LinkedFacts
  <2> QED
    BY <1>0, <2>1, LinkedFacts
<1>2. LookupHolds'
  BY <1>1 DEF LookupHolds
<1>3. CASE ctl[t].created
  <2>1. /\ i \notin registered /\ SamePath(p) = {} /\ Known(p) = {}
        /\ ~inst[i].disabled
    BY <1>1, <1>3 DEF IInv, Fresh, Sharing, LookupHolds, OpenLinked
  <2>2. inst'[i].identity = IF p = None THEN None ELSE disk'[p]
    BY <1>3, LinkedFacts
  <2>3. PICK d \in Dbs :
          /\ hDb' = [hDb EXCEPT ![h] = d]
          /\ \A k \in Handles \ {h} : hDb'[k] = hDb[k]
          /\ d \notin LiveDbs
          /\ \A c \in Dbs \ {d} : db'[c] = db[c]
          /\ db'[d].path = p
          /\ p = None => db'[d].file = None
          /\ p # None => db'[d].file = disk'[p]
    BY <2>1, NativeFacts
  <2>4. hDb'[h] = d
    BY <1>1, <2>3 DEF IInv, TypeOK
  <2>5. ASSUME NEW k \in Handles \ {h}, hDb[k] # None
        PROVE  /\ hDb[k] # d /\ hInst[k] # i
               /\ db'[hDb[k]] = db[hDb[k]]
               /\ inst'[hInst[k]] = inst[hInst[k]]
    BY <1>1, <2>1, <2>3, <2>5, ConnectedFacts
  <2>6. Matching'
    BY <1>1, <2>2, <2>3, <2>4, <2>5 DEF Sharing, Matching
  <2>7. SealMatches'
    BY <1>1, <2>1, <2>3, <2>4, <2>5 DEF Sharing, SealMatches
  <2>8. OneInstancePerDatabase'
    BY <1>1, <2>3, <2>4, <2>5 DEF Sharing, OneInstancePerDatabase
  <2>9. OnePerPath'
    <3>1. \A j \in registered : j # i /\ inst'[j] = inst[j]
      BY <1>1, <2>1 DEF IInv, TypeOK
    <3>2. \A j \in registered : p # None => inst[j].path # p
      BY <2>1 DEF SamePath
    <3> QED
      BY <1>1, <3>1, <3>2 DEF Sharing, OnePerPath
  <2> QED
    BY <1>2, <2>6, <2>7, <2>8, <2>9 DEF Sharing
<1>4. CASE ~ctl[t].created
  <2>1. PICK g \in Handles : /\ hDb[g] # None /\ hInst[g] = i
                             /\ hDb' = [hDb EXCEPT ![h] = hDb[g]]
                             /\ UNCHANGED db
    BY <1>4, JoinsItsDatabase
  <2>2. inst'[i].identity = inst[i].identity
    BY <1>4, LinkedFacts
  <2>3. hDb'[h] = hDb[g] /\ \A k \in Handles \ {h} : hDb'[k] = hDb[k]
    BY <1>1, <2>1 DEF IInv, TypeOK
  <2>4. i \in registered /\ registered' = registered
    BY <1>1, <2>1, ConnectedFacts
  <2>5. \A j \in Instances : /\ inst'[j].path = inst[j].path
                             /\ inst'[j].identity = inst[j].identity
                             /\ inst'[j].disabled = inst[j].disabled
                             /\ inst'[j].basedir = inst[j].basedir
    BY <1>1, <2>2
  <2>6. \A k \in Handles : hDb[k] # None => hInst[k] \in Instances
    BY ConnectedFacts
  <2>7. Matching'
    BY <1>1, <2>1, <2>3, <2>5, <2>6 DEF Sharing, Matching
  <2>8. SealMatches'
    BY <1>1, <2>1, <2>3, <2>5, <2>6 DEF Sharing, SealMatches
  <2>9. OneInstancePerDatabase'
    BY <1>1, <2>1, <2>3 DEF Sharing, OneInstancePerDatabase
  <2>10. OnePerPath'
    BY <2>4, <2>5 DEF IInv, TypeOK, Sharing, OnePerPath
  <2> QED
    BY <1>2, <2>7, <2>8, <2>9, <2>10 DEF Sharing
<1> QED
  BY <1>3, <1>4

\* No thread is left between lookup and native open when one of them ends.
LEMMA OpenNativeFailsSharing ==
    ASSUME IInv, Sharing, NEW t \in Threads, OpenNativeFails(t)
    PROVE  Sharing'
<1>1. UNCHANGED <<registered, inst, hInst, hDb, db>>
  BY DEF OpenNativeFails
<1>2. \A u \in Threads : ctl'[u].pc \notin LookedUp
  BY AloneInside DEF IInv, TypeOK, Control, OpenNativeFails
<1> QED
  BY <1>1, <1>2 DEF Sharing, Matching, OnePerPath, LookupHolds,
     OneInstancePerDatabase, SealMatches

\* Releasing the registry after an open changes nothing that is shared.
LEMMA OpenSucceededSharing ==
    ASSUME IInv, Sharing, NEW t \in Threads, OpenSucceeded(t)
    PROVE  Sharing'
<1>1. UNCHANGED <<registered, inst, hInst, hDb, db>>
  BY DEF OpenSucceeded
<1>2. \A u \in Threads : ctl'[u].pc \notin LookedUp
  BY AloneInside DEF IInv, TypeOK, Idle, OpenSucceeded
<1> QED
  BY <1>1, <1>2 DEF Sharing, Matching, OnePerPath, LookupHolds,
     OneInstancePerDatabase, SealMatches

\* A record that an open or a close frees is that of no connected handle.
LEMMA FreeSharing ==
    ASSUME IInv, Sharing, NEW S,
           registered' \subseteq registered \ S,
           UNCHANGED <<hDb, db>>,
           \A j \in Instances \ S : inst'[j] = inst[j],
           \A k \in Handles : hDb[k] # None =>
             hInst'[k] = hInst[k] /\ hInst[k] \notin S,
           \A u \in Threads : ctl'[u].pc \notin LookedUp
    PROVE  Sharing'
<1>1. \A k \in Handles : hDb[k] # None => inst'[hInst[k]] = inst[hInst[k]]
  BY ConnectedFacts
<1>2. \A j \in registered' : j \in registered /\ inst'[j] = inst[j]
  BY DEF IInv, TypeOK
<1> QED
  BY <1>1, <1>2 DEF Sharing, Matching, OnePerPath, LookupHolds,
     OneInstancePerDatabase, SealMatches

\* open_instance frees a record no other handle has reached.
LEMMA OpenFailedSharing ==
    ASSUME IInv, Sharing, NEW t \in Threads, OpenFailed(t)
    PROVE  Sharing'
<1> DEFINE h == ctl[t].h
           S == IF ctl[t].created THEN {hInst[h]} ELSE {}
<1>1. /\ UNCHANGED <<registered, hDb, db>>
      /\ hDb[h] = None /\ h \in Handles
      /\ hInst' = [hInst EXCEPT ![h] = None]
  BY DEF IInv, Owned, OpenFailed
<1>2. \A u \in Threads : ctl'[u].pc \notin LookedUp
  BY AloneInside DEF IInv, TypeOK, Idle, OpenFailed
<1>3. \A j \in Instances \ S : inst'[j] = inst[j]
  BY FreeFacts DEF OpenFailed
<1>4. registered \cap S = {}
  BY <1>1 DEF IInv, Fresh, OpenFailed
<1>5. \A k \in Handles : hDb[k] # None =>
        hInst'[k] = hInst[k] /\ hInst[k] \notin S
  BY <1>1, <1>4, ConnectedFacts DEF IInv, TypeOK
<1> HIDE DEF S
<1> QED
  BY <1>1, <1>2, <1>3, <1>4, <1>5, FreeSharing

\* handle_closer frees a record without members.
LEMMA CloseFinishSharing ==
    ASSUME IInv, Sharing, NEW t \in Threads, CloseFinish(t)
    PROVE  Sharing'
<1> DEFINE h == ctl[t].h
           S == Abandoned(hInst[h])
<1>1. /\ UNCHANGED <<hDb, db>> /\ registered' = registered \ S
      /\ hDb[h] = None /\ h \in Handles
      /\ hInst' = [hInst EXCEPT ![h] = None]
  BY DEF IInv, Owned, Phases, CloseFinish
<1>2. \A u \in Threads : ctl'[u].pc \notin LookedUp
  BY AloneInside DEF IInv, TypeOK, Idle, CloseFinish
<1>3. \A j \in Instances \ S : inst'[j] = inst[j]
  BY FreeFacts DEF CloseFinish
<1>4. \A k \in Handles : hDb[k] # None =>
        hInst'[k] = hInst[k] /\ hInst[k] \notin S
  BY <1>1 DEF IInv, TypeOK, Linked, Abandoned
<1> HIDE DEF S
<1> QED
  BY <1>1, <1>2, <1>3, <1>4, FreeSharing

\* The seal goes onto the database of the record that notes its value, and no
\* other record has that database.
LEMMA SandboxSharing ==
    ASSUME IInv, Usage, Sharing, NEW t \in Threads,
           Sandbox(t) \/ SandboxFails(t)
    PROVE  Sharing'
<1> DEFINE h == ctl[t].h
           i == hInst[h]
           d == hDb[h]
<1>1. /\ h \in Handles /\ i \in Instances /\ d \in Dbs /\ d # None
      /\ UNCHANGED <<registered, hInst, hDb, disk>>
  BY SandboxFacts
<1>2. \A k \in Handles : hDb[k] # None =>
        hInst[k] \in Instances /\ hDb[k] \in Dbs
  BY ConnectedFacts
<1>3. Matching' /\ OneInstancePerDatabase'
  BY <1>1, <1>2, SandboxFacts DEF Sharing, Matching, OneInstancePerDatabase
<1>4. OnePerPath'
  BY SandboxFacts DEF IInv, TypeOK, Sharing, OnePerPath
<1>5. LookupHolds'
  <2>1. \A u \in Threads : ctl'[u].pc \in LookedUp =>
          ctl'[u] = ctl[u] /\ u # t
    BY SandboxFacts
  <2>2. \A u \in Threads : ctl[u].pc \in LookedUp =>
          hInst[ctl[u].h] \in Instances /\ (ctl[u].created => hInst[ctl[u].h] # i)
    <3>1. i \in registered
      BY <1>1, ConnectedFacts
    <3> QED
      BY <3>1 DEF IInv, TypeOK, Owned, Phases, Fresh, Usage, NotYetConnected
  <2>3. \A q : SamePath(q)' = SamePath(q) /\ Known(q)' = Known(q)
    <3>1. LiveDbs' = LiveDbs /\ LiveDbs \subseteq Dbs
            /\ registered \subseteq Instances
      BY <1>1 DEF IInv, TypeOK, LiveDbs
    <3> QED
      BY <1>1, <3>1, SandboxFacts DEF SamePath, Known
  <2>4. ASSUME NEW u \in Threads, ctl'[u].pc \in LookedUp
        PROVE  LET j == hInst[ctl[u].h]
               IN  /\ ctl'[u] = ctl[u] /\ hInst'[ctl'[u].h] = j
                   /\ inst'[j].path = inst[j].path
                   /\ ctl[u].created =>
                        /\ inst'[j].disabled = inst[j].disabled
                        /\ inst'[j].refused = inst[j].refused
    BY <1>1, <2>1, <2>2, <2>4, SandboxFacts
  <2> QED
    BY <2>3, <2>4 DEF Sharing, LookupHolds
<1>6. SealMatches'
  <2> SUFFICES ASSUME NEW k \in Handles, hDb[k] # None,
                      inst'[hInst[k]].disabled,
                      inst'[hInst[k]].basedir # None
               PROVE  db'[hDb[k]].sealed = inst'[hInst[k]].basedir
    BY <1>1 DEF SealMatches
  <2>1. CASE hInst[k] # i
    <3>1. hDb[k] # d
      BY SMTT(30), <1>1, <2>1 DEF Sharing, OneInstancePerDatabase
    <3>2. inst'[hInst[k]] = inst[hInst[k]] /\ db'[hDb[k]] = db[hDb[k]]
      BY SMTT(30), <1>2, <2>1, <3>1, SandboxFacts
    <3> QED
      BY <3>2 DEF Sharing, SealMatches
  <2>2. CASE hInst[k] = i
    <3>1. hDb[k] = d
      BY <1>1, <2>2 DEF Sharing, OneInstancePerDatabase
    <3>2. inst[i].basedir = None
      BY <1>1, SandboxFacts DEF Usage, ValueNeedsProfile
    <3> QED
      BY SMTT(30), <2>2, <3>1, <3>2, SandboxFacts
  <2> QED
    BY <2>1, <2>2
<1> QED
  BY <1>3, <1>4, <1>5, <1>6 DEF Sharing

\* A handle that leaves takes nothing from those that stay.
LEMMA CloseNativeSharing ==
    ASSUME IInv, Sharing, NEW t \in Threads, CloseNative(t)
    PROVE  Sharing'
<1> DEFINE h == ctl[t].h
           i == hInst[h]
<1>1. \A j \in Instances : /\ inst'[j].path = inst[j].path
                           /\ inst'[j].identity = inst[j].identity
                           /\ inst'[j].disabled = inst[j].disabled
                           /\ inst'[j].basedir = inst[j].basedir
  BY CloseNativeFacts
<1>2. \A k \in Handles : hDb'[k] # None =>
        /\ hDb'[k] = hDb[k] /\ hInst'[k] = hInst[k]
        /\ hInst[k] \in Instances /\ db'[hDb'[k]] = db[hDb[k]]
  BY CloseNativeFacts, ConnectedFacts
<1>3. UNCHANGED registered /\ registered \subseteq Instances
  BY CloseNativeFacts DEF IInv, TypeOK
<1>4. \A u \in Threads : ctl'[u].pc \notin LookedUp
  BY CloseNativeFacts
<1> QED
  BY <1>1, <1>2, <1>3, <1>4 DEF Sharing, Matching, OnePerPath, LookupHolds,
     OneInstancePerDatabase, SealMatches

\* A file that changes between opens changes nothing an instance stands for.
LEMMA ChangeFileSharing ==
    ASSUME Sharing, NEW p \in Paths, NEW f \in Opt(Files), ChangeFile(p, f),
           \A t \in Threads : ~Opening(t)
    PROVE  Sharing'
<1>1. \A u \in Threads : ctl'[u].pc \notin LookedUp
  BY DEF ChangeFile, Opening
<1> QED
  BY <1>1 DEF Sharing, Matching, OnePerPath, LookupHolds,
     OneInstancePerDatabase, SealMatches, ChangeFile

-----------------------------------------------------------------------------

\* minit leaves nothing to share.
LEMMA InitSharing == Init => Usage /\ Sharing
<1> SUFFICES ASSUME Init
             PROVE  Usage /\ Sharing
  OBVIOUS
<1>1. Usage
  BY DEF Init, Usage, MembersExact, EmptyIsHeld, JoinsMembers,
     NotYetConnected, ValueNeedsProfile, OneDatabasePerFile, LiveDbs, Blank,
     Idle
<1>2. Sharing
  BY DEF Init, Sharing, Matching, OnePerPath, LookupHolds,
     OneInstancePerDatabase, SealMatches, Idle
<1> QED
  BY <1>1, <1>2

\* Every step keeps the member lists, and one database per file.
LEMMA UsageStep == IInv /\ Usage /\ [Next]_vars => Usage'
<1> SUFFICES ASSUME IInv, Usage, [Next]_vars
             PROVE  Usage'
  OBVIOUS
<1>1. ASSUME NEW t \in Threads, Begin(t)
      PROVE  Usage'
  BY <1>1, QuietSteps, QuietUsage DEF Begin
<1>2. ASSUME NEW t \in Threads, Acquire(t)
      PROVE  Usage'
  BY <1>2, QuietSteps, QuietUsage, OpenShareUsage, OpenCreateUsage
     DEF Acquire
<1>3. ASSUME NEW t \in Threads, Proceed(t)
      PROVE  Usage'
  BY <1>3, QuietSteps, QuietUsage, OpenLinkedUsage, OpenNativeFailsUsage,
     OpenSucceededUsage, OpenFailedUsage, SandboxUsage, CloseNativeUsage,
     CloseFinishUsage DEF Proceed
<1>4. ASSUME NEW p \in Paths, NEW f \in Opt(Files), ChangeFile(p, f)
      PROVE  Usage'
  BY <1>4, ChangeFileUsage
<1>5. CASE UNCHANGED vars
  BY <1>5, QuietUsage DEF vars, Quiet
<1> QED
  BY <1>1, <1>2, <1>3, <1>4, <1>5 DEF Next

\* Every step but a change of files in the middle of an open keeps who shares
\* what.
LEMMA SharingStep ==
    ASSUME IInv, Usage, Sharing, [Next]_vars,
           changes' = changes \/ \A t \in Threads : ~Opening(t)
    PROVE  Sharing'
<1>1. ASSUME NEW t \in Threads, Begin(t)
      PROVE  Sharing'
  BY <1>1, QuietSteps, QuietSharing DEF Begin
<1>2. ASSUME NEW t \in Threads, Acquire(t)
      PROVE  Sharing'
  BY <1>2, QuietSteps, QuietSharing, OpenShareSharing, OpenCreateSharing
     DEF Acquire
<1>3. ASSUME NEW t \in Threads, Proceed(t)
      PROVE  Sharing'
  BY <1>3, QuietSteps, QuietSharing, OpenLinkedSharing,
     OpenNativeFailsSharing, OpenSucceededSharing, OpenFailedSharing,
     SandboxSharing, CloseNativeSharing, CloseFinishSharing DEF Proceed
<1>4. ASSUME NEW p \in Paths, NEW f \in Opt(Files), ChangeFile(p, f)
      PROVE  Sharing'
  <2>1. changes \in Nat /\ changes' = changes + 1
    BY <1>4 DEF IInv, TypeOK, ChangeFile
  <2>2. changes' # changes
    BY <2>1
  <2> QED
    BY <1>4, <2>2, ChangeFileSharing
<1>5. CASE UNCHANGED vars
  BY <1>5, QuietSharing DEF vars, Quiet
<1> QED
  BY <1>1, <1>2, <1>3, <1>4, <1>5 DEF Next

-----------------------------------------------------------------------------

\* Member lists are exact and no database doubles a file, whatever other
\* processes do.
THEOREM UsageInvariance == Spec => []Usage
<1>1. Init => Usage
  BY InitSharing
<1>2. IInv /\ Usage /\ [Next]_vars => Usage'
  BY UsageStep
<1> QED
  BY <1>1, <1>2, Invariance, PTL DEF Spec

\* No record leaks and none is lost: between opens and closes the registry
\* holds exactly the instances in use (open_instance, handle_closer).
THEOREM NothingLeaks == Spec => []RegisteredWhileUsed
<1>1. IInv /\ Usage => RegisteredWhileUsed
  <2> SUFFICES ASSUME IInv, Usage, registry = None
               PROVE  /\ allocated = registered
                      /\ \A i \in registered :
                           inst[i].handles = {h \in Connected : hInst[h] = i}
                             /\ inst[i].handles # {}
    BY DEF RegisteredWhileUsed
  <2>1. registered \subseteq Instances
    BY DEF IInv, TypeOK
  <2> QED
    BY <2>1, AtPeace DEF Usage, MembersExact
<1> QED
  BY <1>1, Invariance, UsageInvariance, PTL

\* Until a file changes in the middle of an open, handles share a database
\* exactly when they share the instance with its mutex and sandbox state.
THEOREM InstancesMatchDatabases == RacedSpec => []OneInstanceUnlessRaced
<1> DEFINE J == IInv /\ Usage /\ (raced = FALSE => Sharing) /\ raced \in BOOLEAN
<1>1. RacedInit => J
  BY InitInv, InitSharing DEF RacedInit
<1>2. J /\ [RacedNext]_<<vars, raced>> => J'
  <2> SUFFICES ASSUME J, [RacedNext]_<<vars, raced>>
               PROVE  J'
    OBVIOUS
  <2>1. [Next]_vars
    BY DEF RacedNext
  <2>2. IInv' /\ Usage'
    BY <2>1, NextInv, UsageStep
  <2>3. raced' \in BOOLEAN
    BY DEF RacedNext
  <2>4. ASSUME raced' = FALSE
        PROVE  Sharing'
    <3>1. /\ raced = FALSE
          /\ changes' = changes \/ \A t \in Threads : ~Opening(t)
      BY <2>4 DEF RacedNext, vars, fileVars
    <3> QED
      BY <2>1, <3>1, SharingStep
  <2> QED
    BY <2>2, <2>3, <2>4
<1>3. J => OneInstanceUnlessRaced
  BY DEF OneInstanceUnlessRaced, Sharing
<1> HIDE DEF J
<1> QED
  BY <1>1, <1>2, <1>3, PTL DEF RacedSpec

\* What a thread with an open_basedir runs SQL on is locked with that value, by
\* whichever sibling of its handle that was done.
LEMMA SealedWhileRunning ==
    ASSUME IInv, Sharing
    PROVE  SqlRunsSealed
<1> SUFFICES ASSUME NEW t \in Threads, ctl[t].pc = "running",
                    basedir[t] # None
             PROVE  db[hDb[ctl[t].h]].sealed = basedir[t]
  BY DEF SqlRunsSealed
<1>1. ctl[t].h \in Handles /\ hDb[ctl[t].h] # None
  BY DEF IInv, Owned, Phases
<1>2. inst[hInst[ctl[t].h]].disabled
        /\ inst[hInst[ctl[t].h]].basedir = basedir[t]
  BY DEF IInv, SqlIsContained
<1> QED
  BY <1>1, <1>2 DEF Sharing, SealMatches

\* With RacingReplacement FALSE no file changes in the middle of an open.
LEMMA RestsWhileOpening ==
    ASSUME RacingReplacement = FALSE, [Next]_vars
    PROVE  changes' = changes \/ \A t \in Threads : ~Opening(t)
<1>1. ASSUME NEW p \in Paths, NEW f \in Opt(Files), ChangeFile(p, f)
      PROVE  \A t \in Threads : ~Opening(t)
  BY <1>1 DEF ChangeFile, Opening
<1>2. ASSUME NEW t \in Threads, Begin(t) \/ Acquire(t) \/ Proceed(t)
      PROVE  changes' = changes
  BY <1>2 DEF Begin, Open, Use, Close, SetBasedir, Acquire, OpenShare,
     OpenCreate, OpenLookupFails, OpenLock, EnterLock, PlainLock,
     CloseRegistry, CloseLock, Proceed, OpenLinked, OpenNativeFails,
     OpenUnlock, OpenSucceeded, OpenFailed, Admit, Deny, Sandbox,
     SandboxFails, Leave, PlainUnlock, CloseNative, CloseUnlock,
     CloseFinish
<1> QED
  BY <1>1, <1>2 DEF Next, vars

\* When no file changes in the middle of an open, SQL of a thread with an
\* open_basedir runs on a database locked with it (enforce_sandbox_locked).
THEOREM SqlIsSealed ==
    ASSUME RacingReplacement = FALSE
    PROVE  Spec => []SqlRunsSealed
<1> DEFINE J == IInv /\ Usage /\ Sharing
<1>1. Init => J
  BY InitInv, InitSharing
<1>2. J /\ [Next]_vars => J'
  <2> SUFFICES ASSUME J, [Next]_vars
               PROVE  J'
    OBVIOUS
  <2> QED
    BY NextInv, UsageStep, SharingStep, RestsWhileOpening
<1>3. J => SqlRunsSealed
  BY SealedWhileRunning
<1> HIDE DEF J
<1> QED
  BY <1>1, <1>2, <1>3, PTL DEF Spec

-----------------------------------------------------------------------------
(* The registry implements SharedDatabase.                                  *)

\* The policies and the running SQL the refinement mapping shows.
Policies == [d \in Dbs |-> PolicyOf(d)]
Executing ==
    [t \in Threads |-> IF At(t, "running") THEN hDb[MyHandle(t)] ELSE None]

Recorded(i) == [value |-> inst[i].basedir, refused |-> inst[i].refused]

\* The policy of a database is what the instance of any of its handles has
\* recorded, whichever handle the mapping chooses.
PolicyIsRecorded ==
    /\ \A h \in Handles : hDb[h] # None =>
         PolicyOf(hDb[h]) = Recorded(hInst[h])
    /\ \A d \in Dbs \ LiveDbs :
         PolicyOf(d) = [value |-> None, refused |-> FALSE]

\* The mutex of the instance is held by the thread whose SQL runs, so no other
\* holder of it finds SQL on its database.
Exclusive ==
    \A t, u \in Threads :
        /\ ctl[t].pc \in MutexLabels /\ hDb[ctl[t].h] # None
        /\ ctl[u].pc = "running" /\ hDb[ctl[u].h] = hDb[ctl[t].h]
        => t = u

\* Handles on one database share the instance the mapping looks at.
LEMMA OnePolicy == IInv /\ Sharing => PolicyIsRecorded /\ Exclusive
<1> SUFFICES ASSUME IInv, Sharing
             PROVE  PolicyIsRecorded /\ Exclusive
  OBVIOUS
<1>1. ASSUME NEW h \in Handles, hDb[h] # None
      PROVE  PolicyOf(hDb[h]) = Recorded(hInst[h])
  <2> DEFINE g == CHOOSE k \in Handles : hDb[k] = hDb[h]
  <2>1. g \in Handles /\ hDb[g] = hDb[h]
    OBVIOUS
  <2>2. hInst[g] = hInst[h]
    BY <1>1, <2>1 DEF Sharing, OneInstancePerDatabase
  <2> QED
    BY <1>1, <2>2, ConnectedFacts DEF PolicyOf, InstanceOf, Recorded
<1>2. ASSUME NEW t \in Threads, NEW u \in Threads,
             ctl[t].pc \in MutexLabels, hDb[ctl[t].h] # None,
             ctl[u].pc = "running", hDb[ctl[u].h] = hDb[ctl[t].h]
      PROVE  t = u
  <2>1. ctl[t].h \in Handles /\ ctl[u].h \in Handles
    BY <1>2 DEF IInv, Owned
  <2>2. hInst[ctl[u].h] = hInst[ctl[t].h]
    BY <1>2, <2>1 DEF Sharing, OneInstancePerDatabase
  <2> QED
    BY <1>2, <2>2 DEF IInv, MutexHeld
<1> QED
  BY <1>1, <1>2 DEF PolicyIsRecorded, Exclusive, PolicyOf

\* A step that keeps what instances of connected handles record keeps every
\* policy.
LEMMA PolicyKept ==
    ASSUME IInv, PolicyIsRecorded, PolicyIsRecorded', UNCHANGED hDb,
           \A h \in Handles : hDb[h] # None =>
             /\ hInst'[h] = hInst[h]
             /\ inst'[hInst[h]].basedir = inst[hInst[h]].basedir
             /\ inst'[hInst[h]].refused = inst[hInst[h]].refused
    PROVE  Policies' = Policies
<1> SUFFICES ASSUME NEW d \in Dbs
             PROVE  PolicyOf(d)' = PolicyOf(d)
  BY DEF Policies
<1>1. LiveDbs' = LiveDbs
  BY DEF LiveDbs
<1>2. CASE d \notin LiveDbs
  BY <1>1, <1>2 DEF PolicyOf
<1>3. CASE d \in LiveDbs
  <2>1. PICK h \in Handles : hDb[h] = d /\ hDb[h] # None
    BY <1>3, LiveFacts
  <2>2. PolicyOf(d) = Recorded(hInst[h])
    BY <2>1 DEF PolicyIsRecorded
  <2>3. PolicyOf(d)' = Recorded(hInst[h])'
    BY <2>1 DEF PolicyIsRecorded
  <2> QED
    BY <2>1, <2>2, <2>3 DEF Recorded
<1> QED
  BY <1>2, <1>3

\* Only the steps of a running thread, and into running, change what runs.
LEMMA ExecutingKept ==
    ASSUME IInv, NEW t \in Threads, ctl' \in [Threads -> Control],
           \A u \in Threads \ {t} : ctl'[u] = ctl[u],
           ctl[t].pc # "running", ctl'[t].pc # "running",
           \A h \in Handles : h # ctl[t].h => hDb'[h] = hDb[h]
    PROVE  Executing' = Executing
<1> SUFFICES ASSUME NEW u \in Threads \ {t}, ctl[u].pc = "running"
             PROVE  hDb'[ctl[u].h] = hDb[ctl[u].h]
  BY DEF Executing
<1>1. ctl[u].h \in Handles /\ owner[ctl[u].h] = u
  BY DEF IInv, Owned
<1>2. ctl[u].h # ctl[t].h
  BY <1>1 DEF IInv, Owned
<1> QED
  BY <1>1, <1>2

\* A step of t that neither runs SQL nor changes what connected handles
\* record; the abstract database does not see it.
Unseen(t) ==
    /\ UNCHANGED <<hDb, basedir>>
    /\ ctl' \in [Threads -> Control]
    /\ \A u \in Threads \ {t} : ctl'[u] = ctl[u]
    /\ ctl[t].pc # "running" /\ ctl'[t].pc # "running"
    /\ \A h \in Handles : hDb[h] # None =>
         /\ hInst'[h] = hInst[h]
         /\ inst'[hInst[h]].basedir = inst[hInst[h]].basedir
         /\ inst'[hInst[h]].refused = inst[hInst[h]].refused

LEMMA UnseenStep ==
    ASSUME IInv, PolicyIsRecorded, PolicyIsRecorded',
           NEW t \in Threads, Unseen(t)
    PROVE  UNCHANGED Shared!vars
<1>1. Policies' = Policies
  BY PolicyKept DEF Unseen
<1>2. Executing' = Executing
  BY ExecutingKept DEF Unseen
<1> QED
  BY <1>1, <1>2 DEF Shared!vars, Policies, Executing, Unseen

\* The lock operations, the lookup, a refused entry and the end of an open or
\* a close are not seen.
LEMMA LockStepsUnseen ==
    ASSUME IInv, IInv', NEW t \in Threads,
           \/ \E h \in Handles : \/ \E p \in Opt(Paths) : Open(t, h, p)
                                 \/ \E goal \in Goals : Use(t, h, goal)
                                 \/ Close(t, h)
           \/ OpenLookupFails(t) \/ OpenLock(t) \/ OpenUnlock(t)
           \/ OpenNativeFails(t) \/ OpenSucceeded(t)
           \/ EnterLock(t) \/ Deny(t) \/ PlainLock(t) \/ PlainUnlock(t)
           \/ CloseRegistry(t) \/ CloseLock(t) \/ CloseUnlock(t)
    PROVE  Unseen(t)
<1>1. ctl \in [Threads -> Control] /\ ctl' \in [Threads -> Control]
  BY DEF IInv, TypeOK
<1>2. UNCHANGED <<hDb, basedir, hInst, inst>>
  BY ZenonT(60) DEF Open, Use, Close, OpenLookupFails, OpenLock, OpenUnlock,
     OpenNativeFails, OpenSucceeded, EnterLock, Deny, PlainLock, PlainUnlock,
     CloseRegistry, CloseLock, CloseUnlock
<1>3. CASE \E h \in Handles : \/ \E p \in Opt(Paths) : Open(t, h, p)
                              \/ \E goal \in Goals : Use(t, h, goal)
                              \/ Close(t, h)
  <2>1. /\ \A u \in Threads \ {t} : ctl'[u] = ctl[u]
        /\ ctl[t].pc = "idle"
    BY <1>1, <1>3 DEF Open, Use, Close
  <2>2. ctl'[t].pc # "running"
    <3>1. ASSUME NEW h \in Handles, NEW p \in Opt(Paths), Open(t, h, p)
          PROVE  ctl'[t].pc # "running"
      <4>1. PICK label \in {"open_registry", "close_registry"} :
              ctl' = [ctl EXCEPT ![t] = [Idle EXCEPT !.pc = label, !.h = h,
                                          !.path = p, !.goal = "factory"]]
        BY <3>1 DEF Open
      <4>2. ctl'[t].pc = label
        BY <1>1, <4>1 DEF Idle
      <4> QED
        BY <4>2
    <3>2. ASSUME NEW h \in Handles, NEW goal \in Goals, Use(t, h, goal)
          PROVE  ctl'[t].pc # "running"
      BY <1>1, <3>2 DEF Use, Idle
    <3>3. ASSUME NEW h \in Handles, Close(t, h)
          PROVE  ctl'[t].pc # "running"
      BY ZenonT(60), <1>1, <3>3 DEF Close, Idle
    <3> QED
      BY <1>3, <3>1, <3>2, <3>3
  <2> QED
    BY <1>1, <1>2, <2>1, <2>2 DEF Unseen
<1>4. CASE OpenLookupFails(t) \/ OpenLock(t) \/ OpenUnlock(t)
             \/ OpenNativeFails(t) \/ OpenSucceeded(t)
  <2>1. CASE OpenLookupFails(t) \/ OpenLock(t)
    BY <1>1, <1>2, <2>1 DEF Unseen, OpenLookupFails, OpenLock, Control
  <2>2. CASE OpenUnlock(t) \/ OpenNativeFails(t)
    BY <1>1, <1>2, <2>2 DEF Unseen, OpenUnlock, OpenNativeFails, Control
  <2>3. CASE OpenSucceeded(t)
    BY <1>1, <1>2, <2>3 DEF Unseen, OpenSucceeded, Idle
  <2> QED
    BY <1>4, <2>1, <2>2, <2>3
<1>5. CASE EnterLock(t) \/ Deny(t) \/ PlainLock(t) \/ PlainUnlock(t)
  BY <1>1, <1>2, <1>5 DEF Unseen, EnterLock, Deny, AfterRefusal, PlainLock,
     PlainUnlock, Idle, Control
<1>6. CASE CloseRegistry(t) \/ CloseLock(t) \/ CloseUnlock(t)
  BY <1>1, <1>2, <1>6 DEF Unseen, CloseRegistry, CloseLock, CloseUnlock,
     Control
<1> QED
  BY <1>3, <1>4, <1>5, <1>6

\* Records come and go only while no connected handle has them.
LEMMA RecordStepsUnseen ==
    ASSUME IInv, IInv', NEW t \in Threads,
           OpenShare(t) \/ OpenCreate(t) \/ OpenFailed(t) \/ CloseFinish(t)
    PROVE  Unseen(t)
<1> DEFINE h == ctl[t].h
<1>1. ctl \in [Threads -> Control] /\ ctl' \in [Threads -> Control]
  BY DEF IInv, TypeOK
<1>2. UNCHANGED <<hDb, basedir>>
  BY DEF OpenShare, OpenCreate, OpenFailed, CloseFinish
<1>3. /\ \A u \in Threads \ {t} : ctl'[u] = ctl[u]
      /\ ctl[t].pc # "running" /\ ctl'[t].pc # "running"
  <2>1. CASE OpenShare(t)
    BY <1>1, <2>1 DEF OpenShare, Control
  <2>2. CASE OpenCreate(t)
    BY <1>1, <2>2 DEF OpenCreate, Control
  <2>3. CASE OpenFailed(t)
    BY <1>1, <2>3 DEF OpenFailed, Idle
  <2>4. CASE CloseFinish(t)
    BY <1>1, <2>4 DEF CloseFinish, Idle
  <2> QED
    BY <2>1, <2>2, <2>3, <2>4
<1>4. h \in Handles /\ hDb[h] = None
  BY DEF IInv, TypeOK, Owned, Phases, Linked, OpenShare, OpenCreate,
     OpenFailed, CloseFinish
<1>5. ASSUME NEW k \in Handles, hDb[k] # None
      PROVE  hInst'[k] = hInst[k] /\ inst'[hInst[k]] = inst[hInst[k]]
  <2>1. k # h /\ hInst[k] \in Instances /\ hInst[k] \in registered
          /\ hInst[k] \in allocated
    BY <1>4, <1>5, ConnectedFacts DEF IInv, Memory
  <2>2. CASE OpenShare(t)
    BY <1>4, <2>1, <2>2 DEF IInv, TypeOK, OpenShare
  <2>3. CASE OpenCreate(t)
    BY <1>4, <2>1, <2>3 DEF IInv, TypeOK, OpenCreate
  <2>4. CASE OpenFailed(t)
    <3>1. ctl[t].created => hInst[h] # hInst[k]
      BY <1>4, <2>1, <2>4 DEF IInv, Fresh, OpenFailed
    <3> QED
      BY <1>4, <2>1, <2>4, <3>1 DEF IInv, TypeOK, OpenFailed, Free
  <2>5. CASE CloseFinish(t)
    <3>1. hInst[k] \notin Abandoned(hInst[h])
      BY <1>5 DEF IInv, Linked, Abandoned
    <3> QED
      BY <1>4, <2>1, <2>5, <3>1 DEF IInv, TypeOK, CloseFinish, Free
  <2> QED
    BY <2>2, <2>3, <2>4, <2>5
<1> QED
  BY <1>1, <1>2, <1>3, <1>5 DEF Unseen

\* Policies that agree but for one database are an update of it.
LEMMA PolicyUpdate ==
    ASSUME NEW d \in Dbs,
           \A c \in Dbs \ {d} : Policies'[c] = Policies[c]
    PROVE  Policies' = [Policies EXCEPT ![d] = Policies'[d]]
BY DEF Policies

\* A policy that is another instance's stays when one instance changes.
LEMMA OtherPolicies ==
    ASSUME IInv, Sharing, PolicyIsRecorded, PolicyIsRecorded',
           NEW h \in Handles, hDb[h] # None, UNCHANGED hInst,
           \A k \in Handles : hDb[k] # hDb[h] => hDb'[k] = hDb[k],
           \A k \in Handles : hDb[k] = hDb[h] => hDb'[k] \in {hDb[h], None},
           \A j \in Instances \ {hInst[h]} : inst'[j] = inst[j]
    PROVE  \A c \in Dbs \ {hDb[h]} : PolicyOf(c)' = PolicyOf(c)
<1> SUFFICES ASSUME NEW c \in Dbs \ {hDb[h]}
             PROVE  PolicyOf(c)' = PolicyOf(c)
  OBVIOUS
<1>1. c \in LiveDbs' <=> c \in LiveDbs
  BY DEF LiveDbs
<1>2. CASE c \notin LiveDbs
  BY <1>1, <1>2 DEF PolicyOf
<1>3. CASE c \in LiveDbs
  <2>1. PICK k \in Handles : hDb[k] = c /\ hDb[k] # None
    BY <1>3, LiveFacts
  <2>2. hDb'[k] = c /\ hInst[k] # hInst[h] /\ hInst[k] \in Instances
    BY <2>1, ConnectedFacts DEF Sharing, OneInstancePerDatabase
  <2>3. PolicyOf(c) = Recorded(hInst[k])
    BY <2>1 DEF PolicyIsRecorded
  <2>4. PolicyOf(c)' = Recorded(hInst[k])'
    BY <2>1, <2>2 DEF PolicyIsRecorded
  <2>5. inst'[hInst[k]] = inst[hInst[k]]
    BY <2>2
  <2> QED
    BY <2>3, <2>4, <2>5 DEF Recorded
<1> QED
  BY <1>2, <1>3

\* ini_set is the abstract one.
LEMMA SetBasedirRefines ==
    ASSUME IInv, PolicyIsRecorded, PolicyIsRecorded',
           NEW t \in Threads, NEW b \in Opt(Basedirs), SetBasedir(t, b)
    PROVE  Shared!SetBasedir(t, b)
<1>1. UNCHANGED <<hDb, hInst, inst, ctl>> /\ ctl[t].pc = "idle"
        /\ basedir' = [basedir EXCEPT ![t] = b]
  BY DEF SetBasedir
<1>2. Policies' = Policies
  BY <1>1, PolicyKept
<1>3. Executing' = Executing /\ Executing[t] = None
  BY <1>1 DEF Executing
<1> QED
  BY <1>1, <1>2, <1>3 DEF Shared!SetBasedir, Policies, Executing

\* What other processes do to files does not show.
LEMMA ChangeFileUnseen ==
    ASSUME IInv, PolicyIsRecorded, PolicyIsRecorded',
           UNCHANGED <<hDb, hInst, inst, ctl, basedir>>
    PROVE  UNCHANGED Shared!vars
<1>1. Policies' = Policies
  BY PolicyKept
<1>2. Executing' = Executing
  BY DEF Executing
<1> QED
  BY <1>1, <1>2 DEF Shared!vars, Policies, Executing

\* Leaving the native call ends the SQL.
LEMMA LeaveRefines ==
    ASSUME IInv, IInv', PolicyIsRecorded, PolicyIsRecorded',
           NEW t \in Threads, Leave(t)
    PROVE  Shared!Finish(t)
<1>1. UNCHANGED <<hDb, hInst, inst, basedir>> /\ ctl[t].pc = "running"
  BY DEF Leave
<1>2. ctl \in [Threads -> Control] /\ ctl' \in [Threads -> Control]
  BY DEF IInv, TypeOK
<1>3. ctl'[t].pc # "running" /\ \A u \in Threads \ {t} : ctl'[u] = ctl[u]
  BY <1>2 DEF Leave, Idle, Control
<1>4. Policies' = Policies
  BY <1>1, PolicyKept
<1>5. Executing' = [Executing EXCEPT ![t] = None]
  BY <1>1, <1>2, <1>3 DEF Executing
<1>6. Executing[t] # None
  BY <1>1 DEF IInv, Phases, Executing
<1> QED
  BY <1>1, <1>4, <1>5, <1>6 DEF Shared!Finish, Policies, Executing

\* A thread that has entered an instance holds it alone.
LEMMA EntryFacts ==
    ASSUME IInv, Exclusive, NEW t \in Threads,
           ctl[t].pc \in {"enter_check", "close_native"}, hDb[ctl[t].h] # None
    PROVE  LET d == hDb[ctl[t].h]
           IN  /\ ctl[t].h \in Handles /\ d \in Dbs
               /\ Shared!Members(d) # {}
               /\ Executing[t] = None
               /\ \A u \in Threads : Executing[u] # d
<1> DEFINE d == hDb[ctl[t].h]
<1>1. ctl[t].h \in Handles /\ d \in Dbs
  BY ConnectedFacts DEF IInv, Owned
<1>2. Shared!Members(d) # {}
  BY <1>1 DEF Shared!Members
<1>3. \A u \in Threads : Executing[u] # d
  BY DEF Exclusive, Executing
<1> QED
  BY <1>1, <1>2, <1>3 DEF Executing

\* The step into running is the only change to what runs.
LEMMA ExecutingStarts ==
    ASSUME IInv, NEW t \in Threads, UNCHANGED hDb, Goto(t, "running")
    PROVE  Executing' = [Executing EXCEPT ![t] = hDb[ctl[t].h]]
<1>1. ctl \in [Threads -> Control]
  BY DEF IInv, TypeOK
<1>2. /\ \A u \in Threads \ {t} : ctl'[u] = ctl[u]
      /\ ctl'[t].pc = "running" /\ ctl'[t].h = ctl[t].h
  BY <1>1 DEF Control
<1>3. Executing'[t] = hDb[ctl[t].h]
  BY <1>2 DEF Executing
<1>4. \A u \in Threads \ {t} : Executing'[u] = Executing[u]
  BY <1>2 DEF Executing
<1>5. /\ Executing = [u \in Threads |-> Executing[u]]
      /\ Executing' = [u \in Threads |-> Executing'[u]]
  BY SMTT(30) DEF Executing
<1> QED
  BY <1>3, <1>4, <1>5

\* native_enter on an instance that admits the thread.
LEMMA AdmitRefines ==
    ASSUME IInv, PolicyIsRecorded, PolicyIsRecorded', Exclusive,
           NEW t \in Threads, Admit(t), NEW d \in Dbs, d = hDb[ctl[t].h]
    PROVE  Shared!Start(t, d)
<1> DEFINE h == ctl[t].h
<1>1. UNCHANGED <<hDb, hInst, inst, basedir>> /\ Goto(t, "running")
        /\ ctl[t].pc = "enter_check" /\ Admissible(t)
  BY DEF Admit
<1>2. d # None
  BY <1>1 DEF IInv, Phases
<1>3. /\ h \in Handles /\ d \in Dbs /\ Shared!Members(d) # {}
      /\ Executing[t] = None /\ \A u \in Threads : Executing[u] # d
  BY <1>1, <1>2, EntryFacts
<1>4. Policies' = Policies
  BY <1>1, PolicyKept
<1>5. Executing' = [Executing EXCEPT ![t] = d]
  BY <1>1, ExecutingStarts
<1>6. /\ ~Policies[d].refused
      /\ basedir[t] \in {None, Policies[d].value}
  <2>1. Policies[d] = Recorded(hInst[h])
    BY <1>2, <1>3 DEF PolicyIsRecorded, Policies
  <2> QED
    BY <1>1, <2>1 DEF Recorded, Admissible
<1> QED
  BY <1>1, <1>3, <1>4, <1>5, <1>6 DEF Shared!Start, Policies, Executing

\* native_enter after a transition: the database takes the thread's value.
LEMMA SandboxRefines ==
    ASSUME IInv, Usage, Sharing, PolicyIsRecorded, PolicyIsRecorded',
           Exclusive, NEW t \in Threads, Sandbox(t),
           NEW d \in Dbs, d = hDb[ctl[t].h]
    PROVE  Shared!Start(t, d)
<1>0. PICK h, i : h = ctl[t].h /\ i = hInst[h] /\ d = hDb[h]
  BY SMTT(30)
<1>1. /\ UNCHANGED <<hDb, hInst, basedir>> /\ Goto(t, "running")
      /\ ctl[t].pc = "enter_check"
      /\ ~inst[i].refused /\ basedir[t] # None /\ ~inst[i].disabled
      /\ inst' = [inst EXCEPT ![i].disabled = TRUE,
                              ![i].basedir = basedir[t]]
  BY <1>0 DEF Sandbox, NeedsTransition
<1>2. d # None /\ i \in Instances
  BY ZenonT(60), <1>0, <1>1, SandboxFacts DEF IInv, Phases
<1>3. /\ h \in Handles /\ d \in Dbs /\ Shared!Members(d) # {}
      /\ Executing[t] = None /\ \A u \in Threads : Executing[u] # d
  BY <1>0, <1>1, <1>2, EntryFacts
<1>4. /\ inst'[i].basedir = basedir[t] /\ inst'[i].refused = inst[i].refused
      /\ \A j \in Instances \ {i} : inst'[j] = inst[j]
  BY <1>1, <1>2 DEF IInv, TypeOK, InstanceRecord
<1>5. PolicyOf(d) = [value |-> None, refused |-> inst[i].refused]
  BY <1>0, <1>1, <1>2, <1>3 DEF PolicyIsRecorded, Recorded, Usage, ValueNeedsProfile
<1>6. PolicyOf(d)' = [value |-> basedir[t], refused |-> inst[i].refused]
  <2>1. PolicyOf(d)' = Recorded(i)'
    BY <1>0, <1>1, <1>2, <1>3 DEF PolicyIsRecorded
  <2>2. Recorded(i)' = [value |-> inst'[i].basedir,
                        refused |-> inst'[i].refused]
    BY <1>1 DEF Recorded
  <2> QED
    BY <1>4, <2>1, <2>2
<1>7. \A c \in Dbs \ {d} : PolicyOf(c)' = PolicyOf(c)
  BY <1>0, <1>1, <1>2, <1>3, <1>4, OtherPolicies
<1>8. Policies' = [Policies EXCEPT ![d].value = basedir[t]]
  <2>1. [Policies[d] EXCEPT !.value = basedir[t]] = PolicyOf(d)'
    BY <1>3, <1>5, <1>6 DEF Policies
  <2>2. Policies'[d] = [Policies[d] EXCEPT !.value = basedir[t]]
    <3>1. Policies'[d] = PolicyOf(d)'
      BY <1>3 DEF Policies
    <3> QED
      BY <2>1, <3>1
  <2>3. \A c \in Dbs \ {d} : Policies'[c] = Policies[c]
    BY SMTT(30), <1>7 DEF Policies
  <2> QED
    BY <1>3, <2>2, <2>3, PolicyUpdate
<1>9. Executing' = [Executing EXCEPT ![t] = d]
  BY <1>0, <1>1, ExecutingStarts
<1>10. ~Policies[d].refused /\ Policies[d].value = None
  BY <1>1, <1>3, <1>5 DEF Policies
<1> QED
  BY <1>0, <1>1, <1>3, <1>8, <1>9, <1>10 DEF Shared!Start, Policies, Executing

\* A failed transition refuses the database; what it had is still no value.
LEMMA SandboxFailsRefines ==
    ASSUME IInv, IInv', Usage, Sharing, PolicyIsRecorded, PolicyIsRecorded',
           Exclusive, NEW t \in Threads, SandboxFails(t),
           NEW d \in Dbs, d = hDb[ctl[t].h]
    PROVE  Shared!Refuse(d)
<1>0. PICK h, i : h = ctl[t].h /\ i = hInst[h] /\ d = hDb[h]
  BY SMTT(30)
<1>1. /\ UNCHANGED <<hDb, hInst, basedir>> /\ ctl[t].pc = "enter_check"
      /\ ~inst[i].disabled
      /\ \/ inst' = [inst EXCEPT ![i].refused = TRUE]
         \/ inst' = [inst EXCEPT ![i].refused = TRUE, ![i].disabled = TRUE]
  BY <1>0 DEF SandboxFails, NeedsTransition
<1>2. d # None /\ i \in Instances
  BY ZenonT(60), <1>0, <1>1, SandboxFacts DEF IInv, Phases
<1>3. /\ h \in Handles /\ d \in Dbs /\ Shared!Members(d) # {}
      /\ Executing[t] = None /\ \A u \in Threads : Executing[u] # d
  BY <1>0, <1>1, <1>2, EntryFacts
<1>4. /\ inst'[i].basedir = inst[i].basedir /\ inst'[i].refused = TRUE
      /\ \A j \in Instances \ {i} : inst'[j] = inst[j]
  BY <1>1, <1>2 DEF IInv, TypeOK, InstanceRecord
<1>5. PolicyOf(d) = [value |-> None, refused |-> inst[i].refused]
  BY <1>0, <1>1, <1>2, <1>3
     DEF PolicyIsRecorded, Recorded, Usage, ValueNeedsProfile
<1>6. PolicyOf(d)' = [value |-> None, refused |-> inst'[i].refused]
  <2>1. PolicyOf(d)' = Recorded(i)'
    BY <1>0, <1>1, <1>2, <1>3 DEF PolicyIsRecorded
  <2>2. Recorded(i)' = [value |-> inst'[i].basedir,
                        refused |-> inst'[i].refused]
    BY <1>1 DEF Recorded
  <2>3. inst[i].basedir = None
    BY SMTT(30), <1>1, <1>2 DEF Usage, ValueNeedsProfile
  <2> QED
    BY <1>4, <2>1, <2>2, <2>3
<1>7. \A c \in Dbs \ {d} : PolicyOf(c)' = PolicyOf(c)
  BY SMTT(30), <1>0, <1>1, <1>2, <1>3, <1>4, OtherPolicies
<1>8. Policies' = [Policies EXCEPT ![d].refused = TRUE]
  <2>1. Policies[d] = [value |-> None, refused |-> inst[i].refused]
    BY <1>3, <1>5 DEF Policies
  <2>2. Policies'[d] = [value |-> None, refused |-> inst'[i].refused]
    BY <1>3, <1>6 DEF Policies
  <2>3. Policies'[d] = [Policies[d] EXCEPT !.refused = inst'[i].refused]
    BY <2>1, <2>2
  <2>4. \A c \in Dbs \ {d} : Policies'[c] = Policies[c]
    BY <1>7 DEF Policies
  <2>5. Policies' = [Policies EXCEPT ![d].refused = inst'[i].refused]
    BY <1>3, <2>3, <2>4, PolicyUpdate
  <2>6. inst'[i].refused = TRUE
    BY <1>4
  <2> QED
    BY <2>5, <2>6, Zenon
<1>9. Executing' = Executing
  <2>1. ctl'[t].pc # "running" /\ \A u \in Threads \ {t} : ctl'[u] = ctl[u]
    <3>1. ctl \in [Threads -> Control]
      BY DEF IInv, TypeOK
    <3>2. ctl'[t].pc \in {"plain_lock", "close_registry", "idle"}
      BY <3>1 DEF SandboxFails, AfterRefusal, AfterBailout, Idle, Control
    <3> QED
      BY <3>2, SandboxFacts
  <2>2. ctl' \in [Threads -> Control]
    BY DEF IInv, TypeOK
  <2> QED
    BY <1>1, <2>1, <2>2, ExecutingKept
<1>10. Policies[d].value = None
  BY <1>3, <1>5 DEF Policies
<1> QED
  BY <1>0, <1>1, <1>3, <1>8, <1>9, <1>10
     DEF Shared!Refuse, Policies, Executing

\* The closer leaves the database; the last handle takes the policy with it,
\* an earlier one may leave a refusal.
LEMMA CloseNativeRefines ==
    ASSUME IInv, IInv', Sharing, PolicyIsRecorded, PolicyIsRecorded',
           Exclusive, NEW t \in Threads, CloseNative(t),
           hDb[ctl[t].h] # None
    PROVE  Shared!Disconnect(ctl[t].h)
<1>0. PICK h, i, d : h = ctl[t].h /\ i = hInst[h] /\ d = hDb[h]
  OBVIOUS
<1>1. /\ UNCHANGED <<hInst, basedir>> /\ ctl[t].pc = "close_native"
      /\ d # None /\ h \in Handles /\ i \in Instances
      /\ hDb' = [hDb EXCEPT ![h] = None]
      /\ hDb'[h] = None /\ \A k \in Handles \ {h} : hDb'[k] = hDb[k]
      /\ \A j \in Instances \ {i} : inst'[j] = inst[j]
      /\ inst'[i].basedir = inst[i].basedir
  BY <1>0, CloseNativeFacts DEF CloseNative
<1>2. /\ d \in Dbs /\ Executing[t] = None
      /\ \A u \in Threads : Executing[u] # d
  BY <1>0, <1>1, EntryFacts
<1>3. inst'[i].refused \in {inst[i].refused, TRUE}
  <2>1. PICK refuse \in BOOLEAN :
          inst' = [inst EXCEPT ![i].handles = @ \ {h},
                               ![i].refused = @ \/ refuse]
    BY <1>0 DEF CloseNative
  <2>2. inst[i] \in InstanceRecord /\ inst \in [Instances -> InstanceRecord]
    BY <1>1 DEF IInv, TypeOK
  <2>3. inst[i].refused \in BOOLEAN
    BY <2>2 DEF InstanceRecord
  <2>4. inst'[i].refused = (inst[i].refused \/ refuse)
    BY <1>1, <2>1, <2>2 DEF InstanceRecord
  <2> QED
    BY <2>3, <2>4
<1>4. PolicyOf(d) = Recorded(i)
  BY <1>0, <1>1 DEF PolicyIsRecorded
<1>5. \A c \in Dbs \ {d} : PolicyOf(c)' = PolicyOf(c)
  BY <1>0, <1>1, OtherPolicies
<1>6. \A c \in Dbs \ {d} : Policies'[c] = Policies[c]
  BY <1>5 DEF Policies
<1>7. Policies'[d] = PolicyOf(d)' /\ Policies[d] = PolicyOf(d)
  BY <1>2 DEF Policies
<1>8. ASSUME Shared!Members(d) = {h}
      PROVE  Policies' = [Policies EXCEPT ![d] = Shared!Unrestricted]
  <2>1. d \notin LiveDbs'
    BY <1>1, <1>8 DEF LiveDbs, Shared!Members
  <2>2. Policies'[d] = Shared!Unrestricted
    BY <1>2, <1>7, <2>1 DEF PolicyIsRecorded, Shared!Unrestricted
  <2>3. Policies' = [Policies EXCEPT ![d] = Shared!Unrestricted]
    BY <1>2, <1>6, <2>2, PolicyUpdate
  <2> QED
    BY <2>3
<1>9. ASSUME Shared!Members(d) # {h}
      PROVE  \E r \in {Policies[d].refused, TRUE} :
               Policies' = [Policies EXCEPT ![d].refused = r]
  <2>1. PICK k \in Handles : k # h /\ hDb[k] = d
    BY <1>0, <1>1, <1>9 DEF Shared!Members
  <2>2. hDb'[k] = d /\ hInst'[k] = i
    BY <1>0, <1>1, <2>1 DEF Sharing, OneInstancePerDatabase
  <2>3. PolicyOf(d)' = Recorded(i)'
    BY <1>1, <2>2 DEF PolicyIsRecorded
  <2>4. Recorded(i)' = [value |-> inst'[i].basedir,
                        refused |-> inst'[i].refused]
    BY DEF Recorded
  <2>5. Policies'[d] = [Policies[d] EXCEPT !.refused = inst'[i].refused]
    BY <1>1, <1>4, <1>7, <2>3, <2>4 DEF Recorded
  <2>6. Policies' = [Policies EXCEPT ![d].refused = inst'[i].refused]
    BY <1>2, <1>6, <2>5, PolicyUpdate
  <2>7. inst'[i].refused \in {Policies[d].refused, TRUE}
    <3>1. Policies[d].refused = inst[i].refused
      BY <1>4, <1>7 DEF Recorded
    <3> QED
      BY <1>3, <3>1
  <2> QED
    BY <2>6, <2>7
<1>10. Executing' = Executing
  <2>1. /\ ctl'[t].pc # "running" /\ ctl' \in [Threads -> Control]
        /\ \A u \in Threads \ {t} : ctl'[u] = ctl[u]
    BY CloseNativeFacts DEF IInv, TypeOK
  <2> QED
    BY <1>0, <1>1, <2>1, ExecutingKept
<1>11. \/ /\ Shared!Members(d) = {h}
          /\ Policies' = [Policies EXCEPT ![d] = Shared!Unrestricted]
       \/ /\ Shared!Members(d) # {h}
          /\ \E r \in {Policies[d].refused, TRUE} :
               Policies' = [Policies EXCEPT ![d].refused = r]
  BY <1>8, <1>9
<1> QED
  BY ZenonT(60), <1>0, <1>1, <1>2, <1>10, <1>11
     DEF Shared!Disconnect, Policies, Executing

\* The native open joins a database with its policy, or one that has none.
LEMMA OpenLinkedRefines ==
    ASSUME IInv, IInv', Usage, Sharing, PolicyIsRecorded, PolicyIsRecorded',
           NEW t \in Threads, OpenLinked(t)
    PROVE  \E d \in Dbs : Shared!Connect(ctl[t].h, d)
<1>0. PICK h, i, p : h = ctl[t].h /\ i = hInst[h] /\ p = ctl[t].path
  OBVIOUS
<1>1. /\ h \in Handles /\ i \in Instances /\ hDb[h] = None
      /\ UNCHANGED <<hInst, basedir>>
      /\ \A j \in Instances : /\ inst'[j].basedir = inst[j].basedir
                              /\ inst'[j].refused = inst[j].refused
  <2>1. UNCHANGED <<hInst, basedir>>
    BY DEF OpenLinked
  <2> QED
    BY <1>0, <2>1, LinkedFacts
<1>2. PICK d \in Dbs :
        /\ hDb' = [hDb EXCEPT ![h] = d]
        /\ LiveDbs' = LiveDbs \cup {d}
        /\ ~ctl[t].created => \E g \in Handles :
             hDb[g] # None /\ hInst[g] = i /\ hDb[g] = d
        /\ ctl[t].created => d \notin LiveDbs
  <2>1. CASE ctl[t].created
    <3>1. Known(p) = {}
      BY <1>0, <2>1 DEF Sharing, LookupHolds, OpenLinked
    <3> QED
      BY <1>0, <2>1, <3>1, NativeFacts
  <2>2. CASE ~ctl[t].created
    <3>1. PICK g \in Handles : /\ hDb[g] # None /\ hInst[g] = i
                               /\ hDb' = [hDb EXCEPT ![h] = hDb[g]]
      BY <1>0, <2>2, JoinsItsDatabase
    <3>2. hDb[g] \in Dbs /\ hDb[g] \in LiveDbs
      BY <3>1, ConnectedFacts
    <3>3. hDb'[h] = hDb[g] /\ \A k \in Handles \ {h} : hDb'[k] = hDb[k]
      BY <1>1, <3>1 DEF IInv, TypeOK
    <3>4. LiveDbs' = LiveDbs \cup {hDb[g]}
      BY <1>1, <3>2, <3>3 DEF LiveDbs
    <3> QED
      BY <2>2, <3>1, <3>2, <3>4
  <2> QED
    BY <2>1, <2>2
<1>3. hDb'[h] = d /\ \A k \in Handles \ {h} : hDb'[k] = hDb[k]
  BY <1>1, <1>2 DEF IInv, TypeOK
<1>4. d # None
  OBVIOUS
<1>5. \A c \in Dbs \ LiveDbs' : PolicyOf(c)' = PolicyOf(c)
  BY <1>2 DEF PolicyOf
<1>6. ASSUME NEW c \in LiveDbs
      PROVE  PolicyOf(c)' = PolicyOf(c)
  <2>1. PICK k \in Handles : hDb[k] = c /\ hDb[k] # None
    BY LiveFacts
  <2>2. hDb'[k] = c /\ hInst'[k] = hInst[k] /\ hInst[k] \in Instances
    BY <1>1, <1>3, <2>1, ConnectedFacts
  <2>3. PolicyOf(c) = Recorded(hInst[k])
    BY <2>1 DEF PolicyIsRecorded
  <2>4. PolicyOf(c)' = Recorded(hInst[k])'
    BY <2>1, <2>2 DEF PolicyIsRecorded
  <2> QED
    BY <1>1, <2>2, <2>3, <2>4 DEF Recorded
<1>7. PolicyOf(d)' = PolicyOf(d)
  <2>1. CASE d \in LiveDbs
    BY <1>6, <2>1
  <2>2. CASE d \notin LiveDbs
    <3>1. ctl[t].created
      BY <1>2, <2>2, ConnectedFacts
    <3>2. inst[i].basedir = None /\ ~inst[i].refused
      BY <1>0, <1>1, <3>1
         DEF Sharing, LookupHolds, Usage, ValueNeedsProfile, OpenLinked
    <3>3. inst[i].refused = FALSE
      BY <1>1, <3>2 DEF IInv, TypeOK, InstanceRecord
    <3>4. PolicyOf(d) = [value |-> None, refused |-> FALSE]
      BY <2>2 DEF PolicyIsRecorded
    <3>5. PolicyOf(d)' = Recorded(i)'
      BY <1>0, <1>1, <1>3, <1>4 DEF PolicyIsRecorded
    <3>6. Recorded(i)' = [value |-> inst'[i].basedir,
                          refused |-> inst'[i].refused]
      BY DEF Recorded
    <3> QED
      BY <1>1, <3>2, <3>3, <3>4, <3>5, <3>6
  <2> QED
    BY <2>1, <2>2
<1>8. Policies' = Policies
  <2>1. \A c \in Dbs : PolicyOf(c)' = PolicyOf(c)
    BY <1>2, <1>5, <1>6, <1>7
  <2> QED
    BY <2>1 DEF Policies
<1>9. Executing' = Executing
  <2>1. /\ ctl[t].pc # "running" /\ ctl'[t].pc # "running"
        /\ ctl' \in [Threads -> Control]
        /\ \A u \in Threads \ {t} : ctl'[u] = ctl[u]
    BY ZenonT(60), LinkedFacts DEF IInv, TypeOK, OpenLinked
  <2> QED
    BY <1>0, <1>3, <2>1, ExecutingKept
<1>10. Shared!Connect(h, d)
  BY <1>1, <1>2, <1>8, <1>9 DEF Shared!Connect, Policies, Executing
<1> QED
  BY <1>0, <1>10

\* A handle whose closer holds the registry mutex for it is connected until
\* the closer disconnects it.
Closing ==
    \A t \in Threads : ctl[t].pc \in {"close_instance", "close_native"} =>
        hDb[ctl[t].h] # None

\* Only the closer disconnects, and it starts with a handle that has an
\* instance while no open is under way.
LEMMA ClosingStep == IInv /\ IInv' /\ Usage /\ Closing /\ [Next]_vars => Closing'
<1> SUFFICES ASSUME IInv, IInv', Usage, Closing, [Next]_vars
             PROVE  Closing'
  OBVIOUS
<1>1. ctl \in [Threads -> Control] /\ ctl' \in [Threads -> Control]
  BY DEF IInv, TypeOK
<1>2. ASSUME NEW t \in Threads, Unseen(t),
             ctl'[t].pc \notin {"close_instance", "close_native"}
      PROVE  Closing'
  BY <1>2 DEF Unseen, Closing
<1>3. ASSUME NEW t \in Threads, Begin(t)
      PROVE  Closing'
  <2>1. UNCHANGED hDb /\ \A u \in Threads \ {t} : ctl'[u] = ctl[u]
    BY <1>1, <1>3 DEF Begin, Open, Use, Close, SetBasedir
  <2>2. ctl'[t].pc \notin {"close_instance", "close_native"}
    <3>1. ASSUME NEW h \in Handles, NEW p \in Opt(Paths), Open(t, h, p)
          PROVE  ctl'[t].pc \in {"open_registry", "close_registry"}
      <4>1. PICK label \in {"open_registry", "close_registry"} :
              ctl' = [ctl EXCEPT ![t] = [Idle EXCEPT !.pc = label, !.h = h,
                                          !.path = p, !.goal = "factory"]]
        BY <3>1 DEF Open
      <4> QED
        BY <1>1, <4>1 DEF Idle
    <3>2. ASSUME NEW h \in Handles, NEW goal \in Goals, Use(t, h, goal)
          PROVE  ctl'[t].pc = "enter_lock"
      BY <1>1, <3>2 DEF Use, Idle
    <3>3. ASSUME NEW h \in Handles, Close(t, h)
          PROVE  ctl'[t].pc \in {"close_registry", "enter_lock"}
      BY <1>1, <3>3 DEF Close, Idle
    <3>4. ASSUME NEW b \in Opt(Basedirs), SetBasedir(t, b)
          PROVE  ctl'[t].pc = "idle"
      BY <3>4 DEF SetBasedir
    <3> QED
      BY <1>3, <3>1, <3>2, <3>3, <3>4 DEF Begin
  <2> QED
    BY <2>1, <2>2 DEF Closing
<1>4. ASSUME NEW t \in Threads, CloseRegistry(t)
      PROVE  Closing'
  <2>1. /\ UNCHANGED hDb /\ \A u \in Threads \ {t} : ctl'[u] = ctl[u]
        /\ ctl'[t].h = ctl[t].h /\ registry = None
        /\ ctl'[t].pc \in {"close_instance", "close_native"} =>
             hInst[ctl[t].h] # None
    BY <1>1, <1>4 DEF CloseRegistry, Control
  <2>2. ctl[t].h \in Handles
    BY <1>4 DEF IInv, Owned, CloseRegistry
  <2>3. hInst[ctl[t].h] # None => hDb[ctl[t].h] # None
    BY <2>1, <2>2 DEF IInv, Linked
  <2> QED
    BY <2>1, <2>3 DEF Closing
<1>5. ASSUME NEW t \in Threads, CloseLock(t)
      PROVE  Closing'
  BY <1>1, <1>5 DEF CloseLock, Control, Closing
<1>6. ASSUME NEW t \in Threads, Acquire(t)
      PROVE  Closing'
  <2>1. CASE OpenShare(t) \/ OpenCreate(t)
    <3>1. ctl'[t].pc = "open_instance"
      BY <1>1, <2>1 DEF OpenShare, OpenCreate, Control
    <3> QED
      BY <1>2, <2>1, <3>1, RecordStepsUnseen
  <2>2. CASE OpenLookupFails(t) \/ OpenLock(t)
    <3>1. ctl'[t].pc \in {"close_registry", "open_native"}
      BY <1>1, <2>2 DEF OpenLookupFails, OpenLock, Control
    <3> QED
      BY <1>2, <2>2, <3>1, LockStepsUnseen
  <2>3. CASE EnterLock(t) \/ PlainLock(t)
    BY <1>1, <1>2, <2>3, LockStepsUnseen DEF EnterLock, PlainLock, Control
  <2> QED
    BY <1>4, <1>5, <1>6, <2>1, <2>2, <2>3 DEF Acquire
<1>7. ASSUME NEW t \in Threads, OpenLinked(t)
      PROVE  Closing'
  <2>1. \A u \in Threads : ctl'[u].pc \notin {"close_instance", "close_native"}
    BY LinkedFacts, <1>7
  <2> QED
    BY <2>1 DEF Closing
<1>8. ASSUME NEW t \in Threads, CloseNative(t)
      PROVE  Closing'
  <2>1. \A u \in Threads : ctl'[u].pc \notin {"close_instance", "close_native"}
    BY CloseNativeFacts, <1>8
  <2> QED
    BY <2>1 DEF Closing
<1>9. ASSUME NEW t \in Threads, Sandbox(t) \/ SandboxFails(t)
      PROVE  Closing'
  <2>1. /\ UNCHANGED hDb /\ \A u \in Threads \ {t} : ctl'[u] = ctl[u]
        /\ ctl'[t].pc \notin RegistryLabels
    BY SandboxFacts, <1>9
  <2> QED
    BY <2>1 DEF Closing
<1>10. ASSUME NEW t \in Threads, Admit(t) \/ Leave(t)
       PROVE  Closing'
  <2>1. CASE Admit(t)
    BY <1>1, <2>1 DEF Admit, Control, Closing
  <2>2. CASE Leave(t)
    BY <1>1, <2>2 DEF Leave, Control, Idle, Closing
  <2> QED
    BY <1>10, <2>1, <2>2
<1>11. ASSUME NEW t \in Threads, Proceed(t)
       PROVE  Closing'
  <2>1. CASE OpenUnlock(t) \/ OpenNativeFails(t)
    BY <1>1, <1>2, <2>1, LockStepsUnseen
       DEF OpenUnlock, OpenNativeFails, Control
  <2>2. CASE OpenSucceeded(t)
    BY <1>1, <1>2, <2>2, LockStepsUnseen DEF OpenSucceeded, Idle
  <2>3. CASE Deny(t)
    <3>1. ctl'[t].pc \in {"plain_lock", "close_registry", "idle"}
      BY <1>1, <2>3 DEF Deny, AfterRefusal, Control, Idle
    <3> QED
      BY <1>2, <2>3, <3>1, LockStepsUnseen
  <2>4. CASE PlainUnlock(t) \/ CloseUnlock(t)
    BY <1>1, <1>2, <2>4, LockStepsUnseen
       DEF PlainUnlock, CloseUnlock, Control, Idle
  <2>5. CASE OpenFailed(t)
    BY <1>1, <1>2, <2>5, RecordStepsUnseen DEF OpenFailed, Idle
  <2>6. CASE CloseFinish(t)
    BY <1>1, <1>2, <2>6, RecordStepsUnseen DEF CloseFinish, Idle
  <2> QED
    BY <1>7, <1>8, <1>9, <1>10, <1>11, <2>1, <2>2, <2>3, <2>4, <2>5, <2>6
       DEF Proceed
<1>12. ASSUME NEW p \in Paths, NEW f \in Opt(Files), ChangeFile(p, f)
       PROVE  Closing'
  BY <1>12 DEF ChangeFile, Closing
<1>13. CASE UNCHANGED vars
  BY <1>13 DEF vars, Closing
<1> QED
  BY <1>3, <1>6, <1>11, <1>12, <1>13 DEF Next

\* The first state of the registry is that of the shared database.
LEMMA InitRefines == Init => Shared!Init
<1> SUFFICES ASSUME Init
             PROVE  Shared!Init
  OBVIOUS
<1>1. LiveDbs = {}
  BY DEF Init, LiveDbs
<1>2. Policies = [d \in Dbs |-> Shared!Unrestricted]
  BY <1>1 DEF Policies, PolicyOf, Shared!Unrestricted
<1>3. Executing = [t \in Threads |-> None]
  BY DEF Init, Executing, Idle
<1> QED
  BY <1>2, <1>3 DEF Init, Shared!Init, Policies, Executing

\* Every step of the registry is one of the shared database, or is not seen.
LEMMA NextRefines ==
    ASSUME IInv, IInv', Usage, Sharing, Sharing', Closing, [Next]_vars
    PROVE  [Shared!Next]_(Shared!vars)
<1>1. PolicyIsRecorded /\ Exclusive
  BY OnePolicy
<1>2. PolicyIsRecorded'
  BY OnePolicy, PTL
<1>3. ASSUME NEW t \in Threads, Unseen(t)
      PROVE  UNCHANGED Shared!vars
  BY <1>1, <1>2, <1>3, UnseenStep
<1>4. ASSUME NEW t \in Threads, Begin(t)
      PROVE  [Shared!Next]_(Shared!vars)
  <2>1. ASSUME NEW b \in Opt(Basedirs), SetBasedir(t, b)
        PROVE  Shared!Next
    <3>1. Shared!SetBasedir(t, b)
      BY <1>1, <1>2, <2>1, SetBasedirRefines
    <3> QED
      BY <3>1 DEF Shared!Next
  <2> QED
    BY <1>3, <1>4, <2>1, LockStepsUnseen DEF Begin
<1>5. ASSUME NEW t \in Threads, Acquire(t)
      PROVE  UNCHANGED Shared!vars
  BY <1>3, <1>5, LockStepsUnseen, RecordStepsUnseen DEF Acquire
<1>6. ASSUME NEW t \in Threads, OpenLinked(t)
      PROVE  Shared!Next
  <2>1. PICK d \in Dbs : Shared!Connect(ctl[t].h, d)
    BY <1>1, <1>2, <1>6, OpenLinkedRefines
  <2>2. ctl[t].h \in Handles
    BY <1>6, LinkedFacts
  <2> QED
    BY <2>1, <2>2 DEF Shared!Next
<1>7. ASSUME NEW t \in Threads, CloseNative(t)
      PROVE  Shared!Next
  <2>1. hDb[ctl[t].h] # None
    BY <1>7 DEF Closing, CloseNative
  <2>2. Shared!Disconnect(ctl[t].h) /\ ctl[t].h \in Handles
    BY <1>1, <1>2, <1>7, <2>1, CloseNativeRefines, CloseNativeFacts
  <2> QED
    BY <2>2 DEF Shared!Next
<1>8. ASSUME NEW t \in Threads, Admit(t) \/ Sandbox(t) \/ SandboxFails(t)
      PROVE  Shared!Next
  <2>1. hDb[ctl[t].h] # None /\ ctl[t].h \in Handles
    BY <1>8 DEF IInv, Owned, Phases, Admit, Sandbox, SandboxFails
  <2>2. PICK d \in Dbs : d = hDb[ctl[t].h]
    BY <2>1, ConnectedFacts
  <2>3. CASE Admit(t) \/ Sandbox(t)
    <3>1. Shared!Start(t, d)
      BY <1>1, <1>2, <2>2, <2>3, AdmitRefines, SandboxRefines
    <3> QED
      BY <3>1 DEF Shared!Next
  <2>4. CASE SandboxFails(t)
    <3>1. Shared!Refuse(d)
      BY <1>1, <1>2, <2>2, <2>4, SandboxFailsRefines
    <3> QED
      BY <3>1 DEF Shared!Next
  <2> QED
    BY <1>8, <2>3, <2>4
<1>9. ASSUME NEW t \in Threads, Leave(t)
      PROVE  Shared!Next
  <2>1. Shared!Finish(t)
    BY <1>1, <1>2, <1>9, LeaveRefines
  <2> QED
    BY <2>1 DEF Shared!Next
<1>10. ASSUME NEW t \in Threads, Proceed(t)
       PROVE  [Shared!Next]_(Shared!vars)
  BY <1>3, <1>6, <1>7, <1>8, <1>9, <1>10, LockStepsUnseen, RecordStepsUnseen
     DEF Proceed
<1>11. ASSUME NEW p \in Paths, NEW f \in Opt(Files), ChangeFile(p, f)
       PROVE  UNCHANGED Shared!vars
  BY <1>1, <1>2, <1>11, ChangeFileUnseen DEF ChangeFile
<1>12. CASE UNCHANGED vars
  BY <1>1, <1>2, <1>12, ChangeFileUnseen DEF vars
<1> QED
  BY <1>4, <1>5, <1>10, <1>11, <1>12 DEF Next

\* When no file changes in the middle of an open, the registry, its mutexes
\* and its sandbox transitions implement a database that handles join and
\* leave, on which SQL runs one call at a time under the one value it is
\* confined to (open_instance, handle_closer, native_enter).
THEOREM RegistryImplementsSharedDatabase ==
    ASSUME RacingReplacement = FALSE
    PROVE  Spec => ImplementsSharedDatabase
<1> DEFINE J == IInv /\ Usage /\ Sharing /\ Closing
<1>1. Init => J
  BY InitInv, InitSharing DEF Closing, Init, Idle
<1>2. J /\ [Next]_vars => J'
  <2> SUFFICES ASSUME J, [Next]_vars
               PROVE  J'
    OBVIOUS
  <2> QED
    BY NextInv, UsageStep, SharingStep, ClosingStep, RestsWhileOpening
<1>3. J /\ J' /\ [Next]_vars => [Shared!Next]_(Shared!vars)
  BY NextRefines
<1>4. Init => Shared!Init
  BY InitRefines
<1> HIDE DEF J
<1> QED
  BY <1>1, <1>2, <1>3, <1>4, PTL
     DEF Spec, ImplementsSharedDatabase, Shared!Spec

=============================================================================
