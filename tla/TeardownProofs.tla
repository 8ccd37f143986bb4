--------------------------- MODULE TeardownProofs ---------------------------
(***************************************************************************)
(* Theorems about the end of devices, for any number of devices, tasks and *)
(* kthreads: the reference counter covers everyone who can reach a device, *)
(* and what that says of the decision to free one.                         *)
(***************************************************************************)
EXTENDS Teardown, FiniteSetTheorems, TLAPS

USE DevAssumption, ProcAssumption, LimitAssumption, NameAssumption

\* Where a task, or a thread, has a device and what it has of it.
TaskInv(t) ==
    /\ pc[t] \in TaskPc
    /\ pc[t] \in {"found", "add", "open", "busy", "close", "del", "after"}
       => dev[t] \in Dummy
    /\ pc[t] \in {"open", "busy", "close", "del"} => t \in accs[dev[t]]
    /\ pc[t] \in {"add", "del"} => sem[dev[t]] = t

ThreadInv(w) ==
    /\ pc[w] \in ThreadPc
    /\ pc[w] \in ThreadPc \ {"idle"} => dev[w] \in Dev
    /\ pc[w] = "sem" => sem[dev[w]] = w

\* The daemon of a device deletes it from the table at most once, holds its
\* semaphore while it looks at the table of fo_access objects, and frees a
\* dummy only if that one is empty.
DestroyInv(d) ==
    /\ dpc[d] \in {"up", "find", "unhash", "del"} => d \in hashed
    /\ dpc[d] \in {"allacc", "walk", "wedged", "refs"} => sem[d] = d
    /\ dpc[d] = "refs" /\ d \in Dummy => accs[d] = {}

\* The module is unloaded only when no daemon can use it.
ExitInv == xpc # "no" => \A d \in Dev : dpc[d] = "down"

\* The types of all but the counter, whose type depends on its value.
RestOK ==
    /\ hashed \in SUBSET Dev /\ active \in [Dev -> BOOLEAN]
    /\ accs \in [Dev -> SUBSET Proc] /\ freed \in SUBSET Dev
    /\ sem \in [Dev -> Proc \cup Dev \cup {None}]
    /\ htw \in Dev \cup {Exit, None} /\ htr \in SUBSET (Proc \cup Dev)
    /\ pc \in [Proc -> TaskPc \cup ThreadPc] /\ dev \in [Proc -> Dev \cup {None}]
    /\ dpc \in [Dev -> DaemonPc] /\ xpc \in {"no", "end", "loop", "unloaded"}

ProcsInv == (\A t \in Task : TaskInv(t)) /\ (\A w \in Thread : ThreadInv(w))
DaemonsInv == (\A d \in Dev : DestroyInv(d)) /\ ExitInv

\* The inductive invariant.
TeardownInv == TypeOK /\ ProcsInv /\ DaemonsInv /\ RefsCover

-----------------------------------------------------------------------------
(* Counting *)

Calls == {"busy", "ref", "sem", "put"}

\* What RefsCover says of one device, and what it takes to keep it.
Cover(d) == users[d] >= Holders(d) + IF d \in hashed THEN 1 ELSE 0

Kept(d) ==
    /\ users'[d] = users[d] /\ accs'[d] = accs[d] /\ Inside(d)' = Inside(d)
    /\ d \in hashed' => d \in hashed

\* The holders of a device are finitely many.
LEMMA HoldersFinite ==
    ASSUME TypeOK, NEW d \in Dev
    PROVE  /\ IsFiniteSet(accs[d]) /\ IsFiniteSet(Inside(d))
           /\ Cardinality(accs[d]) \in Nat /\ Cardinality(Inside(d)) \in Nat
  <1>1. IsFiniteSet(Proc) BY FS_Union DEF Proc
  <1>2. accs[d] \subseteq Proc /\ Inside(d) \subseteq Proc BY DEF TypeOK, Inside
  <1>3. IsFiniteSet(accs[d]) /\ IsFiniteSet(Inside(d)) BY <1>1, <1>2, FS_Subset
  <1> QED BY <1>3, FS_CardinalityType

\* One element more or less in a finite set.
LEMMA AddOne ==
    ASSUME NEW T, IsFiniteSet(T), NEW p
    PROVE  /\ Cardinality(T \cup {p}) \in Nat
           /\ Cardinality(T \cup {p}) <= Cardinality(T) + 1
  <1>1. Cardinality(T) \in Nat BY FS_CardinalityType
  <1>2. Cardinality(T \cup {p}) = IF p \in T THEN Cardinality(T) ELSE Cardinality(T) + 1
    BY FS_AddElement
  <1> QED BY <1>1, <1>2

\* Taking one element out of a finite set makes it smaller by one.
LEMMA RemoveOne ==
    ASSUME NEW T, IsFiniteSet(T), NEW p \in T
    PROVE  Cardinality(T \ {p}) = Cardinality(T) - 1 /\ Cardinality(T \ {p}) \in Nat
  <1>1. IsFiniteSet(T \ {p}) BY FS_RemoveElement
  <1>2. Cardinality(T \ {p}) = Cardinality(T) - 1 BY FS_RemoveElement
  <1> QED BY <1>1, <1>2, FS_CardinalityType

\* A device that a step does not change is covered as before, one that gets
\* a reference and a holder as well, and so is one that loses both.
LEMMA KeptCover ==
    ASSUME TypeOK, NEW d \in Dev, Cover(d), Kept(d)
    PROVE  Cover(d)'
  BY HoldersFinite DEF Cover, Kept, Holders, TypeOK

\* ndmgm_get: a device's counter covers its holders after one more reference is
\* taken for one more of them.
LEMMA GetCover ==
    ASSUME TypeOK, NEW d \in Dev, Cover(d), users'[d] = users[d] + 1,
           d \in hashed' => d \in hashed, NEW p,
           \/ accs'[d] = accs[d] /\ Inside(d)' = Inside(d) \cup {p}
           \/ accs'[d] = accs[d] \cup {p} /\ Inside(d)' = Inside(d)
    PROVE  Cover(d)'
  <1> DEFINE a == Cardinality(accs[d])
             n == Cardinality(Inside(d))
  <1>1. a \in Nat /\ n \in Nat /\ users[d] \in Nat BY HoldersFinite DEF TypeOK
  <1>2. users[d] >= a + n + IF d \in hashed THEN 1 ELSE 0 BY DEF Cover, Holders
  <1>3. /\ Cardinality(accs'[d]) \in Nat /\ Cardinality(Inside(d)') \in Nat
        /\ Cardinality(accs'[d]) + Cardinality(Inside(d)') <= a + n + 1
    <2>1. CASE accs'[d] = accs[d] /\ Inside(d)' = Inside(d) \cup {p}
      <3>1. Cardinality(Inside(d)') \in Nat /\ Cardinality(Inside(d)') <= n + 1
        BY <2>1, HoldersFinite, AddOne
      <3>2. Cardinality(accs'[d]) = a BY <2>1
      <3> HIDE DEF a, n
      <3> QED BY <3>1, <3>2, <1>1
    <2>2. CASE accs'[d] = accs[d] \cup {p} /\ Inside(d)' = Inside(d)
      <3>1. Cardinality(accs'[d]) \in Nat /\ Cardinality(accs'[d]) <= a + 1
        BY <2>2, HoldersFinite, AddOne
      <3>2. Cardinality(Inside(d)') = n BY <2>2
      <3> HIDE DEF a, n
      <3> QED BY <3>1, <3>2, <1>1
    <2> QED BY <2>1, <2>2
  <1> HIDE DEF a, n
  <1> QED BY <1>1, <1>2, <1>3 DEF Cover, Holders

\* ndmgm_put: the same when a holder and its reference go.
LEMMA PutCover ==
    ASSUME TypeOK, NEW d \in Dev, Cover(d), users'[d] = users[d] - 1,
           d \in hashed' => d \in hashed, NEW p,
           \/ p \in Inside(d) /\ accs'[d] = accs[d] /\ Inside(d)' = Inside(d) \ {p}
           \/ p \in accs[d] /\ accs'[d] = accs[d] \ {p} /\ Inside(d)' = Inside(d)
    PROVE  Cover(d)' /\ users'[d] \in Nat
  <1> DEFINE a == Cardinality(accs[d])
             n == Cardinality(Inside(d))
  <1>1. a \in Nat /\ n \in Nat /\ users[d] \in Nat BY HoldersFinite DEF TypeOK
  <1>2. users[d] >= a + n + IF d \in hashed THEN 1 ELSE 0 BY DEF Cover, Holders
  <1>3. /\ Cardinality(accs'[d]) \in Nat /\ Cardinality(Inside(d)') \in Nat
        /\ Cardinality(accs'[d]) + Cardinality(Inside(d)') = a + n - 1
    <2>1. CASE p \in Inside(d) /\ accs'[d] = accs[d] /\ Inside(d)' = Inside(d) \ {p}
      <3>1. Cardinality(Inside(d)') \in Nat /\ Cardinality(Inside(d)') = n - 1
        BY <2>1, HoldersFinite, RemoveOne
      <3>2. Cardinality(accs'[d]) = a BY <2>1
      <3> HIDE DEF a, n
      <3> QED BY <3>1, <3>2, <1>1
    <2>2. CASE p \in accs[d] /\ accs'[d] = accs[d] \ {p} /\ Inside(d)' = Inside(d)
      <3>1. Cardinality(accs'[d]) \in Nat /\ Cardinality(accs'[d]) = a - 1
        BY <2>2, HoldersFinite, RemoveOne
      <3>2. Cardinality(Inside(d)') = n BY <2>2
      <3> HIDE DEF a, n
      <3> QED BY <3>1, <3>2, <1>1
    <2> QED BY <2>1, <2>2
  <1> HIDE DEF a, n
  <1> QED BY <1>1, <1>2, <1>3 DEF Cover, Holders

\* A device that leaves the table gives back one reference.
LEMMA UnhashCover ==
    ASSUME TypeOK, NEW d \in Dev, Cover(d), d \in hashed, d \notin hashed',
           users'[d] = users[d] - 1, accs'[d] = accs[d], Inside(d)' = Inside(d)
    PROVE  Cover(d)' /\ users'[d] \in Nat
  <1>1. users[d] \in Nat BY DEF TypeOK
  <1> QED BY <1>1, HoldersFinite DEF Cover, Holders

\* How the calls in progress change when one task or thread moves.
LEMMA MoveOutside ==
    ASSUME TypeOK, NEW p \in Proc, NEW l, Goto(p, l), pc[p] \notin Calls, l \notin Calls,
           \A q \in Proc \ {p} : dev'[q] = dev[q]
    PROVE  \A d \in Dev : Inside(d)' = Inside(d)
  BY DEF TypeOK, Goto, Inside, Calls

\* A step between two places inside a call changes nobody's membership.
LEMMA MoveInside ==
    ASSUME TypeOK, NEW p \in Proc, NEW l, Goto(p, l), pc[p] \in Calls, l \in Calls,
           dev' = dev
    PROVE  \A d \in Dev : Inside(d)' = Inside(d)
  BY DEF TypeOK, Goto, Inside, Calls

\* A step into a call adds the process to those inside its own device.
LEMMA MoveIn ==
    ASSUME TypeOK, NEW p \in Proc, NEW l, Goto(p, l), l \in Calls, dev' = dev
    PROVE  \A d \in Dev : Inside(d)' = IF dev[p] = d THEN Inside(d) \cup {p} ELSE Inside(d)
  <1>1. /\ pc' = [pc EXCEPT ![p] = l] /\ pc'[p] \in Calls
        /\ \A q \in Proc \ {p} : pc'[q] = pc[q]
    BY DEF TypeOK, Goto
  <1> SUFFICES ASSUME NEW d \in Dev
               PROVE  Inside(d)' = IF dev[p] = d THEN Inside(d) \cup {p} ELSE Inside(d)
    OBVIOUS
  <1>2. CASE dev[p] = d BY <1>1, <1>2 DEF Inside, Calls
  <1>3. CASE dev[p] # d BY <1>1, <1>3 DEF Inside, Calls
  <1> QED BY <1>2, <1>3

\* A step out of a call takes the process away from every device.
LEMMA MoveOut ==
    ASSUME TypeOK, NEW p \in Proc, NEW l, Goto(p, l), pc[p] \in Calls, l \notin Calls,
           \A q \in Proc \ {p} : dev'[q] = dev[q]
    PROVE  \A d \in Dev : /\ Inside(d)' = Inside(d) \ {p}
                          /\ p \in Inside(d) <=> dev[p] = d
  <1>1. /\ pc'[p] \notin Calls /\ \A q \in Proc \ {p} : pc'[q] = pc[q]
    BY DEF TypeOK, Goto
  <1> QED BY <1>1 DEF Inside, Calls

-----------------------------------------------------------------------------
(* Locks and places *)

\* Every step keeps the types.
LEMMA TaskRest ==
    ASSUME TeardownInv, NEW t \in Task, TaskStep(t)
    PROVE  RestOK'
  <1>1. t \in Proc /\ TaskInv(t) /\ dev[t] \in Dev \cup {None}
    BY DEF Proc, TeardownInv, ProcsInv, TypeOK
  <1> USE <1>1 DEF TeardownInv, TypeOK, RestOK, Goto, Lock, Unlock, TaskOut, devVars, lockVars
  <1>2. CASE FindStart(t) BY <1>2 DEF FindStart, TaskPc
  <1>3. CASE TaskFind(t) BY <1>3 DEF TaskFind, TaskPc
  <1>4. CASE AccStartLock(t) BY <1>4 DEF AccStartLock, TaskPc, TaskInv
  <1>5. CASE AccStartAdd(t) BY <1>5 DEF AccStartAdd, TaskPc, TaskInv
  <1>6. CASE FoSendStart(t) BY <1>6 DEF FoSendStart, TaskPc
  <1>7. CASE FoSendRefused(t) BY <1>7 DEF FoSendRefused, TaskPc
  <1>8. CASE FoSendEnd(t) BY <1>8 DEF FoSendEnd, TaskPc
  <1>9. CASE AccDestroyLock(t) BY <1>9 DEF AccDestroyLock, TaskPc
  <1>10. CASE AccDestroy(t) BY <1>10 DEF AccDestroy, TaskPc
  <1>11. CASE AccDestroyEnd(t) BY <1>11 DEF AccDestroyEnd, TaskPc
  <1> QED BY <1>2, <1>3, <1>4, <1>5, <1>6, <1>7, <1>8, <1>9, <1>10, <1>11 DEF TaskStep

\* The steps of an fo_recv thread keep RestOK.
LEMMA ThreadRest ==
    ASSUME TeardownInv, NEW w \in Thread,
           ThreadStep(w) \/ \E d \in Dev : CreateThread(w, d)
    PROVE  RestOK'
  <1>1. w \in Proc /\ ThreadInv(w) /\ dev[w] \in Dev \cup {None}
    BY DEF Proc, TeardownInv, ProcsInv, TypeOK
  <1> USE <1>1 DEF TeardownInv, TypeOK, RestOK, Goto, Lock, Unlock, ThreadEnd, devVars, lockVars
  <1>2. CASE FindStart(w) BY <1>2 DEF FindStart, ThreadPc
  <1>3. CASE ThreadFind(w) BY <1>3 DEF ThreadFind, ThreadPc
  <1>4. CASE ThreadGet(w) BY <1>4 DEF ThreadGet, ThreadPc
  <1>5. CASE ThreadLock(w) BY <1>5 DEF ThreadLock, ThreadPc
  <1>6. CASE ThreadWork(w)
    <2>1. \/ accs' = [accs EXCEPT ![dev[w]] = @ \cup {w}]
          \/ \E a : accs' = [accs EXCEPT ![dev[w]] = @ \ {a}]
          \/ accs' = accs
      BY <1>6 DEF ThreadWork
    <2>2. accs' \in [Dev -> SUBSET Proc] BY <2>1
    <2> QED BY <1>6, <2>2 DEF ThreadWork, ThreadPc
  <1>7. CASE ThreadPut(w) BY <1>7 DEF ThreadPut, ThreadPc
  <1>8. ASSUME NEW d \in Dev, CreateThread(w, d) PROVE RestOK'
    BY <1>8 DEF CreateThread, ThreadPc
  <1> QED BY <1>2, <1>3, <1>4, <1>5, <1>6, <1>7, <1>8 DEF ThreadStep

\* The steps of an unregistration keep RestOK.
LEMMA DaemonRest ==
    ASSUME TeardownInv, NEW d \in Dev, FindDestroy(d) \/ DaemonKilled(d) \/ DestroyStep(d)
    PROVE  RestOK'
  <1> USE DEF TeardownInv, TypeOK, RestOK, DaemonAt, Lock, Unlock, devVars, lockVars
  <1>1. CASE FindDestroy(d) BY <1>1 DEF FindDestroy, DaemonPc
  <1>2. CASE DaemonKilled(d) BY <1>2 DEF DaemonKilled, DaemonPc
  <1>3. CASE FindDestroyFound(d) BY <1>3 DEF FindDestroyFound, DaemonPc
  <1>4. CASE UnhashLock(d) BY <1>4 DEF UnhashLock, DaemonPc
  <1>5. CASE Unhash(d) BY <1>5 DEF Unhash, DaemonPc
  <1>6. CASE DestroyLock(d)
    <2>1. active' = [active EXCEPT ![d] = FALSE] \/ active' = active
      BY <1>6 DEF DestroyLock
    <2>2. active' \in [Dev -> BOOLEAN] BY <2>1
    <2>3. sem' \in [Dev -> Proc \cup Dev \cup {None}] BY <1>6 DEF DestroyLock
    <2>4. dpc' \in [Dev -> DaemonPc] BY <1>6 DEF DestroyLock, DaemonPc
    <2> QED BY <1>6, <2>2, <2>3, <2>4 DEF DestroyLock
  <1>7. CASE AllaccLock(d) BY <1>7 DEF AllaccLock, DaemonPc
  <1>8. CASE Allacc(d) BY <1>8 DEF Allacc, DaemonPc
  <1>9. CASE AllaccWedge(d) BY <1>9 DEF AllaccWedge, DaemonPc
  <1>10. CASE Refs(d) BY <1>10 DEF Refs, DaemonPc
  <1>11. CASE Free(d) BY <1>11 DEF Free, DaemonPc
  <1> QED BY <1>1, <1>2, <1>3, <1>4, <1>5, <1>6, <1>7, <1>8, <1>9, <1>10, <1>11
          DEF DestroyStep

\* The steps of netdev_exit keep RestOK.
LEMMA ExitRest ==
    ASSUME TeardownInv, ExitStart \/ ExitStep
    PROVE  RestOK'
  <1> USE DEF TeardownInv, TypeOK, RestOK, devVars, lockVars
  <1>1. CASE ExitStart BY <1>1 DEF ExitStart
  <1>2. CASE EndLock BY <1>2 DEF EndLock
  <1>3. ASSUME NEW d \in Dev, EndDevice(d) PROVE RestOK' BY <1>3 DEF EndDevice
  <1>4. CASE EndDone BY <1>4 DEF EndDone
  <1> QED BY <1>1, <1>2, <1>3, <1>4 DEF ExitStep

\* A task or thread that a step does not move keeps its place, its locks and
\* a fo_access of a dummy.
Stay(q) ==
    /\ pc'[q] = pc[q] /\ dev'[q] = dev[q]
    /\ \A d \in Dev : /\ sem[d] = q => sem'[d] = q
                      /\ q \in Task /\ d \in Dummy /\ q \in accs[d] => q \in accs'[d]

\* A process that a step leaves alone keeps its part of the invariant.
LEMMA StayInv ==
    ASSUME TeardownInv, NEW q \in Proc, Stay(q)
    PROVE  /\ q \in Task => TaskInv(q)'
           /\ q \in Thread => ThreadInv(q)'
  <1>1. q \in Task => TaskInv(q)' BY DEF TeardownInv, ProcsInv, Stay, TaskInv
  <1>2. q \in Thread => ThreadInv(q)'
    BY DEF TeardownInv, ProcsInv, Stay, ThreadInv, ThreadPc
  <1> QED BY <1>1, <1>2

\* The same for the daemon of a device.
DaemonStays(d) ==
    /\ dpc'[d] = dpc[d]
    /\ d \in hashed => d \in hashed'
    /\ sem[d] = d => sem'[d] = d
    /\ sem[d] = d /\ d \in Dummy => accs'[d] = accs[d]

\* An unregistration that a step leaves alone keeps its part of the invariant.
LEMMA DaemonStaysInv ==
    ASSUME TeardownInv, NEW d \in Dev, DaemonStays(d)
    PROVE  DestroyInv(d)'
  BY DEF TeardownInv, DaemonsInv, DestroyInv, DaemonStays

\* A step of a task: it knows its own place, and disturbs nobody.
LEMMA TaskPlaces ==
    ASSUME TeardownInv, NEW t \in Task, TaskStep(t)
    PROVE  /\ TaskInv(t)'
           /\ \A q \in Proc \ {t} : Stay(q)
           /\ \A d \in Dev : DaemonStays(d)
           /\ xpc' = xpc /\ dpc' = dpc
  <1>1. /\ t \in Proc /\ t \notin Dev /\ t # None /\ TaskInv(t)
        /\ dev[t] \in Dev \cup {None} /\ None \notin Dev /\ None \notin Proc
    BY DEF Proc, TeardownInv, ProcsInv, TypeOK
  <1> USE <1>1 DEF TeardownInv, TypeOK, Goto, Lock, Unlock, TaskOut, devVars, lockVars,
                   TaskInv, Stay, DaemonStays, TaskPc
  <1>2. CASE FindStart(t) BY <1>2 DEF FindStart
  <1>3. CASE TaskFind(t) BY <1>3 DEF TaskFind
  <1>4. CASE AccStartLock(t) BY <1>4 DEF AccStartLock
  <1>5. CASE AccStartAdd(t) BY <1>5 DEF AccStartAdd
  <1>6. CASE FoSendStart(t) BY <1>6 DEF FoSendStart
  <1>7. CASE FoSendRefused(t) BY <1>7 DEF FoSendRefused
  <1>8. CASE FoSendEnd(t) BY <1>8 DEF FoSendEnd
  <1>9. CASE AccDestroyLock(t) BY <1>9 DEF AccDestroyLock
  <1>10. CASE AccDestroy(t) BY <1>10 DEF AccDestroy
  <1>11. CASE AccDestroyEnd(t) BY <1>11 DEF AccDestroyEnd
  <1> QED BY <1>2, <1>3, <1>4, <1>5, <1>6, <1>7, <1>8, <1>9, <1>10, <1>11 DEF TaskStep

\* The same for a step of a thread.
LEMMA ThreadPlaces ==
    ASSUME TeardownInv, NEW w \in Thread,
           ThreadStep(w) \/ \E d \in Dev : CreateThread(w, d)
    PROVE  /\ ThreadInv(w)'
           /\ \A q \in Proc \ {w} : Stay(q)
           /\ \A d \in Dev : DaemonStays(d)
           /\ xpc' = xpc /\ dpc' = dpc
  <1>1. /\ w \in Proc /\ w \notin Dev /\ w \notin Task /\ w # None /\ ThreadInv(w)
        /\ dev[w] \in Dev \cup {None} /\ None \notin Dev /\ None \notin Proc
    BY DEF Proc, TeardownInv, ProcsInv, TypeOK
  <1> USE <1>1 DEF TeardownInv, TypeOK, Goto, Lock, Unlock, ThreadEnd, devVars, lockVars,
                   ThreadInv, Stay, DaemonStays, ThreadPc
  <1>2. CASE FindStart(w) BY <1>2 DEF FindStart
  <1>3. CASE ThreadFind(w) BY <1>3 DEF ThreadFind
  <1>4. CASE ThreadGet(w) BY <1>4 DEF ThreadGet
  <1>5. CASE ThreadLock(w) BY <1>5 DEF ThreadLock
  <1>6. CASE ThreadWork(w)
    <2>1. \A d \in Dummy : accs'[d] = accs[d] BY <1>6 DEF ThreadWork
    <2> QED BY <1>6, <2>1 DEF ThreadWork
  <1>7. CASE ThreadPut(w) BY <1>7 DEF ThreadPut
  <1>8. ASSUME NEW d \in Dev, CreateThread(w, d)
        PROVE  /\ ThreadInv(w)'
               /\ \A q \in Proc \ {w} : Stay(q)
               /\ \A e \in Dev : DaemonStays(e)
               /\ xpc' = xpc /\ dpc' = dpc
    BY <1>8 DEF CreateThread
  <1> QED BY <1>2, <1>3, <1>4, <1>5, <1>6, <1>7, <1>8 DEF ThreadStep

\* The same for a step of a daemon's request.
LEMMA DaemonPlaces ==
    ASSUME TeardownInv, NEW d \in Dev, FindDestroy(d) \/ DaemonKilled(d) \/ DestroyStep(d)
    PROVE  /\ DestroyInv(d)'
           /\ \A q \in Proc : Stay(q)
           /\ \A e \in Dev \ {d} : DaemonStays(e)
           /\ xpc' = xpc /\ dpc[d] # "down"
  <1>1. /\ DestroyInv(d) /\ d \notin Proc /\ d # None
    BY DEF Proc, TeardownInv, DaemonsInv
  <1> USE <1>1 DEF TeardownInv, TypeOK, DaemonAt, Lock, Unlock, devVars, lockVars,
                   DestroyInv, Stay, DaemonStays
  <1>2. CASE FindDestroy(d) BY <1>2 DEF FindDestroy
  <1>3. CASE DaemonKilled(d) BY <1>3 DEF DaemonKilled
  <1>4. CASE FindDestroyFound(d) BY <1>4 DEF FindDestroyFound
  <1>5. CASE UnhashLock(d) BY <1>5 DEF UnhashLock
  <1>6. CASE Unhash(d) BY <1>6 DEF Unhash
  <1>7. CASE DestroyLock(d)
    <2>1. \/ /\ sem[d] = None /\ sem' = [sem EXCEPT ![d] = d]
             /\ dpc' = [dpc EXCEPT ![d] = IF d \in Dummy THEN "allacc" ELSE "refs"]
          \/ sem' = sem /\ dpc' = [dpc EXCEPT ![d] = "down"]
      BY <1>7 DEF DestroyLock
    <2>2. dpc[d] = "destroy" /\ UNCHANGED <<hashed, accs, pc, dev, xpc>>
      BY <1>7 DEF DestroyLock
    <2>3. \/ sem'[d] = d /\ dpc'[d] \in {"allacc", "refs"} /\ (d \in Dummy => dpc'[d] = "allacc")
          \/ dpc'[d] = "down"
      BY <2>1
    <2>4. \A e \in Dev \ {d} : dpc'[e] = dpc[e] /\ sem'[e] = sem[e] BY <2>1
    <2>5. \A q \in Proc : sem[d] = q => sem'[d] = q BY <2>1, <1>1 DEF Proc
    <2> QED BY <2>2, <2>3, <2>4, <2>5
  <1>8. CASE AllaccLock(d) BY <1>8 DEF AllaccLock
  <1>9. CASE Allacc(d) BY <1>9 DEF Allacc
  <1>10. CASE AllaccWedge(d) BY <1>10 DEF AllaccWedge
  <1>11. CASE Refs(d) BY <1>11 DEF Refs
  <1>12. CASE Free(d) BY <1>12 DEF Free
  <1> QED BY <1>2, <1>3, <1>4, <1>5, <1>6, <1>7, <1>8, <1>9, <1>10, <1>11, <1>12
          DEF DestroyStep

\* And for the unloading of the module.
LEMMA ExitPlaces ==
    ASSUME TeardownInv, ExitStart \/ ExitStep
    PROVE  /\ \A q \in Proc : Stay(q)
           /\ dpc' = dpc /\ \A d \in Dev : dpc[d] = "down"
  <1> USE DEF TeardownInv, TypeOK, devVars, lockVars, Stay, DaemonsInv, ExitInv
  <1>1. CASE ExitStart BY <1>1 DEF ExitStart
  <1>2. CASE EndLock BY <1>2 DEF EndLock
  <1>3. ASSUME NEW d \in Dev, EndDevice(d)
        PROVE  /\ \A q \in Proc : Stay(q)
               /\ dpc' = dpc /\ \A e \in Dev : dpc[e] = "down"
    BY <1>3 DEF EndDevice
  <1>4. CASE EndDone BY <1>4 DEF EndDone
  <1> QED BY <1>1, <1>2, <1>3, <1>4 DEF ExitStep

\* Together: every step keeps the invariants of places, locks and types.
LEMMA PlacesStep == TeardownInv /\ [Next]_vars => RestOK' /\ ProcsInv' /\ DaemonsInv'
  <1> SUFFICES ASSUME TeardownInv, [Next]_vars PROVE RestOK' /\ ProcsInv' /\ DaemonsInv'
    OBVIOUS
  <1>0. Task \subseteq Proc /\ Thread \subseteq Proc /\ Task \cap Thread = {} BY DEF Proc
  <1>1. ASSUME NEW t \in Task, TaskStep(t) PROVE RestOK' /\ ProcsInv' /\ DaemonsInv'
    <2>1. ProcsInv' BY <1>0, <1>1, TaskPlaces, StayInv DEF ProcsInv
    <2>2. DaemonsInv' BY <1>1, TaskPlaces, DaemonStaysInv DEF DaemonsInv, ExitInv, TeardownInv
    <2> QED BY <1>1, <2>1, <2>2, TaskRest
  <1>2. ASSUME NEW w \in Thread, ThreadStep(w) \/ \E d \in Dev : CreateThread(w, d)
        PROVE  RestOK' /\ ProcsInv' /\ DaemonsInv'
    <2>1. ProcsInv' BY <1>0, <1>2, ThreadPlaces, StayInv DEF ProcsInv
    <2>2. DaemonsInv'
      BY <1>2, ThreadPlaces, DaemonStaysInv DEF DaemonsInv, ExitInv, TeardownInv
    <2> QED BY <1>2, <2>1, <2>2, ThreadRest
  <1>3. ASSUME NEW d \in Dev, FindDestroy(d) \/ DaemonKilled(d) \/ DestroyStep(d)
        PROVE  RestOK' /\ ProcsInv' /\ DaemonsInv'
    <2>1. ProcsInv' BY <1>0, <1>3, DaemonPlaces, StayInv DEF ProcsInv
    <2>2. DaemonsInv'
      BY <1>3, DaemonPlaces, DaemonStaysInv DEF DaemonsInv, ExitInv, TeardownInv
    <2> QED BY <1>3, <2>1, <2>2, DaemonRest
  <1>4. CASE ExitStart \/ ExitStep
    <2>1. ProcsInv' BY <1>0, <1>4, ExitPlaces, StayInv DEF ProcsInv
    <2>2. DaemonsInv' BY <1>4, ExitPlaces DEF DaemonsInv, ExitInv, DestroyInv
    <2> QED BY <1>4, <2>1, <2>2, ExitRest
  <1>5. CASE UNCHANGED vars
    BY <1>5 DEF vars, devVars, lockVars, TeardownInv, TypeOK, RestOK, ProcsInv, TaskInv,
                ThreadInv, DaemonsInv, DestroyInv, ExitInv
  <1> QED BY <1>1, <1>2, <1>3, <1>4, <1>5 DEF Next

-----------------------------------------------------------------------------
(* The counter *)

Counted == users' \in [Dev -> Nat] /\ RefsCover'

\* The counter of one device changes, and nothing that it counts on others.
LEMMA OneCounted ==
    ASSUME TeardownInv, NEW d \in Dev,
           \/ users' = [users EXCEPT ![d] = @ + 1]
           \/ users' = [users EXCEPT ![d] = @ - 1] /\ users'[d] \in Nat,
           Cover(d)', \A e \in Dev \ {d} : Kept(e)
    PROVE  Counted
  <1>1. users \in [Dev -> Nat] /\ TypeOK /\ \A e \in Dev : Cover(e)
    BY DEF TeardownInv, TypeOK, RefsCover, Cover
  <1>2. users' \in [Dev -> Nat] BY <1>1
  <1>3. \A e \in Dev : Cover(e)' BY <1>1, KeptCover
  <1> QED BY <1>2, <1>3 DEF Counted, RefsCover, Cover

\* The counter stays as it is, and so does what it counts.
LEMMA NoneCounted ==
    ASSUME TeardownInv, users' = users, \A e \in Dev : Kept(e)
    PROVE  Counted
  <1>1. users \in [Dev -> Nat] /\ TypeOK /\ \A e \in Dev : Cover(e)
    BY DEF TeardownInv, TypeOK, RefsCover, Cover
  <1>2. \A e \in Dev : Cover(e)' BY <1>1, KeptCover
  <1> QED BY <1>1, <1>2 DEF Counted, RefsCover, Cover

\* Tasks: a fo_access and a call in progress are counted one by one.
LEMMA TaskCounted ==
    ASSUME TeardownInv, NEW t \in Task, TaskStep(t)
    PROVE  Counted
  <1>1. /\ t \in Proc /\ TypeOK /\ TaskInv(t) /\ \A d \in Dev : Cover(d)
        /\ users \in [Dev -> Nat] /\ accs \in [Dev -> SUBSET Proc]
        /\ dev \in [Proc -> Dev \cup {None}]
    BY DEF Proc, TeardownInv, ProcsInv, TypeOK, RefsCover, Cover
  <1>2. pc[t] \in TaskPc /\ (pc[t] \in Calls => pc[t] = "busy")
    BY <1>1 DEF TaskInv, TaskPc, Calls
  <1>3. CASE FindStart(t) \/ TaskFind(t) \/ AccStartLock(t) \/ FoSendRefused(t)
             \/ AccDestroyLock(t) \/ AccDestroyEnd(t)
    <2>1. /\ UNCHANGED <<hashed, users, accs>> /\ \A q \in Proc \ {t} : dev'[q] = dev[q]
          /\ pc[t] \notin Calls
          /\ \E l \in {"find", "found", "out", "add", "del"} : Goto(t, l)
      BY <1>1, <1>3 DEF FindStart, TaskFind, AccStartLock, FoSendRefused, AccDestroyLock,
           AccDestroyEnd, TaskOut, devVars, Calls
    <2>2. \A d \in Dev : Inside(d)' = Inside(d)
      <3>1. PICK l \in {"find", "found", "out", "add", "del"} : Goto(t, l) BY <2>1
      <3>2. l \notin Calls BY DEF Calls
      <3> QED BY <1>1, <2>1, <3>1, <3>2, MoveOutside
    <2> QED BY <2>1, <2>2, NoneCounted DEF Kept
  <1>4. CASE AccStartAdd(t)
    <2>1. PICK d \in Dev : d = dev[t] /\ pc[t] \notin Calls
      BY <1>1, <1>2, <1>4 DEF AccStartAdd, TaskInv
    <2>2. /\ users' = [users EXCEPT ![d] = @ + 1] /\ accs' = [accs EXCEPT ![d] = @ \cup {t}]
          /\ UNCHANGED <<hashed, dev>> /\ Goto(t, "open")
      BY <1>4, <2>1 DEF AccStartAdd, Get
    <2>3. \A e \in Dev : Inside(e)' = Inside(e)
      BY <1>1, <2>1, <2>2, MoveOutside DEF Calls
    <2>4. Cover(d)' BY <1>1, <2>1, <2>2, <2>3, GetCover
    <2>5. \A e \in Dev \ {d} : Kept(e) BY <1>1, <2>1, <2>2, <2>3 DEF Kept
    <2> QED BY <2>2, <2>4, <2>5, OneCounted
  <1>5. CASE FoSendStart(t)
    <2>1. PICK d \in Dev : d = dev[t] BY <1>1, <1>5 DEF FoSendStart, TaskInv
    <2>2. /\ users' = [users EXCEPT ![d] = @ + 1]
          /\ UNCHANGED <<hashed, dev, accs>> /\ Goto(t, "busy")
      BY <1>5, <2>1 DEF FoSendStart, Get
    <2>3. \A e \in Dev : Inside(e)' = IF d = e THEN Inside(e) \cup {t} ELSE Inside(e)
      BY <1>1, <2>1, <2>2, MoveIn DEF Calls
    <2>4. Cover(d)' BY <1>1, <2>1, <2>2, <2>3, GetCover
    <2>5. \A e \in Dev \ {d} : Kept(e) BY <1>1, <2>1, <2>2, <2>3 DEF Kept
    <2> QED BY <2>2, <2>4, <2>5, OneCounted
  <1>6. CASE FoSendEnd(t)
    <2>1. PICK d \in Dev : d = dev[t] /\ pc[t] \in Calls
      BY <1>1, <1>6 DEF FoSendEnd, TaskInv, Calls
    <2>2. /\ users' = [users EXCEPT ![d] = @ - 1] /\ UNCHANGED <<hashed, dev, accs>>
          /\ Goto(t, "open") \/ Goto(t, "close")
      BY <1>6, <2>1 DEF FoSendEnd, Put
    <2>3. \A e \in Dev : Inside(e)' = Inside(e) \ {t} /\ (t \in Inside(e) <=> d = e)
      BY <1>1, <2>1, <2>2, MoveOut DEF Calls
    <2>4. Cover(d)' /\ users'[d] \in Nat BY <1>1, <2>1, <2>2, <2>3, PutCover
    <2>5. \A e \in Dev \ {d} : Kept(e)
      <3>1. \A e \in Dev \ {d} : Inside(e)' = Inside(e) BY <2>3
      <3>2. \A e \in Dev \ {d} : users'[e] = users[e] BY <1>1, <2>2
      <3> QED BY <2>2, <3>1, <3>2 DEF Kept
    <2> QED BY <2>2, <2>4, <2>5, OneCounted
  <1>7. CASE AccDestroy(t)
    <2>1. PICK d \in Dev : d = dev[t] /\ pc[t] \notin Calls /\ t \in accs[d]
      BY <1>1, <1>2, <1>7 DEF AccDestroy, TaskInv
    <2>2. /\ users' = [users EXCEPT ![d] = @ - 1] /\ accs' = [accs EXCEPT ![d] = @ \ {t}]
          /\ UNCHANGED <<hashed, dev>> /\ Goto(t, "after")
      BY <1>7, <2>1 DEF AccDestroy, Put
    <2>3. \A e \in Dev : Inside(e)' = Inside(e)
      BY <1>1, <2>1, <2>2, MoveOutside DEF Calls
    <2>4. Cover(d)' /\ users'[d] \in Nat BY <1>1, <2>1, <2>2, <2>3, PutCover
    <2>5. \A e \in Dev \ {d} : Kept(e) BY <1>1, <2>1, <2>2, <2>3 DEF Kept
    <2> QED BY <2>2, <2>4, <2>5, OneCounted
  <1> QED BY <1>3, <1>4, <1>5, <1>6, <1>7 DEF TaskStep

\* Threads: so is fo_recv, which leaks its reference when it loses the lock.
LEMMA ThreadCounted ==
    ASSUME TeardownInv, NEW w \in Thread,
           ThreadStep(w) \/ \E d \in Dev : CreateThread(w, d)
    PROVE  Counted
  <1>1. /\ w \in Proc /\ TypeOK /\ ThreadInv(w) /\ \A d \in Dev : Cover(d)
        /\ users \in [Dev -> Nat] /\ accs \in [Dev -> SUBSET Proc]
        /\ dev \in [Proc -> Dev \cup {None}]
    BY DEF Proc, TeardownInv, ProcsInv, TypeOK, RefsCover, Cover
  <1>2. CASE FindStart(w) \/ ThreadFind(w) \/ \E d \in Dev : CreateThread(w, d)
    <2>1. /\ UNCHANGED <<hashed, users, accs>> /\ \A q \in Proc \ {w} : dev'[q] = dev[q]
          /\ pc[w] \notin Calls
          /\ \E l \in {"find", "found", "oops", "created"} : Goto(w, l)
      BY <1>1, <1>2 DEF FindStart, ThreadFind, CreateThread, devVars, Calls
    <2>2. \A d \in Dev : Inside(d)' = Inside(d)
      <3>1. PICK l \in {"find", "found", "oops", "created"} : Goto(w, l) BY <2>1
      <3>2. l \notin Calls BY DEF Calls
      <3> QED BY <1>1, <2>1, <3>1, <3>2, MoveOutside
    <2> QED BY <2>1, <2>2, NoneCounted DEF Kept
  <1>3. CASE ThreadGet(w)
    <2>1. PICK d \in Dev : d = dev[w] BY <1>1, <1>3 DEF ThreadGet, ThreadInv, ThreadPc
    <2>2. /\ users' = [users EXCEPT ![d] = @ + 1]
          /\ UNCHANGED <<hashed, dev, accs>> /\ Goto(w, "ref")
      BY <1>3, <2>1 DEF ThreadGet, Get
    <2>3. \A e \in Dev : Inside(e)' = IF d = e THEN Inside(e) \cup {w} ELSE Inside(e)
      BY <1>1, <2>1, <2>2, MoveIn DEF Calls
    <2>4. Cover(d)' BY <1>1, <2>1, <2>2, <2>3, GetCover
    <2>5. \A e \in Dev \ {d} : Kept(e) BY <1>1, <2>1, <2>2, <2>3 DEF Kept
    <2> QED BY <2>2, <2>4, <2>5, OneCounted
  <1>4. CASE ThreadLock(w)
    <2>1. /\ UNCHANGED <<hashed, users, accs>> /\ pc[w] = "ref"
          /\ \/ Goto(w, "sem") /\ dev' = dev
             \/ Goto(w, "idle") /\ dev' = [dev EXCEPT ![w] = None]
      BY <1>4 DEF ThreadLock, ThreadEnd, devVars
    <2>2. CASE Goto(w, "sem") /\ dev' = dev
      <3>1. \A d \in Dev : Inside(d)' = Inside(d)
        BY <1>1, <2>1, <2>2, MoveInside DEF Calls
      <3> QED BY <2>1, <3>1, NoneCounted DEF Kept
    <2>3. CASE Goto(w, "idle") /\ dev' = [dev EXCEPT ![w] = None]
      <3>1. \A d \in Dev : Inside(d)' = Inside(d) \ {w}
        BY <1>1, <2>1, <2>3, MoveOut DEF Calls
      <3>2. ASSUME NEW d \in Dev PROVE Cover(d)'
        <4> DEFINE a == Cardinality(accs[d])
                   n == Cardinality(Inside(d))
                   m == Cardinality(Inside(d)')
        <4>1. a \in Nat /\ n \in Nat /\ users[d] \in Nat BY <1>1, HoldersFinite
        <4>2. CASE w \in Inside(d)
          <5>1. m \in Nat /\ m = n - 1 BY <1>1, <3>1, <4>2, HoldersFinite, RemoveOne
          <5>2. users[d] >= a + n + IF d \in hashed THEN 1 ELSE 0 BY <1>1 DEF Cover, Holders
          <5>3. Holders(d)' = a + m BY <2>1 DEF Holders
          <5> HIDE DEF a, n, m
          <5> QED BY <2>1, <4>1, <5>1, <5>2, <5>3 DEF Cover
        <4>3. CASE w \notin Inside(d)
          <5>1. Inside(d)' = Inside(d) BY <3>1, <4>3
          <5> QED BY <1>1, <2>1, <5>1, KeptCover DEF Kept
        <4> QED BY <4>2, <4>3
      <3> QED BY <1>1, <2>1, <3>2 DEF Counted, RefsCover, Cover
    <2> QED BY <2>1, <2>2, <2>3
  <1>5. CASE ThreadWork(w)
    <2>1. PICK d \in Dev : d = dev[w] /\ pc[w] = "sem"
      BY <1>1, <1>5 DEF ThreadWork, ThreadInv, ThreadPc
    <2>2. UNCHANGED <<hashed, dev>> /\ Goto(w, "put") BY <1>5 DEF ThreadWork
    <2>3. \A e \in Dev : Inside(e)' = Inside(e)
      BY <1>1, <2>1, <2>2, MoveInside DEF Calls
    <2>4. CASE users' = [users EXCEPT ![d] = @ + 1] /\ accs' = [accs EXCEPT ![d] = @ \cup {w}]
      <3>1. Cover(d)' BY <1>1, <2>2, <2>3, <2>4, GetCover
      <3>2. \A e \in Dev \ {d} : Kept(e) BY <1>1, <2>2, <2>3, <2>4 DEF Kept
      <3> QED BY <2>4, <3>1, <3>2, OneCounted
    <2>5. ASSUME NEW a \in accs[d], users' = [users EXCEPT ![d] = @ - 1],
                 accs' = [accs EXCEPT ![d] = @ \ {a}]
          PROVE  Counted
      <3>1. Cover(d)' /\ users'[d] \in Nat BY <1>1, <2>2, <2>3, <2>5, PutCover
      <3>2. \A e \in Dev \ {d} : Kept(e) BY <1>1, <2>2, <2>3, <2>5 DEF Kept
      <3> QED BY <2>5, <3>1, <3>2, OneCounted
    <2>6. CASE UNCHANGED <<accs, users>> BY <2>2, <2>3, <2>6, NoneCounted DEF Kept
    <2> QED BY <1>5, <2>1, <2>4, <2>5, <2>6 DEF ThreadWork, Get, Put
  <1>6. CASE ThreadPut(w)
    <2>1. PICK d \in Dev : d = dev[w] /\ pc[w] \in Calls
      BY <1>1, <1>6 DEF ThreadPut, ThreadInv, ThreadPc, Calls
    <2>2. /\ users' = [users EXCEPT ![d] = @ - 1] /\ UNCHANGED <<hashed, accs>>
          /\ Goto(w, "idle") /\ \A q \in Proc \ {w} : dev'[q] = dev[q]
      BY <1>1, <1>6, <2>1 DEF ThreadPut, Put, ThreadEnd
    <2>3. \A e \in Dev : Inside(e)' = Inside(e) \ {w} /\ (w \in Inside(e) <=> d = e)
      BY <1>1, <2>1, <2>2, MoveOut DEF Calls
    <2>4. Cover(d)' /\ users'[d] \in Nat BY <1>1, <2>1, <2>2, <2>3, PutCover
    <2>5. \A e \in Dev \ {d} : Kept(e)
      <3>1. \A e \in Dev \ {d} : Inside(e)' = Inside(e) BY <2>3
      <3>2. \A e \in Dev \ {d} : users'[e] = users[e] BY <1>1, <2>2
      <3> QED BY <2>2, <3>1, <3>2 DEF Kept
    <2> QED BY <2>2, <2>4, <2>5, OneCounted
  <1> QED BY <1>2, <1>3, <1>4, <1>5, <1>6 DEF ThreadStep

\* Daemons and the unloading: the table's reference is given back once.
LEMMA DestroyCounted ==
    ASSUME TeardownInv,
           \/ \E d \in Dev : FindDestroy(d) \/ DaemonKilled(d) \/ DestroyStep(d)
           \/ ExitStart \/ ExitStep
    PROVE  Counted
  <1>1. /\ TypeOK /\ \A d \in Dev : Cover(d) /\ DestroyInv(d)
        /\ users \in [Dev -> Nat] /\ accs \in [Dev -> SUBSET Proc] /\ hashed \subseteq Dev
    BY DEF TeardownInv, DaemonsInv, TypeOK, RefsCover, Cover
  <1>2. ASSUME UNCHANGED <<users, accs, pc, dev>>, hashed' \subseteq hashed PROVE Counted
    BY <1>2, NoneCounted DEF Kept, Inside
  <1>3. ASSUME NEW d \in hashed, users' = [users EXCEPT ![d] = @ - 1],
               hashed' = hashed \ {d}, UNCHANGED <<accs, pc, dev>>
        PROVE  Counted
    <2>1. \A e \in Dev : Inside(e)' = Inside(e) BY <1>3 DEF Inside
    <2>2. Cover(d)' /\ users'[d] \in Nat BY <1>1, <1>3, <2>1, UnhashCover
    <2>3. \A e \in Dev \ {d} : Kept(e) BY <1>1, <1>3, <2>1 DEF Kept
    <2> QED BY <1>1, <1>3, <2>2, <2>3, OneCounted
  <1>4. ASSUME NEW d \in Dev, Unhash(d) PROVE Counted
    BY <1>1, <1>3, <1>4 DEF Unhash, Put, DestroyInv
  <1>5. ASSUME NEW d \in Dev, EndDevice(d) PROVE Counted
    BY <1>3, <1>5 DEF EndDevice, Put
  <1>6. ASSUME NEW d \in Dev, FindDestroy(d) \/ DaemonKilled(d) \/ DestroyStep(d)
        PROVE  Counted
    BY <1>2, <1>4, <1>6 DEF FindDestroy, DaemonKilled, DestroyStep, FindDestroyFound,
         UnhashLock, DestroyLock, AllaccLock, Allacc, AllaccWedge, Refs, Free, devVars
  <1>7. CASE ExitStart \/ ExitStep
    BY <1>2, <1>5, <1>7 DEF ExitStart, ExitStep, EndLock, EndDone, devVars
  <1> QED BY <1>6, <1>7

-----------------------------------------------------------------------------

\* The inductive invariant holds in every state.
LEMMA TeardownInvariant == Spec => []TeardownInv
  <1>1. Init => TeardownInv
    <2> SUFFICES ASSUME Init PROVE TeardownInv OBVIOUS
    <2>1. TypeOK BY DEF Init, TypeOK, TaskPc, ThreadPc, DaemonPc, Proc
    <2>2. ProcsInv BY DEF Init, ProcsInv, TaskInv, ThreadInv, TaskPc, ThreadPc, Proc
    <2>3. DaemonsInv BY DEF Init, DaemonsInv, DestroyInv, ExitInv
    <2>4. \A d \in Dev : accs[d] = {} /\ Inside(d) = {}
      BY DEF Init, Inside, Proc
    <2>5. RefsCover BY <2>4, FS_EmptySet DEF Init, RefsCover, Holders
    <2> QED BY <2>1, <2>2, <2>3, <2>5 DEF TeardownInv
  <1>2. TeardownInv /\ [Next]_vars => TeardownInv'
    <2> SUFFICES ASSUME TeardownInv, [Next]_vars PROVE TeardownInv' OBVIOUS
    <2>1. UNCHANGED vars => Counted
      BY NoneCounted DEF vars, devVars, Kept, Inside
    <2>2. Counted
      BY <2>1, TaskCounted, ThreadCounted, DestroyCounted DEF Next
    <2> QED BY <2>2, PlacesStep DEF Counted, TeardownInv, TypeOK, RestOK
  <1> QED BY <1>1, <1>2, PTL DEF Spec

\* TypeOK: in particular nddata->users never goes below zero.
THEOREM TypeCorrect == Spec => []TypeOK
  <1>1. TeardownInv => TypeOK BY DEF TeardownInv
  <1> QED BY <1>1, TeardownInvariant, PTL

\* RefsCover: nddata->users is at least the number of those who can reach the
\* device, whatever locks were lost on the way and however the daemons'
\* requests, the tasks, the kthreads and the unloading interleave.
THEOREM ReferencesCovered == Spec => []RefsCover
  <1>1. TeardownInv => RefsCover BY DEF TeardownInv
  <1> QED BY <1>1, TeardownInvariant, PTL

\* FreeDecision: ndmgm_refs(nddata) > 1 is enough of a test that at most one
\* call is in progress when a device is freed, and no file of a dummy open.
THEOREM FreesAreDecided == Spec => FreeDecision
  <1>1. TeardownInv /\ [Next]_vars =>
            [\A d \in Dev : dpc[d] = "refs" /\ dpc'[d] = "free" =>
                /\ Holders(d) <= 1
                /\ d \in Dummy => accs[d] = {}
                /\ d \in hashed => Holders(d) = 0]_vars
    <2> SUFFICES ASSUME TeardownInv, [Next]_vars,
                        NEW d \in Dev, dpc[d] = "refs", dpc'[d] = "free"
                 PROVE  /\ Holders(d) <= 1
                        /\ d \in Dummy => accs[d] = {}
                        /\ d \in hashed => Holders(d) = 0
      OBVIOUS
    <2>1. dpc' # dpc /\ dpc \in [Dev -> DaemonPc] BY DEF TeardownInv, TypeOK
    <2>2. PICK e \in Dev : FindDestroy(e) \/ DaemonKilled(e) \/ DestroyStep(e)
      BY <2>1, TaskPlaces, ThreadPlaces, ExitPlaces DEF Next, vars
    <2>3. e = d BY <2>2, DaemonPlaces DEF DaemonStays
    <2>4. Refs(d)
      BY <2>2, <2>3 DEF FindDestroy, DaemonKilled, DestroyStep, FindDestroyFound, UnhashLock,
           Unhash, DestroyLock, AllaccLock, Allacc, AllaccWedge, Free
    <2>5. users[d] <= 1 BY <2>1, <2>4 DEF Refs, DaemonAt, InUse, TeardownInv, TypeOK
    <2>6. TypeOK /\ users[d] \in Nat /\ Cover(d) /\ DestroyInv(d)
      BY DEF TeardownInv, TypeOK, RefsCover, Cover, DaemonsInv
    <2>7. Holders(d) \in Nat BY <2>6, HoldersFinite DEF Holders
    <2> QED BY <2>5, <2>6, <2>7 DEF Cover, DestroyInv
  <1> QED BY <1>1, TeardownInvariant, PTL DEF Spec, FreeDecision
=============================================================================
