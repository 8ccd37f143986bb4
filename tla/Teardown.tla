------------------------------ MODULE Teardown ------------------------------
(***************************************************************************)
(* How devices end: unregistration by their daemons and the unloading of   *)
(* the module (netdevmgm.c, main.c), against tasks that open and use dummy *)
(* devices and kthreads that run fo_recv for dummies and servers.          *)
(*                                                                         *)
(* Two kinds of locks decide what happens: netdev_htable_sem over the table*)
(* of devices and nddata->sem of each device.  All but one of the places   *)
(* that take them use a trylock, and what a loser does differs from place  *)
(* to place.  What is done to a device under its semaphore by others       *)
(* (FoComm and FoServer have the details) is here one short section that   *)
(* may add or remove a fo_access.                                          *)
(*                                                                         *)
(* A device that was freed keeps its contents in the model: the memory may *)
(* still hold them, and what matters here is who can still reach it.       *)
(***************************************************************************)
EXTENDS Integers, FiniteSets

CONSTANTS
    Dev,        \* devices; each belongs to one daemon
    Dummy,      \* those that are dummies; the others are servers
    Task,       \* tasks that open dummy devices
    Thread,     \* kthreads that run fo_recv
    Exit,       \* the task that unloads the module
    UserLimit,  \* bound: references beyond which no thread is started
    None

ASSUME DevAssumption == Dummy \subseteq Dev /\ IsFiniteSet(Dev)
ASSUME ProcAssumption == IsFiniteSet(Task) /\ IsFiniteSet(Thread)
ASSUME LimitAssumption == UserLimit \in Nat
ASSUME NameAssumption ==
    /\ Task \cap Thread = {} /\ Dev \cap (Task \cup Thread) = {}
    /\ Exit \notin Dev \cup Task \cup Thread
    /\ None \notin Dev \cup Task \cup Thread \cup {Exit}

Proc == Task \cup Thread

\* out ... after: a task; idle ... put, oops: a thread
TaskPc == {"out", "find", "found", "add", "open", "busy", "close", "del", "after"}
ThreadPc == {"idle", "created", "find", "found", "ref", "sem", "put", "oops"}
DaemonPc == {"up", "find", "unhash", "del", "destroy", "allacc", "walk", "wedged",
             "refs", "free", "down"}

VARIABLES
    hashed,     \* devices in netdev_htable
    users,      \* nddata->users
    active,     \* nddata->active
    accs,       \* fo_access objects in each device's table, by who made them
    freed,      \* devices whose netdev_data was freed
    sem,        \* holder of each device's nddata->sem
    htw,        \* who holds netdev_htable_sem for writing
    htr,        \* who holds it for reading
    pc,         \* where each task and thread is
    dev,        \* the netdev_data it has a pointer to
    dpc,        \* where the netlink request of each device's daemon is
    xpc         \* netdev_exit: "no", "end", "loop", "unloaded"

lockVars == <<sem, htw, htr>>
devVars == <<hashed, users, active, accs, freed>>
vars == <<devVars, lockVars, pc, dev, dpc, xpc>>

TypeOK ==
    /\ hashed \in SUBSET Dev
    /\ users \in [Dev -> Nat]
    /\ active \in [Dev -> BOOLEAN]
    /\ accs \in [Dev -> SUBSET Proc]
    /\ freed \in SUBSET Dev
    /\ sem \in [Dev -> Proc \cup Dev \cup {None}]
    /\ htw \in Dev \cup {Exit, None}
    /\ htr \in SUBSET (Proc \cup Dev)
    /\ pc \in [Proc -> TaskPc \cup ThreadPc]
    /\ dev \in [Proc -> Dev \cup {None}]
    /\ dpc \in [Dev -> DaemonPc]
    /\ xpc \in {"no", "end", "loop", "unloaded"}

\* ndmgm_create_dummy and ndmgm_create_server have registered every device.
Init ==
    /\ hashed = Dev
    /\ users = [d \in Dev |-> 1]
    /\ active = [d \in Dev |-> TRUE]
    /\ accs = [d \in Dev |-> {}]
    /\ freed = {}
    /\ sem = [d \in Dev |-> None]
    /\ htw = None /\ htr = {}
    /\ pc = [p \in Proc |-> IF p \in Task THEN "out" ELSE "idle"]
    /\ dev = [p \in Proc |-> None]
    /\ dpc = [d \in Dev |-> "up"]
    /\ xpc = "no"

Goto(p, l) == pc' = [pc EXCEPT ![p] = l]
DaemonAt(d, l) == dpc' = [dpc EXCEPT ![d] = l]
Lock(d, p) == sem[d] = None /\ sem' = [sem EXCEPT ![d] = p]
Unlock(d) == sem' = [sem EXCEPT ![d] = None]
Get(d) == users' = [users EXCEPT ![d] = @ + 1]
Put(d) == users' = [users EXCEPT ![d] = @ - 1]

-----------------------------------------------------------------------------
(* ndmgm_find: the pointer is returned without a reference.                *)

Loaded == xpc = "no"

\* open() of a dummy's node, or a reply or request for a device that its
\* daemon hands to netlink_recv, which starts the thread
FindStart(p) ==
    /\ pc[p] \in {"out", "created"}
    /\ p \in Task => Loaded
    /\ htw = None
    /\ htr' = htr \cup {p}
    /\ Goto(p, "find")
    /\ UNCHANGED <<devVars, sem, htw, dev, dpc, xpc>>

\* netlink_recv of the daemon finds the device, creates and wakes the thread.
CreateThread(w, d) ==
    /\ pc[w] = "idle" /\ dpc[d] = "up" /\ htw = None /\ users[d] < UserLimit
    /\ dev' = [dev EXCEPT ![w] = d]
    /\ Goto(w, "created")
    /\ UNCHANGED <<devVars, lockVars, dpc, xpc>>

TaskFind(t) ==
    /\ t \in Task /\ pc[t] = "find"
    /\ htr' = htr \ {t}
    /\ \/ \E d \in hashed \cap Dummy : dev' = [dev EXCEPT ![t] = d] /\ Goto(t, "found")
       \/ UNCHANGED dev /\ Goto(t, "out")       \* fo_acc_start refuses NULL
    /\ UNCHANGED <<devVars, sem, htw, dpc, xpc>>

\* fo_recv looks for its device again; IS_ERR lets NULL pass, and the thread
\* uses it.
ThreadFind(w) ==
    /\ w \in Thread
    /\ \/ pc[w] = "find"
       \/ pc[w] = "created" /\ htw # None
    /\ htr' = htr \ {w}
    /\ Goto(w, IF pc[w] = "find" /\ dev[w] \in hashed THEN "found" ELSE "oops")
    /\ UNCHANGED <<devVars, sem, htw, dev, dpc, xpc>>

-----------------------------------------------------------------------------
(* Tasks on a dummy: fo_acc_start, fo_send, fo_acc_destroy. *)

TaskOut(t) == Goto(t, "out") /\ dev' = [dev EXCEPT ![t] = None]

AccStartLock(t) ==
    /\ t \in Task /\ pc[t] = "found"
    /\ \/ Lock(dev[t], t) /\ Goto(t, "add") /\ UNCHANGED dev
       \/ sem[dev[t]] # None /\ UNCHANGED sem /\ TaskOut(t)
    /\ UNCHANGED <<devVars, htw, htr, dpc, xpc>>

AccStartAddNoGet(t) ==      \* mutant: the table's pointer is not counted
    /\ t \in Task /\ pc[t] = "add"
    /\ accs' = [accs EXCEPT ![dev[t]] = @ \cup {t}]
    /\ Unlock(dev[t])
    /\ Goto(t, "open")
    /\ UNCHANGED <<hashed, users, active, freed, htw, htr, dev, dpc, xpc>>

AccStartAdd(t) ==
    /\ t \in Task /\ pc[t] = "add"
    /\ accs' = [accs EXCEPT ![dev[t]] = @ \cup {t}]
    /\ Get(dev[t])
    /\ Unlock(dev[t])
    /\ Goto(t, "open")
    /\ UNCHANGED <<hashed, active, freed, htw, htr, dev, dpc, xpc>>

FoSendStart(t) ==
    /\ pc[t] = "open" /\ active[dev[t]]
    /\ Get(dev[t])
    /\ Goto(t, "busy")
    /\ UNCHANGED <<hashed, active, accs, freed, lockVars, dev, dpc, xpc>>

\* -EBUSY for the request of an open, or for RELEASE: the fo_access stays in
\* the table for good.  (Other calls that are refused change nothing.)
FoSendRefused(t) ==
    /\ pc[t] = "open" /\ ~active[dev[t]]
    /\ TaskOut(t)
    /\ UNCHANGED <<devVars, lockVars, dpc, xpc>>

\* The request was completed, by a reply or by fo_acc_free_queue, or could
\* not be sent.  After a RELEASE the fo_access is destroyed.
FoSendEnd(t) ==
    /\ pc[t] = "busy"
    /\ Put(dev[t])
    /\ Goto(t, "open") \/ Goto(t, "close")
    /\ UNCHANGED <<hashed, active, accs, freed, lockVars, dev, dpc, xpc>>

AccDestroyLock(t) ==
    /\ pc[t] = "close" /\ Lock(dev[t], t)
    /\ Goto(t, "del")
    /\ UNCHANGED <<devVars, htw, htr, dev, dpc, xpc>>

AccDestroy(t) ==
    /\ pc[t] = "del"
    /\ accs' = [accs EXCEPT ![dev[t]] = @ \ {t}]
    /\ Put(dev[t])
    /\ Unlock(dev[t])
    /\ Goto(t, "after")
    /\ UNCHANGED <<hashed, active, freed, htw, htr, dev, dpc, xpc>>

\* fo_acc_destroy reads nddata->dummy after it gave its reference back.
AccDestroyEnd(t) ==
    /\ pc[t] = "after"
    /\ TaskOut(t)
    /\ UNCHANGED <<devVars, lockVars, dpc, xpc>>

-----------------------------------------------------------------------------
(* Threads in fo_recv after ndmgm_find. *)

ThreadGet(w) ==
    /\ w \in Thread /\ pc[w] = "found"
    /\ Get(dev[w])
    /\ Goto(w, "ref")
    /\ UNCHANGED <<hashed, active, accs, freed, lockVars, dev, dpc, xpc>>

ThreadEnd(w) == Goto(w, "idle") /\ dev' = [dev EXCEPT ![w] = None]

\* The thread takes nddata->sem, or loses the trylock and ends in do_exit
\* without ndmgm_put.
ThreadLock(w) ==
    /\ pc[w] = "ref"
    /\ \/ Lock(dev[w], w) /\ Goto(w, "sem") /\ UNCHANGED dev
       \/ sem[dev[w]] # None /\ UNCHANGED sem /\ ThreadEnd(w)
    /\ UNCHANGED <<devVars, htw, htr, dpc, xpc>>

\* On a server: fo_acc_start for an OPEN, fo_acc_destroy after a RELEASE;
\* otherwise fo_complete or fo_execute with a fo_access it has found.
ThreadWork(w) ==
    LET d == dev[w] IN
    /\ pc[w] = "sem"
    /\ \/ /\ d \notin Dummy /\ w \notin accs[d]
          /\ accs' = [accs EXCEPT ![d] = @ \cup {w}] /\ Get(d)
       \/ /\ d \notin Dummy
          /\ \E a \in accs[d] : accs' = [accs EXCEPT ![d] = @ \ {a}]
          /\ Put(d)
       \/ UNCHANGED <<accs, users>>
    /\ Unlock(d)
    /\ Goto(w, "put")
    /\ UNCHANGED <<hashed, active, freed, htw, htr, dev, dpc, xpc>>

ThreadPut(w) ==
    /\ pc[w] = "put"
    /\ Put(dev[w])
    /\ ThreadEnd(w)
    /\ UNCHANGED <<hashed, active, accs, freed, lockVars, dpc, xpc>>

-----------------------------------------------------------------------------
(* MSGT_CONTROL_UNREGISTER: ndmgm_find_destroy in the daemon's context.    *)

FindDestroy(d) ==
    /\ dpc[d] = "up"
    /\ \/ htw = None /\ htr' = htr \cup {d} /\ DaemonAt(d, "find")
       \/ htw # None /\ UNCHANGED htr /\ DaemonAt(d, "down")    \* no such device
    /\ UNCHANGED <<devVars, sem, htw, pc, dev, xpc>>

\* The daemon ends without unregistering: it was killed.
DaemonKilled(d) ==
    /\ dpc[d] = "up"
    /\ DaemonAt(d, "down")
    /\ UNCHANGED <<devVars, lockVars, pc, dev, xpc>>

FindDestroyFound(d) ==
    /\ dpc[d] = "find"
    /\ htr' = htr \ {d}
    /\ DaemonAt(d, "unhash")
    /\ UNCHANGED <<devVars, sem, htw, pc, dev, xpc>>

\* The second trylock; when it is lost the device stays in the table, with
\* the table's reference, and is destroyed all the same.
UnhashLock(d) ==
    /\ dpc[d] = "unhash"
    /\ \/ htw = None /\ htr' = htr \cup {d} /\ DaemonAt(d, "del")
       \/ htw # None /\ UNCHANGED htr /\ DaemonAt(d, "destroy")
    /\ UNCHANGED <<devVars, sem, htw, pc, dev, xpc>>

UnhashPutTwice(d) ==        \* mutant: the reference is given back twice
    /\ dpc[d] = "del"
    /\ hashed' = hashed \ {d}
    /\ users' = [users EXCEPT ![d] = @ - 2]
    /\ htr' = htr \ {d}
    /\ DaemonAt(d, "destroy")
    /\ UNCHANGED <<active, accs, freed, sem, htw, pc, dev, xpc>>

Unhash(d) ==
    /\ dpc[d] = "del"
    /\ hashed' = hashed \ {d}
    /\ Put(d)
    /\ htr' = htr \ {d}
    /\ DaemonAt(d, "destroy")
    /\ UNCHANGED <<active, accs, freed, sem, htw, pc, dev, xpc>>

\* ndmgm_destroy_dummy and ndmgm_destroy_server
DestroyLock(d) ==
    /\ dpc[d] = "destroy"
    /\ \/ /\ Lock(d, d)
          /\ active' = [active EXCEPT ![d] = FALSE]
          /\ DaemonAt(d, IF d \in Dummy THEN "allacc" ELSE "refs")
       \/ /\ sem[d] # None /\ UNCHANGED <<sem, active>>
          /\ DaemonAt(d, "down")
    /\ UNCHANGED <<hashed, users, accs, freed, htw, htr, pc, dev, xpc>>

\* ndmgm_destroy_allacc
AllaccLock(d) ==
    /\ dpc[d] = "allacc"
    /\ \/ htw = None /\ htr = {} /\ htw' = d /\ UNCHANGED sem /\ DaemonAt(d, "walk")
       \/ (htw # None \/ htr # {}) /\ UNCHANGED htw /\ Unlock(d) /\ DaemonAt(d, "down")
    /\ UNCHANGED <<devVars, htr, pc, dev, xpc>>

AllaccKeep(d) ==            \* mutant: netdev_htable_sem is not released
    /\ dpc[d] = "walk" /\ accs[d] = {}
    /\ DaemonAt(d, "refs")
    /\ UNCHANGED <<devVars, lockVars, pc, dev, xpc>>

Allacc(d) ==
    /\ dpc[d] = "walk" /\ accs[d] = {}
    /\ htw' = None
    /\ DaemonAt(d, "refs")
    /\ UNCHANGED <<devVars, sem, htr, pc, dev, xpc>>

\* The device's own node is deleted instead of the fo_access's, the pending
\* requests are completed, and fo_acc_destroy waits for the nddata->sem that
\* the daemon itself holds: both semaphores stay locked for ever.
AllaccWedge(d) ==
    /\ dpc[d] = "walk" /\ accs[d] # {}
    /\ hashed' = hashed \ {d}
    /\ DaemonAt(d, "wedged")
    /\ UNCHANGED <<users, active, accs, freed, lockVars, pc, dev, xpc>>

InUseOver2(d) == users[d] > 2   \* mutant: one reference more is tolerated

\* ndmgm_refs(nddata) > 1
InUse(d) == users[d] > 1

\* up_write comes before the device is freed.
Refs(d) ==
    /\ dpc[d] = "refs"
    /\ Unlock(d)
    /\ DaemonAt(d, IF InUse(d) THEN "down" ELSE "free")
    /\ UNCHANGED <<devVars, htw, htr, pc, dev, xpc>>

Free(d) ==
    /\ dpc[d] = "free"
    /\ freed' = freed \cup {d}
    /\ DaemonAt(d, "down")
    /\ UNCHANGED <<hashed, users, active, accs, lockVars, pc, dev, xpc>>

-----------------------------------------------------------------------------
(* netdev_exit: possible when no daemon has a netlink socket and no file   *)
(* of a dummy is open; both hold the module.                               *)

ExitStart ==
    /\ xpc = "no"
    /\ \A d \in Dev : dpc[d] = "down"
    /\ \A t \in Task : pc[t] = "out"
    /\ xpc' = "end"
    /\ UNCHANGED <<devVars, lockVars, pc, dev, dpc>>

\* netdev_cleanup repeats ndmgm_end until the trylock succeeds.
EndLock ==
    /\ xpc = "end" /\ htw = None /\ htr = {}
    /\ htw' = Exit
    /\ xpc' = "loop"
    /\ UNCHANGED <<devVars, sem, htr, pc, dev, dpc>>

\* One device of the loop of ndmgm_end.  A dummy is never freed: the trylock
\* in ndmgm_destroy_allacc fails because ndmgm_end holds the semaphore.
EndDevice(d) ==
    /\ xpc = "loop" /\ d \in hashed
    /\ hashed' = hashed \ {d}
    /\ Put(d)
    /\ active' = IF sem[d] = None THEN [active EXCEPT ![d] = FALSE] ELSE active
    /\ freed' = IF sem[d] = None /\ d \notin Dummy /\ users[d] - 1 <= 1
                THEN freed \cup {d} ELSE freed
    /\ UNCHANGED <<accs, lockVars, pc, dev, dpc, xpc>>

EndDone ==
    /\ xpc = "loop" /\ hashed = {}
    /\ htw' = None
    /\ xpc' = "unloaded"
    /\ UNCHANGED <<devVars, sem, htr, pc, dev, dpc>>

-----------------------------------------------------------------------------
TaskStep(t) ==
    FindStart(t) \/ TaskFind(t) \/ AccStartLock(t) \/ AccStartAdd(t) \/ FoSendStart(t)
    \/ FoSendRefused(t) \/ FoSendEnd(t) \/ AccDestroyLock(t) \/ AccDestroy(t)
    \/ AccDestroyEnd(t)

ThreadStep(w) ==
    FindStart(w) \/ ThreadFind(w) \/ ThreadGet(w) \/ ThreadLock(w) \/ ThreadWork(w)
    \/ ThreadPut(w)

DestroyStep(d) ==
    FindDestroyFound(d) \/ UnhashLock(d) \/ Unhash(d) \/ DestroyLock(d)
    \/ AllaccLock(d) \/ Allacc(d) \/ AllaccWedge(d) \/ Refs(d) \/ Free(d)

ExitStep == EndLock \/ (\E d \in Dev : EndDevice(d)) \/ EndDone

Next ==
    \/ \E t \in Task : TaskStep(t)
    \/ \E w \in Thread : ThreadStep(w) \/ \E d \in Dev : CreateThread(w, d)
    \/ \E d \in Dev : FindDestroy(d) \/ DaemonKilled(d) \/ DestroyStep(d)
    \/ ExitStart \/ ExitStep

Spec == Init /\ [][Next]_vars

\* The scheduler runs threads, and netlink and exit handlers, that can run.
FairSpec ==
    /\ Spec
    /\ \A w \in Thread : WF_vars(ThreadStep(w))
    /\ \A d \in Dev : WF_vars(DestroyStep(d))
    /\ WF_vars(ExitStep)

-----------------------------------------------------------------------------
(* Properties *)

\* Those between ndmgm_get and ndmgm_put of fo_send or fo_recv.
Inside(d) == {p \in Proc : dev[p] = d /\ pc[p] \in {"busy", "ref", "sem", "put"}}

Holders(d) == Cardinality(accs[d]) + Cardinality(Inside(d))

\* nddata->users counts the table's pointer, every fo_access and every call
\* in progress, throughout the unregistration.
RefsCover ==
    \A d \in Dev : users[d] >= Holders(d) + IF d \in hashed THEN 1 ELSE 0

\* When ndmgm_destroy_dummy or ndmgm_destroy_server decides to free a device
\* at most one call is in progress on it, and a dummy has no open file.
FreeDecision ==
    [][\A d \in Dev : dpc[d] = "refs" /\ dpc'[d] = "free" =>
            /\ Holders(d) <= 1
            /\ d \in Dummy => accs[d] = {}
            /\ d \in hashed => Holders(d) = 0]_vars

\* netdev_cleanup, which repeats ndmgm_end until it gets the semaphore, ends:
\* no unregistration has left netdev_htable_sem locked.
ExitEnds == xpc = "end" ~> xpc = "unloaded"

\* A device that was freed is not in netdev_htable any more, where the next
\* ndmgm_find would return it.
FreedUnhashed == freed \cap hashed = {}
=============================================================================
