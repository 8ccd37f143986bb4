------------------------------- MODULE FoComm -------------------------------
(***************************************************************************)
(* The dummy side of one netdev device inside the kernel module: how a     *)
(* task's file operation becomes a request (fo_send), how the reply that   *)
(* comes back is matched with the request that waits for it (fo_recv,      *)
(* fo_complete), the fo_access objects both sides look up in the device's  *)
(* hash table, and the device's reference counter.                         *)
(*                                                                         *)
(* Processes are the tasks that make system calls on the dummy device and  *)
(* the kthreads that run fo_recv, one per reply.  A step is what happens   *)
(* between two points at which another process can see a difference: taking*)
(* a semaphore and the section it guards are different steps, because      *)
(* nearly every semaphore here is taken with a trylock and somebody else's *)
(* critical section makes the caller give up.                              *)
(*                                                                         *)
(* The daemons, the network and the serving machine are external: a request*)
(* that was sent may be answered once, in any order.                       *)
(***************************************************************************)
EXTENDS Integers, Sequences, FiniteSets

CONSTANTS
    Task,       \* tasks (processes, threads) using the device, by pid
    File,       \* open files of the device (struct file, with its fo_access)
    Worker,     \* kthreads that may run fo_recv at the same time
    Req,        \* fo_req objects of the device's queue_pool
    Opener,     \* Opener[f]: the task that opens f; its pid is the access_id
    Sharers,    \* Sharers[f]: the tasks that hold a descriptor of f
    QueueLen,   \* pointers that fit in fo_queue (NETDEV_FO_QUEUE_SIZE)
    SeqMod,     \* number of values of curseq (2^32)
    SeqLimit,   \* bound: sequence numbers the tasks may use up
    Faults,     \* whether allocations and nlmsg_unicast may fail
    None

ASSUME OpenerAssumption == Opener \in [File -> Task]
ASSUME SharersAssumption == Sharers \in [File -> SUBSET Task]
ASSUME QueueLenAssumption == QueueLen \in Nat \ {0}
ASSUME SeqAssumption == SeqMod \in Nat \ {0, 1} /\ SeqLimit \in Nat
ASSUME FaultsAssumption == Faults \in BOOLEAN
ASSUME FiniteAssumption == IsFiniteSet(Task) /\ IsFiniteSet(Worker) /\ IsFiniteSet(File)
ASSUME DisjointAssumption ==
    /\ Task \cap Worker = {} /\ File \cap Worker = {}
    /\ None \notin Task \cup Worker \cup File \cup Req

Proc == Task \cup Worker

\* An fo_access is named after the file it was made for, or after the worker
\* that made it for a reply to an OPEN it had found no fo_access for.
Acc == File \cup Worker

Type == {"OPEN", "IO", "RELEASE"}

Seq32 == 0 .. SeqMod - 1

\* A netlink message: access id and sequence number travel with it; from is
\* an auxiliary field, the task whose request it is.
Msg == [id : Task, seq : Seq32, type : Type, from : Task]

TaskPc == {"idle", "acc_lock", "acc_add", "alloc", "add", "add_in",
           "serialize", "read", "nlsend", "wait", "out", "destroy", "unhash"}
WorkerPc == {"idle", "find", "scan", "acc_lock", "acc_add", "q_lock", "pop",
             "complete", "destroy", "unhash", "put"}

VARIABLES
    pc,         \* where each process is
    acc,        \* the fo_access the process works on
    req,        \* the fo_req the process works on
    type,       \* msgtype of the operation of a task
    msg,        \* the reply a worker was started for
    fstate,     \* the file, as the VFS sees it
    htable,     \* foacc_htable: the fo_access objects in it
    older,      \* older[a]: those that were in it when a was added
    queue,      \* fo_queue of each fo_access
    accsem,     \* holder of each fo_access's sem
    ndw,        \* writer holding nddata->sem
    ndr,        \* readers holding nddata->sem
    ndq,        \* processes blocked in down_write(&nddata->sem)
    users,      \* nddata->users
    curseq,     \* nddata->curseq
    live,       \* fo_req objects allocated from queue_pool
    rseq,       \* req->seq
    rvalue,     \* req->rvalue
    answer,     \* req->comp: None, or from of the reply that completed it
    net         \* requests handed to the daemon and not answered yet

procVars == <<pc, acc, req, type, msg, fstate>>
tableVars == <<htable, older, queue>>
lockVars == <<accsem, ndw, ndr, ndq>>
reqVars == <<live, rseq, rvalue, answer>>
vars == <<procVars, tableVars, lockVars, reqVars, users, curseq, net>>

TypeOK ==
    /\ pc \in [Proc -> TaskPc \cup WorkerPc]
    /\ \A t \in Task : pc[t] \in TaskPc
    /\ \A w \in Worker : pc[w] \in WorkerPc
    /\ acc \in [Proc -> Acc \cup {None}]
    /\ req \in [Proc -> Req \cup {None}]
    /\ type \in [Task -> Type]
    /\ msg \in [Worker -> Msg \cup {None}]
    /\ fstate \in [File -> {"closed", "opening", "open", "closing", "leaked"}]
    /\ htable \in SUBSET Acc
    /\ older \in [Acc -> SUBSET Acc]
    /\ queue \in [Acc -> Seq(Req)]
    /\ \A a \in Acc : Len(queue[a]) <= QueueLen
    /\ accsem \in [Acc -> Proc \cup {None}]
    /\ ndw \in Proc \cup {None}
    /\ ndr \in SUBSET Proc
    /\ ndq \in SUBSET Proc
    /\ users \in Int
    /\ curseq \in Seq32
    /\ live \in SUBSET Req
    /\ rseq \in [Req -> Seq32]
    /\ rvalue \in [Req -> {0, -1}]
    /\ answer \in [Req -> Task \cup {None}]
    /\ net \in SUBSET Msg

Init ==
    /\ pc = [p \in Proc |-> "idle"]
    /\ acc = [p \in Proc |-> None]
    /\ req = [p \in Proc |-> None]
    /\ type = [t \in Task |-> "IO"]
    /\ msg = [w \in Worker |-> None]
    /\ fstate = [f \in File |-> "closed"]
    /\ htable = {}
    /\ older = [a \in Acc |-> {}]
    /\ queue = [a \in Acc |-> << >>]
    /\ accsem = [a \in Acc |-> None]
    /\ ndw = None /\ ndr = {} /\ ndq = {}
    /\ users = 1        \* the device table's reference
    /\ curseq = 0
    /\ live = {}
    /\ rseq = [r \in Req |-> 0]
    /\ rvalue = [r \in Req |-> -1]
    /\ answer = [r \in Req |-> None]
    /\ net = {}

-----------------------------------------------------------------------------
(* nddata->sem.  A process blocked in down_write makes every trylock fail. *)

CanWrite == ndw = None /\ ndr = {} /\ ndq = {}
CanRead == ndw = None /\ ndq = {}

Goto(p, l) == pc' = [pc EXCEPT ![p] = l]

-----------------------------------------------------------------------------
(* fo_acc_start: called by ndfo_send_open for a new file and by fo_recv    *)
(* for an OPEN.                                                            *)

AccStartLock(p) ==
    /\ pc[p] = "acc_lock" /\ CanWrite
    /\ ndw' = p
    /\ Goto(p, "acc_add")
    /\ UNCHANGED <<acc, req, type, msg, fstate, tableVars, accsem, ndr, ndq,
                   reqVars, users, curseq, net>>

\* The trylock (or, with Faults, an allocation) fails.  open() returns
\* -ENOMEM; fo_recv ends in do_exit(-ENOMEM) without ndmgm_put.
AccStartFail(p) ==
    /\ pc[p] = "acc_lock" /\ (Faults \/ ~CanWrite)
    /\ Goto(p, "idle")
    /\ acc' = [acc EXCEPT ![p] = None]
    /\ fstate' = IF p \in Task THEN [fstate EXCEPT ![acc[p]] = "closed"] ELSE fstate
    /\ msg' = IF p \in Worker THEN [msg EXCEPT ![p] = None] ELSE msg
    /\ UNCHANGED <<req, type, tableVars, lockVars, reqVars, users, curseq, net>>

AccStartAddNoGet(p) ==          \* mutant: the table's pointer is not counted
    /\ pc[p] = "acc_add"
    /\ htable' = htable \cup {acc[p]}
    /\ older' = [older EXCEPT ![acc[p]] = htable]
    /\ queue' = [queue EXCEPT ![acc[p]] = << >>]
    /\ ndw' = None
    /\ Goto(p, IF p \in Task THEN "alloc" ELSE "q_lock")
    /\ UNCHANGED <<acc, req, type, msg, fstate, accsem, ndr, ndq, reqVars,
                   users, curseq, net>>

AccStartAdd(p) ==
    /\ pc[p] = "acc_add"
    /\ htable' = htable \cup {acc[p]}
    /\ older' = [older EXCEPT ![acc[p]] = htable]
    /\ queue' = [queue EXCEPT ![acc[p]] = << >>]
    /\ users' = users + 1
    /\ ndw' = None
    /\ Goto(p, IF p \in Task THEN "alloc" ELSE "q_lock")
    /\ UNCHANGED <<acc, req, type, msg, fstate, accsem, ndr, ndq, reqVars,
                   curseq, net>>

(* fo_acc_destroy: called by fo_send for RELEASE and by fo_recv when the   *)
(* reply to an OPEN could not be completed.  It blocks in down_write.      *)

DestroyBlock(p) ==
    /\ pc[p] = "destroy" /\ p \notin ndq /\ ~CanWrite
    /\ ndq' = ndq \cup {p}
    /\ UNCHANGED <<procVars, tableVars, accsem, ndw, ndr, reqVars, users,
                   curseq, net>>

DestroyLock(p) ==
    /\ pc[p] = "destroy" /\ ndw = None /\ ndr = {}
    /\ p \in ndq \/ ndq = {}
    /\ ndw' = p /\ ndq' = ndq \ {p}
    /\ Goto(p, "unhash")
    /\ UNCHANGED <<acc, req, type, msg, fstate, tableVars, accsem, ndr,
                   reqVars, users, curseq, net>>

Unhash(p) ==
    /\ pc[p] = "unhash"
    /\ htable' = htable \ {acc[p]}
    /\ older' = [a \in Acc |-> IF a = acc[p] THEN {} ELSE older[a] \ {acc[p]}]
    /\ queue' = [queue EXCEPT ![acc[p]] = << >>]
    /\ accsem' = [accsem EXCEPT ![acc[p]] = None]
    /\ users' = users - 1
    /\ ndw' = None
    /\ acc' = [acc EXCEPT ![p] = None]
    /\ Goto(p, IF p \in Task THEN "idle" ELSE "put")
    /\ fstate' = IF p \in Task THEN [fstate EXCEPT ![acc[p]] = "closed"] ELSE fstate
    /\ UNCHANGED <<req, type, msg, ndr, ndq, reqVars, curseq, net>>

-----------------------------------------------------------------------------
(* System calls on the device.  The VFS calls open once per file, the      *)
(* others only on an open file, and release when the last descriptor is    *)
(* closed and no call on the file is in progress.                          *)

\* Tasks that have not drawn their sequence number yet.
PreSeq == {t \in Task : pc[t] \in {"acc_lock", "acc_add", "alloc", "add",
                                   "add_in", "serialize"}}

Budget == curseq + Cardinality(PreSeq) < SeqLimit

Call(t, f, ty, s, l) ==
    /\ pc[t] = "idle" /\ Budget
    /\ acc' = [acc EXCEPT ![t] = f]
    /\ type' = [type EXCEPT ![t] = ty]
    /\ fstate' = [fstate EXCEPT ![f] = s]
    /\ Goto(t, l)
    /\ UNCHANGED <<req, msg, tableVars, lockVars, reqVars, users, curseq, net>>

\* ndfo_send_open
SendOpen(f) == fstate[f] = "closed" /\ Call(Opener[f], f, "OPEN", "opening", "acc_lock")

\* ndfo_send_llseek, _read, _write, _unlocked_ioctl, _compat_ioctl
SendIo(t, f) ==
    /\ fstate[f] = "open" /\ t \in Sharers[f]
    /\ Call(t, f, "IO", "open", "alloc")

\* ndfo_send_release
SendRelease(t, f) ==
    /\ fstate[f] = "open" /\ t \in Sharers[f]
    /\ \A u \in Task : acc[u] # f
    /\ Call(t, f, "RELEASE", "closing", "alloc")

-----------------------------------------------------------------------------
(* fo_send *)

\* ndmgm_get, kmem_cache_alloc.  req->seq is not initialised: it holds whatever
\* the memory held before.
FoSendAlloc(t) ==
    /\ pc[t] = "alloc"
    /\ \E r \in Req \ live, s \in Seq32 :
        /\ live' = live \cup {r}
        /\ req' = [req EXCEPT ![t] = r]
        /\ rseq' = [rseq EXCEPT ![r] = s]
        /\ rvalue' = [rvalue EXCEPT ![r] = -1]
        /\ answer' = [answer EXCEPT ![r] = None]
    /\ users' = users + 1
    /\ Goto(t, "add")
    /\ UNCHANGED <<acc, type, msg, fstate, tableVars, lockVars, curseq, net>>

FoSendAllocFail(t) ==
    /\ pc[t] = "alloc" /\ Faults
    /\ users' = users + 1
    /\ Goto(t, "out")
    /\ UNCHANGED <<acc, req, type, msg, fstate, tableVars, lockVars, reqVars,
                   curseq, net>>

\* fo_acc_foreq_add: the result of the trylock, and of kfifo_in on a full
\* queue, is ignored by fo_send.
ForeqAddLock(t) ==
    /\ pc[t] = "add" /\ accsem[acc[t]] = None
    /\ accsem' = [accsem EXCEPT ![acc[t]] = t]
    /\ Goto(t, "add_in")
    /\ UNCHANGED <<acc, req, type, msg, fstate, tableVars, ndw, ndr, ndq,
                   reqVars, users, curseq, net>>

ForeqAddFail(t) ==
    /\ pc[t] = "add" /\ accsem[acc[t]] # None
    /\ Goto(t, "serialize")
    /\ UNCHANGED <<acc, req, type, msg, fstate, tableVars, lockVars, reqVars,
                   users, curseq, net>>

ForeqAddNoBound(t) ==           \* mutant: kfifo_in without the room check
    /\ pc[t] = "add_in"
    /\ queue' = [queue EXCEPT ![acc[t]] = Append(@, req[t])]
    /\ accsem' = [accsem EXCEPT ![acc[t]] = None]
    /\ Goto(t, "serialize")
    /\ UNCHANGED <<acc, req, type, msg, fstate, htable, older, ndw, ndr, ndq,
                   reqVars, users, curseq, net>>

ForeqAdd(t) ==
    /\ pc[t] = "add_in"
    /\ queue' = IF Len(queue[acc[t]]) < QueueLen
                THEN [queue EXCEPT ![acc[t]] = Append(@, req[t])]
                ELSE queue
    /\ accsem' = [accsem EXCEPT ![acc[t]] = None]
    /\ Goto(t, "serialize")
    /\ UNCHANGED <<acc, req, type, msg, fstate, htable, older, ndw, ndr, ndq,
                   reqVars, users, curseq, net>>

\* fo_serialize, then atomic_inc of ndmgm_incseq
IncSeq(t) ==
    /\ pc[t] = "serialize"
    /\ curseq' = IF curseq = SeqMod - 1 THEN 0 ELSE curseq + 1
    /\ Goto(t, "read")
    /\ UNCHANGED <<acc, req, type, msg, fstate, tableVars, lockVars, reqVars,
                   users, net>>

\* atomic_read of ndmgm_incseq; 0 is taken for a failure
ReadSeq(t) ==
    /\ pc[t] = "read"
    /\ rseq' = [rseq EXCEPT ![req[t]] = curseq]
    /\ Goto(t, IF curseq = 0 THEN "out" ELSE "nlsend")
    /\ UNCHANGED <<acc, req, type, msg, fstate, tableVars, lockVars, live,
                   rvalue, answer, users, curseq, net>>

NlSend(t) ==
    /\ pc[t] = "nlsend"
    /\ net' = net \cup {[id |-> Opener[acc[t]], seq |-> rseq[req[t]],
                         type |-> type[t], from |-> t]}
    /\ Goto(t, "wait")
    /\ UNCHANGED <<acc, req, type, msg, fstate, tableVars, lockVars, reqVars,
                   users, curseq>>

\* fo_serialize or netlink_send fails: the request stays in the queue
FoSendFail(t) ==
    /\ pc[t] \in {"serialize", "nlsend"} /\ Faults
    /\ Goto(t, "out")
    /\ UNCHANGED <<acc, req, type, msg, fstate, tableVars, lockVars, reqVars,
                   users, curseq, net>>

FoSendNoWait(t) ==              \* mutant: the completion is not waited for
    /\ pc[t] = "wait"
    /\ Goto(t, "out")
    /\ UNCHANGED <<acc, req, type, msg, fstate, tableVars, lockVars, reqVars,
                   users, curseq, net>>

FoSendWake(t) ==
    /\ pc[t] = "wait" /\ answer[req[t]] # None
    /\ Goto(t, "out")
    /\ UNCHANGED <<acc, req, type, msg, fstate, tableVars, lockVars, reqVars,
                   users, curseq, net>>

\* An open that did not succeed leaves its fo_access in the hash table: the
\* VFS never calls release for such a file.
Opened(t) == req[t] # None /\ answer[req[t]] # None /\ rvalue[req[t]] = 0

FoSendOut(t) ==
    /\ pc[t] = "out"
    /\ users' = users - 1
    /\ live' = live \ {req[t]}
    /\ req' = [req EXCEPT ![t] = None]
    /\ Goto(t, IF type[t] = "RELEASE" THEN "destroy" ELSE "idle")
    /\ acc' = IF type[t] = "RELEASE" THEN acc ELSE [acc EXCEPT ![t] = None]
    /\ fstate' = IF type[t] = "OPEN"
                 THEN [fstate EXCEPT ![acc[t]] = IF Opened(t) THEN "open" ELSE "leaked"]
                 ELSE fstate
    /\ UNCHANGED <<type, msg, tableVars, lockVars, rseq, rvalue, answer,
                   curseq, net>>

-----------------------------------------------------------------------------
(* fo_recv and fo_complete *)

\* netlink_recv starts a kthread for a reply; ndmgm_find and ndmgm_get.
Deliver(w, m) ==
    /\ pc[w] = "idle" /\ m \in net
    /\ net' = net \ {m}
    /\ msg' = [msg EXCEPT ![w] = m]
    /\ users' = users + 1
    /\ Goto(w, "find")
    /\ UNCHANGED <<acc, req, type, fstate, tableVars, lockVars, reqVars, curseq>>

AccId(a) == IF a \in File THEN Opener[a] ELSE msg[a].id

FindAccAnyId(id) == htable      \* mutant: access_id is not compared

\* ndmgm_find_acc: hash_add puts new objects first, so the newest is found.
FindAcc(id) ==
    {a \in htable : /\ AccId(a) = id
                    /\ \A b \in htable : AccId(b) = id => a \notin older[b]}

FindAccLock(w) ==
    /\ pc[w] = "find" /\ CanRead
    /\ ndr' = ndr \cup {w}
    /\ Goto(w, "scan")
    /\ UNCHANGED <<acc, req, type, msg, fstate, tableVars, accsem, ndw, ndq,
                   reqVars, users, curseq, net>>

FindAccHit(w) ==
    /\ pc[w] = "scan"
    /\ \E a \in FindAcc(msg[w].id) : acc' = [acc EXCEPT ![w] = a]
    /\ ndr' = ndr \ {w}
    /\ Goto(w, "q_lock")
    /\ UNCHANGED <<req, type, msg, fstate, tableVars, accsem, ndw, ndq,
                   reqVars, users, curseq, net>>

\* ndmgm_find_acc returned NULL: the trylock failed or there is no such
\* fo_access.  A reply that is no OPEN ends the thread without ndmgm_put.
FindAccMiss(w) ==
    /\ \/ pc[w] = "find" /\ ~CanRead
       \/ pc[w] = "scan" /\ FindAcc(msg[w].id) = {}
    /\ ndr' = ndr \ {w}
    /\ Goto(w, IF msg[w].type = "OPEN" THEN "acc_lock" ELSE "idle")
    /\ acc' = IF msg[w].type = "OPEN" THEN [acc EXCEPT ![w] = w] ELSE acc
    /\ msg' = IF msg[w].type = "OPEN" THEN msg ELSE [msg EXCEPT ![w] = None]
    /\ UNCHANGED <<req, type, fstate, tableVars, accsem, ndw, ndq, reqVars,
                   users, curseq, net>>

\* fo_complete found no request: if this is an OPEN the fo_access goes.
AfterMiss(w) == IF msg[w].type = "OPEN" THEN "destroy" ELSE "put"

ForeqFindLock(w) ==
    /\ pc[w] = "q_lock" /\ accsem[acc[w]] = None
    /\ accsem' = [accsem EXCEPT ![acc[w]] = w]
    /\ Goto(w, "pop")
    /\ UNCHANGED <<acc, req, type, msg, fstate, tableVars, ndw, ndr, ndq,
                   reqVars, users, curseq, net>>

ForeqFindFail(w) ==
    /\ pc[w] = "q_lock" /\ accsem[acc[w]] # None
    /\ Goto(w, AfterMiss(w))
    /\ UNCHANGED <<acc, req, type, msg, fstate, tableVars, lockVars, reqVars,
                   users, curseq, net>>

HeadMatchesLate(w) ==           \* mutant: the number is taken before it is drawn
    LET q == queue[acc[w]] IN q # << >> /\ rseq[Head(q)] = msg[w].seq - 1

\* fo_acc_foreq_find: the loop stops after the first element whether it
\* matches or not, because that element is also the stopper.
HeadMatches(w) ==
    LET q == queue[acc[w]] IN q # << >> /\ rseq[Head(q)] = msg[w].seq

ForeqFindPeek(w) ==             \* mutant: the match is read but not taken out
    /\ pc[w] = "pop" /\ HeadMatches(w)
    /\ accsem' = [accsem EXCEPT ![acc[w]] = None]
    /\ req' = [req EXCEPT ![w] = Head(queue[acc[w]])]
    /\ Goto(w, "complete")
    /\ UNCHANGED <<acc, type, msg, fstate, tableVars, ndw, ndr, ndq, reqVars,
                   users, curseq, net>>

ForeqFind(w) ==
    /\ pc[w] = "pop" /\ HeadMatches(w)
    /\ accsem' = [accsem EXCEPT ![acc[w]] = None]
    /\ req' = [req EXCEPT ![w] = Head(queue[acc[w]])]
    /\ queue' = [queue EXCEPT ![acc[w]] = Tail(@)]
    /\ Goto(w, "complete")
    /\ UNCHANGED <<acc, type, msg, fstate, htable, older, ndw, ndr, ndq,
                   reqVars, users, curseq, net>>

Rotate(q) == IF q = << >> THEN q ELSE Append(Tail(q), Head(q))

ForeqFindMiss(w) ==
    /\ pc[w] = "pop" /\ ~HeadMatches(w)
    /\ accsem' = [accsem EXCEPT ![acc[w]] = None]
    /\ queue' = [queue EXCEPT ![acc[w]] = Rotate(@)]
    /\ Goto(w, AfterMiss(w))
    /\ UNCHANGED <<acc, req, type, msg, fstate, htable, older, ndw, ndr, ndq,
                   reqVars, users, curseq, net>>

CompleteNoSignal(w) ==          \* mutant: complete() is not called
    /\ pc[w] = "complete"
    /\ \E v \in {0, -1} : rvalue' = [rvalue EXCEPT ![req[w]] = v]
    /\ Goto(w, "put")
    /\ UNCHANGED <<acc, req, type, msg, fstate, tableVars, lockVars, live,
                   rseq, answer, users, curseq, net>>

\* fo_deserialize_toreq and complete(): v is the verdict of the server
Complete(w) ==
    /\ pc[w] = "complete"
    /\ \E v \in {0, -1} : rvalue' = [rvalue EXCEPT ![req[w]] = v]
    /\ answer' = [answer EXCEPT ![req[w]] = msg[w].from]
    /\ Goto(w, "put")
    /\ UNCHANGED <<acc, req, type, msg, fstate, tableVars, lockVars, live,
                   rseq, users, curseq, net>>

FoRecvPut(w) ==
    /\ pc[w] = "put"
    /\ users' = users - 1
    /\ acc' = [acc EXCEPT ![w] = None]
    /\ req' = [req EXCEPT ![w] = None]
    /\ msg' = [msg EXCEPT ![w] = None]
    /\ Goto(w, "idle")
    /\ UNCHANGED <<type, fstate, tableVars, lockVars, reqVars, curseq, net>>

-----------------------------------------------------------------------------
AccStep(p) ==
    AccStartLock(p) \/ AccStartFail(p) \/ AccStartAdd(p)
    \/ DestroyBlock(p) \/ DestroyLock(p) \/ Unhash(p)

FoSendStep(t) ==
    FoSendAlloc(t) \/ FoSendAllocFail(t) \/ ForeqAddLock(t) \/ ForeqAddFail(t)
    \/ ForeqAdd(t) \/ IncSeq(t) \/ ReadSeq(t) \/ NlSend(t) \/ FoSendFail(t)
    \/ FoSendWake(t) \/ FoSendOut(t)

FoRecvStep(w) ==
    FindAccLock(w) \/ FindAccHit(w) \/ FindAccMiss(w) \/ ForeqFindLock(w)
    \/ ForeqFindFail(w) \/ ForeqFind(w) \/ ForeqFindMiss(w) \/ Complete(w) \/ FoRecvPut(w)

SysCall ==
    \E f \in File : \/ SendOpen(f)
                    \/ \E t \in Task : SendIo(t, f) \/ SendRelease(t, f)

Next ==
    \/ SysCall
    \/ \E p \in Proc : AccStep(p)
    \/ \E t \in Task : FoSendStep(t)
    \/ \E w \in Worker : FoRecvStep(w) \/ \E m \in net : Deliver(w, m)

Spec == Init /\ [][Next]_vars

\* The scheduler runs every kernel thread that can run, and the daemons and
\* the server answer every request.  Nobody has to make a system call.
Fairness ==
    /\ \A p \in Proc : WF_vars(AccStep(p))
    /\ \A t \in Task : WF_vars(FoSendStep(t))
    /\ \A w \in Worker : WF_vars(FoRecvStep(w) \/ \E m \in net : Deliver(w, m))

FairSpec == Spec /\ Fairness

-----------------------------------------------------------------------------
(* Properties *)

\* Tasks between ndmgm_get and ndmgm_put of fo_send.
InSend == {t \in Task : pc[t] \in {"add", "add_in", "serialize", "read",
                                   "nlsend", "wait", "out"}}

\* Threads between ndmgm_get and ndmgm_put of fo_recv.
InRecv == {w \in Worker : pc[w] # "idle"}

\* A task that wait_for_completion lets go on was completed by the reply to
\* its own request: fo_complete never hands one task another task's result.
OwnReply ==
    \A t \in Task : pc[t] = "wait" /\ answer[req[t]] # None => answer[req[t]] = t

\* A queue holds each request once, and only while a task waits, or will wait,
\* for it on that file; what fo_complete is about to complete is such a request
\* too, which no queue holds any more.  So no request is completed twice, or
\* after fo_send has freed it, even when replies are taken for each other.
OwnedRequests ==
    LET Owned(t, r) ==
            /\ req[t] = r /\ answer[r] = None
            /\ pc[t] \in {"serialize", "read", "nlsend", "wait"}
    IN  /\ \A f \in File : \A i \in 1 .. Len(queue[f]) :
              /\ \E t \in Task : acc[t] = f /\ Owned(t, queue[f][i])
              /\ \A j \in 1 .. Len(queue[f]) : queue[f][i] = queue[f][j] => i = j
        /\ \A w \in Worker : pc[w] = "complete" =>
              /\ \E t \in Task : Owned(t, req[w])
              /\ \A f \in File : \A i \in 1 .. Len(queue[f]) : queue[f][i] # req[w]
              /\ \A x \in Worker : pc[x] = "complete" /\ req[x] = req[w] => x = w

\* The fo_access a thread has looked up, or a task operates on, has not been
\* freed under it by a fo_acc_destroy of somebody else.
NoUseAfterFree ==
    \A p \in Proc :
        pc[p] \in {"alloc", "add", "add_in", "serialize", "read", "nlsend",
                   "wait", "q_lock", "pop", "destroy", "unhash"}
        => acc[p] \in htable

\* ndmgm_refs never under-counts: every fo_access in the table and every
\* thread inside fo_send or fo_recv holds a reference of its own, besides
\* the one of the device table.  (netdev_data is freed by this count.)
UsersCover ==
    users >= 1 + Cardinality(htable) + Cardinality(InSend) + Cardinality(InRecv)

\* fo_acc_foreq_find finds the request with the sequence number it is asked
\* for whenever that request is in the queue it searches.
FindsRequest ==
    [][\A w \in Worker :
        /\ pc[w] = "pop" /\ pc'[w] # "pop"
        /\ \E i \in 1 .. Len(queue[acc[w]]) : rseq[queue[acc[w]][i]] = msg[w].seq
        => pc'[w] = "complete"]_vars

\* Every system call on the device returns.
CallsReturn == \A t \in Task : pc[t] # "idle" ~> pc[t] = "idle"
=============================================================================
