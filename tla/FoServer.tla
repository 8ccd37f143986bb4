------------------------------ MODULE FoServer ------------------------------
(***************************************************************************)
(* The serving side of one device: the kthreads that run fo_recv and       *)
(* fo_execute, one per request, the fo_access objects of the remote tasks  *)
(* that have the device open, and the files opened for them.               *)
(*                                                                         *)
(* The remote task is external: it opens the device, operates it and       *)
(* releases it, one request at a time, and goes on when the result is sent.*)
(* A request names its pid only; session numbers (the n-th open of the     *)
(* device) are auxiliary, they name the fo_access objects and files.       *)
(***************************************************************************)
EXTENDS Integers, FiniteSets

CONSTANTS
    Pid,        \* remote tasks; the pid is the access id
    Thread,     \* kthreads that may run at the same time
    MaxOpen,    \* bound: how often the device is opened
    UserLimit,  \* bound on nddata->users: an abandoned request leaks one
    Faults,     \* whether allocations fail
    None

ASSUME SetAssumption == IsFiniteSet(Pid) /\ IsFiniteSet(Thread)
ASSUME MaxAssumption == MaxOpen \in Nat \ {0} /\ UserLimit \in Nat
ASSUME FaultsAssumption == Faults \in BOOLEAN

\* The n-th open, by its task; the fo_access made and the file opened for it.
Session == Pid \X (1 .. MaxOpen)

Type == {"OPEN", "IO", "RELEASE"}
Msg == [pid : Pid, n : 1 .. MaxOpen, type : Type]

ThreadPc == {"idle", "find", "scan", "acc_lock", "acc_add", "exec", "reply",
             "destroy", "unhash", "put"}

VARIABLES
    pc,         \* where each thread is
    msg,        \* the request it was started for
    acc,        \* the fo_access it works on
    res,        \* req->rvalue, "fail" until the operation has succeeded
    htable,     \* foacc_htable
    filp,       \* acc->filp: a file, "null" or "err"
    opened,     \* files of the served device that are open
    ndw,        \* writer holding nddata->sem
    ndr,        \* readers holding it
    ndq,        \* threads blocked in down_write
    users,      \* nddata->users
    net,        \* requests on their way to a thread
    cl,         \* what each remote task is doing
    n,          \* its last session
    overtaken,  \* auxiliary: tasks whose OPEN found the fo_access that the
                \* thread of their last RELEASE was about to destroy
    kept        \* auxiliary: files that an error path left open

threadVars == <<pc, msg, acc, res>>
tableVars == <<htable, filp, opened>>
lockVars == <<ndw, ndr, ndq>>
clientVars == <<net, cl, n, overtaken, kept>>
vars == <<threadVars, tableVars, lockVars, users, clientVars>>

TypeOK ==
    /\ pc \in [Thread -> ThreadPc]
    /\ msg \in [Thread -> Msg \cup {None}]
    /\ acc \in [Thread -> Session \cup {None}]
    /\ res \in [Thread -> {"ok", "fail"}]
    /\ htable \in SUBSET Session
    /\ filp \in [Session -> [st : {"null", "err"}] \cup [st : {"file"}, of : Session]]
    /\ opened \in SUBSET Session
    /\ ndw \in Thread \cup {None}
    /\ ndr \in SUBSET Thread /\ ndq \in SUBSET Thread
    /\ users \in IF overtaken = {} THEN Nat ELSE Int
    /\ net \in SUBSET Msg
    /\ cl \in [Pid -> {"closed", "opening", "open", "io", "closing"}]
    /\ n \in [Pid -> 0 .. MaxOpen]
    /\ overtaken \in SUBSET Pid
    /\ kept \in SUBSET Session

Null == [st |-> "null"]
Err == [st |-> "err"]
FileOf(s) == [st |-> "file", of |-> s]

\* ndmgm_create_server
Init ==
    /\ pc = [w \in Thread |-> "idle"]
    /\ msg = [w \in Thread |-> None]
    /\ acc = [w \in Thread |-> None]
    /\ res = [w \in Thread |-> "fail"]
    /\ htable = {}
    /\ filp = [s \in Session |-> Null]
    /\ opened = {}
    /\ ndw = None /\ ndr = {} /\ ndq = {}
    /\ users = 1
    /\ net = {}
    /\ cl = [p \in Pid |-> "closed"]
    /\ n = [p \in Pid |-> 0]
    /\ overtaken = {} /\ kept = {}

CanWrite == ndw = None /\ ndr = {} /\ ndq = {}
CanRead == ndw = None /\ ndq = {}

Goto(w, l) == pc' = [pc EXCEPT ![w] = l]

-----------------------------------------------------------------------------
(* The remote task, as fo_send on its machine lets it go on. *)

Request(p, ty, k) ==
    /\ net' = net \cup {[pid |-> p, n |-> k, type |-> ty]}
    /\ UNCHANGED <<threadVars, tableVars, lockVars, users, overtaken, kept>>

\* The first number no session has had.
NextOpen(k) == (\A q \in Pid : n[q] < k) /\ (k = 1 \/ \E q \in Pid : n[q] = k - 1)

ClientOpen(p) ==
    /\ cl[p] = "closed"
    /\ \E k \in 1 .. MaxOpen :
        /\ NextOpen(k)
        /\ n' = [n EXCEPT ![p] = k]
        /\ Request(p, "OPEN", k)
    /\ cl' = [cl EXCEPT ![p] = "opening"]

ClientIo(p) ==
    /\ cl[p] = "open"
    /\ cl' = [cl EXCEPT ![p] = "io"]
    /\ Request(p, "IO", n[p]) /\ UNCHANGED n

ClientRelease(p) ==
    /\ cl[p] = "open"
    /\ cl' = [cl EXCEPT ![p] = "closing"]
    /\ Request(p, "RELEASE", n[p]) /\ UNCHANGED n

\* What the result makes of the task: release never fails for it.
Answered(s, r) ==
    CASE s = "opening" -> IF r = "ok" THEN "open" ELSE "closed"
      [] s = "io" -> "open"
      [] s = "closing" -> "closed"

-----------------------------------------------------------------------------
(* fo_recv *)

Deliver(w, m) ==
    /\ pc[w] = "idle" /\ m \in net /\ users < UserLimit
    /\ net' = net \ {m}
    /\ msg' = [msg EXCEPT ![w] = m]
    /\ users' = users + 1
    /\ Goto(w, "find")
    /\ UNCHANGED <<acc, res, tableVars, lockVars, cl, n, overtaken, kept>>

FindAccAnyPid(p) == {s \in htable : \A t \in htable : t[2] <= s[2]}   \* mutant

\* ndmgm_find_acc: of two fo_access objects of a pid the newer one is found.
FindAcc(p) == {s \in htable : s[1] = p /\ \A t \in htable : t[1] = p => t[2] <= s[2]}

FindAccLock(w) ==
    /\ pc[w] = "find" /\ CanRead
    /\ ndr' = ndr \cup {w}
    /\ Goto(w, "scan")
    /\ UNCHANGED <<msg, acc, res, tableVars, ndw, ndq, users, clientVars>>

FindAccHit(w) ==
    /\ pc[w] = "scan"
    /\ \E s \in FindAcc(msg[w].pid) :
        /\ acc' = [acc EXCEPT ![w] = s]
        /\ overtaken' = overtaken \cup {msg[v].pid : v \in {v \in Thread :
                            acc[v] = s /\ pc[v] \in {"destroy", "unhash"}}}
    /\ ndr' = ndr \ {w}
    /\ Goto(w, "exec")
    /\ UNCHANGED <<msg, res, tableVars, ndw, ndq, users, net, cl, n, kept>>

\* The thread ends in do_exit: no result is sent and no reference given back.
Abandon(w) ==
    /\ Goto(w, "idle")
    /\ msg' = [msg EXCEPT ![w] = None]
    /\ acc' = [acc EXCEPT ![w] = None]

FindAccMiss(w) ==
    /\ \/ pc[w] = "find" /\ ~CanRead
       \/ pc[w] = "scan" /\ FindAcc(msg[w].pid) = {}
    /\ ndr' = ndr \ {w}
    /\ IF msg[w].type = "OPEN"
       THEN /\ Goto(w, "acc_lock") /\ UNCHANGED msg
            /\ acc' = [acc EXCEPT ![w] = <<msg[w].pid, msg[w].n>>]
       ELSE Abandon(w)
    /\ UNCHANGED <<res, tableVars, ndw, ndq, users, clientVars>>

AccStartLock(w) ==
    /\ pc[w] = "acc_lock" /\ CanWrite
    /\ ndw' = w
    /\ Goto(w, "acc_add")
    /\ UNCHANGED <<msg, acc, res, tableVars, ndr, ndq, users, clientVars>>

AccStartFail(w) ==
    /\ pc[w] = "acc_lock" /\ (Faults \/ ~CanWrite)
    /\ Abandon(w)
    /\ UNCHANGED <<res, tableVars, lockVars, users, clientVars>>

AccStartAdd(w) ==
    /\ pc[w] = "acc_add"
    /\ htable' = htable \cup {acc[w]}
    /\ users' = users + 1
    /\ ndw' = None
    /\ Goto(w, "exec")
    /\ UNCHANGED <<msg, acc, res, filp, opened, ndr, ndq, clientVars>>

-----------------------------------------------------------------------------
(* fo_execute *)

File(w) == filp[acc[w]]

ExecOpenShared(w) ==        \* mutant: the file is not kept in the fo_access
    /\ pc[w] = "exec" /\ msg[w].type = "OPEN"
    /\ res' = [res EXCEPT ![w] = "ok"]
    /\ opened' = opened \cup {<<msg[w].pid, msg[w].n>>}
    /\ Goto(w, "reply")
    /\ UNCHANGED <<msg, acc, htable, filp, lockVars, users, clientVars>>

\* ndfo_recv_open: filp_open succeeds or fails.
ExecOpen(w) ==
    LET s == <<msg[w].pid, msg[w].n>> IN
    /\ pc[w] = "exec" /\ msg[w].type = "OPEN"
    /\ \/ /\ filp' = [filp EXCEPT ![acc[w]] = FileOf(s)]
          /\ opened' = opened \cup {s}
          /\ res' = [res EXCEPT ![w] = "ok"]
       \/ /\ filp' = [filp EXCEPT ![acc[w]] = Err]
          /\ UNCHANGED <<opened, res>>
    /\ Goto(w, "reply")
    /\ UNCHANGED <<msg, acc, htable, lockVars, users, clientVars>>

\* The file has no operations, or the result cannot be serialised: the file
\* stays open though the open is reported to have failed.
ExecOpenKept(w) ==
    LET s == <<msg[w].pid, msg[w].n>> IN
    /\ pc[w] = "exec" /\ msg[w].type = "OPEN" /\ Faults
    /\ filp' = [filp EXCEPT ![acc[w]] = FileOf(s)]
    /\ opened' = opened \cup {s}
    /\ kept' = kept \cup {s}
    /\ Goto(w, "reply")
    /\ UNCHANGED <<msg, acc, res, htable, lockVars, users, net, cl, n, overtaken>>

\* ndfo_recv_llseek, _read, _write, _compat_ioctl, _flush; the others report
\* a failure, ndfo_recv_unlocked_ioctl after the operation was executed.
ExecIo(w) ==
    /\ pc[w] = "exec" /\ msg[w].type = "IO" /\ File(w).st = "file"
    /\ \E r \in {"ok", "fail"} : res' = [res EXCEPT ![w] = r]
    /\ Goto(w, "reply")
    /\ UNCHANGED <<msg, acc, tableVars, lockVars, users, clientVars>>

ExecReleaseOpen(w) ==       \* mutant: filp_close is not called
    /\ pc[w] = "exec" /\ msg[w].type = "RELEASE" /\ File(w).st = "file"
    /\ res' = [res EXCEPT ![w] = "ok"]
    /\ Goto(w, "reply")
    /\ UNCHANGED <<msg, acc, tableVars, lockVars, users, clientVars>>

\* ndfo_recv_release
ExecRelease(w) ==
    /\ pc[w] = "exec" /\ msg[w].type = "RELEASE" /\ File(w).st = "file"
    /\ opened' = opened \ {File(w).of}
    /\ res' = [res EXCEPT ![w] = "ok"]
    /\ Goto(w, "reply")
    /\ UNCHANGED <<msg, acc, htable, filp, lockVars, users, clientVars>>

\* The result reaches the task, whose next request may come at once.
Reply(w) ==
    LET p == msg[w].pid IN cl' = [cl EXCEPT ![p] = Answered(@, res[w])]

\* fo_deserialize fails: the request is sent back as it is, and then req,
\* which is NULL, is used: the thread is killed.
ExecNoReq(w) ==
    /\ pc[w] = "exec" /\ Faults
    /\ Reply(w)
    /\ Abandon(w)
    /\ kept' = IF msg[w].type = "RELEASE" /\ File(w).st = "file"
               THEN kept \cup {File(w).of} ELSE kept
    /\ UNCHANGED <<res, tableVars, lockVars, users, net, n, overtaken>>

\* The fo_access was freed by the thread of the task's last RELEASE: using it
\* kills the thread, or finds the old contents, as in the other actions.
UseFreed(w) ==
    /\ pc[w] \in {"exec", "reply", "destroy", "unhash"} /\ acc[w] \notin htable
    /\ Abandon(w)
    /\ ndw' = IF ndw = w THEN None ELSE ndw
    /\ ndq' = ndq \ {w}
    /\ res' = [res EXCEPT ![w] = "fail"]
    /\ UNCHANGED <<tableVars, ndr, users, clientVars>>

\* netlink_send_skb, which may have nothing to send: fo_execute does not notice
\* that netlink_pack_skb has failed.  Only then is the fo_access of a RELEASE
\* destroyed.  A failed OPEN returns -ENODATA, so that fo_recv does not destroy
\* its own.
SendReply(w) ==
    /\ pc[w] = "reply"
    /\ Reply(w) \/ (Faults /\ UNCHANGED cl)
    /\ res' = [res EXCEPT ![w] = "fail"]
    /\ Goto(w, IF msg[w].type = "RELEASE" THEN "destroy" ELSE "put")
    /\ UNCHANGED <<msg, acc, tableVars, lockVars, users, net, n, overtaken, kept>>

DestroyBlock(w) ==
    /\ pc[w] = "destroy" /\ w \notin ndq /\ ~CanWrite
    /\ ndq' = ndq \cup {w}
    /\ UNCHANGED <<threadVars, tableVars, ndw, ndr, users, clientVars>>

DestroyLock(w) ==
    /\ pc[w] = "destroy" /\ ndw = None /\ ndr = {}
    /\ w \in ndq \/ ndq = {}
    /\ ndw' = w /\ ndq' = ndq \ {w}
    /\ Goto(w, "unhash")
    /\ UNCHANGED <<msg, acc, res, tableVars, ndr, users, clientVars>>

UnhashKeepLock(w) ==        \* mutant: up_write is forgotten
    /\ pc[w] = "unhash"
    /\ htable' = htable \ {acc[w]}
    /\ users' = users - 1
    /\ Goto(w, "put")
    /\ UNCHANGED <<msg, acc, res, filp, opened, ndw, ndr, ndq, clientVars>>

Unhash(w) ==
    /\ pc[w] = "unhash"
    /\ htable' = htable \ {acc[w]}
    /\ users' = users - 1
    /\ ndw' = None
    /\ Goto(w, "put")
    /\ UNCHANGED <<msg, acc, res, filp, opened, ndr, ndq, clientVars>>

FoRecvPutTwice(w) ==        \* mutant: the reference is given back twice
    /\ pc[w] = "put"
    /\ users' = users - 2
    /\ Abandon(w)
    /\ UNCHANGED <<res, tableVars, lockVars, clientVars>>

FoRecvPut(w) ==
    /\ pc[w] = "put"
    /\ users' = users - 1
    /\ Abandon(w)
    /\ UNCHANGED <<res, tableVars, lockVars, clientVars>>

-----------------------------------------------------------------------------
Client(p) == ClientOpen(p) \/ ClientIo(p) \/ ClientRelease(p)

FoRecvStep(w) ==
    FindAccLock(w) \/ FindAccHit(w) \/ FindAccMiss(w) \/ AccStartLock(w)
    \/ AccStartFail(w) \/ AccStartAdd(w) \/ ExecOpen(w) \/ ExecOpenKept(w) \/ ExecIo(w)
    \/ ExecRelease(w) \/ ExecNoReq(w) \/ UseFreed(w) \/ SendReply(w)
    \/ DestroyBlock(w) \/ DestroyLock(w) \/ Unhash(w) \/ FoRecvPut(w)

Next ==
    \/ \E p \in Pid : Client(p)
    \/ \E w \in Thread : FoRecvStep(w) \/ \E m \in net : Deliver(w, m)

Spec == Init /\ [][Next]_vars

\* Threads that can run do run; a remote task need not make calls.
FairSpec == Spec /\ \A w \in Thread : WF_vars(FoRecvStep(w))

-----------------------------------------------------------------------------
(* Properties *)

\* The fo_access of a request is not freed while its thread uses it, whatever
\* other tasks open and release meanwhile; except for a task that opens the
\* device again before the thread of its RELEASE, whose result it has, has
\* destroyed the old one.
NoUseAfterFree ==
    \A w \in Thread :
        pc[w] \in {"exec", "reply", "destroy", "unhash"} /\ msg[w].pid \notin overtaken
        => acc[w] \in htable

\* An operation is executed on the file that its own session opened, though
\* requests name a pid only; with the same exception.
OwnFile ==
    \A w \in Thread :
        pc[w] = "exec" /\ msg[w].type # "OPEN" /\ msg[w].pid \notin overtaken
        => File(w) = FileOf(<<msg[w].pid, msg[w].n>>)

\* No file of the served device stays open after its session, except in the
\* error paths of OPEN and RELEASE and after a hasty open.
ClosedFiles ==
    \A s \in opened : \/ s \in kept \/ s[1] \in overtaken
                      \/ s[2] = n[s[1]] /\ cl[s[1]] # "closed"

\* nddata->users covers the device table, every fo_access and every thread,
\* unless fo_acc_destroy ran twice on one fo_access: it does when a task that
\* opened the device again in haste works on the old fo_access.
UsersCover ==
    overtaken = {} =>
    users >= 1 + Cardinality(htable) + Cardinality({w \in Thread : pc[w] # "idle"})

\* fo_acc_destroy, the one place that waits for nddata->sem, always gets it,
\* and the thread of a RELEASE ends.
DestroysEnd == \A w \in Thread : pc[w] = "destroy" ~> pc[w] = "idle"
=============================================================================
