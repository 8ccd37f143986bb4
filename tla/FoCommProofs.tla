---------------------------- MODULE FoCommProofs ----------------------------
(***************************************************************************)
(* Theorems about FoComm, for any number of tasks, files, workers and      *)
(* requests.                                                               *)
(***************************************************************************)
EXTENDS FoComm, FiniteSetTheorems, TLAPS

-----------------------------------------------------------------------------
(* Type correctness, for all values of the constants. *)

\* What each process has at hand where it is; the part TypeOK does not say.
HandInv ==
    /\ \A t \in Task : pc[t] # "idle" => acc[t] \in File
    /\ \A t \in Task : pc[t] \in {"add", "add_in", "serialize", "read",
                                  "nlsend", "wait"} => req[t] \in Req
    /\ \A w \in Worker : pc[w] # "idle" => msg[w] \in Msg
    /\ \A w \in Worker : pc[w] \in {"acc_lock", "acc_add", "q_lock", "pop",
                                    "destroy", "unhash"} => acc[w] \in Acc

TypeInv == TypeOK /\ HandInv

USE OpenerAssumption, SharersAssumption, QueueLenAssumption, SeqAssumption,
    FaultsAssumption, DisjointAssumption

\* A queue that is rotated keeps its elements and its length.
LEMMA RotateType ==
    ASSUME NEW S, NEW q \in Seq(S), q # << >>
    PROVE  /\ Append(Tail(q), Head(q)) \in Seq(S)
           /\ Len(Append(Tail(q), Head(q))) = Len(q)
           /\ Tail(q) \in Seq(S) /\ Len(Tail(q)) = Len(q) - 1
           /\ Head(q) \in S
  OBVIOUS

\* Rotating an empty queue or a queue of one changes nothing.
LEMMA RotateOne ==
    /\ Rotate(<< >>) = << >>
    /\ \A r \in Req : Rotate(<< r >>) = << r >>
  <1>1. Rotate(<< >>) = << >> BY DEF Rotate
  <1>2. ASSUME NEW r \in Req PROVE Rotate(<< r >>) = << r >>
    <2>1. << r >> # << >> /\ Head(<< r >>) = r /\ Tail(<< r >>) = << >> OBVIOUS
    <2>2. Append(<< >>, r) = << r >> OBVIOUS
    <2> QED BY <2>1, <2>2 DEF Rotate
  <1> QED BY <1>1, <1>2

\* The initial state is well typed.
LEMMA TypeInit == Init => TypeInv
  BY DEF Init, TypeInv, TypeOK, HandInv, Proc, Acc, Type, Seq32, TaskPc, WorkerPc

\* fo_acc_start and fo_acc_destroy keep types.
LEMMA TypeAcc ==
    ASSUME TypeInv, NEW p \in Proc, AccStep(p)
    PROVE  TypeInv'
  <1> USE DEF TypeInv, TypeOK, HandInv, Proc, Acc, TaskPc, WorkerPc, Goto,
              procVars, tableVars, lockVars, reqVars
  <1>1. CASE AccStartLock(p) BY <1>1 DEF AccStartLock
  <1>2. CASE AccStartFail(p) BY <1>2 DEF AccStartFail
  <1>3. CASE AccStartAdd(p) BY <1>3 DEF AccStartAdd
  <1>4. CASE DestroyBlock(p) BY <1>4 DEF DestroyBlock
  <1>5. CASE DestroyLock(p) BY <1>5 DEF DestroyLock
  <1>6. CASE Unhash(p) BY <1>6 DEF Unhash
  <1> QED BY <1>1, <1>2, <1>3, <1>4, <1>5, <1>6 DEF AccStep

\* The steps of fo_send keep types.
LEMMA TypeSend ==
    ASSUME TypeInv, NEW t \in Task, FoSendStep(t)
    PROVE  TypeInv'
  <1> USE DEF TypeInv, TypeOK, HandInv, Proc, Acc, TaskPc, WorkerPc, Goto,
              procVars, tableVars, lockVars, reqVars, Seq32
  <1>1. CASE FoSendAlloc(t) BY <1>1 DEF FoSendAlloc
  <1>2. CASE FoSendAllocFail(t) BY <1>2 DEF FoSendAllocFail
  <1>3. CASE ForeqAddLock(t) BY <1>3 DEF ForeqAddLock
  <1>4. CASE ForeqAddFail(t) BY <1>4 DEF ForeqAddFail
  <1>5. CASE ForeqAdd(t) BY <1>5 DEF ForeqAdd
  <1>6. CASE IncSeq(t) BY <1>6 DEF IncSeq
  <1>7. CASE ReadSeq(t) BY <1>7 DEF ReadSeq
  <1>8. CASE NlSend(t) BY <1>8 DEF NlSend, Msg, Type
  <1>9. CASE FoSendFail(t) BY <1>9 DEF FoSendFail
  <1>10. CASE FoSendWake(t) BY <1>10 DEF FoSendWake
  <1>11. CASE FoSendOut(t) BY <1>11 DEF FoSendOut
  <1> QED BY <1>1, <1>2, <1>3, <1>4, <1>5, <1>6, <1>7, <1>8, <1>9, <1>10, <1>11
          DEF FoSendStep

\* The steps of fo_recv and of its start keep types.
LEMMA TypeRecv ==
    ASSUME TypeInv, NEW w \in Worker, FoRecvStep(w) \/ \E m \in net : Deliver(w, m)
    PROVE  TypeInv'
  <1> USE DEF TypeInv, TypeOK, HandInv, Proc, Acc, TaskPc, WorkerPc, Goto,
              procVars, tableVars, lockVars, reqVars
  <1>1. CASE \E m \in net : Deliver(w, m) BY <1>1 DEF Deliver
  <1>2. CASE FindAccLock(w) BY <1>2 DEF FindAccLock
  <1>3. CASE FindAccHit(w) BY <1>3 DEF FindAccHit, FindAcc
  <1>4. CASE FindAccMiss(w) BY <1>4 DEF FindAccMiss
  <1>5. CASE ForeqFindLock(w) BY <1>5 DEF ForeqFindLock
  <1>6. CASE ForeqFindFail(w) BY <1>6 DEF ForeqFindFail, AfterMiss
  <1>7. CASE ForeqFind(w) \/ ForeqFindMiss(w)
    <2> DEFINE q == queue[acc[w]]
    <2>0. q \in Seq(Req) /\ Len(q) <= QueueLen
      BY <1>7 DEF ForeqFind, ForeqFindMiss
    <2>1. CASE ForeqFind(w)
      <3>1. Tail(q) \in Seq(Req) /\ Len(Tail(q)) <= QueueLen /\ Head(q) \in Req
        BY <2>0, <2>1, RotateType DEF ForeqFind, HeadMatches
      <3> QED BY <2>1, <3>1 DEF ForeqFind
    <2>2. CASE ForeqFindMiss(w)
      <3>1. Rotate(q) \in Seq(Req) /\ Len(Rotate(q)) <= QueueLen
        BY <2>0, RotateType DEF Rotate
      <3> QED BY <2>2, <3>1 DEF ForeqFindMiss, AfterMiss
    <2> QED BY <1>7, <2>1, <2>2
  <1>8. CASE Complete(w)
    <2>1. msg[w].from \in Task BY <1>8 DEF Complete, Msg
    <2>2. PICK v \in {0, -1} : rvalue' = [rvalue EXCEPT ![req[w]] = v]
      BY <1>8 DEF Complete
    <2> QED BY <1>8, <2>1, <2>2 DEF Complete
  <1>9. CASE FoRecvPut(w) BY <1>9 DEF FoRecvPut
  <1> QED BY <1>1, <1>2, <1>3, <1>4, <1>5, <1>6, <1>7, <1>8, <1>9 DEF FoRecvStep

\* Every system call is a Call with arguments of the right types.
LEMMA CallForm ==
    ASSUME SysCall
    PROVE  \E t \in Task, f \in File, ty \in Type,
              s \in {"open", "opening", "closing"}, l \in {"acc_lock", "alloc"} :
              /\ Call(t, f, ty, s, l)
              /\ t \in Sharers[f] \/ t = Opener[f]
  <1> PICK f \in File : \/ SendOpen(f)
                        \/ \E t \in Task : SendIo(t, f) \/ SendRelease(t, f)
      BY DEF SysCall
  <1>1. CASE SendOpen(f) BY <1>1 DEF SendOpen, Type
  <1>2. CASE \E t \in Task : SendIo(t, f) BY <1>2 DEF SendIo, Type
  <1>3. CASE \E t \in Task : SendRelease(t, f) BY <1>3 DEF SendRelease, Type
  <1> QED BY <1>1, <1>2, <1>3

\* A system call keeps types.
LEMMA TypeCall == ASSUME TypeInv, SysCall PROVE TypeInv'
  <1> PICK t \in Task, f \in File, ty \in Type,
           s \in {"open", "opening", "closing"}, l \in {"acc_lock", "alloc"} :
           Call(t, f, ty, s, l)
      BY CallForm
  <1> QED BY DEF Call, TypeInv, TypeOK, HandInv, Proc, Acc, TaskPc, WorkerPc,
                 Goto, tableVars, lockVars, reqVars

\* A stuttering step keeps types.
LEMMA TypeStutter == ASSUME TypeInv, UNCHANGED vars PROVE TypeInv'
  BY DEF TypeInv, TypeOK, HandInv, vars, procVars, tableVars, lockVars, reqVars

\* Every step keeps types.
LEMMA TypeStep == TypeInv /\ [Next]_vars => TypeInv'
  BY TypeAcc, TypeSend, TypeRecv, TypeCall, TypeStutter DEF Next

\* Whatever the tasks, workers and failures do, every variable of the device
\* keeps its type; in particular no fo_queue ever holds more requests than
\* it has room for, though fo_send does not look at what kfifo_in returned.
THEOREM TypeCorrect == Spec => []TypeOK
  <1>1. TypeInv => TypeOK BY DEF TypeInv
  <1> QED BY TypeInit, TypeStep, <1>1, PTL DEF Spec

-----------------------------------------------------------------------------
(***************************************************************************)
(* Matching of replies, when every task has one file of its own and nothing*)
(* fails.  The argument: a file's queue holds at most the one request its  *)
(* task waits for (QueueInv); at most one reply to a task is on its way    *)
(* (MsgInv); so the request a worker takes out of a queue is the one its   *)
(* reply answers (MatchInv).                                               *)
(***************************************************************************)

\* No file is shared and no task has two of them.
PrivateFiles ==
    /\ \A f, g \in File : Opener[f] = Opener[g] => f = g
    /\ \A f \in File : Sharers[f] = {Opener[f]}

\* No allocation or send fails and curseq does not wrap.
Reliable == ~Faults /\ SeqLimit < SeqMod

HasReq == {"add", "add_in", "serialize", "read", "nlsend", "wait", "out"}
Queued == {"serialize", "read", "nlsend", "wait"}
Carrying == {"find", "scan", "acc_lock", "acc_add", "q_lock", "pop", "complete",
             "destroy", "unhash"}

\* A task works on its own file.
OwnerInv == \A t \in Task : pc[t] # "idle" => acc[t] \in File /\ Opener[acc[t]] = t

\* Every task in fo_send has a request of its own, unanswered until it waits.
ReqInv ==
    /\ \A t \in Task : pc[t] \in HasReq => req[t] \in live
    /\ \A t, u \in Task : pc[t] \in HasReq /\ pc[u] \in HasReq /\ req[t] = req[u] => t = u
    /\ \A t \in Task : pc[t] \in HasReq \ {"wait", "out"} => answer[req[t]] = None

\* A file's queue is empty or holds the unanswered request of its task.
QueueInv ==
    /\ \A w \in Worker : queue[w] = << >>
    /\ \A f \in File : queue[f] # << >> =>
            /\ acc[Opener[f]] = f /\ pc[Opener[f]] \in Queued
            /\ queue[f] = << req[Opener[f]] >>
            /\ answer[req[Opener[f]]] = None

\* The sender of a reply that is on its way waits for it.
Awaited(m) == m.id = m.from /\ pc[m.from] = "wait" /\ answer[req[m.from]] = None

\* Every reply is awaited, and there is one at most for each task.
MsgInv ==
    /\ \A m \in net : Awaited(m)
    /\ \A w \in Worker : pc[w] \in Carrying => Awaited(msg[w])
    /\ \A m, n \in net : m.from = n.from => m = n
    /\ \A m \in net, w \in Worker : pc[w] \in Carrying => msg[w].from # m.from
    /\ \A w, x \in Worker : /\ pc[w] \in Carrying /\ pc[x] \in Carrying
                            /\ msg[w].from = msg[x].from
                            => w = x

\* A worker searches the right queue and completes the right request.
MatchInv ==
    /\ \A w \in Worker : pc[w] \in {"acc_lock", "acc_add"} => acc[w] = w
    /\ \A w \in Worker : pc[w] \in {"q_lock", "pop"} /\ acc[w] \in File
                          => Opener[acc[w]] = msg[w].id
    /\ \A w \in Worker : pc[w] = "complete" =>
            req[w] = req[msg[w].from] /\ queue[acc[msg[w].from]] = << >>

\* The budget keeps curseq from reaching the value taken for a failure.
SeqInv ==
    /\ curseq + Cardinality(PreSeq) <= SeqLimit
    /\ \A t \in Task : pc[t] = "read" => curseq # 0

\* The inductive invariant, apart from types and the budget.
ReplyCore == OwnerInv /\ ReqInv /\ QueueInv /\ MsgInv /\ MatchInv /\ OwnReply

\* Initially nothing is queued, under way or answered.
LEMMA ReplyInit == ASSUME PrivateFiles PROVE Init => ReplyCore
  BY DEF Init, ReplyCore, OwnerInv, ReqInv, QueueInv, MsgInv, MatchInv, OwnReply,
         HasReq, Queued, Carrying, Proc, Acc

\* fo_acc_start and fo_acc_destroy touch only queues that are empty.
LEMMA ReplyAcc ==
    ASSUME PrivateFiles, TypeInv, ReplyCore, NEW p \in Proc, AccStep(p)
    PROVE  ReplyCore'
  <1> USE DEF TypeInv, TypeOK, HandInv, Proc, Acc, TaskPc, WorkerPc, Goto,
              procVars, tableVars, lockVars, reqVars, PrivateFiles,
              ReplyCore, OwnerInv, ReqInv, QueueInv, MsgInv, MatchInv, OwnReply,
              HasReq, Queued, Carrying, Awaited
  <1>1. CASE AccStartLock(p) BY <1>1 DEF AccStartLock
  <1>2. CASE AccStartFail(p) BY <1>2 DEF AccStartFail
  <1>3. CASE AccStartAdd(p)
    <2>1. queue' = [queue EXCEPT ![acc[p]] = << >>]
      BY <1>3 DEF AccStartAdd
    <2>2. OwnerInv' /\ ReqInv' BY <1>3 DEF AccStartAdd
    <2>3. QueueInv' BY <1>3, <2>1 DEF AccStartAdd
    <2>4. MsgInv' BY <1>3 DEF AccStartAdd
    <2>5. MatchInv' /\ OwnReply' BY <1>3, <2>1 DEF AccStartAdd
    <2> QED BY <2>2, <2>3, <2>4, <2>5
  <1>4. CASE DestroyBlock(p) BY <1>4 DEF DestroyBlock
  <1>5. CASE DestroyLock(p) BY <1>5 DEF DestroyLock
  <1>6. CASE Unhash(p) BY <1>6 DEF Unhash
  <1> QED BY <1>1, <1>2, <1>3, <1>4, <1>5, <1>6 DEF AccStep

\* fo_send puts its own request in its own queue, once, and frees it
\* only after it was answered.
LEMMA ReplySend ==
    ASSUME PrivateFiles, Reliable, SeqInv, TypeInv, ReplyCore,
           NEW t \in Task, FoSendStep(t)
    PROVE  ReplyCore'
  <1> USE DEF TypeInv, TypeOK, HandInv, Proc, Acc, TaskPc, WorkerPc, Goto,
              procVars, tableVars, lockVars, reqVars, PrivateFiles,
              ReplyCore, OwnerInv, ReqInv, QueueInv, MsgInv, MatchInv, OwnReply,
              HasReq, Queued, Carrying, Awaited
  <1>1. CASE FoSendAlloc(t) BY <1>1 DEF FoSendAlloc
  <1>2. ~FoSendAllocFail(t) /\ ~FoSendFail(t)
    BY DEF FoSendAllocFail, FoSendFail, Reliable
  <1>3. CASE ForeqAddLock(t) BY <1>3 DEF ForeqAddLock
  <1>4. CASE ForeqAddFail(t) BY <1>4 DEF ForeqAddFail
  <1>5. CASE ForeqAdd(t)
    <2>0. pc[t] = "add_in" BY <1>5 DEF ForeqAdd
    <2>1. acc[t] \in File /\ Opener[acc[t]] = t /\ queue[acc[t]] = << >>
      BY ONLY <2>0, ReplyCore, t \in Task DEF ReplyCore, OwnerInv, QueueInv, Queued
    <2>2. queue' = [queue EXCEPT ![acc[t]] = << req[t] >>]
      BY <1>5, <2>1 DEF ForeqAdd
    <2>3. pc[t] = "add_in" /\ pc' = [pc EXCEPT ![t] = "serialize"]
      BY <1>5 DEF ForeqAdd
    <2>4. UNCHANGED <<acc, req, type, msg, fstate, reqVars, net>>
      BY <1>5 DEF ForeqAdd
    <2>5. OwnerInv' /\ ReqInv' BY <2>3, <2>4
    <2>6. QueueInv' BY <2>1, <2>2, <2>3, <2>4
    <2>7. MsgInv'
      <3>1. \A m \in net : m.from # t BY <2>3
      <3>2. \A w \in Worker : pc[w] \in Carrying => msg[w].from # t BY <2>3
      <3> QED BY <2>3, <2>4, <3>1, <3>2
    <2>8. MatchInv' /\ OwnReply'
      <3>1. \A w \in Worker : pc[w] = "complete" =>
              /\ msg[w].from \in Task /\ msg[w].from # t
              /\ acc[msg[w].from] \in File /\ acc[msg[w].from] # acc[t]
        BY <2>1, <2>3 DEF Msg
      <3> QED BY <2>1, <2>2, <2>3, <2>4, <3>1
    <2> QED BY <2>5, <2>6, <2>7, <2>8
  <1>6. CASE IncSeq(t) BY <1>6 DEF IncSeq
  <1>7. CASE ReadSeq(t) BY <1>7 DEF ReadSeq, SeqInv
  <1>8. CASE NlSend(t) BY <1>8 DEF NlSend, Msg, Type
  <1>9. CASE FoSendWake(t) BY <1>9 DEF FoSendWake
  <1>10. CASE FoSendOut(t) BY <1>10 DEF FoSendOut
  <1> QED BY <1>1, <1>2, <1>3, <1>4, <1>5, <1>6, <1>7, <1>8, <1>9, <1>10
          DEF FoSendStep

\* fo_recv takes out of a queue the request that its reply answers.
LEMMA ReplyRecv ==
    ASSUME PrivateFiles, TypeInv, ReplyCore, NEW w \in Worker,
           FoRecvStep(w) \/ \E m \in net : Deliver(w, m)
    PROVE  ReplyCore'
  <1> USE DEF TypeInv, TypeOK, HandInv, Proc, Acc, TaskPc, WorkerPc, Goto,
              procVars, tableVars, lockVars, reqVars, PrivateFiles,
              ReplyCore, OwnerInv, ReqInv, QueueInv, MsgInv, MatchInv, OwnReply,
              HasReq, Queued, Carrying, Awaited
  <1>1. CASE \E m \in net : Deliver(w, m) BY <1>1 DEF Deliver
  <1>2. CASE FindAccLock(w) BY <1>2 DEF FindAccLock
  <1>3. CASE FindAccHit(w) BY <1>3 DEF FindAccHit, FindAcc, AccId
  <1>4. CASE FindAccMiss(w) BY <1>4 DEF FindAccMiss
  <1>5. CASE ForeqFindLock(w) BY <1>5 DEF ForeqFindLock
  <1>6. CASE ForeqFindFail(w) BY <1>6 DEF ForeqFindFail, AfterMiss
  <1>7. CASE ForeqFind(w)
    <2> DEFINE u == msg[w].from
    <2>1. u \in Task /\ acc[w] \in File /\ Opener[acc[w]] = u
      BY <1>7 DEF ForeqFind, HeadMatches, Msg
    <2>2. queue[acc[w]] = << req[u] >> /\ acc[u] = acc[w]
      BY <1>7, <2>1 DEF ForeqFind, HeadMatches
    <2>3. queue' = [queue EXCEPT ![acc[w]] = << >>] /\ req' = [req EXCEPT ![w] = req[u]]
      BY <1>7, <2>2 DEF ForeqFind
    <2>4. pc[w] = "pop" /\ pc' = [pc EXCEPT ![w] = "complete"]
      BY <1>7 DEF ForeqFind
    <2>5. UNCHANGED <<acc, type, msg, fstate, reqVars, net>>
      BY <1>7 DEF ForeqFind
    <2>6. OwnerInv' /\ ReqInv' BY <2>3, <2>4, <2>5
    <2>7. QueueInv' BY <2>1, <2>3, <2>4, <2>5
    <2>8. MsgInv' BY <2>3, <2>4, <2>5 DEF Msg
    <2>9. MatchInv' /\ OwnReply' BY <2>1, <2>2, <2>3, <2>4, <2>5 DEF Msg
    <2> QED BY <2>6, <2>7, <2>8, <2>9
  <1>8. CASE ForeqFindMiss(w)
    <2>1. acc[w] \in Acc /\ (queue[acc[w]] = << >> \/ \E r \in Req : queue[acc[w]] = << r >>)
      BY <1>8 DEF ForeqFindMiss
    <2>2. Rotate(queue[acc[w]]) = queue[acc[w]]
      <3>1. CASE queue[acc[w]] = << >> BY ONLY <3>1, RotateOne
      <3>2. CASE \E r \in Req : queue[acc[w]] = << r >> BY ONLY <3>2, RotateOne, Zenon
      <3> QED BY <2>1, <3>1, <3>2
    <2>3. queue' = queue
      BY <1>8, <2>2 DEF ForeqFindMiss
    <2>4. /\ pc[w] = "pop" /\ \E l \in {"destroy", "put"} : pc' = [pc EXCEPT ![w] = l]
          /\ UNCHANGED <<acc, req, type, msg, fstate, reqVars, net>>
      BY <1>8 DEF ForeqFindMiss, AfterMiss
    <2> QED BY <2>3, <2>4
  <1>9. CASE Complete(w)
    <2> DEFINE u == msg[w].from
    <2>1. /\ u \in Task /\ pc[u] = "wait" /\ req[w] = req[u] /\ req[u] \in Req
          /\ queue[acc[u]] = << >> /\ acc[u] \in File /\ Opener[acc[u]] = u
      BY <1>9 DEF Complete, Msg
    <2>2. /\ answer' = [answer EXCEPT ![req[u]] = u]
          /\ pc[w] = "complete" /\ pc' = [pc EXCEPT ![w] = "put"]
          /\ UNCHANGED <<acc, req, type, msg, fstate, tableVars, live, net>>
      BY <1>9, <2>1 DEF Complete
    <2>3. \A t \in Task : pc[t] \in HasReq /\ t # u => req[t] # req[u]
      BY <2>1
    <2>4. OwnerInv' /\ ReqInv' BY <2>1, <2>2, <2>3
    <2>5. QueueInv' BY <2>1, <2>2, <2>3
    <2>6. MsgInv'
      <3>1. \A m \in net : m \in Msg /\ m.from # u /\ m.from \in Task BY <2>2 DEF Msg
      <3>2. \A x \in Worker : x # w /\ pc[x] \in Carrying
                             => msg[x].from # u /\ msg[x].from \in Task
        BY <2>2 DEF Msg
      <3> QED BY <2>1, <2>2, <2>3, <3>1, <3>2
    <2>7. MatchInv' /\ OwnReply' BY <2>1, <2>2, <2>3
    <2> QED BY <2>4, <2>5, <2>6, <2>7
  <1>10. CASE FoRecvPut(w) BY <1>10 DEF FoRecvPut
  <1> QED BY <1>1, <1>2, <1>3, <1>4, <1>5, <1>6, <1>7, <1>8, <1>9, <1>10
          DEF FoRecvStep

\* A system call starts work of the task on its own file.
LEMMA ReplyCall == ASSUME PrivateFiles, TypeInv, ReplyCore, SysCall PROVE ReplyCore'
  <1> PICK t \in Task, f \in File, ty \in Type,
           s \in {"open", "opening", "closing"}, l \in {"acc_lock", "alloc"} :
           Call(t, f, ty, s, l) /\ (t \in Sharers[f] \/ t = Opener[f])
      BY CallForm
  <1>1. t = Opener[f] BY DEF PrivateFiles
  <1> QED BY <1>1
          DEF Call, TypeInv, TypeOK, HandInv, Proc, Acc, TaskPc, WorkerPc, Goto,
              tableVars, lockVars, reqVars, PrivateFiles,
              ReplyCore, OwnerInv, ReqInv, QueueInv, MsgInv, MatchInv, OwnReply,
              HasReq, Queued, Carrying, Awaited

\* A stuttering step changes nothing.
LEMMA ReplyStutter == ASSUME ReplyCore, UNCHANGED vars PROVE ReplyCore'
  BY DEF vars, procVars, tableVars, lockVars, reqVars,
         ReplyCore, OwnerInv, ReqInv, QueueInv, MsgInv, MatchInv, OwnReply,
         HasReq, Queued, Carrying, Awaited

\* Every step keeps replies and requests together.
LEMMA ReplyStep ==
    ASSUME PrivateFiles, Reliable
    PROVE  TypeInv /\ SeqInv /\ ReplyCore /\ [Next]_vars => ReplyCore'
  BY ReplyAcc, ReplySend, ReplyRecv, ReplyCall, ReplyStutter DEF Next

(* The budget of sequence numbers. *)

\* Initially no number is drawn and nobody is about to draw one.
LEMMA SeqInit == Init => SeqInv
  <1> SUFFICES ASSUME Init PROVE SeqInv OBVIOUS
  <1>1. PreSeq = {} BY DEF Init, PreSeq, Proc
  <1> QED BY <1>1, FS_EmptySet DEF Init, SeqInv, Proc

\* No step adds a task to PreSeq but a system call, and IncSeq removes one.
LEMMA SeqStep ==
    ASSUME Reliable
    PROVE  TypeInv /\ SeqInv /\ [Next]_vars => SeqInv'
  <1> SUFFICES ASSUME TypeInv, SeqInv, [Next]_vars PROVE SeqInv' OBVIOUS
  <1>0. IsFiniteSet(PreSeq) /\ Cardinality(PreSeq) \in Nat /\ curseq \in Nat
    <2>1. PreSeq \subseteq Task BY DEF PreSeq
    <2> QED BY <2>1, FiniteAssumption, FS_Subset, FS_CardinalityType
            DEF TypeInv, TypeOK, Seq32
  <1>1. CASE SysCall
    <2> PICK t \in Task, f \in File, ty \in Type,
             s \in {"open", "opening", "closing"}, l \in {"acc_lock", "alloc"} :
             Call(t, f, ty, s, l)
        BY <1>1, CallForm
    <2>1. PreSeq' = PreSeq \cup {t} /\ t \notin PreSeq
      BY DEF Call, PreSeq, Goto, TypeInv, TypeOK, Proc
    <2>2. Cardinality(PreSeq') = Cardinality(PreSeq) + 1
      BY <1>0, <2>1, FS_AddElement
    <2>3. curseq' = curseq /\ curseq + Cardinality(PreSeq) < SeqLimit
      BY DEF Call, Budget
    <2>4. \A u \in Task : pc'[u] = "read" => pc[u] = "read"
      BY DEF Call, Goto, TypeInv, TypeOK, Proc
    <2> QED BY <1>0, <2>2, <2>3, <2>4 DEF SeqInv
  <1>2. CASE \E t \in Task : IncSeq(t)
    <2> PICK t \in Task : IncSeq(t) BY <1>2
    <2>1. PreSeq' = PreSeq \ {t} /\ t \in PreSeq
      BY DEF IncSeq, PreSeq, Goto, TypeInv, TypeOK, Proc
    <2>2. Cardinality(PreSeq') = Cardinality(PreSeq) - 1 /\ Cardinality(PreSeq') \in Nat
      BY <1>0, <2>1, FS_RemoveElement, FS_CardinalityType
    <2>3. curseq' = curseq + 1
      BY <1>0, <2>2 DEF IncSeq, SeqInv, Reliable
    <2> QED BY <1>0, <2>2, <2>3 DEF SeqInv
  <1>3. CASE UNCHANGED vars
    BY <1>3 DEF vars, procVars, SeqInv, PreSeq
  <1>4. CASE \/ \E p \in Proc : AccStep(p)
             \/ \E t \in Task : FoSendStep(t) /\ ~IncSeq(t)
             \/ \E w \in Worker : FoRecvStep(w) \/ \E m \in net : Deliver(w, m)
    <2> DEFINE Kept == /\ curseq' = curseq /\ PreSeq' \subseteq PreSeq
                       /\ \A u \in Task : pc'[u] = "read" => pc[u] = "read"
    <2> USE DEF Goto, procVars, TypeInv, TypeOK, Proc
    <2>1. ASSUME \E p \in Proc : AccStep(p) PROVE Kept
      <3>1. curseq' = curseq
        BY <2>1 DEF AccStep, AccStartLock, AccStartFail, AccStartAdd, DestroyBlock,
               DestroyLock, Unhash
      <3>2. PreSeq' \subseteq PreSeq /\ \A u \in Task : pc'[u] = "read" => pc[u] = "read"
        BY <2>1 DEF AccStep, AccStartLock, AccStartFail, AccStartAdd, DestroyBlock,
               DestroyLock, Unhash, PreSeq
      <3> QED BY ONLY <3>1, <3>2
    <2>2. ASSUME \E t \in Task : FoSendStep(t) /\ ~IncSeq(t) PROVE Kept
      <3>1. curseq' = curseq
        BY <2>2 DEF FoSendStep, FoSendAlloc, FoSendAllocFail, ForeqAddLock, ForeqAddFail,
               ForeqAdd, ReadSeq, NlSend, FoSendFail, FoSendWake, FoSendOut
      <3>2. PreSeq' \subseteq PreSeq /\ \A u \in Task : pc'[u] = "read" => pc[u] = "read"
        BY <2>2 DEF FoSendStep, FoSendAlloc, FoSendAllocFail, ForeqAddLock, ForeqAddFail,
               ForeqAdd, ReadSeq, NlSend, FoSendFail, FoSendWake, FoSendOut, PreSeq
      <3> QED BY ONLY <3>1, <3>2
    <2>3. ASSUME \E w \in Worker : FoRecvStep(w) \/ \E m \in net : Deliver(w, m)
         PROVE  Kept
      <3> PICK w \in Worker : FoRecvStep(w) \/ \E m \in net : Deliver(w, m) BY <2>3
      <3>1. curseq' = curseq
        BY DEF FoRecvStep, Deliver, FindAccLock, FindAccHit, FindAccMiss, ForeqFindLock,
               ForeqFindFail, ForeqFind, ForeqFindMiss, Complete, FoRecvPut
      <3>2. \A u \in Task : pc'[u] = pc[u]
        BY DEF FoRecvStep, Deliver, FindAccLock, FindAccHit, FindAccMiss, ForeqFindLock,
               ForeqFindFail, ForeqFind, ForeqFindMiss, Complete, FoRecvPut
      <3>3. PreSeq' = PreSeq BY ONLY <3>2 DEF PreSeq
      <3> QED BY ONLY <3>1, <3>2, <3>3
    <2>4. Kept BY ONLY <1>4, <2>1, <2>2, <2>3
    <2>5. Cardinality(PreSeq') <= Cardinality(PreSeq) /\ Cardinality(PreSeq') \in Nat
      BY ONLY <1>0, <2>4, FS_Subset, FS_CardinalityType
    <2> QED BY ONLY <1>0, <2>4, <2>5, SeqInv, SeqAssumption DEF SeqInv
  <1> QED BY <1>1, <1>2, <1>3, <1>4 DEF Next, FoSendStep

\* A task that wait_for_completion lets go on was completed by the reply to
\* its own request: with one private file per task and no failures, for any
\* number of tasks whose open, I/O and release calls race with each other and
\* with the workers.
THEOREM RepliesMatch ==
    ASSUME PrivateFiles, Reliable
    PROVE  Spec => []OwnReply
  <1>1. ReplyCore => OwnReply BY DEF ReplyCore
  <1> QED BY TypeInit, ReplyInit, SeqInit, TypeStep, ReplyStep, SeqStep, <1>1, PTL
          DEF Spec

\* A queue is empty or holds the one request its task waits for; with that
\* the search of fo_acc_foreq_find, which ends at the head, is complete.
NoDanglingRequest ==
    \A f \in File : queue[f] # << >> =>
        \E t \in Task : /\ acc[t] = f /\ queue[f] = << req[t] >>
                        /\ pc[t] \in Queued /\ answer[req[t]] = None

\* Under the same assumptions no fo_queue holds a request that fo_send freed,
\* that another task waits for, or that was already answered.
THEOREM QueuesHoldWaiters ==
    ASSUME PrivateFiles, Reliable
    PROVE  Spec => []NoDanglingRequest
  <1>1. ReplyCore => NoDanglingRequest
    BY DEF ReplyCore, QueueInv, NoDanglingRequest, Queued
  <1> QED BY TypeInit, ReplyInit, SeqInit, TypeStep, ReplyStep, SeqStep, <1>1, PTL
          DEF Spec

-----------------------------------------------------------------------------
(***************************************************************************)
(* Who owns the requests, when tasks share files and may open several.  A  *)
(* reply then may find another task's request in the queue and complete    *)
(* that, even before it was sent; but a request in a queue always belongs  *)
(* to one task that still waits for it, or will.                           *)
(***************************************************************************)

\* A request that is not answered yet, of a task that will wait for it.
Pending(t) == pc[t] \in Queued /\ answer[req[t]] = None

\* A worker has taken the request of t out of a queue to complete it.
Held(t) == \E w \in Worker : pc[w] = "complete" /\ req[w] = req[t]

Elems(q) == {q[i] : i \in 1 .. Len(q)}

Once(q) == \A i, j \in 1 .. Len(q) : q[i] = q[j] => i = j

\* Every task in fo_send has a request of its own.
LiveInv ==
    /\ \A t \in Task : pc[t] \in HasReq => req[t] \in live
    /\ \A t, u \in Task : pc[t] \in HasReq /\ pc[u] \in HasReq /\ req[t] = req[u] => t = u
    /\ \A t \in Task : pc[t] \in {"add", "add_in"} => answer[req[t]] = None

\* The queues hold pending requests of their file's users, each once.
PendInv ==
    /\ \A w \in Worker : queue[w] = << >>
    /\ \A f \in File : Once(queue[f])
    /\ \A f \in File : \A r \in Elems(queue[f]) :
            \E t \in Task : acc[t] = f /\ Pending(t) /\ req[t] = r

\* What a worker completes is a pending request, in no queue, and its own.
HeldInv ==
    /\ \A w \in Worker : pc[w] = "complete" =>
            \E t \in Task : Pending(t) /\ req[t] = req[w]
    /\ \A w \in Worker : pc[w] = "complete" =>
            \A f \in File : req[w] \notin Elems(queue[f])
    /\ \A w, x \in Worker : pc[w] = "complete" /\ pc[x] = "complete" /\ req[w] = req[x] => w = x

OwnedCore == LiveInv /\ PendInv /\ HeldInv

\* kfifo_in puts a request behind the others.
LEMMA ElemsAppend ==
    ASSUME NEW S, NEW q \in Seq(S), NEW r \in S
    PROVE  /\ Elems(Append(q, r)) \subseteq Elems(q) \cup {r}
           /\ Once(q) /\ r \notin Elems(q) => Once(Append(q, r))
  <1> DEFINE p == Append(q, r)
             n == Len(q)
  <1>1. /\ n \in Nat /\ Len(p) = n + 1
        /\ \A i \in 1 .. n + 1 : p[i] = IF i = n + 1 THEN r ELSE q[i]
    OBVIOUS
  <1> HIDE DEF p, n
  <1>2. \A i \in 1 .. Len(p) : \/ i \in 1 .. n /\ p[i] = q[i]
                               \/ i = n + 1 /\ p[i] = r
    <2> TAKE i \in 1 .. Len(p)
    <2>1. i = n + 1 \/ i \in 1 .. n BY <1>1
    <2>2. i = n + 1 => p[i] = r BY <1>1
    <2>3. i \in 1 .. n => p[i] = q[i] BY <1>1
    <2> QED BY ONLY <2>1, <2>2, <2>3
  <1>3. Elems(p) \subseteq Elems(q) \cup {r} BY ONLY <1>2 DEF Elems, n
  <1>4. Once(q) /\ r \notin Elems(q) => Once(p) BY ONLY <1>2 DEF Elems, Once, n
  <1> QED BY <1>3, <1>4 DEF p

\* kfifo_out takes the first request; what is left does not hold it.
LEMMA ElemsTail ==
    ASSUME NEW S, NEW q \in Seq(S), q # << >>
    PROVE  /\ Head(q) \in Elems(q) /\ Elems(Tail(q)) \subseteq Elems(q)
           /\ Once(q) => Once(Tail(q)) /\ Head(q) \notin Elems(Tail(q))
  <1> DEFINE p == Tail(q)
             h == Head(q)
  <1>1. /\ Len(q) \in Nat \ {0} /\ Len(p) = Len(q) - 1 /\ h = q[1]
        /\ \A i \in 1 .. Len(q) - 1 : p[i] = q[i + 1]
    OBVIOUS
  <1> HIDE DEF p, h
  <1>2. \A i \in 1 .. Len(p) : i + 1 \in 1 .. Len(q) /\ i + 1 # 1 /\ p[i] = q[i + 1]
    BY <1>1
  <1>3. 1 \in 1 .. Len(q) BY <1>1
  <1>4. h \in Elems(q) /\ Elems(p) \subseteq Elems(q) BY ONLY <1>1, <1>2, <1>3 DEF Elems
  <1>5. Once(q) => Once(p)
    BY ONLY <1>1, <1>2 DEF Once
  <1>6. Once(q) => h \notin Elems(p)
    BY ONLY <1>1, <1>2, <1>3 DEF Elems, Once
  <1> QED BY <1>4, <1>5, <1>6 DEF p, h

\* The rotation of fo_acc_foreq_find loses no request and doubles none.
LEMMA ElemsRotate ==
    ASSUME NEW S, NEW q \in Seq(S), Once(q)
    PROVE  Once(Rotate(q)) /\ Elems(Rotate(q)) \subseteq Elems(q)
  <1>1. CASE q = << >> BY <1>1 DEF Rotate
  <1>2. CASE q # << >>
    <2>1. Tail(q) \in Seq(S) /\ Head(q) \in S BY <1>2
    <2>2. /\ Head(q) \in Elems(q) /\ Elems(Tail(q)) \subseteq Elems(q)
          /\ Once(Tail(q)) /\ Head(q) \notin Elems(Tail(q))
      BY <1>2, ElemsTail
    <2>3. /\ Elems(Append(Tail(q), Head(q))) \subseteq Elems(Tail(q)) \cup {Head(q)}
          /\ Once(Append(Tail(q), Head(q)))
      BY <2>1, <2>2, ElemsAppend
    <2> QED BY <1>2, <2>2, <2>3 DEF Rotate
  <1> QED BY <1>1, <1>2

\* An empty queue holds nothing, a queue that holds nothing is empty.
LEMMA ElemsEmpty ==
    /\ Elems(<< >>) = {} /\ Once(<< >>)
    /\ \A q \in Seq(Req) : Elems(q) = {} => q = << >>
  <1>1. Elems(<< >>) = {} /\ Once(<< >>) BY DEF Elems, Once
  <1>2. ASSUME NEW q \in Seq(Req), q # << >> PROVE Elems(q) # {}
    BY <1>2, ElemsTail
  <1> QED BY <1>1, <1>2

\* Initially there are no requests.
LEMMA OwnedInit == Init => OwnedCore
  <1> SUFFICES ASSUME Init PROVE OwnedCore OBVIOUS
  <1>1. /\ \A p \in Proc : pc[p] = "idle"
        /\ \A a \in Acc : queue[a] = << >>
    BY DEF Init
  <1> QED BY <1>1, ElemsEmpty DEF OwnedCore, LiveInv, PendInv, HeldInv, HasReq, Proc, Acc

\* A step that leaves the pending requests with their tasks, takes up none
\* and puts none in a queue keeps them where they belong.
LEMMA OwnedFrame ==
    ASSUME PendInv, HeldInv,
           \A t \in Task : Pending(t) => Pending(t)' /\ acc'[t] = acc[t] /\ req'[t] = req[t],
           \A w \in Worker : pc'[w] = "complete" => pc[w] = "complete" /\ req'[w] = req[w],
           \A w \in Worker : queue'[w] = << >>,
           \A f \in File : Once(queue'[f]) /\ Elems(queue'[f]) \subseteq Elems(queue[f])
    PROVE  PendInv' /\ HeldInv'
  <1>1. PendInv'
    <2>1. ASSUME NEW f \in File, NEW r \in Elems(queue'[f])
          PROVE  \E t \in Task : acc'[t] = f /\ Pending(t)' /\ req'[t] = r
      <3>1. PICK t \in Task : acc[t] = f /\ Pending(t) /\ req[t] = r BY <2>1 DEF PendInv
      <3> QED BY <3>1
    <2> QED BY <2>1 DEF PendInv
  <1>2. HeldInv' BY DEF HeldInv
  <1> QED BY <1>1, <1>2

\* fo_acc_start and fo_acc_destroy leave requests alone; the queue that goes
\* with a fo_access takes what was in it along.
LEMMA OwnedAcc ==
    ASSUME TypeInv, OwnedCore, NEW p \in Proc, AccStep(p)
    PROVE  OwnedCore'
  <1>1. /\ UNCHANGED <<req, live, answer>>
        /\ \A q \in Proc \ {p} : pc'[q] = pc[q] /\ acc'[q] = acc[q]
        /\ \/ pc'[p] = pc[p] /\ acc'[p] = acc[p]
           \/ /\ pc[p] \notin HasReq \cup {"complete"}
              /\ pc'[p] \notin HasReq \cup {"complete"}
    BY DEF AccStep, AccStartLock, AccStartFail, AccStartAdd, DestroyBlock, DestroyLock,
           Unhash, Goto, procVars, reqVars, HasReq, TypeInv, TypeOK
  <1>2. \A a \in Acc : queue'[a] = queue[a] \/ queue'[a] = << >>
    BY DEF AccStep, AccStartLock, AccStartFail, AccStartAdd, DestroyBlock, DestroyLock,
           Unhash, tableVars, TypeInv, TypeOK
  <1>3. LiveInv' BY <1>1 DEF OwnedCore, LiveInv, HasReq, Proc
  <1>4. \A t \in Task : Pending(t) => Pending(t)' /\ acc'[t] = acc[t] /\ req'[t] = req[t]
    BY <1>1 DEF Pending, Queued, HasReq, Proc
  <1>5. \A w \in Worker : pc'[w] = "complete" => pc[w] = "complete" /\ req'[w] = req[w]
    BY <1>1 DEF Proc
  <1>6. \A w \in Worker : queue'[w] = << >> BY <1>2 DEF OwnedCore, PendInv, Acc
  <1>7. \A f \in File : Once(queue'[f]) /\ Elems(queue'[f]) \subseteq Elems(queue[f])
    BY <1>2, ElemsEmpty DEF OwnedCore, PendInv, Acc
  <1> QED BY <1>3, <1>4, <1>5, <1>6, <1>7, OwnedFrame DEF OwnedCore

\* fo_send queues a request of its own and frees it when it was answered.
LEMMA OwnedSend ==
    ASSUME Reliable, SeqInv, TypeInv, OwnedCore, NEW t \in Task, FoSendStep(t)
    PROVE  OwnedCore'
  <1> USE DEF OwnedCore
  <1>1. CASE FoSendAlloc(t)
    <2>1. PICK r \in Req \ live :
            live' = live \cup {r} /\ req' = [req EXCEPT ![t] = r] /\ answer' = [answer EXCEPT ![r] = None]
      BY <1>1 DEF FoSendAlloc
    <2>2. /\ pc[t] = "alloc" /\ pc' = [pc EXCEPT ![t] = "add"]
          /\ UNCHANGED <<acc, queue>>
      BY <1>1 DEF FoSendAlloc, Goto, tableVars
    <2>3. /\ \A p \in Proc \ {t} : pc'[p] = pc[p] /\ req'[p] = req[p]
          /\ pc'[t] = "add" /\ req'[t] = r /\ answer'[r] = None
          /\ \A q \in Req \ {r} : answer'[q] = answer[q]
      BY <2>1, <2>2 DEF TypeInv, TypeOK, Proc
    <2>4. \A u \in Task : pc[u] \in HasReq => req[u] \in Req \ {r} BY <2>1 DEF LiveInv, TypeInv, TypeOK
    <2>5. LiveInv' BY <2>1, <2>2, <2>3, <2>4 DEF LiveInv, HasReq, Proc
    <2>6. \A u \in Task : Pending(u) => Pending(u)' /\ acc'[u] = acc[u] /\ req'[u] = req[u]
      BY <2>2, <2>3, <2>4 DEF Pending, Queued, HasReq, Proc
    <2>7. \A w \in Worker : pc'[w] = "complete" => pc[w] = "complete" /\ req'[w] = req[w]
      BY <2>3 DEF Proc
    <2> QED BY <2>2, <2>5, <2>6, <2>7, OwnedFrame DEF PendInv
  <1>2. ~FoSendAllocFail(t) /\ ~FoSendFail(t)
    BY DEF FoSendAllocFail, FoSendFail, Reliable
  <1>3. CASE ForeqAdd(t)
    <2> DEFINE f == acc[t]
               q == queue[f]
    <2>1. /\ f \in File /\ f \in Acc /\ req[t] \in Req /\ q \in Seq(Req)
          /\ pc[t] = "add_in" /\ pc' = [pc EXCEPT ![t] = "serialize"]
          /\ UNCHANGED <<acc, req, live, answer>>
          /\ queue' = queue \/ queue' = [queue EXCEPT ![f] = Append(q, req[t])]
      BY <1>3 DEF ForeqAdd, Goto, TypeInv, TypeOK, HandInv, Acc, reqVars
    <2>2. /\ \A p \in Proc \ {t} : pc'[p] = pc[p] /\ req'[p] = req[p]
          /\ pc'[t] = "serialize" /\ req'[t] = req[t]
          /\ \A a \in Acc \ {f} : queue'[a] = queue[a]
          /\ queue'[f] \in {q, Append(q, req[t])}
      BY <2>1 DEF TypeInv, TypeOK, Proc
    <2>3. LiveInv' BY <2>1, <2>2 DEF LiveInv, HasReq, Proc
    <2>4. \A u \in Task : Pending(u) => Pending(u)' /\ acc'[u] = acc[u] /\ req'[u] = req[u]
      BY <2>1, <2>2 DEF Pending, Queued, Proc
    <2>5. Pending(t)' BY <2>1, <2>2 DEF Pending, Queued, LiveInv
    <2>6. \A u \in Task : Pending(u) => req[u] # req[t]
      BY <2>1 DEF LiveInv, Pending, Queued, HasReq
    <2>7. req[t] \notin Elems(q)
      <3>1. \A r \in Elems(q) : \E u \in Task : Pending(u) /\ req[u] = r
        BY <2>1 DEF PendInv
      <3> QED BY ONLY <2>6, <3>1
    <2>8. /\ Once(queue'[f]) /\ Elems(queue'[f]) \subseteq Elems(q) \cup {req[t]}
      <3>1. Once(q) BY <2>1 DEF PendInv
      <3> HIDE DEF q, f
      <3>2. /\ Elems(Append(q, req[t])) \subseteq Elems(q) \cup {req[t]}
            /\ Once(Append(q, req[t]))
        BY <2>1, <2>7, <3>1, ElemsAppend
      <3> QED BY ONLY <2>2, <3>1, <3>2
    <2>9. PendInv'
      <3>1. \A w \in Worker : queue'[w] = << >> BY <2>1, <2>2 DEF PendInv, Acc
      <3>2. \A g \in File : Once(queue'[g]) BY <2>2, <2>8 DEF PendInv, Acc
      <3>3. \A g \in File : \A r \in Elems(queue'[g]) :
              \E u \in Task : acc'[u] = g /\ Pending(u)' /\ req'[u] = r
        <4> TAKE g \in File
        <4> TAKE r \in Elems(queue'[g])
        <4>1. CASE r \in Elems(queue[g]) BY <4>1, <2>4 DEF PendInv
        <4>2. CASE r \notin Elems(queue[g])
          <5>1. g = f /\ r = req[t] BY <4>2, <2>2, <2>8 DEF Acc
          <5> QED BY <5>1, <2>1, <2>2, <2>5
        <4> QED BY <4>1, <4>2
      <3> QED BY <3>1, <3>2, <3>3 DEF PendInv
    <2>10. HeldInv'
      <3>1. \A w \in Worker : pc'[w] = pc[w] /\ req'[w] = req[w] BY <2>2, DisjointAssumption DEF Proc
      <3>2. \A w \in Worker : pc[w] = "complete" => req[w] # req[t] BY <2>6 DEF HeldInv
      <3>3. \A g \in File : Elems(queue'[g]) \subseteq Elems(queue[g]) \cup {req[t]}
        BY <2>2, <2>8 DEF Acc
      <3>4. \A w \in Worker : pc'[w] = "complete" => \E u \in Task : Pending(u)' /\ req'[u] = req'[w]
        BY <2>4, <3>1 DEF HeldInv
      <3>5. \A w \in Worker : pc'[w] = "complete" =>
              \A g \in File : req'[w] \notin Elems(queue'[g])
        <4>1. \A w \in Worker : pc[w] = "complete" =>
                \A g \in File : req[w] \notin Elems(queue[g])
          BY DEF HeldInv
        <4> QED BY ONLY <3>1, <3>2, <3>3, <4>1
      <3>6. \A w, x \in Worker :
              pc'[w] = "complete" /\ pc'[x] = "complete" /\ req'[w] = req'[x] => w = x
        BY <3>1 DEF HeldInv
      <3> QED BY <3>4, <3>5, <3>6 DEF HeldInv
    <2> QED BY <2>3, <2>9, <2>10
  <1>4. CASE FoSendOut(t)
    <2>1. /\ pc[t] = "out" /\ live' = live \ {req[t]} /\ req' = [req EXCEPT ![t] = None]
          /\ pc' = [pc EXCEPT ![t] = IF type[t] = "RELEASE" THEN "destroy" ELSE "idle"]
          /\ \A u \in Proc \ {t} : acc'[u] = acc[u]
          /\ UNCHANGED <<queue, answer>>
      BY <1>4 DEF FoSendOut, Goto, tableVars, TypeInv, TypeOK, Proc
    <2>2. /\ \A p \in Proc \ {t} : pc'[p] = pc[p] /\ req'[p] = req[p]
          /\ pc'[t] \notin HasReq
      BY <2>1 DEF TypeInv, TypeOK, Proc, HasReq
    <2>3. LiveInv' BY <2>1, <2>2 DEF LiveInv, HasReq, Proc
    <2>4. \A u \in Task : Pending(u) => Pending(u)' /\ acc'[u] = acc[u] /\ req'[u] = req[u]
      BY <2>1, <2>2 DEF Pending, Queued, Proc
    <2>5. \A w \in Worker : pc'[w] = "complete" => pc[w] = "complete" /\ req'[w] = req[w]
      BY <2>2 DEF Proc
    <2> QED BY <2>1, <2>3, <2>4, <2>5, OwnedFrame DEF PendInv
  <1>5. CASE ForeqAddLock(t) \/ ForeqAddFail(t) \/ IncSeq(t) \/ ReadSeq(t) \/ NlSend(t)
             \/ FoSendWake(t)
    <2>1. /\ UNCHANGED <<acc, req, live, answer, queue>>
          /\ pc[t] \in HasReq /\ pc' = [pc EXCEPT ![t] = pc'[t]] /\ pc'[t] \in HasReq
          /\ pc'[t] \in {"add", "add_in"} => pc[t] \in {"add", "add_in"}
          /\ Pending(t) => Pending(t)'
      BY <1>5 DEF ForeqAddLock, ForeqAddFail, IncSeq, ReadSeq, NlSend, FoSendWake, Goto,
             tableVars, reqVars, HasReq, Pending, Queued, SeqInv, TypeInv, TypeOK, Proc
    <2>2. \A p \in Proc \ {t} : pc'[p] = pc[p] BY <2>1 DEF TypeInv, TypeOK
    <2>3. LiveInv' BY <2>1, <2>2 DEF LiveInv, Proc
    <2>4. \A u \in Task : Pending(u) => Pending(u)' /\ acc'[u] = acc[u] /\ req'[u] = req[u]
      BY <2>1, <2>2 DEF Pending, Proc
    <2>5. \A w \in Worker : pc'[w] = "complete" => pc[w] = "complete" /\ req'[w] = req[w]
      BY <2>1, <2>2 DEF Proc
    <2> QED BY <2>1, <2>3, <2>4, <2>5, OwnedFrame DEF PendInv
  <1> QED BY <1>1, <1>2, <1>3, <1>4, <1>5 DEF FoSendStep

\* fo_recv takes a request out of a queue to complete it, or leaves them all.
LEMMA OwnedRecv ==
    ASSUME TypeInv, OwnedCore, NEW w \in Worker,
           FoRecvStep(w) \/ \E m \in net : Deliver(w, m)
    PROVE  OwnedCore'
  <1> USE DEF OwnedCore
  <1>1. CASE ForeqFind(w)
    <2> DEFINE a == acc[w]
               q == queue[a]
    <2>1. /\ a \in Acc /\ q \in Seq(Req) /\ q # << >>
          /\ pc[w] = "pop" /\ pc' = [pc EXCEPT ![w] = "complete"]
          /\ req' = [req EXCEPT ![w] = Head(q)] /\ queue' = [queue EXCEPT ![a] = Tail(q)]
          /\ UNCHANGED <<acc, live, answer>>
      BY <1>1 DEF ForeqFind, HeadMatches, Goto, reqVars, TypeInv, TypeOK, HandInv
    <2>2. /\ \A p \in Proc \ {w} : pc'[p] = pc[p] /\ req'[p] = req[p]
          /\ pc'[w] = "complete" /\ req'[w] = Head(q)
          /\ \A b \in Acc \ {a} : queue'[b] = queue[b]
          /\ queue'[a] = Tail(q)
      BY <2>1 DEF TypeInv, TypeOK, Proc
    <2>3. a \in File /\ Once(q) BY <2>1 DEF PendInv, Acc
    <2>4. /\ Head(q) \in Elems(q) /\ Elems(Tail(q)) \subseteq Elems(q)
          /\ Once(Tail(q)) /\ Head(q) \notin Elems(Tail(q))
      <3> HIDE DEF q
      <3> QED BY <2>1, <2>3, ElemsTail
    <2> DEFINE h == Head(q)
               l == Tail(q)
    <2> HIDE DEF h, l
    <2>5. \A u \in Task : pc'[u] = pc[u] /\ req'[u] = req[u] /\ acc'[u] = acc[u]
      BY <2>1, <2>2 DEF Proc
    <2>6. LiveInv' BY <2>1, <2>5 DEF LiveInv
    <2>7. \A u \in Task : Pending(u)' <=> Pending(u) BY <2>1, <2>5 DEF Pending
    <2>8. PendInv'
      <3>1. \A x \in Worker : queue'[x] = << >> BY <2>2, <2>3 DEF PendInv, Acc
      <3>2. \A g \in File : Once(queue'[g]) BY <2>2, <2>4 DEF PendInv, Acc
      <3>3. \A g \in File : Elems(queue'[g]) \subseteq Elems(queue[g])
        BY <2>2, <2>4 DEF Acc
      <3>4. ASSUME NEW g \in File, NEW r \in Elems(queue'[g])
            PROVE  \E t \in Task : acc'[t] = g /\ Pending(t)' /\ req'[t] = r
        <4>1. PICK t \in Task : acc[t] = g /\ Pending(t) /\ req[t] = r BY <3>3, <3>4 DEF PendInv
        <4> QED BY <2>5, <2>7, <4>1
      <3> QED BY <3>1, <3>2, <3>4 DEF PendInv
    <2>9. HeldInv'
      <3>1. PICK u \in Task : acc[u] = a /\ Pending(u) /\ req[u] = h
        BY <2>3, <2>4 DEF PendInv, h
      <3>2. \A x \in Worker \ {w} : pc'[x] = pc[x] /\ req'[x] = req[x] BY <2>2 DEF Proc
      <3>3. \A x \in Worker : pc[x] = "complete" => req[x] # h
        BY <2>3, <2>4 DEF HeldInv, h
      <3>4. \A g \in File : Elems(queue'[g]) \subseteq Elems(queue[g]) /\ h \notin Elems(queue'[g])
        <4> TAKE g \in File
        <4>1. CASE g = a BY <4>1, <2>2, <2>4 DEF h
        <4>2. CASE g # a
          <5>1. queue'[g] = queue[g] BY <4>2, <2>2 DEF Acc
          <5>2. ASSUME h \in Elems(queue[g]) PROVE FALSE
            <6>1. PICK v \in Task : acc[v] = g /\ Pending(v) /\ req[v] = h BY <5>2 DEF PendInv
            <6>2. v = u BY <3>1, <6>1 DEF LiveInv, Pending, Queued, HasReq
            <6> QED BY <6>1, <6>2, <3>1, <4>2
          <5> QED BY <5>1, <5>2
        <4> QED BY <4>1, <4>2
      <3>5. req'[w] = h BY <2>2 DEF h
      <3>6. \A x \in Worker : pc'[x] = "complete" => \E v \in Task : Pending(v)' /\ req'[v] = req'[x]
        BY <2>5, <2>7, <3>1, <3>2, <3>5 DEF HeldInv
      <3>7. \A x \in Worker : pc'[x] = "complete" => \A g \in File : req'[x] \notin Elems(queue'[g])
        BY <3>2, <3>4, <3>5 DEF HeldInv
      <3>8. \A x, y \in Worker : pc'[x] = "complete" /\ pc'[y] = "complete" /\ req'[x] = req'[y] => x = y
        BY <3>2, <3>3, <3>5 DEF HeldInv
      <3> QED BY <3>6, <3>7, <3>8 DEF HeldInv
    <2> QED BY <2>6, <2>8, <2>9
  <1>2. CASE Complete(w)
    <2>1. /\ pc[w] = "complete" /\ pc' = [pc EXCEPT ![w] = "put"]
          /\ answer' = [answer EXCEPT ![req[w]] = msg[w].from]
          /\ UNCHANGED <<acc, req, live, queue>>
      BY <1>2 DEF Complete, Goto, tableVars
    <2>2. PICK u \in Task : Pending(u) /\ req[u] = req[w] BY <2>1 DEF HeldInv
    <2>3. \A p \in Proc \ {w} : pc'[p] = pc[p] BY <2>1 DEF TypeInv, TypeOK
    <2>3a. pc'[w] = "put" /\ \A p \in Task : pc'[p] = pc[p]
      BY <2>1, <2>3 DEF TypeInv, TypeOK, Proc
    <2>4. \A t \in Task : pc[t] \in HasReq /\ t # u => req[t] # req[w] /\ answer'[req[t]] = answer[req[t]]
      BY <2>1, <2>2 DEF LiveInv, Pending, Queued, HasReq, TypeInv, TypeOK
    <2>5. LiveInv' BY <2>1, <2>2, <2>3a, <2>4 DEF LiveInv, Pending, Queued, HasReq
    <2>6. \A t \in Task : Pending(t) /\ req[t] # req[w] => Pending(t)'
      BY <2>1, <2>3a, <2>4 DEF Pending, Queued, HasReq
    <2>7. PendInv'
      <3>1. \A f \in File : req[w] \notin Elems(queue[f]) BY <2>1 DEF HeldInv
      <3>2. ASSUME NEW f \in File, NEW r \in Elems(queue[f])
            PROVE  \E t \in Task : acc'[t] = f /\ Pending(t)' /\ req'[t] = r
        <4>1. PICK t \in Task : acc[t] = f /\ Pending(t) /\ req[t] = r BY DEF PendInv
        <4> QED BY <2>1, <2>6, <3>1, <4>1
      <3> QED BY <2>1, <3>2 DEF PendInv
    <2>8. HeldInv'
      <3>1. \A x \in Worker : pc'[x] = "complete" => x # w /\ pc[x] = "complete" /\ req[x] # req[w]
        BY <2>1, <2>3, <2>3a DEF HeldInv, Proc
      <3> QED BY <2>1, <2>6, <3>1 DEF HeldInv
    <2> QED BY <2>5, <2>7, <2>8
  <1>3. CASE ~ForeqFind(w) /\ ~Complete(w)
    <2>1. /\ UNCHANGED <<live, answer>>
          /\ \A p \in Proc \ {w} : pc'[p] = pc[p] /\ acc'[p] = acc[p] /\ req'[p] = req[p]
          /\ pc'[w] # "complete"
      BY <1>3 DEF FoRecvStep, Deliver, FindAccLock, FindAccHit, FindAccMiss, ForeqFindLock,
             ForeqFindFail, ForeqFindMiss, FoRecvPut, AfterMiss, Goto, reqVars,
             TypeInv, TypeOK, Proc
    <2>2. \A a \in Acc : queue'[a] = queue[a] \/ queue'[a] = Rotate(queue[a])
      BY <1>3 DEF FoRecvStep, Deliver, FindAccLock, FindAccHit, FindAccMiss, ForeqFindLock,
             ForeqFindFail, ForeqFindMiss, FoRecvPut, tableVars, TypeInv, TypeOK
    <2>3. \A t \in Task : pc'[t] = pc[t] /\ acc'[t] = acc[t] /\ req'[t] = req[t]
      BY <2>1 DEF Proc
    <2>4. LiveInv' BY <2>1, <2>3 DEF LiveInv
    <2>5. \A t \in Task : Pending(t) => Pending(t)' /\ acc'[t] = acc[t] /\ req'[t] = req[t]
      BY <2>1, <2>3 DEF Pending
    <2>6. \A x \in Worker : pc'[x] = "complete" => pc[x] = "complete" /\ req'[x] = req[x]
      BY <2>1 DEF Proc
    <2>7. \A x \in Worker : queue'[x] = << >> BY <2>2, RotateOne DEF PendInv, Acc
    <2>8. \A f \in File : Once(queue'[f]) /\ Elems(queue'[f]) \subseteq Elems(queue[f])
      <3>1. \A f \in File : f \in Acc /\ Once(queue[f]) /\ queue[f] \in Seq(Req)
        BY DEF Acc, PendInv, TypeInv, TypeOK
      <3> QED BY <2>2, <3>1, ElemsRotate
    <2> QED BY <2>4, <2>5, <2>6, <2>7, <2>8, OwnedFrame
  <1> QED BY <1>1, <1>2, <1>3

\* A system call starts with no request.
LEMMA OwnedCall == ASSUME TypeInv, OwnedCore, SysCall PROVE OwnedCore'
  <1> USE DEF OwnedCore
  <1> PICK t \in Task, f \in File, ty \in Type,
           s \in {"open", "opening", "closing"}, l \in {"acc_lock", "alloc"} :
           Call(t, f, ty, s, l)
      BY CallForm
  <1>1. /\ UNCHANGED <<req, live, answer, queue>>
        /\ \A p \in Proc \ {t} : pc'[p] = pc[p] /\ acc'[p] = acc[p]
        /\ pc[t] = "idle" /\ pc'[t] \in {"acc_lock", "alloc"}
    BY DEF Call, Goto, tableVars, reqVars, TypeInv, TypeOK, Proc
  <1>2. LiveInv' BY <1>1 DEF LiveInv, HasReq, Proc
  <1>3. \A u \in Task : Pending(u) => Pending(u)' /\ acc'[u] = acc[u] /\ req'[u] = req[u]
    BY <1>1 DEF Pending, Queued, Proc
  <1>4. \A w \in Worker : pc'[w] = "complete" => pc[w] = "complete" /\ req'[w] = req[w]
    BY <1>1 DEF Proc
  <1> QED BY <1>1, <1>2, <1>3, <1>4, OwnedFrame DEF PendInv

\* A stuttering step changes nothing.
LEMMA OwnedStutter == ASSUME OwnedCore, UNCHANGED vars PROVE OwnedCore'
  <1> USE DEF vars, procVars, tableVars, reqVars, Pending
  <1>1. LiveInv' BY DEF OwnedCore, LiveInv
  <1>2. PendInv' BY DEF OwnedCore, PendInv
  <1>3. HeldInv' BY DEF OwnedCore, HeldInv
  <1> QED BY <1>1, <1>2, <1>3 DEF OwnedCore

\* Every step keeps requests with their tasks.
LEMMA OwnedStep ==
    ASSUME Reliable
    PROVE  TypeInv /\ SeqInv /\ OwnedCore /\ [Next]_vars => OwnedCore'
  BY OwnedAcc, OwnedSend, OwnedRecv, OwnedCall, OwnedStutter DEF Next

\* Every request in a queue is one that a task of that file waits for, or will,
\* and is there once; fo_complete completes only such requests, each once.  Any
\* number of tasks may share any number of files: a reply may complete another
\* task's request, but never one that fo_send has freed.
THEOREM RequestsOwned ==
    ASSUME Reliable
    PROVE  Spec => []OwnedRequests
  <1>1. TypeInv /\ OwnedCore => OwnedRequests
    <2> SUFFICES ASSUME TypeInv, OwnedCore PROVE OwnedRequests OBVIOUS
    <2>1. \A f \in File : \A i \in 1 .. Len(queue[f]) : queue[f][i] \in Elems(queue[f])
      BY DEF Elems
    <2>2. \A f \in File : \A i \in 1 .. Len(queue[f]) :
            \E t \in Task : acc[t] = f /\ Pending(t) /\ req[t] = queue[f][i]
      <3>1. \A f \in File : \A r \in Elems(queue[f]) :
              \E t \in Task : acc[t] = f /\ Pending(t) /\ req[t] = r
        BY DEF OwnedCore, PendInv
      <3> QED BY ONLY <2>1, <3>1
    <2>3. \A f \in File : \A i, j \in 1 .. Len(queue[f]) : queue[f][i] = queue[f][j] => i = j
      BY DEF OwnedCore, PendInv, Once
    <2>4. \A w \in Worker : pc[w] = "complete" =>
            /\ \E t \in Task : Pending(t) /\ req[t] = req[w]
            /\ \A f \in File : \A i \in 1 .. Len(queue[f]) : queue[f][i] # req[w]
            /\ \A x \in Worker : pc[x] = "complete" /\ req[x] = req[w] => x = w
      BY <2>1 DEF OwnedCore, HeldInv
    <2> QED BY <2>2, <2>3, <2>4 DEF OwnedRequests, Pending, Queued
  <1> QED BY TypeInit, OwnedInit, SeqInit, TypeStep, OwnedStep, SeqStep, <1>1, PTL
          DEF Spec

-----------------------------------------------------------------------------
(***************************************************************************)
(* Who may use a fo_access, when tasks share files but no task opens two of*)
(* them.  The argument: a reply may complete another request of its file,  *)
(* but for every reply on its way somebody waits (CountInv).  A file that  *)
(* is opened or released has one user (UseInv), so that no worker is at a  *)
(* file that is released, and the reply to an OPEN finds the one request   *)
(* of its file at the head of the queue (FirstInv): a worker destroys only *)
(* a fo_access that it has made itself, and that nobody else can find      *)
(* (HeldTableInv).                                                         *)
(***************************************************************************)

UsesAcc == {"alloc", "add", "add_in", "serialize", "read", "nlsend", "wait", "out",
            "destroy", "unhash"}

\* A fo_access's semaphore is held by whoever works on its queue.
SemInv ==
    \A a \in Acc : accsem[a] # None
        => acc[accsem[a]] = a /\ pc[accsem[a]] \in {"add_in", "pop"}

\* No task opens two files of this device; any number of tasks may share one.
OneFileEach == \A f, g \in File : Opener[f] = Opener[g] => f = g

\* Replies are handed over from one place to the next until one of these workers
\* completes a request with it, or gives up.
Under == Carrying \ {"complete"}

\* A request is answered, or taken up to be.
Done(t) == answer[req[t]] # None \/ Held(t)

\* Replies to the users of f, those workers have, the users whose request is
\* done before it was sent, and those that wait for it to be done.
Replies(f) == {m \in net : m.id = Opener[f]}
Carriers(f) == {w \in Worker : pc[w] \in Under /\ msg[w].id = Opener[f]}
Early(f) == {t \in Task : acc[t] = f /\ pc[t] \in {"serialize", "read", "nlsend"} /\ Done(t)}
Waiters(f) == {t \in Task : acc[t] = f /\ pc[t] = "wait" /\ ~Done(t)}

\* For every reply that is, or will be, on its way somebody waits.
CountInv ==
    /\ IsFiniteSet(net)
    /\ \A f \in File :
        Cardinality(Replies(f)) + Cardinality(Carriers(f)) + Cardinality(Early(f))
            <= Cardinality(Waiters(f))

\* What the VFS lets a task do with a file says how the file is.
StateOf == [ty \in Type |-> IF ty = "OPEN" THEN "opening"
                            ELSE IF ty = "IO" THEN "open" ELSE "closing"]

\* A file that is opened or released has one user.
UseInv ==
    /\ \A t \in Task : pc[t] # "idle" => fstate[acc[t]] = StateOf[type[t]]
    /\ \A t, u \in Task : pc[t] # "idle" /\ pc[u] # "idle" /\ acc[t] = acc[u] /\ type[t] # "IO"
                          => t = u
    /\ \A t \in Task : pc[t] \in {"acc_lock", "acc_add"} => type[t] = "OPEN"
    /\ \A t \in Task : pc[t] \in {"destroy", "unhash"} => type[t] = "RELEASE"

\* The reply to an OPEN is the one its sender waits for.
Opens(m) == m.type = "OPEN" =>
    /\ pc[m.from] = "wait" /\ type[m.from] = "OPEN"
    /\ m.id = Opener[acc[m.from]] /\ m.seq = rseq[req[m.from]]

OpenInv ==
    /\ \A m \in net : Opens(m)
    /\ \A w \in Worker : pc[w] \in Under => Opens(msg[w])

\* The request of an OPEN that is not done is alone in the queue of its file.
FirstInv ==
    \A t \in Task : pc[t] \in Queued /\ type[t] = "OPEN" /\ ~Done(t)
                    => queue[acc[t]] = << req[t] >>

\* What is in the table for whom.
HeldTableInv ==
    /\ \A t \in Task : pc[t] \in UsesAcc => acc[t] \in htable
    /\ \A f \in File : fstate[f] = "open" => f \in htable
    /\ \A w \in Worker : w \in htable
            => acc[w] = w /\ pc[w] \in {"q_lock", "pop", "destroy", "unhash"}
    /\ \A w \in Worker : pc[w] \in {"q_lock", "pop"}
            => /\ acc[w] \in htable
               /\ acc[w] = w \/ (acc[w] \in File /\ Opener[acc[w]] = msg[w].id)
    /\ \A w \in Worker : pc[w] \in {"destroy", "unhash"} => acc[w] = w /\ w \in htable
    /\ \A w \in Worker : pc[w] \in {"acc_lock", "acc_add"} => acc[w] = w
    /\ \A w \in Worker : /\ pc[w] \in Under \ {"find", "scan"}
                         /\ acc[w] = w
                         => msg[w].type = "OPEN"

SharedCore == UseInv /\ CountInv /\ OpenInv /\ FirstInv /\ HeldTableInv /\ SemInv

\* The sets that are counted are finite.
LEMMA CountFinite ==
    ASSUME IsFiniteSet(net), NEW f \in File
    PROVE  /\ IsFiniteSet(Replies(f)) /\ IsFiniteSet(Carriers(f))
           /\ IsFiniteSet(Early(f)) /\ IsFiniteSet(Waiters(f))
           /\ Cardinality(Replies(f)) \in Nat /\ Cardinality(Carriers(f)) \in Nat
           /\ Cardinality(Early(f)) \in Nat /\ Cardinality(Waiters(f)) \in Nat
  <1>1. /\ Replies(f) \subseteq net /\ Carriers(f) \subseteq Worker
        /\ Early(f) \subseteq Task /\ Waiters(f) \subseteq Task
    BY DEF Replies, Carriers, Early, Waiters
  <1> QED BY <1>1, FiniteAssumption, FS_Subset, FS_CardinalityType

\* If a reply to a user of f is on its way then somebody waits for one.
LEMMA SomeWaiter ==
    ASSUME CountInv, NEW f \in File, Replies(f) # {} \/ Carriers(f) # {}
    PROVE  \E t \in Task : acc[t] = f /\ pc[t] = "wait" /\ ~Done(t)
  <1>1. IsFiniteSet(net) BY DEF CountInv
  <1>2. /\ Cardinality(Replies(f)) \in Nat /\ Cardinality(Carriers(f)) \in Nat
        /\ Cardinality(Early(f)) \in Nat /\ Cardinality(Waiters(f)) \in Nat
    BY <1>1, CountFinite
  <1>3. Cardinality(Replies(f)) # 0 \/ Cardinality(Carriers(f)) # 0
    BY <1>1, CountFinite, FS_EmptySet
  <1>4. Cardinality(Waiters(f)) # 0 BY <1>2, <1>3 DEF CountInv
  <1>5. Waiters(f) # {} BY <1>4, FS_EmptySet
  <1> QED BY <1>5 DEF Waiters

\* If all who wait are one task then one reply at most is under work.
LEMMA OneReply ==
    ASSUME CountInv, NEW f \in File, NEW t, Waiters(f) \subseteq {t},
           NEW w \in Carriers(f), NEW x \in Carriers(f)
    PROVE  w = x
  <1>1. IsFiniteSet(net) BY DEF CountInv
  <1>2. /\ Cardinality(Replies(f)) \in Nat /\ Cardinality(Carriers(f)) \in Nat
        /\ Cardinality(Early(f)) \in Nat /\ Cardinality(Waiters(f)) \in Nat
        /\ IsFiniteSet(Carriers(f))
    BY <1>1, CountFinite
  <1>3. Cardinality({t}) = 1 /\ IsFiniteSet({t}) BY FS_Singleton
  <1>4. Cardinality(Waiters(f)) <= 1 BY <1>3, FS_Subset
  <1>5. Cardinality(Carriers(f)) <= 1 BY <1>2, <1>4 DEF CountInv
  <1>6. SUFFICES ASSUME w # x PROVE FALSE OBVIOUS
  <1> DEFINE C == Carriers(f) \ {w}
  <1>7. IsFiniteSet(C) /\ Cardinality(C) = Cardinality(Carriers(f)) - 1
    BY <1>2, FS_RemoveElement
  <1>8. Cardinality(C) \in Nat /\ C # {} BY <1>6, <1>7, FS_CardinalityType
  <1>9. Cardinality(C) # 0 BY <1>7, <1>8, FS_EmptySet
  <1> QED BY <1>2, <1>5, <1>7, <1>8, <1>9

\* A step that adds no reply and no early request, and after which those who
\* waited still do, keeps the balance of a file.
LEMMA CountFrame ==
    ASSUME CountInv, IsFiniteSet(net'),
           \A f \in File : /\ Replies(f)' \subseteq Replies(f)
                           /\ Carriers(f)' \subseteq Carriers(f)
                           /\ Early(f)' \subseteq Early(f)
                           /\ Waiters(f) \subseteq Waiters(f)'
    PROVE  CountInv'
  <1> SUFFICES ASSUME NEW f \in File
               PROVE  Cardinality(Replies(f)') + Cardinality(Carriers(f)') + Cardinality(Early(f)')
                        <= Cardinality(Waiters(f)')
      BY DEF CountInv
  <1>1. /\ IsFiniteSet(Replies(f)) /\ IsFiniteSet(Carriers(f)) /\ IsFiniteSet(Early(f))
        /\ Cardinality(Replies(f)) \in Nat /\ Cardinality(Carriers(f)) \in Nat
        /\ Cardinality(Early(f)) \in Nat /\ Cardinality(Waiters(f)) \in Nat
    BY CountFinite DEF CountInv
  <1>2. Waiters(f)' \subseteq Task BY DEF Waiters
  <1>3. IsFiniteSet(Waiters(f)') /\ Cardinality(Waiters(f)') \in Nat
    BY <1>2, FiniteAssumption, FS_Subset, FS_CardinalityType
  <1>4. /\ Cardinality(Replies(f)') <= Cardinality(Replies(f)) /\ Cardinality(Replies(f)') \in Nat
        /\ Cardinality(Carriers(f)') <= Cardinality(Carriers(f)) /\ Cardinality(Carriers(f)') \in Nat
        /\ Cardinality(Early(f)') <= Cardinality(Early(f)) /\ Cardinality(Early(f)') \in Nat
        /\ Cardinality(Waiters(f)) <= Cardinality(Waiters(f)')
    BY <1>1, <1>3, FS_Subset, FS_CardinalityType
  <1>5. Cardinality(Replies(f)) + Cardinality(Carriers(f)) + Cardinality(Early(f))
            <= Cardinality(Waiters(f))
    BY DEF CountInv
  <1> DEFINE a == Cardinality(Replies(f))
             b == Cardinality(Carriers(f))
             c == Cardinality(Early(f))
             d == Cardinality(Waiters(f))
             x == Cardinality(Replies(f)')
             y == Cardinality(Carriers(f)')
             z == Cardinality(Early(f)')
             v == Cardinality(Waiters(f)')
  <1> HIDE DEF a, b, c, d, x, y, z, v
  <1>6. /\ {a, b, c, d, x, y, z, v} \subseteq Nat /\ x <= a /\ y <= b /\ z <= c /\ d <= v
        /\ a + b + c <= d
    BY <1>1, <1>3, <1>4, <1>5 DEF a, b, c, d, x, y, z, v
  <1>7. x + y + z <= v BY ONLY <1>6
  <1> QED BY <1>7 DEF x, y, z, v

\* Initially nothing is under way.
LEMMA SharedInit == Init => SharedCore
  <1> SUFFICES ASSUME Init PROVE SharedCore OBVIOUS
  <1>1. UseInv BY DEF Init, UseInv, Proc
  <1>2. CountInv
    <2>1. IsFiniteSet(net) BY FS_EmptySet DEF Init
    <2>2. ASSUME NEW f \in File
          PROVE  Replies(f) = {} /\ Carriers(f) = {} /\ Early(f) = {} /\ Waiters(f) = {}
      BY DEF Init, Replies, Carriers, Early, Waiters, Under, Carrying, Proc
    <2> QED BY <2>1, <2>2, FS_EmptySet DEF CountInv
  <1>3. OpenInv /\ FirstInv
    BY DEF Init, OpenInv, FirstInv, Under, Carrying, Queued, Proc
  <1>4. HeldTableInv /\ SemInv
    BY DEF Init, HeldTableInv, SemInv, UsesAcc, Under, Carrying, Proc, Acc
  <1> QED BY <1>1, <1>2, <1>3, <1>4 DEF SharedCore

\* Whether a request is done changes only with its answer or the workers that
\* complete one.
LEMMA DoneFrame ==
    ASSUME \A w \in Worker : pc'[w] = "complete" <=> pc[w] = "complete",
           \A w \in Worker : pc[w] = "complete" => req'[w] = req[w],
           NEW t \in Task, req'[t] = req[t], answer'[req[t]] = answer[req[t]]
    PROVE  Done(t)' <=> Done(t)
  <1>1. Held(t)' <=> Held(t) BY DEF Held
  <1> QED BY <1>1 DEF Done

\* A request that is not in its queue yet is not done.
LEMMA NotDone ==
    ASSUME OwnedCore, NEW t \in Task, pc[t] \in {"add", "add_in"}
    PROVE  ~Done(t)
  <1>1. answer[req[t]] = None BY DEF OwnedCore, LiveInv
  <1>2. ASSUME NEW w \in Worker, pc[w] = "complete", req[w] = req[t] PROVE FALSE
    <2>1. PICK u \in Task : Pending(u) /\ req[u] = req[w] BY <1>2 DEF OwnedCore, HeldInv
    <2>2. u = t BY <1>2, <2>1 DEF OwnedCore, LiveInv, Pending, Queued, HasReq
    <2> QED BY <2>1, <2>2 DEF Pending, Queued
  <1> QED BY <1>1, <1>2 DEF Done, Held

\* A task that opens or releases a file is the only one that works on it.
LEMMA SoleUser ==
    ASSUME UseInv, NEW t \in Task, pc[t] # "idle", type[t] # "IO",
           NEW u \in Task, pc[u] # "idle", acc[u] = acc[t]
    PROVE  u = t
  BY DEF UseInv

\* While a worker has a reply to a user of f, one of them waits; so nobody
\* is releasing f, or opening it without having sent the request.
LEMMA CarrierWaiter ==
    ASSUME SharedCore, NEW w \in Worker, pc[w] \in Under, NEW f \in File,
           msg[w].id = Opener[f]
    PROVE  /\ \E u \in Task : acc[u] = f /\ pc[u] = "wait" /\ ~Done(u)
           /\ \A t \in Task : pc[t] # "idle" /\ acc[t] = f /\ type[t] # "IO" => pc[t] = "wait" /\ ~Done(t)
  <1>1. w \in Carriers(f) BY DEF Carriers
  <1>2. PICK u \in Task : acc[u] = f /\ pc[u] = "wait" /\ ~Done(u)
    BY <1>1, SomeWaiter DEF SharedCore
  <1>3. ASSUME NEW t \in Task, pc[t] # "idle", acc[t] = f, type[t] # "IO" PROVE u = t
    BY <1>2, <1>3, SoleUser DEF SharedCore
  <1> QED BY <1>2, <1>3

\* Two workers never have replies to the one user of a file.
LEMMA OneCarrier ==
    ASSUME SharedCore, NEW w \in Worker, pc[w] \in Under, NEW x \in Worker, pc[x] \in Under,
           NEW f \in File, msg[w].id = Opener[f], msg[x].id = Opener[f],
           NEW t \in Task, pc[t] # "idle", acc[t] = f, type[t] # "IO"
    PROVE  w = x
  <1>1. w \in Carriers(f) /\ x \in Carriers(f) BY DEF Carriers
  <1>2. Waiters(f) \subseteq {t}
    <2>1. ASSUME NEW u \in Waiters(f) PROVE u = t
      <3>1. u \in Task /\ acc[u] = f /\ pc[u] = "wait" BY DEF Waiters
      <3> QED BY <3>1, SoleUser DEF SharedCore
    <2> QED BY <2>1
  <1> QED BY <1>1, <1>2, OneReply DEF SharedCore

\* The sender of the OPEN that a worker has the reply to.
LEMMA OpenSender ==
    ASSUME TypeInv, SharedCore, NEW w \in Worker, pc[w] \in Under, msg[w].type = "OPEN"
    PROVE  /\ msg[w].from \in Task /\ pc[msg[w].from] = "wait" /\ type[msg[w].from] = "OPEN"
           /\ acc[msg[w].from] \in File /\ msg[w].id = Opener[acc[msg[w].from]]
           /\ msg[w].seq = rseq[req[msg[w].from]] /\ ~Done(msg[w].from)
  <1>1. msg[w] \in Msg BY DEF TypeInv, HandInv, Under, Carrying
  <1>2. msg[w].from \in Task BY <1>1 DEF Msg
  <1> DEFINE u == msg[w].from
  <1>3. /\ pc[u] = "wait" /\ type[u] = "OPEN" /\ msg[w].id = Opener[acc[u]]
        /\ msg[w].seq = rseq[req[u]]
    BY DEF SharedCore, OpenInv, Opens
  <1>4. acc[u] \in File BY <1>2, <1>3 DEF TypeInv, HandInv
  <1> HIDE DEF u
  <1>5. ~Done(u) BY <1>2, <1>3, <1>4, CarrierWaiter DEF u
  <1> QED BY <1>2, <1>3, <1>4, <1>5 DEF u

\* A task that opens a file finds its semaphore free.
LEMMA OpenAddFree ==
    ASSUME TypeInv, SharedCore, NEW t \in Task, pc[t] = "add", type[t] = "OPEN"
    PROVE  accsem[acc[t]] = None
  <1>1. acc[t] \in File BY DEF TypeInv, HandInv
  <1> SUFFICES ASSUME accsem[acc[t]] # None PROVE FALSE OBVIOUS
  <1> PICK p \in Proc : p = accsem[acc[t]]
      BY <1>1 DEF TypeInv, TypeOK, Acc
  <1>2. acc[p] = acc[t] /\ pc[p] \in {"add_in", "pop"}
    BY <1>1 DEF SharedCore, SemInv, Acc
  <1>3. CASE p \in Task
    <2>1. pc[p] = "add_in" BY <1>2, <1>3 DEF TypeInv, TypeOK, TaskPc
    <2>2. p = t BY <1>2, <1>3, <2>1, SoleUser DEF SharedCore
    <2> QED BY <2>1, <2>2
  <1>4. CASE p \in Worker
    <2>1. pc[p] = "pop" BY <1>2, <1>4 DEF TypeInv, TypeOK, WorkerPc
    <2>2. Opener[acc[p]] = msg[p].id /\ pc[p] \in Under
      BY <1>1, <1>2, <1>4, <2>1 DEF SharedCore, HeldTableInv, Under, Carrying
    <2> QED BY <1>1, <1>2, <1>4, <2>2, CarrierWaiter
  <1> QED BY <1>3, <1>4 DEF Proc

\* The worker that searches the queue of a file for the request of an OPEN
\* finds it at the head.
LEMMA OpenAtHead ==
    ASSUME OneFileEach, TypeInv, SharedCore, NEW w \in Worker, pc[w] = "pop",
           acc[w] \in File, msg[w].type = "OPEN"
    PROVE  HeadMatches(w)
  <1> DEFINE u == msg[w].from
  <1>0. pc[w] \in Under BY DEF Under, Carrying
  <1>1. /\ u \in Task /\ pc[u] = "wait" /\ type[u] = "OPEN"
        /\ acc[u] \in File /\ msg[w].id = Opener[acc[u]]
        /\ msg[w].seq = rseq[req[u]] /\ ~Done(u)
    BY <1>0, OpenSender
  <1>2. Opener[acc[w]] = msg[w].id BY DEF SharedCore, HeldTableInv
  <1> HIDE DEF u
  <1>3. acc[w] = acc[u] BY <1>1, <1>2 DEF OneFileEach
  <1>4. queue[acc[w]] = << req[u] >> BY <1>1, <1>3 DEF SharedCore, FirstInv, Queued
  <1> QED BY <1>1, <1>4 DEF HeadMatches

\* Nobody else holds the semaphore it needs for that.
LEMMA OpenSearchFree ==
    ASSUME OneFileEach, TypeInv, SharedCore, NEW w \in Worker, pc[w] = "q_lock",
           msg[w].type = "OPEN"
    PROVE  accsem[acc[w]] = None
  <1> DEFINE u == msg[w].from
  <1>0. pc[w] \in Under BY DEF Under, Carrying
  <1>1. /\ u \in Task /\ pc[u] = "wait" /\ type[u] = "OPEN"
        /\ acc[u] \in File /\ msg[w].id = Opener[acc[u]]
    BY <1>0, OpenSender
  <1> HIDE DEF u
  <1>2. \/ acc[w] = w
        \/ acc[w] \in File /\ acc[w] = acc[u]
    BY <1>1 DEF SharedCore, HeldTableInv, OneFileEach
  <1> SUFFICES ASSUME accsem[acc[w]] # None PROVE FALSE OBVIOUS
  <1>3. acc[w] \in Acc BY <1>2 DEF Acc
  <1> PICK p \in Proc : p = accsem[acc[w]]
      BY <1>3 DEF TypeInv, TypeOK
  <1>4. acc[p] = acc[w] /\ pc[p] \in {"add_in", "pop"}
    BY <1>3 DEF SharedCore, SemInv
  <1>5. CASE p \in Task
    <2>1. pc[p] = "add_in" /\ acc[p] \in File BY <1>4, <1>5 DEF TypeInv, TypeOK, HandInv, TaskPc
    <2>2. acc[p] = acc[u] BY <1>2, <1>4, <2>1
    <2>3. p = u BY <1>1, <1>5, <2>1, <2>2, SoleUser DEF SharedCore
    <2> QED BY <1>1, <2>1, <2>3
  <1>6. CASE p \in Worker
    <2>1. pc[p] = "pop" /\ p # w /\ pc[p] \in Under
      BY <1>4, <1>6 DEF TypeInv, TypeOK, WorkerPc, Under, Carrying
    <2>2. acc[p] = p \/ (acc[p] \in File /\ Opener[acc[p]] = msg[p].id)
      BY <1>6, <2>1 DEF SharedCore, HeldTableInv
    <2>3. acc[p] = acc[u] /\ Opener[acc[u]] = msg[p].id
      BY <1>2, <1>4, <1>6, <2>1, <2>2
    <2> QED BY <1>0, <1>1, <1>6, <2>1, <2>3, OneCarrier
  <1> QED BY <1>5, <1>6 DEF Proc

\* fo_acc_start and fo_acc_destroy work on the fo_access of the task that opens
\* or releases a file, or on that of the worker itself.
LEMMA SharedAcc ==
    ASSUME TypeInv, OwnedCore, SharedCore, NEW p \in Proc, AccStep(p)
    PROVE  SharedCore'
  <1>1. /\ UNCHANGED <<req, type, net, answer, rseq>>
        /\ \A q \in Proc \ {p} : pc'[q] = pc[q] /\ acc'[q] = acc[q]
        /\ \A w \in Worker \ {p} : msg'[w] = msg[w]
        /\ \/ pc[p] = "acc_lock" /\ pc'[p] \in {"acc_add", "idle"}
           \/ pc[p] = "acc_add" /\ pc'[p] = IF p \in Task THEN "alloc" ELSE "q_lock"
           \/ pc[p] = "destroy" /\ pc'[p] \in {"destroy", "unhash"}
           \/ pc[p] = "unhash" /\ pc'[p] = IF p \in Task THEN "idle" ELSE "put"
        /\ pc'[p] \notin {"idle", "put"} =>
              /\ acc'[p] = acc[p] /\ fstate' = fstate
              /\ p \in Worker => msg'[p] = msg[p]
    BY DEF AccStep, AccStartLock, AccStartFail, AccStartAdd, DestroyBlock, DestroyLock,
           Unhash, Goto, procVars, reqVars, TypeInv, TypeOK
  <1>2. \A a \in Acc : queue'[a] = queue[a] \/ (a = acc[p] /\ pc[p] \in {"acc_add", "unhash"})
    BY DEF AccStep, AccStartLock, AccStartFail, AccStartAdd, DestroyBlock, DestroyLock,
           Unhash, tableVars, TypeInv, TypeOK
  <1>3. fstate' = fstate \/ (p \in Task /\ pc'[p] = "idle" /\ pc[p] # "idle" /\ fstate' = [fstate EXCEPT ![acc[p]] = "closed"])
    BY DEF AccStep, AccStartLock, AccStartFail, AccStartAdd, DestroyBlock, DestroyLock,
           Unhash, Goto, procVars, TypeInv, TypeOK
  <1>4. \A t \in Task : Done(t)' <=> Done(t)
    <2>1. \A w \in Worker : /\ pc'[w] = "complete" <=> pc[w] = "complete"
                            /\ req'[w] = req[w]
      BY <1>1 DEF Proc
    <2> QED BY <1>1, <2>1, DoneFrame
  <1>5. p \in Task /\ pc'[p] # pc[p] => type[p] # "IO" /\ pc[p] # "idle" /\ acc[p] \in File
    BY <1>1 DEF SharedCore, UseInv, TypeInv, HandInv
  <1>6. \A t \in Task : p \in Task /\ pc'[p] # pc[p] /\ pc[t] # "idle" /\ acc[t] = acc[p] => t = p
    BY <1>5, SoleUser DEF SharedCore
  <1>7. UseInv'
    <2>1. \A t \in Task : pc'[t] # "idle" => pc[t] # "idle" /\ acc'[t] = acc[t]
      BY <1>1 DEF Proc
    <2>2. \A t \in Task : pc'[t] # "idle" => fstate'[acc[t]] = fstate[acc[t]]
      <3> SUFFICES ASSUME NEW t \in Task, pc'[t] # "idle", fstate' # fstate
                   PROVE  fstate'[acc[t]] = fstate[acc[t]]
          OBVIOUS
      <3>1. /\ p \in Task /\ pc'[p] # pc[p] /\ pc'[p] = "idle"
            /\ fstate' = [fstate EXCEPT ![acc[p]] = "closed"]
        BY <1>3
      <3>2. t # p /\ acc[t] # acc[p] BY <1>6, <2>1, <3>1
      <3> QED BY <3>1, <3>2
    <2> QED BY <1>1, <2>1, <2>2 DEF SharedCore, UseInv, Proc
  <1>8. CountInv'
    <2>1. \A f \in File : Replies(f)' = Replies(f) BY <1>1 DEF Replies
    <2>2. \A f \in File : Carriers(f)' \subseteq Carriers(f)
      BY <1>1 DEF Carriers, Under, Carrying, Proc
    <2>3. \A t \in Task : pc'[t] \in Queued <=> pc[t] \in Queued BY <1>1 DEF Queued, Proc
    <2>4. \A t \in Task : pc[t] \in Queued => pc'[t] = pc[t] /\ acc'[t] = acc[t]
      BY <1>1 DEF Queued, Proc
    <2>5. \A f \in File : Early(f)' \subseteq Early(f)
      BY <1>4, <2>3, <2>4 DEF Early, Queued
    <2>6. \A f \in File : Waiters(f) \subseteq Waiters(f)'
      BY <1>4, <2>4 DEF Waiters, Queued
    <2>7. IsFiniteSet(net') BY <1>1 DEF SharedCore, CountInv
    <2> QED BY <2>1, <2>2, <2>5, <2>6, <2>7, CountFrame DEF SharedCore
  <1>9. OpenInv'
    <2>1. \A m : m.from \in Task /\ Opens(m) => Opens(m)'
      BY <1>1 DEF Opens, Proc
    <2>2. \A m \in net : m.from \in Task BY DEF TypeInv, TypeOK, Msg
    <2>3. \A w \in Worker : pc'[w] \in Under => /\ pc[w] \in Under /\ msg'[w] = msg[w]
                                                /\ msg[w].from \in Task
      BY <1>1 DEF Under, Carrying, TypeInv, HandInv, Msg, Proc
    <2> QED BY <1>1, <2>1, <2>2, <2>3 DEF SharedCore, OpenInv
  <1>10. FirstInv'
    <2> SUFFICES ASSUME NEW t \in Task, pc'[t] \in Queued, type'[t] = "OPEN", ~Done(t)'
                 PROVE  queue'[acc'[t]] = << req'[t] >>
        BY DEF FirstInv
    <2>1. pc[t] = pc'[t] /\ acc'[t] = acc[t] /\ type[t] = "OPEN" /\ ~Done(t) /\ pc[t] \in Queued
      BY <1>1, <1>4 DEF Queued, Proc
    <2>2. queue[acc[t]] = << req[t] >> /\ acc[t] \in File /\ pc[t] # "idle"
      BY <2>1 DEF SharedCore, FirstInv, TypeInv, HandInv, Queued
    <2>3. acc[t] # acc[p] \/ pc[p] \notin {"acc_add", "unhash"}
      <3> SUFFICES ASSUME acc[t] = acc[p], pc[p] \in {"acc_add", "unhash"} PROVE FALSE
          OBVIOUS
      <3>1. CASE p \in Task
        <4>1. type[p] # "IO" /\ pc[p] # "idle" BY <3>1 DEF SharedCore, UseInv
        <4>2. t = p BY <2>2, <3>1, <4>1, SoleUser DEF SharedCore
        <4> QED BY <2>1, <4>2 DEF Queued
      <3>2. CASE p \in Worker
        <4>1. acc[p] = p BY <3>2 DEF SharedCore, HeldTableInv
        <4> QED BY <2>2, <3>2, <4>1
      <3> QED BY <3>1, <3>2 DEF Proc
    <2> QED BY <1>1, <1>2, <2>1, <2>2, <2>3 DEF Acc
  <1>11. HeldTableInv'
    <2>1. CASE AccStartAdd(p)
      <3>1. /\ htable' = htable \cup {acc[p]} /\ pc[p] = "acc_add" /\ UNCHANGED <<acc, msg, fstate>>
            /\ pc'[p] = IF p \in Task THEN "alloc" ELSE "q_lock"
        BY <2>1 DEF AccStartAdd, Goto, TypeInv, TypeOK
      <3>2. CASE p \in Task
        <4>1. acc[p] \in File BY <3>1, <3>2 DEF TypeInv, HandInv
        <4>2. \A w \in Worker : pc'[w] = pc[w] BY <1>1, <3>2 DEF Proc
        <4> QED BY <1>1, <3>1, <3>2, <4>1, <4>2 DEF SharedCore, HeldTableInv, UsesAcc, Proc
      <3>3. CASE p \in Worker
        <4>1. acc[p] = p /\ pc[p] \in Under /\ pc'[p] = "q_lock"
          BY <3>1, <3>3 DEF SharedCore, HeldTableInv, Under, Carrying
        <4>2. \A t \in Task : pc'[t] = pc[t] BY <1>1, <3>3 DEF Proc
        <4> QED BY <1>1, <3>1, <3>3, <4>1, <4>2
                DEF SharedCore, HeldTableInv, UsesAcc, Under, Carrying, Proc
      <3> QED BY <3>2, <3>3 DEF Proc
    <2>2. CASE Unhash(p)
      <3>1. /\ htable' = htable \ {acc[p]} /\ pc[p] = "unhash" /\ UNCHANGED msg
            /\ pc'[p] = IF p \in Task THEN "idle" ELSE "put"
            /\ fstate' = IF p \in Task THEN [fstate EXCEPT ![acc[p]] = "closed"] ELSE fstate
        BY <2>2 DEF Unhash, Goto, TypeInv, TypeOK
      <3>2. CASE p \in Task
        <4>1. acc[p] \in File /\ type[p] # "IO" /\ pc[p] # "idle"
          BY <3>1, <3>2 DEF TypeInv, HandInv, SharedCore, UseInv
        <4>2. \A w \in Worker : pc'[w] = pc[w] /\ acc'[w] = acc[w] BY <1>1, <3>2 DEF Proc
        <4>3. \A w \in Worker : pc[w] \in {"q_lock", "pop"} => acc[w] # acc[p]
          <5> SUFFICES ASSUME NEW w \in Worker, pc[w] \in {"q_lock", "pop"}, acc[w] = acc[p]
                       PROVE  FALSE
              OBVIOUS
          <5>1. Opener[acc[p]] = msg[w].id /\ pc[w] \in Under
            BY <4>1 DEF SharedCore, HeldTableInv, Under, Carrying
          <5>2. pc[p] = "wait" BY <3>2, <4>1, <5>1, CarrierWaiter
          <5> QED BY <3>1, <5>2
        <4>4. \A t \in Task : pc'[t] \in UsesAcc => /\ pc[t] \in UsesAcc /\ acc'[t] = acc[t]
                                                    /\ acc[t] # acc[p]
          BY <1>1, <1>6, <3>1, <3>2 DEF UsesAcc, Proc
        <4>5. \A f \in File : fstate'[f] = "open" => fstate[f] = "open" /\ f # acc[p]
          BY <3>1, <3>2, <4>1 DEF TypeInv, TypeOK
        <4> QED BY <3>1, <3>2, <4>1, <4>2, <4>3, <4>4, <4>5
                DEF SharedCore, HeldTableInv, Under, Carrying
      <3>3. CASE p \in Worker
        <4>1. acc[p] = p /\ p \notin File /\ pc'[p] = "put"
          BY <3>1, <3>3 DEF SharedCore, HeldTableInv
        <4>2. \A t \in Task : pc'[t] = pc[t] /\ acc'[t] = acc[t] BY <1>1, <3>3 DEF Proc
        <4>3. \A t \in Task : pc[t] \in UsesAcc => acc[t] # p
          BY <3>3 DEF TypeInv, HandInv, UsesAcc
        <4>4. \A w \in Worker : pc'[w] # "put" => w # p /\ pc'[w] = pc[w] /\ acc'[w] = acc[w]
          BY <1>1, <4>1 DEF Proc
        <4>5. \A w \in Worker : w # p => pc'[w] = pc[w] /\ acc'[w] = acc[w] BY <1>1 DEF Proc
        <4> QED BY <3>1, <3>3, <4>1, <4>2, <4>3, <4>4, <4>5
                DEF SharedCore, HeldTableInv, Under, Carrying
      <3> QED BY <3>2, <3>3 DEF Proc
    <2>3. CASE ~AccStartAdd(p) /\ ~Unhash(p)
      <3>1. /\ htable' = htable
            /\ \/ pc'[p] \in {"acc_add", "idle"} /\ pc[p] = "acc_lock"
               \/ pc[p] = "destroy" /\ pc'[p] \in {"destroy", "unhash"}
            /\ pc'[p] # "idle" => acc'[p] = acc[p]
        BY <2>3 DEF AccStep, AccStartLock, AccStartFail, DestroyBlock, DestroyLock,
               Goto, procVars, tableVars, TypeInv, TypeOK
      <3>2. \A t \in Task : pc'[t] \in UsesAcc => pc[t] \in UsesAcc /\ acc'[t] = acc[t]
        BY <1>1, <3>1 DEF UsesAcc, Proc
      <3>3. \A f \in File : fstate'[f] = "open" => fstate[f] = "open"
        BY <1>3 DEF TypeInv, TypeOK
      <3>4. \A w \in Worker : pc'[w] # "idle" => msg'[w] = msg[w] /\ acc'[w] = acc[w]
        BY <1>1, <3>1 DEF Proc
      <3>5. \A w \in Worker : w \in htable => pc'[w] # "idle"
        BY <1>1, <3>1 DEF SharedCore, HeldTableInv, Proc
      <3>6. \A w \in Worker : \/ pc'[w] = pc[w]
                              \/ pc[w] = "acc_lock" /\ pc'[w] \in {"acc_add", "idle"}
                              \/ pc[w] = "destroy" /\ pc'[w] = "unhash"
        BY <1>1, <3>1 DEF Proc
      <3> QED BY <3>1, <3>2, <3>3, <3>4, <3>5, <3>6
              DEF SharedCore, HeldTableInv, Under, Carrying
    <2> QED BY <2>1, <2>2, <2>3
  <1>12. SemInv'
    <2>1. \A a \in Acc : accsem'[a] = accsem[a] \/ accsem'[a] = None
      BY DEF AccStep, AccStartLock, AccStartFail, AccStartAdd, DestroyBlock, DestroyLock,
             Unhash, lockVars, TypeInv, TypeOK
    <2>2. \A q \in Proc : pc[q] \in {"add_in", "pop"} => pc'[q] = pc[q] /\ acc'[q] = acc[q]
      <3>1. pc[p] \notin {"add_in", "pop"} BY <1>1
      <3> QED BY <1>1, <3>1
    <2>3. \A a \in Acc : accsem[a] \in Proc \cup {None} BY DEF TypeInv, TypeOK
    <2> QED BY <2>1, <2>2, <2>3 DEF SharedCore, SemInv, Acc, Proc
  <1> QED BY <1>7, <1>8, <1>9, <1>10, <1>11, <1>12 DEF SharedCore

\* Where a task can be after a step of fo_send, and what else changed.
LEMMA SendEffect ==
    ASSUME Reliable, SeqInv, TypeInv, NEW t \in Task, FoSendStep(t)
    PROVE  /\ UNCHANGED <<type, msg, htable>>
           /\ \A q \in Proc \ {t} : pc'[q] = pc[q] /\ acc'[q] = acc[q] /\ req'[q] = req[q]
           /\ \/ FoSendAlloc(t) /\ pc[t] = "alloc" /\ pc'[t] = "add"
              \/ ForeqAddLock(t) /\ pc[t] = "add" /\ pc'[t] = "add_in"
              \/ ForeqAddFail(t) /\ pc[t] = "add" /\ pc'[t] = "serialize"
              \/ ForeqAdd(t) /\ pc[t] = "add_in" /\ pc'[t] = "serialize"
              \/ IncSeq(t) /\ pc[t] = "serialize" /\ pc'[t] = "read"
              \/ ReadSeq(t) /\ pc[t] = "read" /\ pc'[t] = "nlsend"
              \/ NlSend(t) /\ pc[t] = "nlsend" /\ pc'[t] = "wait"
              \/ FoSendWake(t) /\ pc[t] = "wait" /\ pc'[t] = "out" /\ answer[req[t]] # None
              \/ FoSendOut(t) /\ pc[t] = "out"
                   /\ pc'[t] = (IF type[t] = "RELEASE" THEN "destroy" ELSE "idle")
           /\ ~FoSendOut(t) => acc' = acc /\ fstate' = fstate
           /\ ~FoSendOut(t) /\ ~FoSendAlloc(t) => UNCHANGED <<req, answer>>
           /\ ~NlSend(t) => net' = net
           /\ ~ForeqAdd(t) => queue' = queue
           /\ ~FoSendAlloc(t) /\ ~ReadSeq(t) => rseq' = rseq
           /\ ~ForeqAddLock(t) /\ ~ForeqAdd(t) => accsem' = accsem
  <1> USE DEF TypeInv, TypeOK, Proc, Goto, tableVars, lockVars, reqVars
  <1>1. CASE FoSendAlloc(t) BY <1>1 DEF FoSendAlloc, ForeqAddLock, ForeqAdd
  <1>2. ~FoSendAllocFail(t) /\ ~FoSendFail(t)
    BY DEF FoSendAllocFail, FoSendFail, Reliable
  <1>3. CASE ForeqAddLock(t) BY <1>3 DEF ForeqAddLock
  <1>4. CASE ForeqAddFail(t) BY <1>4 DEF ForeqAddFail
  <1>5. CASE ForeqAdd(t) BY <1>5 DEF ForeqAdd
  <1>6. CASE IncSeq(t) BY <1>6 DEF IncSeq
  <1>7. CASE ReadSeq(t) BY <1>7 DEF ReadSeq, SeqInv
  <1>8. CASE NlSend(t) BY <1>8 DEF NlSend
  <1>9. CASE FoSendWake(t) BY <1>9 DEF FoSendWake
  <1>10. CASE FoSendOut(t) BY <1>10 DEF FoSendOut
  <1> QED BY <1>1, <1>2, <1>3, <1>4, <1>5, <1>6, <1>7, <1>8, <1>9, <1>10
          DEF FoSendStep

\* fo_send does not change whether the requests in the queues are done.
LEMMA SendDone ==
    ASSUME Reliable, SeqInv, TypeInv, OwnedCore, NEW t \in Task, FoSendStep(t),
           NEW u \in Task, pc[u] \in HasReq, u # t \/ (~FoSendOut(t) /\ ~FoSendAlloc(t))
    PROVE  /\ Done(u)' <=> Done(u)
           /\ req'[u] = req[u] /\ answer'[req[u]] = answer[req[u]]
           /\ ~ReadSeq(t) \/ u # t => rseq'[req[u]] = rseq[req[u]]
  <1>1. req'[u] = req[u]
    BY SendEffect DEF Proc
  <1>2. answer'[req[u]] = answer[req[u]] /\ (~ReadSeq(t) \/ u # t => rseq'[req[u]] = rseq[req[u]])
    <2>1. CASE FoSendAlloc(t)
      <3>1. u # t BY <2>1
      <3>2. PICK r \in Req \ live, s \in Seq32 :
              answer' = [answer EXCEPT ![r] = None] /\ rseq' = [rseq EXCEPT ![r] = s]
        BY ONLY <2>1, Zenon DEF FoSendAlloc
      <3>3. req[u] # r BY <3>2 DEF OwnedCore, LiveInv
      <3> QED BY <3>2, <3>3 DEF TypeInv, TypeOK
    <2>2. CASE ReadSeq(t)
      <3>1. /\ rseq' = [rseq EXCEPT ![req[t]] = curseq] /\ answer' = answer
            /\ pc[t] = "read"
        BY <2>2 DEF ReadSeq
      <3>2. u # t => req[u] # req[t] BY <3>1 DEF OwnedCore, LiveInv, HasReq
      <3> QED BY <3>1, <3>2, <2>2 DEF TypeInv, TypeOK
    <2>3. CASE FoSendOut(t) BY <2>3 DEF FoSendOut, ReadSeq, FoSendAlloc
    <2> QED BY <2>1, <2>2, <2>3, SendEffect
  <1>3. \A w \in Worker : /\ pc'[w] = "complete" <=> pc[w] = "complete"
                          /\ req'[w] = req[w]
    BY SendEffect DEF Proc
  <1> QED BY <1>1, <1>2, <1>3, DoneFrame

\* With a request sent there is a task that waits for the reply, or a request
\* less that is done early.
LEMMA CountSend ==
    ASSUME OneFileEach, Reliable, SeqInv, TypeInv, OwnedCore, SharedCore,
           NEW t \in Task, FoSendStep(t)
    PROVE  CountInv'
  <1>1. /\ \A q \in Proc \ {t} : pc'[q] = pc[q] /\ acc'[q] = acc[q]
        /\ UNCHANGED msg
    BY SendEffect
  <1>2. \A f \in File : Carriers(f)' = Carriers(f)
    BY <1>1 DEF Carriers, Proc
  <1>3. CASE NlSend(t)
    <2>0. pc[t] = "nlsend" /\ pc'[t] = "wait" /\ acc' = acc
      BY <1>3, SendEffect DEF NlSend
    <2> PICK g \in File : g = acc[t] BY <2>0 DEF TypeInv, HandInv
    <2> PICK n : n = [id |-> Opener[g], seq |-> rseq[req[t]], type |-> type[t], from |-> t]
        OBVIOUS
    <2>1. pc[t] = "nlsend" /\ pc'[t] = "wait" /\ acc' = acc /\ net' = net \cup {n}
      BY <1>3, <2>0 DEF NlSend
    <2>2. n.id = Opener[g] OBVIOUS
    <2>3. \A u \in Task : pc[u] \in Queued => (Done(u)' <=> Done(u))
      BY <1>3, SendDone DEF Queued, HasReq, NlSend, FoSendOut, FoSendAlloc
    <2>4. IsFiniteSet(net) /\ IsFiniteSet(net')
      BY <2>1, FS_AddElement DEF SharedCore, CountInv
    <2>5. ASSUME NEW f \in File, f # g
          PROVE  Replies(f)' = Replies(f) /\ Early(f)' = Early(f) /\ Waiters(f)' = Waiters(f)
      <3>1. n.id # Opener[f] BY <2>1, <2>2, <2>5 DEF OneFileEach
      <3>2. Replies(f)' = Replies(f) BY <2>1, <3>1 DEF Replies
      <3>3. \A u \in Task : acc[u] = f => u # t BY <2>5
      <3>4. \A u \in Task : acc'[u] = f <=> acc[u] = f BY <2>1
      <3>5. \A u \in Task : acc[u] = f => pc'[u] = pc[u] BY <1>1, <3>3 DEF Proc
      <3>6. Early(f)' = Early(f) BY <2>3, <3>4, <3>5 DEF Early, Queued
      <3>7. Waiters(f)' = Waiters(f) BY <2>3, <3>4, <3>5 DEF Waiters, Queued
      <3> QED BY <3>2, <3>6, <3>7
    <2>6. \/ Cardinality(Replies(g)') = Cardinality(Replies(g)) + 1
          \/ Cardinality(Replies(g)') = Cardinality(Replies(g))
      <3>1. Replies(g)' = Replies(g) \cup {n} BY <2>1, <2>2 DEF Replies
      <3>2. IsFiniteSet(Replies(g)) BY <2>4, CountFinite
      <3> QED BY ONLY <3>1, <3>2, FS_AddElement
    <2>7. \/ /\ Cardinality(Early(g)') = Cardinality(Early(g)) - 1
             /\ Cardinality(Waiters(g)') = Cardinality(Waiters(g))
          \/ /\ Cardinality(Early(g)') = Cardinality(Early(g))
             /\ Cardinality(Waiters(g)') = Cardinality(Waiters(g)) + 1
      <3>1. \A u \in Task : acc'[u] = acc[u] /\ (u # t => pc'[u] = pc[u]) BY <1>1, <2>1 DEF Proc
      <3>2. CASE Done(t)
        <4>1. Early(g)' = Early(g) \ {t} /\ t \in Early(g)
          BY <2>1, <2>3, <3>1, <3>2 DEF Early, Queued
        <4>2. Waiters(g)' = Waiters(g)
          BY <2>1, <2>3, <3>1, <3>2 DEF Waiters, Queued
        <4>3. IsFiniteSet(Early(g)) BY <2>4, CountFinite
        <4>4. Cardinality(Early(g)') = Cardinality(Early(g)) - 1
          BY ONLY <4>1, <4>3, FS_RemoveElement
        <4> QED BY <4>2, <4>4
      <3>3. CASE ~Done(t)
        <4>1. Early(g)' = Early(g)
          BY <2>1, <2>3, <3>1, <3>3 DEF Early, Queued
        <4>2. Waiters(g)' = Waiters(g) \cup {t} /\ t \notin Waiters(g)
          BY <2>1, <2>3, <3>1, <3>3 DEF Waiters, Queued
        <4>3. IsFiniteSet(Waiters(g)) BY <2>4, CountFinite
        <4>4. Cardinality(Waiters(g)') = Cardinality(Waiters(g)) + 1
          BY ONLY <4>2, <4>3, FS_AddElement
        <4> QED BY <4>1, <4>4
      <3> QED BY <3>2, <3>3
    <2>8. ASSUME NEW f \in File
          PROVE  Cardinality(Replies(f)') + Cardinality(Carriers(f)') + Cardinality(Early(f)')
                    <= Cardinality(Waiters(f)')
      <3>1. /\ Cardinality(Replies(f)) \in Nat /\ Cardinality(Carriers(f)) \in Nat
            /\ Cardinality(Early(f)) \in Nat /\ Cardinality(Waiters(f)) \in Nat
        BY <2>4, CountFinite
      <3>2. Cardinality(Replies(f)) + Cardinality(Carriers(f)) + Cardinality(Early(f))
                <= Cardinality(Waiters(f))
        BY DEF SharedCore, CountInv
      <3>3. Carriers(f)' = Carriers(f) BY <1>2
      <3>4. CASE f # g BY <3>2, <3>3, <3>4, <2>5
      <3>5. CASE f = g
        <4> DEFINE a == Cardinality(Replies(f))
                   b == Cardinality(Carriers(f))
                   c == Cardinality(Early(f))
                   d == Cardinality(Waiters(f))
                   x == Cardinality(Replies(f)')
                   z == Cardinality(Early(f)')
                   v == Cardinality(Waiters(f)')
        <4> HIDE DEF a, b, c, d, x, z, v
        <4>1. /\ {a, b, c, d} \subseteq Nat /\ a + b + c <= d
              /\ x = a + 1 \/ x = a
              /\ (z = c - 1 /\ v = d) \/ (z = c /\ v = d + 1)
          <5>1. {a, b, c, d} \subseteq Nat /\ a + b + c <= d
            BY <3>1, <3>2 DEF a, b, c, d
          <5>2. x = a + 1 \/ x = a BY <2>6, <3>5 DEF a, x
          <5>3. (z = c - 1 /\ v = d) \/ (z = c /\ v = d + 1) BY <2>7, <3>5 DEF c, d, z, v
          <5> QED BY <5>1, <5>2, <5>3
        <4>2. x + b + z <= v BY ONLY <4>1
        <4> QED BY <3>3, <4>2 DEF b, x, z, v
      <3> QED BY <3>4, <3>5
    <2> QED BY <2>4, <2>8 DEF CountInv
  <1>4. CASE ~NlSend(t)
    <2>1. net' = net /\ \A f \in File : Replies(f)' = Replies(f)
      BY <1>4, SendEffect DEF Replies
    <2>2. \A u \in Task : u # t /\ pc[u] \in Queued => (Done(u)' <=> Done(u))
      BY SendDone DEF Queued, HasReq
    <2>3. \A u \in Task : u # t => pc'[u] = pc[u] /\ acc'[u] = acc[u] BY <1>1 DEF Proc
    <2>4. \A f \in File : t \in Early(f)' => t \in Early(f)
      <3> SUFFICES ASSUME NEW f \in File, t \in Early(f)' PROVE t \in Early(f) OBVIOUS
      <3>1. acc'[t] = f /\ pc'[t] \in {"serialize", "read", "nlsend"} /\ Done(t)'
        BY DEF Early
      <3>2. /\ acc'[t] = acc[t] /\ ~FoSendOut(t) /\ ~FoSendAlloc(t)
            /\ pc[t] \in {"add", "add_in", "serialize", "read"}
        <4>1. ~FoSendAlloc(t) BY <3>1 DEF FoSendAlloc, Goto, TypeInv, TypeOK, Proc
        <4>2. ~FoSendOut(t) BY <3>1 DEF FoSendOut, Goto, TypeInv, TypeOK, Proc
        <4> QED BY <3>1, <4>1, <4>2, SendEffect
      <3>3. Done(t) BY <3>1, <3>2, SendDone DEF HasReq
      <3>4. pc[t] \notin {"add", "add_in"} BY <3>3, NotDone
      <3> QED BY <3>1, <3>2, <3>3, <3>4 DEF Early
    <2>5. \A f \in File : t \notin Waiters(f)
      <3> SUFFICES ASSUME NEW f \in File, t \in Waiters(f) PROVE FALSE OBVIOUS
      <3>1. pc[t] = "wait" /\ ~Done(t) BY DEF Waiters
      <3>2. answer[req[t]] # None BY <1>4, <3>1, SendEffect
      <3> QED BY <3>1, <3>2 DEF Done
    <2>6. \A f \in File : Early(f)' \subseteq Early(f)
      <3> SUFFICES ASSUME NEW f \in File, NEW u \in Early(f)' PROVE u \in Early(f) OBVIOUS
      <3>1. CASE u = t BY <2>4, <3>1
      <3>2. CASE u # t BY <2>2, <2>3, <3>2 DEF Early, Queued
      <3> QED BY <3>1, <3>2
    <2>7. \A f \in File : Waiters(f) \subseteq Waiters(f)'
      <3> SUFFICES ASSUME NEW f \in File, NEW u \in Waiters(f) PROVE u \in Waiters(f)' OBVIOUS
      <3>1. u # t BY <2>5
      <3> QED BY <2>2, <2>3, <3>1 DEF Waiters, Queued
    <2>8. IsFiniteSet(net') BY <2>1 DEF SharedCore, CountInv
    <2> QED BY <1>2, <2>1, <2>6, <2>7, <2>8, CountFrame DEF SharedCore
  <1> QED BY <1>3, <1>4

\* A task that opens a file leaves fo_send when no reply for the file is on
\* its way; the others share it as before.
LEMMA SharedSend ==
    ASSUME OneFileEach, Reliable, SeqInv, TypeInv, OwnedCore, SharedCore,
           NEW t \in Task, FoSendStep(t)
    PROVE  SharedCore'
  <1>1. /\ UNCHANGED <<type, msg, htable>>
        /\ \A u \in Task : u # t => pc'[u] = pc[u] /\ acc'[u] = acc[u] /\ req'[u] = req[u]
        /\ \A w \in Worker : pc'[w] = pc[w] /\ acc'[w] = acc[w] /\ req'[w] = req[w]
    BY SendEffect DEF Proc
  <1>2. /\ pc[t] \in {"alloc", "add", "add_in", "serialize", "read", "nlsend", "wait", "out"}
        /\ pc'[t] \in {"add", "add_in", "serialize", "read", "nlsend", "wait", "out",
                       "destroy", "idle"}
        /\ acc[t] \in File
    BY SendEffect DEF TypeInv, HandInv
  <1>3. CountInv' BY CountSend
  <1>4. CASE FoSendOut(t)
    <2>1. /\ pc[t] = "out" /\ UNCHANGED <<net, queue, rseq, accsem, answer>>
          /\ pc'[t] = IF type[t] = "RELEASE" THEN "destroy" ELSE "idle"
          /\ acc' = IF type[t] = "RELEASE" THEN acc ELSE [acc EXCEPT ![t] = None]
          /\ fstate' = IF type[t] = "OPEN"
                       THEN [fstate EXCEPT ![acc[t]] = IF Opened(t) THEN "open" ELSE "leaked"]
                       ELSE fstate
      BY <1>4 DEF FoSendOut, Goto, tableVars, lockVars, reqVars, TypeInv, TypeOK, Proc
    <2>2. \A u \in Task : u # t /\ pc[u] # "idle" /\ type[t] # "IO" => acc[u] # acc[t]
      BY <1>2, SoleUser DEF SharedCore
    <2>3. UseInv'
      <3>1. \A u \in Task : u # t /\ pc[u] # "idle" => fstate'[acc[u]] = fstate[acc[u]]
        BY <2>1, <2>2
      <3>2. pc'[t] # "idle" => acc'[t] = acc[t] /\ fstate' = fstate /\ type[t] = "RELEASE" BY <2>1
      <3> QED BY <1>1, <1>2, <2>1, <3>1, <3>2 DEF SharedCore, UseInv
    <2>4. OpenInv'
      <3>1. \A m : m.from \in Task /\ Opens(m) => Opens(m)'
        <4> TAKE m
        <4> HAVE m.from \in Task /\ Opens(m)
        <4>1. CASE m.type = "OPEN"
          <5> DEFINE u == m.from
          <5>1. u \in Task /\ pc[u] = "wait" /\ u # t BY <2>1, <4>1 DEF Opens
          <5> QED BY <1>1, <2>1, <5>1 DEF Opens
        <4>2. CASE m.type # "OPEN" BY <4>2 DEF Opens
        <4> QED BY <4>1, <4>2
      <3>2. \A m \in net : m.from \in Task BY DEF TypeInv, TypeOK, Msg
      <3>3. \A w \in Worker : pc[w] \in Under => msg[w].from \in Task
        BY DEF Under, Carrying, TypeInv, HandInv, Msg
      <3> QED BY <1>1, <2>1, <3>1, <3>2, <3>3 DEF SharedCore, OpenInv
    <2>5. FirstInv'
      <3>1. \A u \in Task : pc'[u] \in Queued => u # t /\ pc[u] \in Queued
        BY <1>1, <2>1 DEF Queued
      <3>2. \A u \in Task : u # t /\ pc[u] \in Queued => (Done(u)' <=> Done(u))
        BY SendDone DEF Queued, HasReq
      <3> SUFFICES ASSUME NEW u \in Task, pc'[u] \in Queued, type'[u] = "OPEN", ~Done(u)'
                   PROVE  queue'[acc'[u]] = << req'[u] >>
          BY DEF FirstInv
      <3>3. u # t /\ pc[u] \in Queued /\ ~Done(u) BY <3>1, <3>2
      <3>4. queue[acc[u]] = << req[u] >> BY <1>1, <2>1, <3>3 DEF SharedCore, FirstInv
      <3> QED BY <1>1, <2>1, <3>3, <3>4
    <2>6. HeldTableInv'
      <3>1. acc[t] \in htable BY <2>1 DEF SharedCore, HeldTableInv, UsesAcc
      <3>2. \A u \in Task : pc'[u] \in UsesAcc => pc[u] \in UsesAcc /\ acc'[u] = acc[u]
        BY <1>1, <2>1 DEF UsesAcc
      <3>3. \A f \in File : fstate'[f] = "open" => fstate[f] = "open" \/ f = acc[t]
        BY <2>1 DEF TypeInv, TypeOK
      <3> QED BY <1>1, <3>1, <3>2, <3>3 DEF SharedCore, HeldTableInv, Under, Carrying
    <2>7. SemInv'
      <3>1. \A p \in Proc : pc[p] \in {"add_in", "pop"} => p # t /\ pc'[p] = pc[p] /\ acc'[p] = acc[p]
        BY <1>1, <2>1 DEF Proc
      <3> QED BY <2>1, <3>1 DEF SharedCore, SemInv, TypeInv, TypeOK
    <2> QED BY <1>3, <2>3, <2>4, <2>5, <2>6, <2>7 DEF SharedCore
  <1>5. CASE ~FoSendOut(t)
    <2>1. acc' = acc /\ fstate' = fstate /\ pc[t] # "idle" /\ pc[t] \in UsesAcc
          /\ pc'[t] \in UsesAcc \ {"alloc", "destroy", "unhash"}
      BY <1>5, <1>2, SendEffect DEF UsesAcc
    <2>2. \A u \in Task : pc'[u] # "idle" => pc[u] # "idle" BY <1>1, <2>1
    <2>3. UseInv'
      <3>1. pc'[t] \notin {"acc_lock", "acc_add", "destroy", "unhash"} BY <2>1 DEF UsesAcc
      <3> QED BY <1>1, <2>1, <2>2, <3>1 DEF SharedCore, UseInv
    <2>4. HeldTableInv'
      BY <1>1, <2>1 DEF SharedCore, HeldTableInv, UsesAcc, Under, Carrying
    <2>5. OpenInv'
      <3>1. \A m : /\ m.from \in Task /\ Opens(m)
                   /\ m \in net \/ \E w \in Worker : pc[w] \in Under /\ msg[w] = m
                   => Opens(m)'
        <4> TAKE m
        <4> HAVE /\ m.from \in Task /\ Opens(m)
                 /\ m \in net \/ \E w \in Worker : pc[w] \in Under /\ msg[w] = m
        <4>1. CASE m.type = "OPEN"
          <5> PICK u \in Task : u = m.from OBVIOUS
          <5>1. /\ pc[u] = "wait" /\ type[u] = "OPEN" /\ m.id = Opener[acc[u]]
                /\ m.seq = rseq[req[u]]
            BY <4>1 DEF Opens
          <5> PICK f \in File : f = acc[u] BY <5>1 DEF TypeInv, HandInv
          <5>2. ~Done(u)
            <6>1. Replies(f) # {} \/ Carriers(f) # {} BY <5>1 DEF Replies, Carriers
            <6>2. PICK v \in Task : acc[v] = f /\ pc[v] = "wait" /\ ~Done(v)
              BY <6>1, SomeWaiter DEF SharedCore
            <6>3. v = u BY <5>1, <6>2, SoleUser DEF SharedCore
            <6> QED BY <6>2, <6>3
          <5>3. u # t
            <6> SUFFICES ASSUME u = t PROVE FALSE OBVIOUS
            <6>1. answer[req[t]] # None BY <5>1, SendEffect
            <6> QED BY <5>2, <6>1 DEF Done
          <5>4. rseq'[req[u]] = rseq[req[u]] /\ req'[u] = req[u]
            BY <5>1, <5>3, SendDone DEF HasReq
          <5> QED BY <1>1, <2>1, <5>1, <5>3, <5>4 DEF Opens
        <4>2. CASE m.type # "OPEN" BY <4>2 DEF Opens
        <4> QED BY <4>1, <4>2
      <3>2. \A m \in net : m.from \in Task BY DEF TypeInv, TypeOK, Msg
      <3>3. \A w \in Worker : pc[w] \in Under => msg[w].from \in Task
        BY DEF Under, Carrying, TypeInv, HandInv, Msg
      <3>4. \A w \in Worker : pc'[w] \in Under => Opens(msg[w])'
        BY <1>1, <3>1, <3>3 DEF SharedCore, OpenInv
      <3>5. \A m \in net : Opens(m)' BY <3>1, <3>2 DEF SharedCore, OpenInv
      <3>6. \A m \in net' \ net : Opens(m)'
        <4> SUFFICES ASSUME NEW m \in net' \ net PROVE Opens(m)' OBVIOUS
        <4>1. NlSend(t) BY SendEffect
        <4>2. /\ m = [id |-> Opener[acc[t]], seq |-> rseq[req[t]], type |-> type[t], from |-> t]
              /\ pc'[t] = "wait" /\ UNCHANGED <<rseq, req>>
          BY <4>1 DEF NlSend, Goto, reqVars, TypeInv, TypeOK, Proc
        <4>3. m.type = type[t] /\ m.from = t /\ m.id = Opener[acc[t]] /\ m.seq = rseq[req[t]]
          BY <4>2
        <4> QED BY <1>1, <2>1, <4>2, <4>3 DEF Opens
      <3> QED BY <3>4, <3>5, <3>6 DEF OpenInv
    <2>6. FirstInv'
      <3> SUFFICES ASSUME NEW u \in Task, pc'[u] \in Queued, type'[u] = "OPEN", ~Done(u)'
                   PROVE  queue'[acc'[u]] = << req'[u] >>
          BY DEF FirstInv
      <3>0. type[u] = "OPEN" /\ pc[u] # "idle" BY <1>1, <2>2 DEF Queued
      <3>1. ASSUME ForeqAdd(t), acc[u] = acc[t] PROVE u = t
        BY <3>1, <1>2, <3>0, SoleUser DEF SharedCore
      <3>2. CASE pc[u] \in Queued /\ ~ForeqAdd(t)
        <4>1. ~FoSendAlloc(t) \/ u # t BY <3>2 DEF FoSendAlloc, Queued
        <4>2. ~Done(u) /\ req'[u] = req[u] BY <1>5, <3>2, <4>1, SendDone DEF Queued, HasReq
        <4>3. queue' = queue BY <3>2, SendEffect
        <4> QED BY <2>1, <3>0, <3>2, <4>2, <4>3 DEF SharedCore, FirstInv
      <3>3. CASE ForeqAdd(t) /\ u # t
        <4>1. pc[u] \in Queued BY <3>3, <1>1
        <4>2. ~Done(u) /\ req'[u] = req[u] BY <3>3, <4>1, SendDone DEF Queued, HasReq
        <4>3. acc[u] # acc[t] BY <3>1, <3>3
        <4>4. queue'[acc[u]] = queue[acc[u]]
          BY <3>3, <4>3 DEF ForeqAdd
        <4> QED BY <2>1, <3>0, <4>1, <4>2, <4>4 DEF SharedCore, FirstInv
      <3>4. CASE ForeqAdd(t) /\ u = t
        <4>1. pc[t] = "add_in" BY <3>4 DEF ForeqAdd
        <4>2. \A v \in Task : acc[v] = acc[t] => ~Pending(v)
          <5> SUFFICES ASSUME NEW v \in Task, acc[v] = acc[t], Pending(v) PROVE FALSE OBVIOUS
          <5>1. v = t BY <3>0, <3>4, SoleUser DEF SharedCore, Pending, Queued
          <5> QED BY <4>1, <5>1 DEF Pending, Queued
        <4>3. Elems(queue[acc[t]]) = {} BY <1>2, <4>2 DEF OwnedCore, PendInv
        <4>4. queue[acc[t]] = << >>
          BY <1>2, <4>3, ElemsEmpty DEF TypeInv, TypeOK, Acc
        <4>5. queue' = [queue EXCEPT ![acc[t]] = << req[t] >>] /\ req' = req
          BY <3>4, <4>4 DEF ForeqAdd
        <4> QED BY <1>2, <2>1, <3>4, <4>5 DEF TypeInv, TypeOK, Acc
      <3>5. CASE pc[u] \notin Queued /\ ~ForeqAdd(t)
        <4>1. u = t BY <1>1, <3>5
        <4>2. ForeqAddFail(t) /\ pc[t] = "add"
          BY <1>5, <3>5, <4>1, SendEffect DEF Queued
        <4>3. accsem[acc[t]] = None BY <3>0, <4>1, <4>2, OpenAddFree
        <4> QED BY <4>2, <4>3 DEF ForeqAddFail
      <3> QED BY <3>2, <3>3, <3>4, <3>5
    <2>7. SemInv'
      <3>1. \A p \in Proc : p # t => pc'[p] = pc[p] BY <1>1 DEF Proc
      <3>2. CASE ForeqAddLock(t)
        <4>1. accsem' = [accsem EXCEPT ![acc[t]] = t] /\ pc'[t] = "add_in" /\ pc[t] = "add"
          BY <3>2 DEF ForeqAddLock, Goto, TypeInv, TypeOK, Proc
        <4>2. accsem'[acc[t]] = t /\ \A a \in Acc \ {acc[t]} : accsem'[a] = accsem[a]
          BY <1>2, <4>1 DEF TypeInv, TypeOK, Acc
        <4>3. \A a \in Acc : accsem[a] # None => accsem[a] \in Proc /\ accsem[a] # t
          <5>1. \A a \in Acc : accsem[a] \in Proc \cup {None} BY DEF TypeInv, TypeOK
          <5>2. \A a \in Acc : accsem[a] # None => pc[accsem[a]] \in {"add_in", "pop"}
            BY DEF SharedCore, SemInv
          <5> QED BY <4>1, <5>1, <5>2
        <4> QED BY <2>1, <3>1, <4>1, <4>2, <4>3 DEF SharedCore, SemInv
      <3>3. CASE ForeqAdd(t)
        <4>1. accsem' = [accsem EXCEPT ![acc[t]] = None]
          BY <3>3 DEF ForeqAdd
        <4>2. \A a \in Acc : accsem'[a] # None => a # acc[t] /\ accsem'[a] = accsem[a]
          BY <4>1 DEF TypeInv, TypeOK
        <4>3. \A a \in Acc : accsem[a] \in Proc \cup {None} BY DEF TypeInv, TypeOK
        <4> QED BY <2>1, <3>1, <4>2, <4>3 DEF SharedCore, SemInv
      <3>4. CASE ~ForeqAddLock(t) /\ ~ForeqAdd(t)
        <4>1. accsem' = accsem /\ pc[t] \notin {"add_in", "pop"}
          BY <3>4, <1>5, SendEffect
        <4> QED BY <2>1, <3>1, <4>1 DEF SharedCore, SemInv, TypeInv, TypeOK
      <3> QED BY <3>2, <3>3, <3>4
    <2> QED BY <1>3, <2>3, <2>4, <2>5, <2>6, <2>7 DEF SharedCore
  <1> QED BY <1>4, <1>5

\* What a step of fo_recv, or its start, changes.
LEMMA RecvEffect ==
    ASSUME TypeInv, NEW w \in Worker, FoRecvStep(w) \/ \E m \in net : Deliver(w, m)
    PROVE  /\ UNCHANGED <<type, fstate, htable, rseq>>
           /\ \A u \in Task : pc'[u] = pc[u] /\ acc'[u] = acc[u] /\ req'[u] = req[u]
           /\ \A x \in Worker \ {w} : /\ pc'[x] = pc[x] /\ acc'[x] = acc[x]
                                      /\ req'[x] = req[x] /\ msg'[x] = msg[x]
           /\ \/ pc[w] = "idle" /\ pc'[w] = "find" /\ \E m \in net : Deliver(w, m)
              \/ pc[w] = "find" /\ pc'[w] = "scan" /\ FindAccLock(w)
              \/ pc[w] = "scan" /\ pc'[w] = "q_lock" /\ FindAccHit(w)
              \/ /\ pc[w] \in {"find", "scan"} /\ FindAccMiss(w)
                 /\ pc'[w] = IF msg[w].type = "OPEN" THEN "acc_lock" ELSE "idle"
              \/ pc[w] = "q_lock" /\ pc'[w] = "pop" /\ ForeqFindLock(w)
              \/ pc[w] = "q_lock" /\ pc'[w] = AfterMiss(w) /\ ForeqFindFail(w)
              \/ pc[w] = "pop" /\ pc'[w] = "complete" /\ ForeqFind(w)
              \/ pc[w] = "pop" /\ pc'[w] = AfterMiss(w) /\ ForeqFindMiss(w)
              \/ pc[w] = "complete" /\ pc'[w] = "put" /\ Complete(w)
              \/ pc[w] = "put" /\ pc'[w] = "idle" /\ FoRecvPut(w)
           /\ pc[w] # "idle" => net' = net
           /\ pc[w] # "idle" /\ pc'[w] # "idle" => msg'[w] = msg[w]
           /\ pc[w] \notin {"find", "scan", "put"} => acc'[w] = acc[w]
           /\ pc[w] # "complete" => answer' = answer
           /\ pc[w] # "pop" => queue' = queue
  <1> USE DEF TypeInv, TypeOK, Proc, Goto, procVars, tableVars, lockVars, reqVars
  <1>1. CASE \E m \in net : Deliver(w, m)
    <2>1. /\ pc[w] = "idle" /\ pc' = [pc EXCEPT ![w] = "find"]
          /\ \E m \in net : msg' = [msg EXCEPT ![w] = m]
          /\ UNCHANGED <<acc, req, type, fstate, htable, queue, rseq, answer>>
      BY <1>1 DEF Deliver
    <2>2. /\ pc'[w] = "find"
          /\ \A q \in Proc \ {w} : pc'[q] = pc[q]
          /\ \A x \in Worker \ {w} : msg'[x] = msg[x]
      BY <2>1
    <2> QED BY <1>1, <2>1, <2>2
  <1>2. CASE FindAccLock(w) BY <1>2 DEF FindAccLock
  <1>3. CASE FindAccHit(w)
    <2>1. /\ pc[w] = "scan" /\ pc' = [pc EXCEPT ![w] = "q_lock"]
          /\ \E a : acc' = [acc EXCEPT ![w] = a]
          /\ UNCHANGED <<req, msg, type, fstate, htable, queue, rseq, answer, net>>
      BY <1>3 DEF FindAccHit
    <2>2. /\ pc'[w] = "q_lock"
          /\ \A q \in Proc \ {w} : pc'[q] = pc[q] /\ acc'[q] = acc[q]
      BY <2>1
    <2> QED BY <1>3, <2>1, <2>2
  <1>4. CASE FindAccMiss(w) BY <1>4 DEF FindAccMiss
  <1>5. CASE ForeqFindLock(w) BY <1>5 DEF ForeqFindLock
  <1>6. CASE ForeqFindFail(w) BY <1>6 DEF ForeqFindFail
  <1>7. CASE ForeqFind(w) BY <1>7 DEF ForeqFind
  <1>8. CASE ForeqFindMiss(w) BY <1>8 DEF ForeqFindMiss
  <1>9. CASE Complete(w)
    <2>1. /\ pc[w] = "complete" /\ pc' = [pc EXCEPT ![w] = "put"]
          /\ UNCHANGED <<acc, req, msg, type, fstate, htable, queue, rseq, net>>
      BY <1>9 DEF Complete
    <2> QED BY <1>9, <2>1
  <1>10. CASE FoRecvPut(w) BY <1>10 DEF FoRecvPut
  <1> QED BY <1>1, <1>2, <1>3, <1>4, <1>5, <1>6, <1>7, <1>8, <1>9, <1>10
          DEF FoRecvStep

\* Only ForeqFind changes what is done.
LEMMA RecvDone ==
    ASSUME TypeInv, OwnedCore, NEW w \in Worker,
           FoRecvStep(w) \/ \E m \in net : Deliver(w, m), ~ForeqFind(w),
           NEW t \in Task, pc[t] \in Queued
    PROVE  Done(t)' <=> Done(t)
  <1>0. req'[t] = req[t] BY RecvEffect
  <1>1. CASE Complete(w)
    <2>1. /\ pc[w] = "complete" /\ pc'[w] = "put" /\ answer' = [answer EXCEPT ![req[w]] = msg[w].from]
          /\ msg[w].from # None /\ req' = req
      BY <1>1 DEF Complete, Goto, TypeInv, TypeOK, HandInv, Msg, Proc
    <2>2. \A x \in Worker \ {w} : pc'[x] = pc[x] BY RecvEffect
    <2>3. CASE req[t] = req[w]
      <3>1. answer'[req[t]] # None
        BY <2>1, <2>3 DEF TypeInv, TypeOK, HandInv, Queued
      <3> QED BY <1>0, <2>1, <2>3, <3>1 DEF Done, Held
    <2>4. CASE req[t] # req[w]
      <3>1. answer'[req[t]] = answer[req[t]] BY <2>1, <2>4
      <3>2. Held(t)' <=> Held(t) BY <2>1, <2>2, <2>4 DEF Held
      <3> QED BY <1>0, <3>1, <3>2 DEF Done
    <2> QED BY <2>3, <2>4
  <1>2. CASE ~Complete(w)
    <2>1. pc[w] # "complete" /\ pc'[w] # "complete" /\ answer' = answer
      BY <1>2, RecvEffect DEF AfterMiss
    <2>2. \A x \in Worker : /\ pc'[x] = "complete" <=> pc[x] = "complete"
                            /\ pc[x] = "complete" => req'[x] = req[x]
      BY <2>1, RecvEffect
    <2> QED BY <1>0, <2>1, <2>2, DoneFrame
  <1> QED BY <1>1, <1>2

\* The reply that found a request leaves with it; the request is done.
LEMMA CountFind ==
    ASSUME OneFileEach, TypeInv, OwnedCore, SharedCore, NEW w \in Worker, ForeqFind(w)
    PROVE  /\ CountInv'
           /\ \E u \in Task : /\ pc[u] \in Queued /\ acc[u] = acc[w]
                              /\ \A v \in Task : v # u /\ pc[v] \in Queued => (Done(v)' <=> Done(v))
  <1>1. /\ pc[w] = "pop" /\ pc'[w] = "complete" /\ UNCHANGED <<acc, net, answer, msg>>
        /\ req' = [req EXCEPT ![w] = Head(queue[acc[w]])] /\ queue[acc[w]] # << >>
        /\ \A q \in Proc \ {w} : pc'[q] = pc[q] /\ req'[q] = req[q]
    BY DEF ForeqFind, HeadMatches, Goto, reqVars, TypeInv, TypeOK, Proc
  <1>2. acc[w] \in File /\ msg[w].id = Opener[acc[w]] /\ pc[w] \in Under
    BY <1>1 DEF SharedCore, HeldTableInv, OwnedCore, PendInv, Under, Carrying
  <1> PICK g \in File : g = acc[w] BY <1>2
  <1>3. Head(queue[g]) \in Elems(queue[g])
    <2>1. queue[g] \in Seq(Req) /\ queue[g] # << >> BY <1>1 DEF TypeInv, TypeOK, Acc
    <2> QED BY <2>1, ElemsTail
  <1> PICK u \in Task : acc[u] = g /\ Pending(u) /\ req[u] = Head(queue[g])
    BY <1>3 DEF OwnedCore, PendInv
  <1>4. req'[w] = req[u] /\ pc[u] \in Queued /\ answer[req[u]] = None
    BY <1>1 DEF Pending, TypeInv, TypeOK, Proc
  <1>5. \A v \in Task : pc'[v] = pc[v] /\ req'[v] = req[v] BY <1>1 DEF Proc
  <1>6. Done(u)' BY <1>1, <1>4, <1>5 DEF Done, Held
  <1>7. ~Done(u)
    <2>1. ASSUME NEW x \in Worker, pc[x] = "complete", req[x] = req[u] PROVE FALSE
      BY <1>3, <2>1 DEF OwnedCore, HeldInv
    <2> QED BY <1>4, <2>1 DEF Done, Held
  <1>8. ASSUME NEW v \in Task, v # u, pc[v] \in Queued PROVE Done(v)' <=> Done(v)
    <2>1. req[v] # req[u] BY <1>4, <1>8 DEF OwnedCore, LiveInv, Queued, HasReq
    <2>2. Held(v)' <=> Held(v)
      <3>1. \A x \in Worker : x # w => pc'[x] = pc[x] /\ req'[x] = req[x] BY <1>1 DEF Proc
      <3>2. req'[v] = req[v] BY <1>5
      <3> QED BY <1>1, <1>4, <2>1, <3>1, <3>2 DEF Held
    <2> QED BY <1>1, <1>5, <2>2 DEF Done
  <1>9. IsFiniteSet(net) /\ IsFiniteSet(net') BY <1>1 DEF SharedCore, CountInv
  <1>10. \A f \in File : Replies(f)' = Replies(f) BY <1>1 DEF Replies
  <1>11. ASSUME NEW f \in File, f # g
         PROVE  Carriers(f)' = Carriers(f) /\ Early(f)' = Early(f) /\ Waiters(f)' = Waiters(f)
    <2>1. msg[w].id # Opener[f] BY <1>2, <1>11 DEF OneFileEach
    <2>2. Carriers(f)' = Carriers(f)
      BY <1>1, <2>1 DEF Carriers, Under, Proc
    <2>3. \A v \in Task : acc[v] = f /\ pc[v] \in Queued => (Done(v)' <=> Done(v)) BY <1>8, <1>11
    <2>4. Early(f)' = Early(f) BY <1>1, <1>5, <2>3 DEF Early, Queued
    <2>5. Waiters(f)' = Waiters(f) BY <1>1, <1>5, <2>3 DEF Waiters, Queued
    <2> QED BY <2>2, <2>4, <2>5
  <1>12. /\ IsFiniteSet(Carriers(g)) /\ IsFiniteSet(Early(g)) /\ IsFiniteSet(Waiters(g))
    BY <1>9, CountFinite
  <1>13. Cardinality(Carriers(g)') = Cardinality(Carriers(g)) - 1
    <2>1. Carriers(g)' = Carriers(g) \ {w} /\ w \in Carriers(g)
      BY <1>1, <1>2 DEF Carriers, Under, Proc
    <2> QED BY ONLY <1>12, <2>1, FS_RemoveElement
  <1>14. \/ /\ Cardinality(Early(g)') = Cardinality(Early(g))
            /\ Cardinality(Waiters(g)') = Cardinality(Waiters(g)) - 1
         \/ /\ Cardinality(Early(g)') = Cardinality(Early(g)) + 1
            /\ Cardinality(Waiters(g)') = Cardinality(Waiters(g))
    <2>1. CASE pc[u] = "wait"
      <3>1. Early(g)' = Early(g)
        BY <1>1, <1>5, <1>8, <2>1 DEF Early, Queued
      <3>2. Waiters(g)' = Waiters(g) \ {u} /\ u \in Waiters(g)
        BY <1>1, <1>5, <1>6, <1>7, <1>8, <2>1 DEF Waiters, Queued
      <3>3. Cardinality(Waiters(g)') = Cardinality(Waiters(g)) - 1
        BY ONLY <1>12, <3>2, FS_RemoveElement
      <3> QED BY <3>1, <3>3
    <2>2. CASE pc[u] # "wait"
      <3>1. Waiters(g)' = Waiters(g)
        BY <1>1, <1>5, <1>8, <2>2 DEF Waiters, Queued
      <3>2. Early(g)' = Early(g) \cup {u} /\ u \notin Early(g)
        BY <1>1, <1>4, <1>5, <1>6, <1>7, <1>8, <2>2 DEF Early, Queued
      <3>3. Cardinality(Early(g)') = Cardinality(Early(g)) + 1
        BY ONLY <1>12, <3>2, FS_AddElement
      <3> QED BY <3>1, <3>3
    <2> QED BY <2>1, <2>2
  <1>15. ASSUME NEW f \in File
         PROVE  Cardinality(Replies(f)') + Cardinality(Carriers(f)') + Cardinality(Early(f)')
                    <= Cardinality(Waiters(f)')
    <2>1. /\ Cardinality(Replies(f)) \in Nat /\ Cardinality(Carriers(f)) \in Nat
          /\ Cardinality(Early(f)) \in Nat /\ Cardinality(Waiters(f)) \in Nat
      BY <1>9, CountFinite
    <2>2. Cardinality(Replies(f)) + Cardinality(Carriers(f)) + Cardinality(Early(f))
              <= Cardinality(Waiters(f))
      BY DEF SharedCore, CountInv
    <2>3. Replies(f)' = Replies(f) BY <1>10
    <2>4. CASE f # g BY <2>2, <2>3, <2>4, <1>11
    <2>5. CASE f = g
      <3> DEFINE a == Cardinality(Replies(f))
                 b == Cardinality(Carriers(f))
                 c == Cardinality(Early(f))
                 d == Cardinality(Waiters(f))
                 y == Cardinality(Carriers(f)')
                 z == Cardinality(Early(f)')
                 v == Cardinality(Waiters(f)')
      <3> HIDE DEF a, b, c, d, y, z, v
      <3>1. {a, b, c, d} \subseteq Nat /\ a + b + c <= d
        BY <2>1, <2>2 DEF a, b, c, d
      <3>2. y = b - 1 BY <1>13, <2>5 DEF b, y
      <3>3. (z = c /\ v = d - 1) \/ (z = c + 1 /\ v = d) BY <1>14, <2>5 DEF c, d, z, v
      <3>4. a + y + z <= v BY ONLY <3>1, <3>2, <3>3
      <3> QED BY <2>3, <3>4 DEF a, y, z, v
    <2> QED BY <2>4, <2>5
  <1>16. CountInv' BY <1>9, <1>15 DEF CountInv
  <1> QED BY <1>4, <1>8, <1>16

\* A worker is given a reply, drops it, or completes a request with it.
LEMMA CountRecv ==
    ASSUME OneFileEach, TypeInv, OwnedCore, SharedCore, NEW w \in Worker,
           FoRecvStep(w) \/ \E m \in net : Deliver(w, m)
    PROVE  CountInv'
  <1>0. /\ IsFiniteSet(net)
        /\ \A u \in Task : pc'[u] = pc[u] /\ acc'[u] = acc[u]
        /\ \A x \in Worker \ {w} : pc'[x] = pc[x] /\ msg'[x] = msg[x]
    BY RecvEffect DEF SharedCore, CountInv
  <1>1. CASE ForeqFind(w) BY <1>1, CountFind
  <1>2. CASE ~ForeqFind(w)
    <2>1. \A u \in Task : pc[u] \in Queued => (Done(u)' <=> Done(u))
      BY <1>2, RecvDone
    <2>2. \A f \in File : Early(f)' = Early(f) /\ Waiters(f)' = Waiters(f)
      BY <1>0, <2>1 DEF Early, Waiters, Queued
    <2>3. CASE \E m \in net : Deliver(w, m)
      <3> PICK m \in net : Deliver(w, m) BY <2>3
      <3>1. /\ pc[w] = "idle" /\ pc'[w] = "find" /\ net' = net \ {m} /\ msg'[w] = m
        BY DEF Deliver, Goto, TypeInv, TypeOK, Proc
      <3>2. IsFiniteSet(net') BY <1>0, <3>1, FS_RemoveElement
      <3>3. ASSUME NEW f \in File
            PROVE  Cardinality(Replies(f)') + Cardinality(Carriers(f)') + Cardinality(Early(f)')
                        <= Cardinality(Waiters(f)')
        <4>1. /\ Cardinality(Replies(f)) \in Nat /\ Cardinality(Carriers(f)) \in Nat
              /\ Cardinality(Early(f)) \in Nat /\ Cardinality(Waiters(f)) \in Nat
              /\ IsFiniteSet(Replies(f)) /\ IsFiniteSet(Carriers(f))
          BY <1>0, CountFinite
        <4>2. Cardinality(Replies(f)) + Cardinality(Carriers(f)) + Cardinality(Early(f))
                <= Cardinality(Waiters(f))
          BY DEF SharedCore, CountInv
        <4>3. CASE m.id = Opener[f]
          <5>1. Replies(f)' = Replies(f) \ {m} /\ m \in Replies(f)
            BY <3>1, <4>3 DEF Replies
          <5>2. Carriers(f)' = Carriers(f) \cup {w} /\ w \notin Carriers(f)
            BY <1>0, <3>1, <4>3 DEF Carriers, Under, Carrying
          <5>3. Cardinality(Replies(f)') = Cardinality(Replies(f)) - 1
            BY ONLY <4>1, <5>1, FS_RemoveElement
          <5>4. Cardinality(Carriers(f)') = Cardinality(Carriers(f)) + 1
            BY ONLY <4>1, <5>2, FS_AddElement
          <5> QED BY <2>2, <4>1, <4>2, <5>3, <5>4
        <4>4. CASE m.id # Opener[f]
          <5>1. Replies(f)' = Replies(f) BY <3>1, <4>4 DEF Replies
          <5>2. Carriers(f)' = Carriers(f)
            BY <1>0, <3>1, <4>4 DEF Carriers, Under, Carrying
          <5> QED BY <2>2, <4>2, <5>1, <5>2
        <4> QED BY <4>3, <4>4
      <3> QED BY <3>2, <3>3 DEF CountInv
    <2>4. CASE ~\E m \in net : Deliver(w, m)
      <3>1. net' = net /\ pc[w] # "idle" BY <2>4, RecvEffect
      <3>2. /\ pc'[w] \in Under => pc[w] \in Under /\ msg'[w] = msg[w]
        BY <2>4, <3>1, RecvEffect DEF Under, Carrying, AfterMiss
      <3>3. \A f \in File : Replies(f)' = Replies(f) BY <3>1 DEF Replies
      <3>4. \A f \in File : Carriers(f)' \subseteq Carriers(f)
        BY <1>0, <3>2 DEF Carriers
      <3>5. IsFiniteSet(net') BY <1>0, <3>1
      <3> QED BY <2>2, <3>3, <3>4, <3>5, CountFrame DEF SharedCore
    <2> QED BY <2>3, <2>4
  <1> QED BY <1>1, <1>2

\* fo_recv gives up only on a fo_access of its own, and finds none of another
\* worker.
LEMMA SharedRecv ==
    ASSUME OneFileEach, TypeInv, OwnedCore, SharedCore, NEW w \in Worker,
           FoRecvStep(w) \/ \E m \in net : Deliver(w, m)
    PROVE  SharedCore'
  <1>1. /\ UNCHANGED <<type, fstate, htable, rseq>>
        /\ \A u \in Task : pc'[u] = pc[u] /\ acc'[u] = acc[u] /\ req'[u] = req[u]
        /\ \A x \in Worker \ {w} : pc'[x] = pc[x] /\ acc'[x] = acc[x] /\ msg'[x] = msg[x]
    BY RecvEffect
  <1>2. CountInv' BY CountRecv
  <1>3. UseInv' BY <1>1 DEF SharedCore, UseInv
  <1>4. OpenInv'
    <2>1. \A m : m.from \in Task /\ Opens(m) => Opens(m)' BY <1>1 DEF Opens
    <2>2. \A m \in net : m.from \in Task BY DEF TypeInv, TypeOK, Msg
    <2>3. \A x \in Worker : pc[x] \in Under => msg[x].from \in Task
      BY DEF Under, Carrying, TypeInv, HandInv, Msg
    <2>4. CASE \E m \in net : Deliver(w, m)
      <3> PICK m \in net : Deliver(w, m) BY <2>4
      <3>1. msg'[w] = m /\ net' = net \ {m}
        BY DEF Deliver, TypeInv, TypeOK
      <3>2. ASSUME NEW x \in Worker, pc'[x] \in Under PROVE Opens(msg[x])'
        <4>1. CASE x = w BY <2>1, <2>2, <3>1, <4>1 DEF SharedCore, OpenInv
        <4>2. CASE x # w BY <1>1, <2>1, <2>3, <3>2, <4>2 DEF SharedCore, OpenInv
        <4> QED BY <4>1, <4>2
      <3>3. \A n \in net' : Opens(n)' BY <2>1, <2>2, <3>1 DEF SharedCore, OpenInv
      <3> QED BY <3>2, <3>3 DEF OpenInv
    <2>5. CASE ~\E m \in net : Deliver(w, m)
      <3>1. net' = net /\ pc[w] # "idle" BY <2>5, RecvEffect
      <3>2. pc'[w] \in Under => pc[w] \in Under /\ msg'[w] = msg[w]
        BY <2>5, <3>1, RecvEffect DEF Under, Carrying, AfterMiss
      <3>3. \A x \in Worker : pc'[x] \in Under => pc[x] \in Under /\ msg'[x] = msg[x]
        BY <1>1, <3>2
      <3>4. \A x \in Worker : pc'[x] \in Under => Opens(msg[x])'
        BY <2>1, <2>3, <3>3 DEF SharedCore, OpenInv
      <3>5. \A n \in net' : Opens(n)' BY <2>1, <2>2, <3>1 DEF SharedCore, OpenInv
      <3> QED BY <3>4, <3>5 DEF OpenInv
    <2> QED BY <2>4, <2>5
  <1>5. FirstInv'
    <2> SUFFICES ASSUME NEW t \in Task, pc'[t] \in Queued, type'[t] = "OPEN", ~Done(t)'
                 PROVE  queue'[acc'[t]] = << req'[t] >>
        BY DEF FirstInv
    <2>1. pc[t] \in Queued /\ type[t] = "OPEN" /\ acc[t] \in File /\ pc[t] # "idle"
      BY <1>1 DEF TypeInv, HandInv, Queued
    <2>2. CASE ForeqFind(w)
      <3>1. PICK u \in Task : /\ pc[u] \in Queued /\ acc[u] = acc[w]
                              /\ \A v \in Task : v # u /\ pc[v] \in Queued => (Done(v)' <=> Done(v))
        BY <2>2, CountFind
      <3>2. CASE acc[t] = acc[w]
        <4>1. u = t BY <2>1, <3>1, <3>2, SoleUser DEF SharedCore, Queued
        <4>2. /\ pc'[w] = "complete" /\ req'[w] = Head(queue[acc[w]]) /\ queue[acc[w]] # << >>
          BY <2>2 DEF ForeqFind, HeadMatches, Goto, TypeInv, TypeOK, Proc
        <4>3. Head(queue[acc[w]]) \in Elems(queue[acc[w]])
          <5>1. queue[acc[w]] \in Seq(Req) BY <2>1, <3>2 DEF TypeInv, TypeOK, Acc
          <5> QED BY <4>2, <5>1, ElemsTail
        <4>4. PICK v \in Task : acc[v] = acc[w] /\ Pending(v) /\ req[v] = Head(queue[acc[w]])
          BY <2>1, <3>2, <4>3 DEF OwnedCore, PendInv
        <4>5. v = t BY <2>1, <3>2, <4>4, SoleUser DEF SharedCore, Pending, Queued
        <4>6. Done(t)' BY <1>1, <4>2, <4>4, <4>5 DEF Done, Held
        <4> QED BY <4>6
      <3>3. CASE acc[t] # acc[w]
        <4>1. queue'[acc[t]] = queue[acc[t]] BY <2>2, <3>3 DEF ForeqFind
        <4>2. ~Done(t) BY <2>1, <3>1, <3>3
        <4> QED BY <1>1, <2>1, <4>1, <4>2 DEF SharedCore, FirstInv
      <3> QED BY <3>2, <3>3
    <2>3. CASE ~ForeqFind(w)
      <3>1. ~Done(t) BY <2>1, <2>3, RecvDone
      <3>2. queue[acc[t]] = << req[t] >> BY <2>1, <3>1 DEF SharedCore, FirstInv
      <3>3. queue'[acc[t]] = queue[acc[t]]
        <4>1. CASE ForeqFindMiss(w)
          <5>1. \/ queue'[acc[t]] = queue[acc[t]]
                \/ queue'[acc[t]] = Rotate(queue[acc[t]])
            BY <4>1 DEF ForeqFindMiss, TypeInv, TypeOK
          <5>2. req[t] \in Req BY <2>1 DEF TypeInv, HandInv, Queued
          <5>3. Rotate(<< req[t] >>) = << req[t] >> BY ONLY <5>2, RotateOne, Zenon
          <5> QED BY <3>2, <5>1, <5>3
        <4>2. CASE ~ForeqFindMiss(w)
          <5>1. queue' = queue
            BY <2>3, <4>2 DEF FoRecvStep, Deliver, FindAccLock, FindAccHit, FindAccMiss,
                   ForeqFindLock, ForeqFindFail, Complete, FoRecvPut, tableVars
          <5> QED BY <5>1
        <4> QED BY <4>1, <4>2
      <3> QED BY <1>1, <3>2, <3>3
    <2> QED BY <2>2, <2>3
  <1>6. SemInv'
    <2>0. \A p \in Proc : p # w => pc'[p] = pc[p] /\ acc'[p] = acc[p] BY <1>1 DEF Proc
    <2>00. \A a \in Acc : accsem[a] \in Proc \cup {None} BY DEF TypeInv, TypeOK
    <2>1. CASE ForeqFindLock(w)
      <3>1. /\ accsem' = [accsem EXCEPT ![acc[w]] = w] /\ pc'[w] = "pop" /\ pc[w] = "q_lock"
            /\ acc' = acc /\ acc[w] \in Acc
        BY <2>1 DEF ForeqFindLock, Goto, TypeInv, TypeOK, HandInv, Proc
      <3>2. accsem'[acc[w]] = w /\ \A a \in Acc \ {acc[w]} : accsem'[a] = accsem[a]
        BY <3>1 DEF TypeInv, TypeOK
      <3>3. \A a \in Acc : accsem[a] # None => accsem[a] \in Proc /\ accsem[a] # w
        <4>1. \A a \in Acc : accsem[a] # None => pc[accsem[a]] \in {"add_in", "pop"}
          BY DEF SharedCore, SemInv
        <4> QED BY <2>00, <3>1, <4>1
      <3> QED BY <2>0, <3>1, <3>2, <3>3 DEF SharedCore, SemInv
    <2>2. CASE ForeqFind(w) \/ ForeqFindMiss(w)
      <3>1. /\ accsem' = [accsem EXCEPT ![acc[w]] = None] /\ acc' = acc
        BY <2>2 DEF ForeqFind, ForeqFindMiss
      <3>2. \A a \in Acc : accsem'[a] # None => a # acc[w] /\ accsem'[a] = accsem[a]
        BY <3>1 DEF TypeInv, TypeOK
      <3> QED BY <2>0, <2>00, <3>1, <3>2 DEF SharedCore, SemInv
    <2>3. CASE ~ForeqFindLock(w) /\ ~ForeqFind(w) /\ ~ForeqFindMiss(w)
      <3>1. accsem' = accsem
        BY <2>3 DEF FoRecvStep, Deliver, FindAccLock, FindAccHit, FindAccMiss,
               ForeqFindFail, Complete, FoRecvPut, lockVars
      <3>2. pc[w] \notin {"add_in", "pop"} BY <2>3, RecvEffect
      <3> QED BY <2>0, <2>00, <3>1, <3>2 DEF SharedCore, SemInv
    <2> QED BY <2>1, <2>2, <2>3
  <1>7. HeldTableInv'
    <2> DEFINE Mine(x) ==
          /\ x \in htable => acc[x] = x /\ pc[x] \in {"q_lock", "pop", "destroy", "unhash"}
          /\ pc[x] \in {"q_lock", "pop"} =>
                /\ acc[x] \in htable
                /\ acc[x] = x \/ (acc[x] \in File /\ Opener[acc[x]] = msg[x].id)
          /\ pc[x] \in {"destroy", "unhash"} => acc[x] = x /\ x \in htable
          /\ pc[x] \in {"acc_lock", "acc_add"} => acc[x] = x
          /\ pc[x] \in Under \ {"find", "scan"} /\ acc[x] = x => msg[x].type = "OPEN"
    <2>1. \A x \in Worker : Mine(x) BY DEF SharedCore, HeldTableInv
    <2>2. \A x \in Worker \ {w} : Mine(x)' BY <1>1, <2>1
    <2>3. pc[w] \in {"idle", "find", "scan", "complete", "put"} => w \notin htable
      BY <2>1
    <2>4. Mine(w)'
      <3>1. CASE pc'[w] \in {"idle", "find", "scan", "complete", "put"}
        <4>1. w \notin htable
          <5> SUFFICES ASSUME w \in htable PROVE FALSE OBVIOUS
          <5>1. pc[w] \in {"q_lock", "pop"} /\ acc[w] = w
            BY <2>1, <3>1, RecvEffect
          <5>2. msg[w].type = "OPEN" BY <2>1, <5>1 DEF Under, Carrying
          <5>3. ForeqFind(w) BY <3>1, <5>1, <5>2, RecvEffect DEF AfterMiss
          <5>4. queue[acc[w]] = << >> BY <5>1 DEF OwnedCore, PendInv
          <5> QED BY <5>3, <5>4 DEF ForeqFind, HeadMatches
        <4> QED BY <1>1, <3>1, <4>1 DEF Under, Carrying
      <3>2. CASE FindAccHit(w)
        <4>1. PICK a \in htable : AccId(a) = msg[w].id /\ acc' = [acc EXCEPT ![w] = a]
          BY <3>2 DEF FindAccHit, FindAcc
        <4>2. pc[w] = "scan" /\ pc'[w] = "q_lock" /\ msg' = msg
          BY <3>2 DEF FindAccHit, Goto, TypeInv, TypeOK, Proc
        <4>3. a \in File
          <5> SUFFICES ASSUME a \in Worker PROVE FALSE BY DEF TypeInv, TypeOK, Acc
          <5>1. acc[a] = a /\ pc[a] \in {"q_lock", "pop", "destroy", "unhash"} BY <2>1, <4>1
          <5>2. pc[a] \in Under /\ msg[a].type = "OPEN" BY <2>1, <5>1 DEF Under, Carrying
          <5>3. msg[a].id = msg[w].id BY <4>1 DEF AccId
          <5> PICK u \in Task : u = msg[a].from BY <5>2, OpenSender
          <5>4. /\ pc[u] = "wait" /\ type[u] = "OPEN" /\ acc[u] \in File
                /\ msg[a].id = Opener[acc[u]]
            BY <5>2, OpenSender
          <5>5. pc[w] \in Under BY <4>2 DEF Under, Carrying
          <5> PICK f \in File : f = acc[u] BY <5>4
          <5>6. /\ msg[a].id = Opener[f] /\ msg[w].id = Opener[f]
                /\ pc[u] # "idle" /\ acc[u] = f /\ type[u] # "IO"
            BY <5>3, <5>4
          <5>7. a = w BY ONLY <5>2, <5>5, <5>6, OneCarrier, SharedCore, a \in Worker,
                         w \in Worker, f \in File, u \in Task
          <5> QED BY <4>2, <5>1, <5>7
        <4>4. acc'[w] = a /\ a # w /\ Opener[a] = msg[w].id
          BY <4>1, <4>3 DEF AccId, TypeInv, TypeOK, Proc
        <4>5. w \notin htable BY <2>3, <4>2
        <4> QED BY <1>1, <4>1, <4>2, <4>3, <4>4, <4>5 DEF Under, Carrying
      <3>3. CASE FindAccMiss(w) /\ pc'[w] \notin {"idle", "find", "scan", "complete", "put"}
        <4>1. /\ pc[w] \in {"find", "scan"} /\ msg[w].type = "OPEN" /\ pc'[w] = "acc_lock"
              /\ acc'[w] = w /\ msg' = msg
          BY <3>3 DEF FindAccMiss, Goto, TypeInv, TypeOK, Proc
        <4>2. w \notin htable BY <2>3, <4>1
        <4> QED BY <1>1, <4>1, <4>2 DEF Under, Carrying
      <3>4. CASE ForeqFindLock(w)
        <4>1. /\ pc[w] = "q_lock" /\ pc'[w] = "pop" /\ acc'[w] = acc[w] /\ msg'[w] = msg[w]
          BY <3>4 DEF ForeqFindLock, Goto, TypeInv, TypeOK, Proc
        <4> QED BY <1>1, <2>1, <4>1 DEF Under, Carrying
      <3>5. CASE (ForeqFindFail(w) \/ ForeqFindMiss(w)) /\ pc'[w] = "destroy"
        <4>1. /\ pc[w] \in {"q_lock", "pop"} /\ acc'[w] = acc[w] /\ msg'[w] = msg[w]
              /\ msg[w].type = "OPEN"
          BY <3>5 DEF ForeqFindFail, ForeqFindMiss, AfterMiss, Goto, TypeInv, TypeOK, Proc
        <4>2. acc[w] = w
          <5>1. ForeqFindMiss(w) /\ pc[w] = "pop"
            BY <3>5, <4>1, OpenSearchFree DEF ForeqFindFail, ForeqFindMiss
          <5>2. acc[w] \notin File BY <4>1, <5>1, OpenAtHead DEF ForeqFindMiss
          <5> QED BY <2>1, <4>1, <5>2
        <4>3. acc[w] \in htable BY <2>1, <4>1
        <4> QED BY <1>1, <3>5, <4>1, <4>2, <4>3 DEF Under, Carrying
      <3>6. pc'[w] \in {"idle", "find", "scan", "complete", "put"} \/ FindAccHit(w)
            \/ FindAccMiss(w) \/ ForeqFindLock(w)
            \/ ((ForeqFindFail(w) \/ ForeqFindMiss(w)) /\ pc'[w] = "destroy")
        BY RecvEffect DEF AfterMiss
      <3> QED BY <3>1, <3>2, <3>3, <3>4, <3>5, <3>6
    <2>5. \A x \in Worker : Mine(x)' BY <2>2, <2>4
    <2> QED BY <1>1, <2>5 DEF SharedCore, HeldTableInv
  <1> QED BY <1>2, <1>3, <1>4, <1>5, <1>6, <1>7 DEF SharedCore

\* A system call opens a file nobody uses, or joins those who do I/O on it, or
\* releases it when they are gone.
LEMMA SharedCall ==
    ASSUME TypeInv, OwnedCore, SharedCore, SysCall
    PROVE  SharedCore'
  <1> PICK f \in File : \/ SendOpen(f)
                        \/ \E t \in Task : SendIo(t, f) \/ SendRelease(t, f)
      BY DEF SysCall
  <1>1. \E t \in Task, ty \in Type, l \in {"acc_lock", "alloc"} :
          /\ pc[t] = "idle" /\ pc' = [pc EXCEPT ![t] = l] /\ acc' = [acc EXCEPT ![t] = f]
          /\ type' = [type EXCEPT ![t] = ty] /\ fstate' = [fstate EXCEPT ![f] = StateOf[ty]]
          /\ UNCHANGED <<req, msg, htable, queue, accsem, rseq, answer, net>>
          /\ l = "acc_lock" => ty = "OPEN"
          /\ l = "alloc" => fstate[f] = "open"
          /\ ty = "IO" => fstate[f] = "open"
          /\ ty = "OPEN" => fstate[f] = "closed"
          /\ ty = "RELEASE" => \A u \in Task : acc[u] # f
    <2> USE DEF Call, Goto, tableVars, lockVars, reqVars, StateOf, Type
    <2>1. CASE SendOpen(f) BY <2>1 DEF SendOpen
    <2>2. CASE \E t \in Task : SendIo(t, f) BY <2>2 DEF SendIo
    <2>3. CASE \E t \in Task : SendRelease(t, f) BY <2>3 DEF SendRelease
    <2> QED BY <2>1, <2>2, <2>3
  <1> PICK t \in Task, ty \in Type, l \in {"acc_lock", "alloc"} :
          /\ pc[t] = "idle" /\ pc' = [pc EXCEPT ![t] = l] /\ acc' = [acc EXCEPT ![t] = f]
          /\ type' = [type EXCEPT ![t] = ty] /\ fstate' = [fstate EXCEPT ![f] = StateOf[ty]]
          /\ UNCHANGED <<req, msg, htable, queue, accsem, rseq, answer, net>>
          /\ l = "acc_lock" => ty = "OPEN"
          /\ l = "alloc" => fstate[f] = "open"
          /\ ty = "IO" => fstate[f] = "open"
          /\ ty = "OPEN" => fstate[f] = "closed"
          /\ ty = "RELEASE" => \A u \in Task : acc[u] # f
      BY <1>1
  <1>2. /\ pc'[t] = l /\ acc'[t] = f /\ type'[t] = ty
        /\ \A u \in Task : u # t => pc'[u] = pc[u] /\ acc'[u] = acc[u] /\ type'[u] = type[u]
        /\ \A w \in Worker : pc'[w] = pc[w] /\ acc'[w] = acc[w]
        /\ \A g \in File : g # f => fstate'[g] = fstate[g]
        /\ fstate'[f] = StateOf[ty]
    BY DEF TypeInv, TypeOK, Proc
  <1>3. \A u \in Task : pc[u] # "idle" => acc[u] \in File /\ type[u] \in Type
    BY DEF TypeInv, TypeOK, HandInv
  <1>4. \A u \in Task : pc[u] # "idle" /\ acc[u] = f => ty = "IO" /\ type[u] = "IO"
    BY <1>3 DEF SharedCore, UseInv, StateOf, Type
  <1>5. UseInv'
    <2>1. \A u \in Task : pc'[u] # "idle" => fstate'[acc'[u]] = StateOf[type'[u]]
      BY <1>2, <1>3, <1>4 DEF SharedCore, UseInv
    <2>2. \A u, v \in Task : /\ pc'[u] # "idle" /\ pc'[v] # "idle" /\ acc'[u] = acc'[v]
                             /\ type'[u] # "IO"
                             => u = v
      BY <1>2, <1>4 DEF SharedCore, UseInv
    <2>3. \A u \in Task : /\ pc'[u] \in {"acc_lock", "acc_add"} => type'[u] = "OPEN"
                          /\ pc'[u] \in {"destroy", "unhash"} => type'[u] = "RELEASE"
      BY <1>2 DEF SharedCore, UseInv
    <2> QED BY <2>1, <2>2, <2>3 DEF UseInv
  <1>6. \A u \in Task : Done(u)' <=> Done(u)
    <2>1. \A w \in Worker : pc'[w] = pc[w] /\ req'[w] = req[w] BY <1>2
    <2> QED BY <2>1, DoneFrame
  <1>7. \A u \in Task : pc'[u] \in Queued <=> u # t /\ pc[u] \in Queued
    BY <1>2 DEF Queued
  <1>8. CountInv'
    <2>1. \A g \in File : /\ Replies(g)' \subseteq Replies(g)
                          /\ Carriers(g)' \subseteq Carriers(g)
      BY <1>2 DEF Replies, Carriers
    <2>2. \A g \in File : /\ Early(g)' \subseteq Early(g)
      BY <1>2, <1>6, <1>7 DEF Early, Queued
    <2>3. \A g \in File : Waiters(g) \subseteq Waiters(g)'
      BY <1>2, <1>6, <1>7 DEF Waiters, Queued
    <2>4. IsFiniteSet(net') BY DEF SharedCore, CountInv
    <2> QED BY <2>1, <2>2, <2>3, <2>4, CountFrame DEF SharedCore
  <1>9. OpenInv'
    <2>1. \A m : m.from \in Task /\ Opens(m) => Opens(m)'
      BY <1>2 DEF Opens
    <2>2. \A m \in net : m.from \in Task BY DEF TypeInv, TypeOK, Msg
    <2>3. \A w \in Worker : pc[w] \in Under => msg[w].from \in Task
      BY DEF Under, Carrying, TypeInv, HandInv, Msg
    <2> QED BY <1>2, <2>1, <2>2, <2>3 DEF SharedCore, OpenInv
  <1>10. FirstInv'
    <2> SUFFICES ASSUME NEW u \in Task, pc'[u] \in Queued, type'[u] = "OPEN", ~Done(u)'
                 PROVE  queue'[acc'[u]] = << req'[u] >>
        BY DEF FirstInv
    <2>1. u # t /\ pc[u] \in Queued /\ ~Done(u) BY <1>6, <1>7
    <2>2. type[u] = "OPEN" /\ acc'[u] = acc[u] BY <1>2, <2>1
    <2>3. queue[acc[u]] = << req[u] >> BY <2>1, <2>2 DEF SharedCore, FirstInv
    <2> QED BY <2>2, <2>3
  <1>11. HeldTableInv'
    <2>1. \A u \in Task : pc'[u] \in UsesAcc => acc'[u] \in htable
      BY <1>2 DEF SharedCore, HeldTableInv, UsesAcc
    <2>2. \A g \in File : fstate'[g] = "open" => g \in htable
      <3>1. StateOf[ty] = "open" => ty = "IO" BY DEF StateOf
      <3> QED BY <1>2, <3>1 DEF SharedCore, HeldTableInv
    <2> QED BY <1>2, <2>1, <2>2 DEF SharedCore, HeldTableInv
  <1>12. SemInv'
    <2>1. \A p \in Proc : pc[p] \in {"add_in", "pop"} => pc'[p] = pc[p] /\ acc'[p] = acc[p]
      BY <1>2 DEF Proc
    <2> QED BY <2>1 DEF SharedCore, SemInv, TypeInv, TypeOK
  <1> QED BY <1>5, <1>8, <1>9, <1>10, <1>11, <1>12 DEF SharedCore

\* A stuttering step changes nothing.
LEMMA SharedStutter == ASSUME SharedCore, UNCHANGED vars PROVE SharedCore'
  <1> USE DEF vars, procVars, tableVars, lockVars, reqVars
  <1>1. UseInv' BY DEF SharedCore, UseInv
  <1>2. CountInv' BY DEF SharedCore, CountInv, Replies, Carriers, Early, Waiters, Done, Held
  <1>3. OpenInv' BY DEF SharedCore, OpenInv, Opens
  <1>4. FirstInv' BY DEF SharedCore, FirstInv, Done, Held
  <1>5. HeldTableInv' /\ SemInv' BY DEF SharedCore, HeldTableInv, SemInv
  <1> QED BY <1>1, <1>2, <1>3, <1>4, <1>5 DEF SharedCore

\* Every step keeps the balance of replies and those who wait for them.
LEMMA SharedStep ==
    ASSUME OneFileEach, Reliable
    PROVE  TypeInv /\ SeqInv /\ OwnedCore /\ SharedCore /\ [Next]_vars => SharedCore'
  BY SharedAcc, SharedSend, SharedRecv, SharedCall, SharedStutter DEF Next

\* No fo_access is freed while a task or a worker still works on it: when no
\* task opens two files and nothing fails fo_acc_destroy races with nobody,
\* however many tasks share a file.
THEOREM NoAccessFreed ==
    ASSUME OneFileEach, Reliable
    PROVE  Spec => []NoUseAfterFree
  <1>1. TypeInv /\ SharedCore => NoUseAfterFree
    <2> SUFFICES ASSUME TypeInv, SharedCore, NEW p \in Proc,
                        pc[p] \in {"alloc", "add", "add_in", "serialize", "read", "nlsend",
                                  "wait", "q_lock", "pop", "destroy", "unhash"}
                 PROVE  acc[p] \in htable
        BY DEF NoUseAfterFree
    <2>1. CASE p \in Task
      BY <2>1 DEF SharedCore, HeldTableInv, UsesAcc, TypeInv, TypeOK, TaskPc
    <2>2. CASE p \in Worker
      <3>1. pc[p] \in {"q_lock", "pop", "destroy", "unhash"}
        BY <2>2 DEF TypeInv, TypeOK, WorkerPc
      <3> QED BY <2>2, <3>1 DEF SharedCore, HeldTableInv
    <2> QED BY <2>1, <2>2 DEF Proc
  <1> QED BY TypeInit, OwnedInit, SeqInit, SharedInit, TypeStep, OwnedStep, SeqStep,
             SharedStep, <1>1, PTL
          DEF Spec

-----------------------------------------------------------------------------
(***************************************************************************)
(* The reference counter: every step that leaves fo_send, fo_recv or the   *)
(* table takes back the one reference that was taken for it.               *)
(***************************************************************************)

\* The sets that are counted are finite.
LEMMA UsersFinite ==
    ASSUME TypeInv
    PROVE  /\ IsFiniteSet(htable) /\ IsFiniteSet(InSend) /\ IsFiniteSet(InRecv)
           /\ Cardinality(htable) \in Nat /\ Cardinality(InSend) \in Nat
           /\ Cardinality(InRecv) \in Nat
  <1>1. IsFiniteSet(Acc) BY FiniteAssumption, FS_Union DEF Acc
  <1>2. /\ htable \subseteq Acc /\ InSend \subseteq Task /\ InRecv \subseteq Worker
    BY DEF TypeInv, TypeOK, InSend, InRecv
  <1> QED BY <1>1, <1>2, FiniteAssumption, FS_Subset, FS_CardinalityType

\* Initially only the device table holds a reference.
LEMMA UsersInit == Init => UsersCover
  <1> SUFFICES ASSUME Init PROVE UsersCover OBVIOUS
  <1>1. htable = {} /\ InSend = {} /\ InRecv = {}
    BY DEF Init, InSend, InRecv, Proc
  <1> QED BY <1>1, FS_EmptySet DEF Init, UsersCover

\* fo_acc_start counts the table's pointer and fo_acc_destroy gives it back,
\* once, provided that the fo_access is still in the table.
LEMMA UsersAcc ==
    ASSUME TypeInv, TypeInv', NoUseAfterFree, UsersCover, NEW p \in Proc, AccStep(p)
    PROVE  UsersCover'
  <1> USE DEF TypeInv, TypeOK, Proc, Goto, procVars, tableVars, lockVars
  <1>0. users \in Int OBVIOUS
  <1>a. InSend' = InSend
    BY DEF AccStep, AccStartLock, AccStartFail, AccStartAdd, DestroyBlock,
           DestroyLock, Unhash, InSend
  <1>c. /\ IsFiniteSet(htable) /\ Cardinality(htable) \in Nat
        /\ Cardinality(InSend) \in Nat /\ Cardinality(InRecv) \in Nat
    BY UsersFinite
  <1>1. CASE AccStartFail(p)
    <2>1. htable' = htable /\ users' = users BY <1>1 DEF AccStartFail
    <2>2. CASE p \in Task
      <3>1. InRecv' = InRecv BY <1>1, <2>2 DEF AccStartFail, InRecv
      <3> QED BY <1>0, <1>a, <2>1, <3>1 DEF UsersCover
    <2>3. CASE p \in Worker
      <3>1. InRecv' = InRecv \ {p} /\ p \in InRecv BY <1>1, <2>3 DEF AccStartFail, InRecv
      <3>2. Cardinality(InRecv') = Cardinality(InRecv) - 1
        BY <3>1, UsersFinite, FS_RemoveElement
      <3> QED BY <1>0, <1>a, <1>c, <2>1, <3>2 DEF UsersCover
    <2> QED BY <2>2, <2>3
  <1>b. ASSUME ~AccStartFail(p) PROVE InRecv' = InRecv
    BY <1>b DEF AccStep, AccStartLock, AccStartFail, AccStartAdd, DestroyBlock,
           DestroyLock, Unhash, InRecv
  <1>2. CASE AccStartLock(p) \/ DestroyBlock(p) \/ DestroyLock(p)
    <2>1. htable' = htable /\ users' = users
      BY <1>2 DEF AccStartLock, DestroyBlock, DestroyLock
    <2> QED BY <1>0, <1>a, <1>1, <2>1, <1>b DEF UsersCover
  <1>3. CASE AccStartAdd(p)
    <2>1. htable' = htable \cup {acc[p]} /\ users' = users + 1 BY <1>3 DEF AccStartAdd
    <2>2. \/ Cardinality(htable') = Cardinality(htable) + 1
          \/ Cardinality(htable') = Cardinality(htable)
      BY <2>1, UsersFinite, FS_AddElement
    <2>4. InRecv' = InRecv BY <1>1, <1>b, <1>3 DEF AccStartAdd, AccStartFail
    <2> QED BY <1>0, <1>a, <1>c, <2>1, <2>2, <2>4 DEF UsersCover
  <1>4. CASE Unhash(p)
    <2>1. htable' = htable \ {acc[p]} /\ users' = users - 1 BY <1>4 DEF Unhash
    <2>2. acc[p] \in htable BY <1>4 DEF Unhash, NoUseAfterFree
    <2>3. Cardinality(htable') = Cardinality(htable) - 1
      BY ONLY <1>c, <2>1, <2>2, FS_RemoveElement
    <2>5. InRecv' = InRecv BY <1>b, <1>4 DEF Unhash, AccStartFail
    <2> QED BY <1>0, <1>a, <1>c, <2>1, <2>3, <2>5 DEF UsersCover
  <1> QED BY <1>1, <1>2, <1>3, <1>4 DEF AccStep

\* fo_send takes a reference when it starts and gives it back when it ends.
LEMMA UsersSend ==
    ASSUME TypeInv, UsersCover, NEW t \in Task, FoSendStep(t)
    PROVE  UsersCover'
  <1> USE DEF TypeInv, TypeOK, Proc, Goto, procVars, tableVars, lockVars, TaskPc
  <1>0. users \in Int OBVIOUS
  <1>a. htable' = htable /\ InRecv' = InRecv
    BY DEF FoSendStep, FoSendAlloc, FoSendAllocFail, ForeqAddLock, ForeqAddFail,
           ForeqAdd, IncSeq, ReadSeq, NlSend, FoSendFail, FoSendWake, FoSendOut, InRecv
  <1>b. /\ IsFiniteSet(InSend) /\ Cardinality(htable) \in Nat
        /\ Cardinality(InSend) \in Nat /\ Cardinality(InRecv) \in Nat
    BY UsersFinite
  <1>1. CASE FoSendAlloc(t) \/ FoSendAllocFail(t)
    <2>1. InSend' = InSend \cup {t} /\ t \notin InSend /\ users' = users + 1
      BY <1>1 DEF FoSendAlloc, FoSendAllocFail, InSend
    <2>2. Cardinality(InSend') = Cardinality(InSend) + 1
      BY <1>b, <2>1, FS_AddElement
    <2> QED BY <1>0, <1>a, <1>b, <2>1, <2>2 DEF UsersCover
  <1>2. CASE FoSendOut(t)
    <2>1. InSend' = InSend \ {t} /\ t \in InSend /\ users' = users - 1
      BY <1>2 DEF FoSendOut, InSend
    <2>2. Cardinality(InSend') = Cardinality(InSend) - 1
      BY <1>b, <2>1, FS_RemoveElement
    <2> QED BY <1>0, <1>a, <1>b, <2>1, <2>2 DEF UsersCover
  <1>3. CASE ~(FoSendAlloc(t) \/ FoSendAllocFail(t)) /\ ~FoSendOut(t)
    <2>1. InSend' = InSend /\ users' = users
      BY <1>3 DEF FoSendStep, ForeqAddLock, ForeqAddFail,
           ForeqAdd, IncSeq, ReadSeq, NlSend, FoSendFail, FoSendWake, InSend
    <2> QED BY <1>0, <1>a, <2>1 DEF UsersCover
  <1> QED BY <1>1, <1>2, <1>3

\* fo_recv takes a reference when it starts and gives it back when it ends,
\* or keeps it where it exits early.
LEMMA UsersRecv ==
    ASSUME TypeInv, UsersCover, NEW w \in Worker,
           FoRecvStep(w) \/ \E m \in net : Deliver(w, m)
    PROVE  UsersCover'
  <1> USE DEF TypeInv, TypeOK, Proc, Goto, procVars, tableVars, lockVars, WorkerPc
  <1>0. users \in Int OBVIOUS
  <1>a. htable' = htable /\ InSend' = InSend
    BY DEF FoRecvStep, Deliver, FindAccLock, FindAccHit, FindAccMiss, ForeqFindLock,
           ForeqFindFail, ForeqFind, ForeqFindMiss, Complete, FoRecvPut, InSend
  <1>b. /\ IsFiniteSet(InRecv) /\ Cardinality(htable) \in Nat
        /\ Cardinality(InSend) \in Nat /\ Cardinality(InRecv) \in Nat
    BY UsersFinite
  <1>1. CASE \E m \in net : Deliver(w, m)
    <2>1. InRecv' = InRecv \cup {w} /\ w \notin InRecv /\ users' = users + 1
      BY <1>1 DEF Deliver, InRecv
    <2>2. Cardinality(InRecv') = Cardinality(InRecv) + 1
      BY <1>b, <2>1, FS_AddElement
    <2> QED BY <1>0, <1>a, <1>b, <2>1, <2>2 DEF UsersCover
  <1>2. CASE FoRecvPut(w)
    <2>1. InRecv' = InRecv \ {w} /\ w \in InRecv /\ users' = users - 1
      BY <1>2 DEF FoRecvPut, InRecv
    <2>2. Cardinality(InRecv') = Cardinality(InRecv) - 1
      BY <1>b, <2>1, FS_RemoveElement
    <2> QED BY <1>0, <1>a, <1>b, <2>1, <2>2 DEF UsersCover
  <1>3. CASE FoRecvStep(w) /\ ~FoRecvPut(w)
    <2>1. InRecv' \subseteq InRecv /\ users' = users
      BY <1>3 DEF FoRecvStep, FindAccLock, FindAccHit, FindAccMiss, ForeqFindLock,
           ForeqFindFail, ForeqFind, ForeqFindMiss, Complete, AfterMiss, InRecv
    <2>2. Cardinality(InRecv') <= Cardinality(InRecv) /\ Cardinality(InRecv') \in Nat
      BY <1>b, <2>1, FS_Subset, FS_CardinalityType
    <2> QED BY <1>0, <1>a, <1>b, <2>1, <2>2 DEF UsersCover
  <1> QED BY <1>1, <1>2, <1>3

\* Every step from a state in which no fo_access was freed under its user
\* keeps the counter above what it must cover.
LEMMA UsersStep ==
    TypeInv /\ NoUseAfterFree /\ UsersCover /\ [Next]_vars => UsersCover'
  <1> SUFFICES ASSUME TypeInv, NoUseAfterFree, UsersCover, [Next]_vars PROVE UsersCover'
      OBVIOUS
  <1>1. TypeInv' BY TypeStep
  <1>2. CASE SysCall
    <2> PICK t \in Task, f \in File, ty \in Type,
             s \in {"open", "opening", "closing"}, l \in {"acc_lock", "alloc"} :
             Call(t, f, ty, s, l)
        BY <1>2, CallForm
    <2>1. htable' = htable /\ InSend' = InSend /\ InRecv' = InRecv /\ users' = users
      BY DEF Call, InSend, InRecv, Goto, TypeInv, TypeOK, Proc, tableVars
    <2> QED BY <2>1 DEF UsersCover
  <1>3. CASE UNCHANGED vars
    BY <1>3 DEF vars, procVars, tableVars, UsersCover, InSend, InRecv
  <1> QED BY <1>1, <1>2, <1>3, UsersAcc, UsersSend, UsersRecv DEF Next

\* For all constants, shared files and failures included: as long as no
\* fo_access is freed under its user, nddata->users covers every fo_access in
\* the table and every thread inside fo_send or fo_recv.
THEOREM UsersCoverIfSafe == Spec /\ []NoUseAfterFree => []UsersCover
  BY TypeInit, TypeStep, UsersInit, UsersStep, PTL DEF Spec

\* When no task opens two files and nothing fails the counter that decides when
\* netdev_data is freed never under-counts.
THEOREM UsersCounted ==
    ASSUME OneFileEach, Reliable
    PROVE  Spec => []UsersCover
  BY NoAccessFreed, UsersCoverIfSafe, PTL

-----------------------------------------------------------------------------
(***************************************************************************)
(* When no file is shared either, a reply finds the request it answers:    *)
(* that is in the queue of its file (QueuedInv) and has the number of the  *)
(* reply (NumberInv), and the semaphore of the queue is free.              *)
(***************************************************************************)

\* What is in the table for whom.
TableInv ==
    /\ \A t \in Task : pc[t] \in UsesAcc => acc[t] \in htable
    /\ \A f \in File : fstate[f] = "open" => f \in htable
    /\ \A w \in Worker : w \in htable
            => acc[w] = w /\ pc[w] \in {"q_lock", "pop", "destroy", "unhash"}
    /\ \A w \in Worker : pc[w] \in {"q_lock", "pop"}
            => acc[w] \in htable /\ acc[w] \in File \cup {w}
    /\ \A w \in Worker : pc[w] \in {"destroy", "unhash"} => acc[w] = w /\ w \in htable
    /\ \A w \in Worker : /\ pc[w] \in {"acc_lock", "acc_add", "q_lock", "pop"}
                         /\ acc[w] = w
                         => msg[w].type = "OPEN"

\* A worker has taken the request of t out of its queue.
Taken(t) == \E w \in Worker : pc[w] = "complete" /\ msg[w].from = t

\* An unanswered request is in the queue of its file, or taken out of it.
QueuedInv ==
    \A t \in Task : pc[t] \in Queued /\ answer[req[t]] = None
        => queue[acc[t]] = << req[t] >> \/ Taken(t)

\* The reply to a request has its number.
NumberInv ==
    /\ \A m \in net : m.seq = rseq[req[m.from]]
    /\ \A w \in Worker : pc[w] \in {"find", "scan", "acc_lock", "acc_add", "q_lock", "pop"}
            => msg[w].seq = rseq[req[msg[w].from]]

AccessCore == TableInv /\ SemInv /\ QueuedInv /\ NumberInv

\* Initially nobody uses a fo_access.
LEMMA AccessInit == Init => AccessCore
  BY DEF Init, AccessCore, TableInv, SemInv, QueuedInv, NumberInv, Taken, UsesAcc, Queued, Proc, Acc

\* A task that adds its request finds the semaphore of its file free: a worker
\* holds it only to answer a request that its task already waits for.
LEMMA AddFree ==
    ASSUME PrivateFiles, TypeInv, ReplyCore, AccessCore, NEW t \in Task, pc[t] = "add"
    PROVE  accsem[acc[t]] = None
  <1>1. acc[t] \in File /\ Opener[acc[t]] = t BY DEF ReplyCore, OwnerInv
  <1> SUFFICES ASSUME accsem[acc[t]] # None PROVE FALSE OBVIOUS
  <1> PICK p \in Proc : p = accsem[acc[t]]
      BY <1>1 DEF TypeInv, TypeOK, Acc
  <1>2. acc[p] = acc[t] /\ pc[p] \in {"add_in", "pop"}
    BY <1>1 DEF AccessCore, SemInv, Acc
  <1>3. CASE p \in Task
    <2>1. pc[p] # "pop" /\ pc[p] # "idle" BY <1>2, <1>3 DEF TypeInv, TypeOK, TaskPc
    <2>2. acc[p] \in File /\ Opener[acc[p]] = p BY <1>3, <2>1 DEF ReplyCore, OwnerInv
    <2>3. p = t BY <1>1, <1>2, <2>2
    <2> QED BY <1>2, <2>1, <2>3
  <1>4. CASE p \in Worker
    <2>1. pc[p] = "pop" BY <1>2, <1>4 DEF TypeInv, TypeOK, WorkerPc
    <2>2. Opener[acc[p]] = msg[p].id /\ Awaited(msg[p])
      BY <1>1, <1>2, <1>4, <2>1 DEF ReplyCore, MatchInv, MsgInv, Carrying
    <2> QED BY <1>1, <1>2, <2>2 DEF Awaited
  <1> QED BY <1>3, <1>4 DEF Proc

\* A worker that searches the queue of a file finds its request at the head.
LEMMA FoundAtHead ==
    ASSUME PrivateFiles, TypeInv, ReplyCore, AccessCore, NEW w \in Worker,
           pc[w] = "pop", acc[w] \in File
    PROVE  HeadMatches(w)
  <1> PICK u \in Task : u = msg[w].from BY DEF TypeInv, HandInv, Msg
  <1>1. /\ Opener[acc[w]] = u /\ pc[u] = "wait" /\ answer[req[u]] = None
        /\ acc[u] \in File /\ Opener[acc[u]] = u
    BY DEF ReplyCore, MatchInv, MsgInv, Awaited, Carrying, OwnerInv
  <1>2. acc[u] = acc[w] BY <1>1 DEF PrivateFiles
  <1>3. ~Taken(u)
    BY DEF Taken, ReplyCore, MsgInv, Carrying
  <1>4. queue[acc[w]] = << req[u] >> /\ msg[w].seq = rseq[req[u]]
    BY <1>1, <1>2, <1>3 DEF AccessCore, QueuedInv, NumberInv, Queued
  <1> QED BY <1>4 DEF HeadMatches

\* Nobody else holds the semaphore of a file whose request a worker is about
\* to look for.
LEMMA SearchFree ==
    ASSUME PrivateFiles, TypeInv, ReplyCore, AccessCore, NEW w \in Worker,
           pc[w] = "q_lock"
    PROVE  accsem[acc[w]] = None
  <1>1. acc[w] \in File \cup {w} /\ acc[w] \in Acc
    BY DEF AccessCore, TableInv, Acc
  <1> SUFFICES ASSUME accsem[acc[w]] # None PROVE FALSE OBVIOUS
  <1> PICK p \in Proc : p = accsem[acc[w]]
      BY <1>1 DEF TypeInv, TypeOK, Acc
  <1>2. acc[p] = acc[w] /\ pc[p] \in {"add_in", "pop"}
    BY <1>1 DEF AccessCore, SemInv
  <1>3. CASE p \in Task
    <2>1. acc[w] \in File /\ Opener[acc[w]] = p
      BY <1>1, <1>2, <1>3 DEF ReplyCore, OwnerInv, TypeInv, TypeOK, TaskPc
    <2>2. Opener[acc[w]] = msg[w].id /\ Awaited(msg[w])
      BY <2>1 DEF ReplyCore, MatchInv, MsgInv, Carrying
    <2>3. pc[p] = "wait" BY <2>1, <2>2 DEF Awaited
    <2> QED BY <1>2, <2>3
  <1>4. CASE p \in Worker
    <2>1. pc[p] = "pop" /\ p # w
      BY <1>2, <1>4 DEF TypeInv, TypeOK, WorkerPc
    <2>2. acc[w] \in File
      BY <1>1, <1>2, <1>4, <2>1 DEF AccessCore, TableInv
    <2> QED BY <1>2, <1>4, <2>1, <2>2 DEF ReplyCore, MatchInv, MsgInv, Awaited, Carrying
  <1> QED BY <1>3, <1>4 DEF Proc

\* fo_acc_destroy frees the fo_access of the task or worker that calls it.
LEMMA AccessAcc ==
    ASSUME PrivateFiles, Reliable, TypeInv, ReplyCore, AccessCore,
           NEW p \in Proc, AccStep(p)
    PROVE  AccessCore'
  <1> USE DEF TypeInv, TypeOK, HandInv, Proc, Acc, TaskPc, WorkerPc, Goto,
              procVars, tableVars, lockVars, reqVars, PrivateFiles,
              ReplyCore, OwnerInv, QueueInv, MsgInv, MatchInv, Awaited,
              Queued, Carrying, AccessCore, TableInv, SemInv, QueuedInv, NumberInv, Taken, UsesAcc
  <1>1. CASE AccStartLock(p)
    <2>1. TableInv' BY <1>1 DEF AccStartLock
    <2>2. SemInv' BY <1>1 DEF AccStartLock
    <2>3. QueuedInv' BY <1>1 DEF AccStartLock
    <2>4. NumberInv' BY <1>1 DEF AccStartLock
    <2> QED BY <2>1, <2>2, <2>3, <2>4
  <1>2. CASE AccStartFail(p)
    <2>1. TableInv' BY <1>2 DEF AccStartFail
    <2>2. SemInv' BY <1>2 DEF AccStartFail
    <2>3. QueuedInv'
      <3>1. /\ acc' = [acc EXCEPT ![p] = None] /\ pc' = [pc EXCEPT ![p] = "idle"]
            /\ msg' = IF p \in Worker THEN [msg EXCEPT ![p] = None] ELSE msg
            /\ pc[p] = "acc_lock" /\ UNCHANGED <<req, answer, queue>>
        BY <1>2 DEF AccStartFail
      <3>a. \A w \in Worker : pc[w] = "complete" => pc'[w] = pc[w] /\ msg'[w] = msg[w]
        BY <3>1
      <3>2. \A t \in Task : Taken(t) => Taken(t)' BY ONLY <3>a DEF Taken
      <3>3. \A t \in Task : pc'[t] \in Queued
              => t # p /\ pc[t] = pc'[t] /\ acc'[t] = acc[t]
        BY <3>1
      <3> HIDE DEF Taken
      <3> QED BY <3>1, <3>2, <3>3
    <2>4. NumberInv' BY <1>2 DEF AccStartFail
    <2> QED BY <2>1, <2>2, <2>3, <2>4
  <1>3. CASE AccStartAdd(p)
    <2>1. TableInv' BY <1>3 DEF AccStartAdd
    <2>2. SemInv' BY <1>3 DEF AccStartAdd
    <2>3. QueuedInv'
      <3> SUFFICES ASSUME NEW t \in Task, (pc[t] \in Queued)', (answer[req[t]] = None)'
                   PROVE  (queue[acc[t]] = << req[t] >>)' \/ Taken(t)'
          BY DEF QueuedInv
      <3>1. t # p /\ pc[t] \in Queued /\ acc[t] # acc[p] /\ acc[t] \in File
        BY <1>3 DEF AccStartAdd
      <3>2. queue'[acc[t]] = queue[acc[t]] /\ UNCHANGED <<acc, req, msg, answer>>
        BY <1>3, <3>1 DEF AccStartAdd
      <3>3. Taken(t) => Taken(t)'
        BY <1>3 DEF AccStartAdd
      <3> HIDE DEF Taken
      <3> QED BY <3>1, <3>2, <3>3
    <2>4. NumberInv' BY <1>3 DEF AccStartAdd
    <2> QED BY <2>1, <2>2, <2>3, <2>4
  <1>4. CASE DestroyBlock(p) BY <1>4 DEF DestroyBlock
  <1>5. CASE DestroyLock(p) BY <1>5 DEF DestroyLock
  <1>6. CASE Unhash(p)
    <2>0. /\ pc[p] = "unhash" /\ htable' = htable \ {acc[p]}
          /\ acc' = [acc EXCEPT ![p] = None] /\ UNCHANGED msg
          /\ pc' = [pc EXCEPT ![p] = IF p \in Task THEN "idle" ELSE "put"]
          /\ fstate' = IF p \in Task THEN [fstate EXCEPT ![acc[p]] = "closed"] ELSE fstate
      BY <1>6 DEF Unhash
    <2>1. TableInv'
      <3>1. CASE p \in Task
        <4>1. acc[p] \in File /\ Opener[acc[p]] = p BY <2>0, <3>1
        <4>2. \A t \in Task : t # p /\ pc[t] # "idle" => acc[t] # acc[p] BY <4>1
        <4>3. \A w \in Worker : pc[w] \in {"q_lock", "pop"} => acc[w] # acc[p]
          <5> SUFFICES ASSUME NEW w \in Worker, pc[w] \in {"q_lock", "pop"}, acc[w] = acc[p]
                       PROVE  FALSE
              OBVIOUS
          <5>1. Opener[acc[w]] = msg[w].id /\ Awaited(msg[w]) BY <4>1
          <5> QED BY <5>1, <4>1, <2>0
        <4> QED BY <2>0, <3>1, <4>1, <4>2, <4>3
      <3>2. CASE p \in Worker
        <4>1. acc[p] = p /\ p \notin File /\ p \notin Task BY <2>0, <3>2
        <4>2. \A t \in Task : pc[t] # "idle" => acc[t] # p BY <4>1
        <4> QED BY <2>0, <3>2, <4>1, <4>2
      <3> QED BY <3>1, <3>2
    <2>2. SemInv' BY <1>6 DEF Unhash
    <2>3. QueuedInv' BY <1>6 DEF Unhash
    <2>4. NumberInv' BY <1>6 DEF Unhash
    <2> QED BY <2>1, <2>2, <2>3, <2>4
  <1> QED BY <1>1, <1>2, <1>3, <1>4, <1>5, <1>6 DEF AccStep

\* fo_send works on a fo_access that is in the table.
LEMMA AccessSend ==
    ASSUME PrivateFiles, Reliable, SeqInv, TypeInv, ReplyCore, AccessCore,
           NEW t \in Task, FoSendStep(t)
    PROVE  AccessCore'
  <1> USE DEF TypeInv, TypeOK, HandInv, Proc, Acc, TaskPc, WorkerPc, Goto,
              procVars, tableVars, lockVars, reqVars, PrivateFiles,
              ReplyCore, OwnerInv, ReqInv, QueueInv, MsgInv, MatchInv, Awaited,
              HasReq, Queued, Carrying, AccessCore, TableInv, SemInv, QueuedInv, NumberInv, Taken, UsesAcc
  <1>1. CASE FoSendAlloc(t)
    <2>1. TableInv' BY <1>1 DEF FoSendAlloc
    <2>2. SemInv' BY <1>1 DEF FoSendAlloc
    <2>3. QueuedInv' BY <1>1 DEF FoSendAlloc
    <2>4. NumberInv'
      <3>1. PICK r \in Req \ live, n \in Seq32 :
              req' = [req EXCEPT ![t] = r] /\ rseq' = [rseq EXCEPT ![r] = n]
        BY ONLY <1>1, Zenon DEF FoSendAlloc
      <3>2. /\ pc[t] = "alloc" /\ pc' = [pc EXCEPT ![t] = "add"]
            /\ UNCHANGED <<msg, net>>
        BY <1>1 DEF FoSendAlloc
      <3>3. \A u \in Task : pc[u] = "wait" => u # t /\ req[u] \in live
        BY <3>2
      <3>4. \A u \in Task : pc[u] = "wait" => rseq'[req'[u]] = rseq[req[u]]
        BY <3>1, <3>3
      <3>5. \A m \in net : m.from \in Task /\ pc[m.from] = "wait" BY DEF Msg
      <3>6. \A w \in Worker : pc[w] \in Carrying => msg[w].from \in Task /\ pc[msg[w].from] = "wait"
        BY DEF Msg
      <3> QED BY <3>2, <3>4, <3>5, <3>6
    <2> QED BY <2>1, <2>2, <2>3, <2>4
  <1>2. ~FoSendAllocFail(t) /\ ~FoSendFail(t)
    BY DEF FoSendAllocFail, FoSendFail, Reliable
  <1>3. CASE ForeqAddLock(t) BY <1>3 DEF ForeqAddLock
  <1>4. ~ForeqAddFail(t) BY AddFree DEF ForeqAddFail
  <1>5. CASE ForeqAdd(t)
    <2>0. pc[t] = "add_in" /\ acc[t] \in File /\ Opener[acc[t]] = t
      BY <1>5 DEF ForeqAdd
    <2>1. acc[t] \in File /\ Opener[acc[t]] = t /\ queue[acc[t]] = << >>
      BY ONLY <2>0, ReplyCore DEF ReplyCore, QueueInv, Queued
    <2>2. queue' = [queue EXCEPT ![acc[t]] = << req[t] >>]
      BY <1>5, <2>1 DEF ForeqAdd
    <2>3. pc[t] = "add_in" /\ pc' = [pc EXCEPT ![t] = "serialize"]
      BY <1>5 DEF ForeqAdd
    <2>4. UNCHANGED <<acc, req, type, msg, fstate, reqVars, net, htable>>
      BY <1>5 DEF ForeqAdd
    <2>5. TableInv' BY <2>3, <2>4
    <2>6. SemInv' BY <1>5, <2>1 DEF ForeqAdd
    <2>7. QueuedInv' BY <2>1, <2>2, <2>3, <2>4
    <2>8. NumberInv' BY <2>1, <2>2, <2>3, <2>4
    <2> QED BY <2>5, <2>6, <2>7, <2>8
  <1>6. CASE IncSeq(t) BY <1>6 DEF IncSeq
  <1>7. CASE ReadSeq(t)
    <2>1. TableInv' BY <1>7 DEF ReadSeq
    <2>2. SemInv' BY <1>7 DEF ReadSeq
    <2>3. QueuedInv' BY <1>7 DEF ReadSeq
    <2>4. NumberInv'
      <3>1. /\ pc[t] = "read" /\ rseq' = [rseq EXCEPT ![req[t]] = curseq]
            /\ \E l \in {"out", "nlsend"} : pc' = [pc EXCEPT ![t] = l]
            /\ UNCHANGED <<msg, net, req>>
        BY <1>7 DEF ReadSeq
      <3>2. \A u \in Task : pc[u] = "wait" => rseq'[req[u]] = rseq[req[u]]
        BY <3>1
      <3>3. \A m \in net : m.from \in Task /\ pc[m.from] = "wait" BY DEF Msg
      <3>4. \A w \in Worker : pc[w] \in Carrying => msg[w].from \in Task /\ pc[msg[w].from] = "wait"
        BY DEF Msg
      <3> QED BY <3>1, <3>2, <3>3, <3>4
    <2> QED BY <2>1, <2>2, <2>3, <2>4
  <1>8. CASE NlSend(t) BY <1>8 DEF NlSend, Msg, Type
  <1>9. CASE FoSendWake(t) BY <1>9 DEF FoSendWake
  <1>10. CASE FoSendOut(t) BY <1>10 DEF FoSendOut
  <1> QED BY <1>1, <1>2, <1>3, <1>4, <1>5, <1>6, <1>7, <1>8, <1>9, <1>10
          DEF FoSendStep

\* fo_recv finds its own fo_access or the one of the file, and gives up only
\* on its own.
LEMMA AccessRecv ==
    ASSUME PrivateFiles, Reliable, TypeInv, ReplyCore, AccessCore, NEW w \in Worker,
           FoRecvStep(w) \/ \E m \in net : Deliver(w, m)
    PROVE  AccessCore'
  <1> USE DEF TypeInv, TypeOK, HandInv, Proc, Acc, TaskPc, WorkerPc, Goto,
              procVars, tableVars, lockVars, reqVars, PrivateFiles,
              ReplyCore, OwnerInv, QueueInv, MsgInv, MatchInv, Awaited,
              Queued, Carrying, AccessCore, TableInv, SemInv, QueuedInv, NumberInv, Taken, UsesAcc
  <1>1. CASE \E m \in net : Deliver(w, m)
    <2>1. TableInv' BY <1>1 DEF Deliver
    <2>2. SemInv' BY <1>1 DEF Deliver
    <2>3. QueuedInv'
      <3>1. \A t \in Task : Taken(t) => Taken(t)'
        BY <1>1 DEF Deliver
      <3>2. /\ UNCHANGED <<acc, req, answer, queue>>
            /\ \A t \in Task : pc'[t] = pc[t]
        BY <1>1 DEF Deliver
      <3> HIDE DEF Taken
      <3> QED BY <3>1, <3>2
    <2>4. NumberInv' BY <1>1 DEF Deliver
    <2> QED BY <2>1, <2>2, <2>3, <2>4
  <1>2. CASE FindAccLock(w) BY <1>2 DEF FindAccLock
  <1>3. CASE FindAccHit(w)
    <2>1. PICK a \in htable : AccId(a) = msg[w].id /\ acc' = [acc EXCEPT ![w] = a]
      BY <1>3 DEF FindAccHit, FindAcc
    <2>2. /\ pc[w] = "scan" /\ pc' = [pc EXCEPT ![w] = "q_lock"]
          /\ UNCHANGED <<req, msg, fstate, queue, htable, accsem, reqVars, net>>
      BY <1>3 DEF FindAccHit
    <2>3. a \in File
      <3> SUFFICES ASSUME a \in Worker PROVE FALSE OBVIOUS
      <3>1. pc[a] \in {"q_lock", "pop", "destroy", "unhash"} BY <2>1
      <3>2. msg[a].id = msg[w].id BY <2>1 DEF AccId
      <3>3. msg[a].from = msg[w].from BY <2>2, <3>1, <3>2
      <3> QED BY <2>2, <3>1, <3>3
    <2>4. TableInv' BY <2>1, <2>2, <2>3
    <2>5. SemInv' BY <2>1, <2>2
    <2>6. QueuedInv' BY <2>1, <2>2
    <2>7. NumberInv' BY <2>1, <2>2
    <2> QED BY <2>4, <2>5, <2>6, <2>7
  <1>4. CASE FindAccMiss(w)
    <2>1. TableInv' BY <1>4 DEF FindAccMiss
    <2>2. SemInv' BY <1>4 DEF FindAccMiss
    <2>3. QueuedInv' BY <1>4 DEF FindAccMiss
    <2>4. NumberInv' BY <1>4 DEF FindAccMiss
    <2> QED BY <2>1, <2>2, <2>3, <2>4
  <1>5. CASE ForeqFindLock(w) BY <1>5 DEF ForeqFindLock
  <1>6. ~ForeqFindFail(w) BY SearchFree DEF ForeqFindFail
  <1>7. CASE ForeqFind(w)
    <2> PICK u \in Task : u = msg[w].from BY <1>7 DEF ForeqFind, Msg
    <2>1. /\ pc[w] = "pop" /\ pc' = [pc EXCEPT ![w] = "complete"]
          /\ accsem' = [accsem EXCEPT ![acc[w]] = None]
          /\ queue' = [queue EXCEPT ![acc[w]] = Tail(@)]
          /\ \E r : req' = [req EXCEPT ![w] = r]
          /\ UNCHANGED <<acc, msg, fstate, htable, reqVars, net>>
      BY <1>7 DEF ForeqFind
    <2>2. acc[w] \in File /\ Opener[acc[w]] = u
      <3>1. queue[acc[w]] # << >> BY <1>7 DEF ForeqFind, HeadMatches
      <3>2. acc[w] \in File BY <2>1, <3>1
      <3>3. Opener[acc[w]] = msg[w].id /\ Awaited(msg[w]) BY <2>1, <3>2
      <3> QED BY <3>2, <3>3
    <2>3. w \notin htable BY <2>1, <2>2
    <2>4. TableInv' BY <2>1, <2>3
    <2>5. SemInv' BY <2>1
    <2>6. QueuedInv'
      <3> SUFFICES ASSUME NEW t \in Task, pc[t] \in Queued, (answer[req[t]] = None)'
                   PROVE  (queue[acc[t]] = << req[t] >>)' \/ Taken(t)'
          BY <2>1 DEF QueuedInv
      <3>1. req'[t] = req[t] /\ answer' = answer BY <2>1
      <3>2. Taken(t) => Taken(t)' BY <2>1
      <3>3. CASE t = u BY <2>1, <3>3
      <3>4. CASE t # u
        <4>1. acc[t] # acc[w] /\ acc[t] \in File BY <2>2, <3>4
        <4>2. queue'[acc'[t]] = queue[acc[t]] BY <2>1, <4>1
        <4> HIDE DEF Taken
        <4> QED BY <3>1, <3>2, <4>2
      <3> QED BY <3>3, <3>4
    <2>7. NumberInv'
      <3>1. \A t \in Task : req'[t] = req[t] BY <2>1
      <3>2. \A m \in net : m.from \in Task BY DEF Msg
      <3>3. \A x \in Worker : pc[x] \in Carrying => msg[x].from \in Task BY DEF Msg
      <3> QED BY <2>1, <3>1, <3>2, <3>3
    <2> QED BY <2>4, <2>5, <2>6, <2>7
  <1>8. CASE ForeqFindMiss(w)
    <2>1. TableInv' BY <1>8, FoundAtHead DEF ForeqFindMiss, AfterMiss, Rotate
    <2>2. SemInv' BY <1>8, FoundAtHead DEF ForeqFindMiss, AfterMiss, Rotate
    <2>3. QueuedInv' BY <1>8, FoundAtHead DEF ForeqFindMiss, AfterMiss, Rotate
    <2>4. NumberInv' BY <1>8, FoundAtHead DEF ForeqFindMiss, AfterMiss, Rotate
    <2> QED BY <2>1, <2>2, <2>3, <2>4
  <1>9. CASE Complete(w) BY <1>9 DEF Complete
  <1>10. CASE FoRecvPut(w)
    <2>1. TableInv' BY <1>10 DEF FoRecvPut
    <2>2. SemInv' BY <1>10 DEF FoRecvPut
    <2>3. QueuedInv' BY <1>10 DEF FoRecvPut
    <2>4. NumberInv' BY <1>10 DEF FoRecvPut
    <2> QED BY <2>1, <2>2, <2>3, <2>4
  <1> QED BY <1>1, <1>2, <1>3, <1>4, <1>5, <1>6, <1>7, <1>8, <1>9, <1>10
          DEF FoRecvStep

\* A system call starts on a file that is in the table, or opens it.
LEMMA AccessCall ==
    ASSUME PrivateFiles, TypeInv, ReplyCore, AccessCore, SysCall
    PROVE  AccessCore'
  <1> USE DEF Call, TypeInv, TypeOK, HandInv, Proc, Acc, TaskPc, WorkerPc, Goto,
              tableVars, lockVars, reqVars, PrivateFiles, ReplyCore, MsgInv, Awaited,
              Queued, Carrying, AccessCore, TableInv, SemInv, QueuedInv, NumberInv, Taken, UsesAcc
  <1> PICK f \in File : \/ SendOpen(f)
                        \/ \E t \in Task : SendIo(t, f) \/ SendRelease(t, f)
      BY DEF SysCall
  <1>1. CASE SendOpen(f) BY <1>1 DEF SendOpen
  <1>2. CASE \E t \in Task : SendIo(t, f) BY <1>2 DEF SendIo
  <1>3. CASE \E t \in Task : SendRelease(t, f) BY <1>3 DEF SendRelease
  <1> QED BY <1>1, <1>2, <1>3

\* A stuttering step changes nothing.
LEMMA AccessStutter == ASSUME AccessCore, UNCHANGED vars PROVE AccessCore'
  <1> USE DEF vars, procVars, tableVars, lockVars, reqVars, AccessCore, UsesAcc, Queued
  <1>1. TableInv' BY DEF TableInv
  <1>2. SemInv' BY DEF SemInv
  <1>3. QueuedInv' BY DEF QueuedInv, Taken
  <1>4. NumberInv' BY DEF NumberInv
  <1> QED BY <1>1, <1>2, <1>3, <1>4

\* Every step keeps the fo_access objects with those who use them.
LEMMA AccessStep ==
    ASSUME PrivateFiles, Reliable
    PROVE  TypeInv /\ SeqInv /\ ReplyCore /\ AccessCore /\ [Next]_vars => AccessCore'
  BY AccessAcc, AccessSend, AccessRecv, AccessCall, AccessStutter DEF Next

\* fo_acc_foreq_find gets the semaphore of the queue, and finds the request it
\* looks for at the head of it.
SearchHits ==
    \A w \in Worker : /\ pc[w] = "q_lock" => accsem[acc[w]] = None
                     /\ pc[w] = "pop" /\ acc[w] \in File => HeadMatches(w)

\* With one private file per task and no failures no reply that has reached the
\* fo_access of a file is dropped: neither the trylock of fo_acc_foreq_find nor
\* its search fails.  (ndmgm_find_acc, before it, may lose a trylock.)
THEOREM RepliesTaken ==
    ASSUME PrivateFiles, Reliable
    PROVE  Spec => []SearchHits
  <1>1. TypeInv /\ ReplyCore /\ AccessCore => SearchHits
    BY SearchFree, FoundAtHead DEF SearchHits
  <1> QED BY TypeInit, ReplyInit, SeqInit, AccessInit, TypeStep, ReplyStep, SeqStep,
             AccessStep, <1>1, PTL
          DEF Spec

\* fo_acc_foreq_find, whose loop looks at one element only, takes the request
\* it is asked for out of the queue whenever it is there.
THEOREM SearchFinds ==
    ASSUME PrivateFiles, Reliable
    PROVE  Spec => FindsRequest
  <1> DEFINE Finds ==
        \A w \in Worker :
            /\ pc[w] = "pop" /\ pc'[w] # "pop"
            /\ \E i \in 1 .. Len(queue[acc[w]]) : rseq[queue[acc[w]][i]] = msg[w].seq
            => pc'[w] = "complete"
  <1>1. ASSUME TypeInv, ReplyCore, [Next]_vars PROVE [Finds]_vars
    <2> SUFFICES ASSUME Next, NEW w \in Worker, pc[w] = "pop", pc'[w] # "pop",
                        \E i \in 1 .. Len(queue[acc[w]]) : rseq[queue[acc[w]][i]] = msg[w].seq
                 PROVE  pc'[w] = "complete"
        BY <1>1
    <2> USE <1>1
    <2>1. ForeqFind(w) \/ ForeqFindMiss(w)
      <3> USE DEF TypeInv, TypeOK, Proc, Goto, procVars
      <3>1. \A p \in Proc : AccStep(p) => pc'[w] = pc[w]
        BY DEF AccStep, AccStartLock, AccStartFail, AccStartAdd, DestroyBlock,
               DestroyLock, Unhash
      <3>2. \A t \in Task : FoSendStep(t) => pc'[w] = pc[w]
        BY DEF FoSendStep, FoSendAlloc, FoSendAllocFail, ForeqAddLock, ForeqAddFail,
               ForeqAdd, IncSeq, ReadSeq, NlSend, FoSendFail, FoSendWake, FoSendOut
      <3>3. SysCall => pc'[w] = pc[w]
        BY CallForm DEF Call
      <3>4. \A x \in Worker : (\E m \in net : Deliver(x, m)) => pc'[w] = pc[w]
        BY DEF Deliver
      <3>5. \A x \in Worker : FoRecvStep(x) =>
              pc'[w] = pc[w] \/ ForeqFind(w) \/ ForeqFindMiss(w)
        BY DEF FoRecvStep, FindAccLock, FindAccHit, FindAccMiss, ForeqFindLock,
               ForeqFindFail, ForeqFind, ForeqFindMiss, Complete, FoRecvPut
      <3> QED BY <3>1, <3>2, <3>3, <3>4, <3>5 DEF Next
    <2>2. acc[w] \in File
      <3>1. acc[w] \in File \cup Worker BY DEF TypeInv, HandInv, Acc
      <3>2. \A x \in Worker : queue[x] = << >> BY DEF ReplyCore, QueueInv
      <3> QED BY <3>1, <3>2
    <2>3. HeadMatches(w)
      <3>1. queue[acc[w]] # << >> BY DEF TypeInv, TypeOK, Acc
      <3>2. queue[acc[w]] = << req[Opener[acc[w]]] >>
        BY <2>2, <3>1 DEF ReplyCore, QueueInv
      <3> QED BY <3>2 DEF HeadMatches
    <2> QED BY <2>1, <2>3 DEF ForeqFind, ForeqFindMiss, Goto, TypeInv, TypeOK, Proc
  <1>2. Spec => [](TypeInv /\ ReplyCore)
    BY TypeInit, ReplyInit, SeqInit, TypeStep, ReplyStep, SeqStep, PTL
    DEF Spec
  <1>3. Spec => [][Finds]_vars
    BY <1>1, <1>2, PTL DEF Spec
  <1> QED BY <1>3 DEF FindsRequest
=============================================================================
