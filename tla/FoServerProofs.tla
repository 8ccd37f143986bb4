--------------------------- MODULE FoServerProofs ---------------------------
(***************************************************************************)
(* Theorems about FoServer, for any number of remote tasks, threads and    *)
(* opens, failures included.                                               *)
(*                                                                         *)
(* The argument: a remote task has one request at a time (RequestInv), so  *)
(* the only other threads that know a fo_access of its are those of old    *)
(* RELEASEs, which have their result sent and are about to destroy theirs  *)
(* (AccInv).  A task that is not overtaken never shares one with them, so  *)
(* the newest fo_access of it in the table is the one its open has put its *)
(* file in (SessionInv), and that file is closed by its release (FileInv). *)
(***************************************************************************)
EXTENDS FoServer, FiniteSetTheorems, TLAPS

Pre == {"find", "scan", "acc_lock", "acc_add", "exec", "reply"}
Dying == {"destroy", "unhash"}
HasAcc == {"acc_lock", "acc_add", "exec", "reply", "destroy", "unhash"}

\* What a task is doing while its request is under way.
Busy(ty) == IF ty = "OPEN" THEN "opening" ELSE IF ty = "IO" THEN "io" ELSE "closing"

Pending(m) == cl[m.pid] = Busy(m.type) /\ m.n = n[m.pid]

\* No request of p is on its way or being executed.
Quiet(p) == /\ \A m \in net : m.pid # p
            /\ \A w \in Thread : pc[w] \in Pre => msg[w].pid # p

\* TypeOK apart from the reference counter, and what a thread has at hand.
TypeInv ==
    /\ pc \in [Thread -> ThreadPc]
    /\ msg \in [Thread -> Msg \cup {None}]
    /\ acc \in [Thread -> Session \cup {None}]
    /\ res \in [Thread -> {"ok", "fail"}]
    /\ htable \in SUBSET Session
    /\ filp \in [Session -> [st : {"null", "err"}] \cup [st : {"file"}, of : Session]]
    /\ opened \in SUBSET Session
    /\ ndw \in Thread \cup {None}
    /\ ndr \in SUBSET Thread /\ ndq \in SUBSET Thread
    /\ users \in Int
    /\ net \in SUBSET Msg
    /\ cl \in [Pid -> {"closed", "opening", "open", "io", "closing"}]
    /\ n \in [Pid -> 0 .. MaxOpen]
    /\ overtaken \in SUBSET Pid
    /\ kept \in SUBSET Session
    /\ \A w \in Thread : pc[w] # "idle" => msg[w] \in Msg
    /\ \A w \in Thread : pc[w] \in HasAcc => acc[w] \in Session
    /\ \A p \in Pid : cl[p] # "closed" => n[p] >= 1

\* One request per task at a time, and it is what the task waits for.
RequestInv ==
    /\ \A m \in net : Pending(m)
    /\ \A w \in Thread : pc[w] \in Pre => Pending(msg[w])
    /\ \A m, k \in net : m.pid = k.pid => m = k
    /\ \A m \in net, w \in Thread : pc[w] \in Pre => msg[w].pid # m.pid
    /\ \A w, x \in Thread : /\ pc[w] \in Pre /\ pc[x] \in Pre
                            /\ msg[w].pid = msg[x].pid
                            => w = x

\* No session number is in use before its task has drawn it.
TableInv == \A s \in htable : s[2] <= n[s[1]]

\* Whose fo_access a thread works on.
HandInv ==
    /\ \A w \in Thread : pc[w] \in HasAcc
            => acc[w][1] = msg[w].pid /\ acc[w][2] <= msg[w].n
    /\ \A w \in Thread : pc[w] \in {"acc_lock", "acc_add"}
            => msg[w].type = "OPEN" /\ acc[w] = <<msg[w].pid, msg[w].n>>

\* A fo_access is destroyed for a RELEASE, and unless its task has opened the
\* device again that was the task's last request.
DyingInv ==
    \A w \in Thread : pc[w] \in Dying
        => /\ msg[w].type = "RELEASE" /\ msg[w].n <= n[msg[w].pid]
           /\ msg[w].n = n[msg[w].pid]
              => Quiet(msg[w].pid) /\ cl[msg[w].pid] \in {"closed", "closing"}

\* Nobody else works on a fo_access that a thread is about to destroy.
AloneInv ==
    \A w, v \in Thread : /\ w # v /\ pc[w] \in Dying /\ pc[v] \in HasAcc
                         /\ acc[v] = acc[w]
                         => msg[w].pid \in overtaken

AccInv == TableInv /\ HandInv /\ DyingInv /\ AloneInv /\ NoUseAfterFree

\* The newest fo_access of p holds the file of its session and nobody is
\* about to destroy it.
Held(p) ==
    \E s \in FindAcc(p) : /\ filp[s] = FileOf(<<p, n[p]>>)
                          /\ \A v \in Thread : pc[v] \in Dying => acc[v] # s

\* Task p has the device open and may still have it operated.
NeedsFile(p) == cl[p] = "open" \/ (cl[p] \in {"io", "closing"} /\ ~Quiet(p))

\* An OPEN puts the file in the newest fo_access of its task.
OpensInv ==
    \A w \in Thread : /\ pc[w] \in {"exec", "reply"} /\ msg[w].type = "OPEN"
                      /\ msg[w].pid \notin overtaken
                      => /\ acc[w] \in FindAcc(msg[w].pid)
                         /\ pc[w] = "reply" /\ res[w] = "ok"
                            => filp[acc[w]] = FileOf(<<msg[w].pid, msg[w].n>>)

HeldInv == \A p \in Pid \ overtaken : NeedsFile(p) => Held(p)

SessionInv == HeldInv /\ OpensInv /\ OwnFile

\* Which files are open.
FileInv ==
    /\ \A w \in Thread : pc[w] # "reply" => res[w] = "fail"
    /\ \A s \in opened : s[2] <= n[s[1]]
    /\ \A m \in net : m.type = "OPEN" => <<m.pid, m.n>> \notin opened
    /\ \A w \in Thread : pc[w] \in Pre \ {"reply"} /\ msg[w].type = "OPEN"
            => <<msg[w].pid, msg[w].n>> \notin opened
    /\ \A w \in Thread : pc[w] = "reply" /\ msg[w].type = "OPEN" /\ res[w] = "fail"
            => <<msg[w].pid, msg[w].n>> \notin opened \ kept
    /\ \A w \in Thread : /\ pc[w] = "reply" /\ msg[w].type = "RELEASE"
                         /\ msg[w].pid \notin overtaken
            => <<msg[w].pid, msg[w].n>> \notin opened
    /\ ClosedFiles

ServerInv == TypeInv /\ RequestInv /\ AccInv /\ SessionInv /\ FileInv /\ UsersCover

USE SetAssumption, MaxAssumption, FaultsAssumption

-----------------------------------------------------------------------------
(* Types *)

\* The initial state is well typed.
LEMMA TypeInit == Init => TypeInv
  BY DEF Init, TypeInv, ThreadPc, HasAcc, Null, Session

\* A request names a task and a session.
LEMMA MsgType ==
    ASSUME NEW m \in Msg
    PROVE  /\ m.pid \in Pid /\ m.n \in 1 .. MaxOpen /\ m.type \in Type
           /\ <<m.pid, m.n>> \in Session
  BY DEF Msg, Session

\* The result of a request that is under way makes its task closed or open.
LEMMA AnsweredType ==
    ASSUME NEW m \in Msg, Pending(m), NEW r \in {"ok", "fail"}
    PROVE  /\ m.type = "OPEN" => Answered(cl[m.pid], r) = IF r = "ok" THEN "open" ELSE "closed"
           /\ m.type = "IO" => Answered(cl[m.pid], r) = "open"
           /\ m.type = "RELEASE" => Answered(cl[m.pid], r) = "closed"
           /\ Answered(cl[m.pid], r) \in {"open", "closed"}
  BY MsgType DEF Pending, Busy, Answered, Type

\* The requests of the remote tasks are well typed.
LEMMA TypeClient ==
    ASSUME TypeInv, NEW p \in Pid, Client(p)
    PROVE  TypeInv'
  <1> USE DEF TypeInv, Request, Msg, Type, threadVars, tableVars, lockVars
  <1>1. CASE ClientOpen(p) BY <1>1 DEF ClientOpen
  <1>2. CASE ClientIo(p)
    <2>1. n[p] \in 1 .. MaxOpen BY <1>2 DEF ClientIo
    <2> QED BY <1>2, <2>1 DEF ClientIo
  <1>3. CASE ClientRelease(p)
    <2>1. n[p] \in 1 .. MaxOpen BY <1>3 DEF ClientRelease
    <2> QED BY <1>3, <2>1 DEF ClientRelease
  <1> QED BY <1>1, <1>2, <1>3 DEF Client

\* Every step of fo_recv keeps types.
LEMMA TypeRecv ==
    ASSUME TypeInv, RequestInv, NEW w \in Thread,
           FoRecvStep(w) \/ \E m \in net : Deliver(w, m)
    PROVE  TypeInv'
  <1> USE DEF TypeInv, Goto, ThreadPc, HasAcc, threadVars, tableVars, lockVars,
              clientVars
  <1>1. CASE FindAccLock(w) BY <1>1 DEF FindAccLock
  <1>2. CASE FindAccHit(w)
    <2>1. PICK s \in FindAcc(msg[w].pid) :
            /\ acc' = [acc EXCEPT ![w] = s]
            /\ overtaken' = overtaken \cup {msg[v].pid : v \in {v \in Thread :
                                acc[v] = s /\ pc[v] \in {"destroy", "unhash"}}}
      BY <1>2 DEF FindAccHit
    <2>2. s \in Session BY DEF FindAcc
    <2>3. overtaken' \subseteq Pid
      <3>1. \A v \in Thread : pc[v] \in {"destroy", "unhash"} => msg[v].pid \in Pid
        BY MsgType
      <3> QED BY <2>1, <3>1
    <2> QED BY <1>2, <2>1, <2>2, <2>3 DEF FindAccHit
  <1>3. CASE FindAccMiss(w)
    <2>1. <<msg[w].pid, msg[w].n>> \in Session BY <1>3, MsgType DEF FindAccMiss
    <2> QED BY <1>3, <2>1 DEF FindAccMiss, Abandon
  <1>4. CASE AccStartLock(w) BY <1>4 DEF AccStartLock
  <1>5. CASE AccStartFail(w) BY <1>5 DEF AccStartFail, Abandon
  <1>6. CASE AccStartAdd(w) BY <1>6 DEF AccStartAdd
  <1>7. CASE ExecOpen(w)
    <2>1. <<msg[w].pid, msg[w].n>> \in Session BY <1>7, MsgType DEF ExecOpen
    <2> QED BY <1>7, <2>1 DEF ExecOpen, FileOf, Err
  <1>8. CASE ExecOpenKept(w)
    <2>1. <<msg[w].pid, msg[w].n>> \in Session BY <1>8, MsgType DEF ExecOpenKept
    <2> QED BY <1>8, <2>1 DEF ExecOpenKept, FileOf, Err
  <1>9. CASE ExecIo(w) BY <1>9 DEF ExecIo, File
  <1>10. CASE ExecRelease(w) BY <1>10 DEF ExecRelease, File
  <1>11. CASE ExecNoReq(w)
    <2>1. msg[w] \in Msg /\ Pending(msg[w]) BY <1>11 DEF ExecNoReq, RequestInv, Pre
    <2>2. msg[w].pid \in Pid /\ n[msg[w].pid] >= 1
      <3>1. msg[w].pid \in Pid /\ msg[w].n \in 1 .. MaxOpen BY ONLY <2>1, MsgType
      <3> QED BY ONLY <2>1, <3>1, MaxAssumption DEF Pending
    <2>3. Answered(cl[msg[w].pid], res[w]) \in {"open", "closed"}
      BY <2>1, AnsweredType
    <2> QED BY <1>11, <2>2, <2>3 DEF ExecNoReq, Abandon, Reply, File
  <1>12. CASE UseFreed(w) BY <1>12 DEF UseFreed, Abandon
  <1>13. CASE SendReply(w)
    <2>1. msg[w] \in Msg /\ Pending(msg[w]) BY <1>13 DEF SendReply, RequestInv, Pre
    <2>2. msg[w].pid \in Pid /\ n[msg[w].pid] >= 1
      <3>1. msg[w].pid \in Pid /\ msg[w].n \in 1 .. MaxOpen BY ONLY <2>1, MsgType
      <3> QED BY ONLY <2>1, <3>1, MaxAssumption DEF Pending
    <2>3. Answered(cl[msg[w].pid], res[w]) \in {"open", "closed"}
      BY <2>1, AnsweredType
    <2> QED BY <1>13, <2>2, <2>3 DEF SendReply, Reply
  <1>14. CASE DestroyBlock(w) BY <1>14 DEF DestroyBlock
  <1>15. CASE DestroyLock(w) BY <1>15 DEF DestroyLock
  <1>16. CASE Unhash(w) BY <1>16 DEF Unhash
  <1>17. CASE FoRecvPut(w) BY <1>17 DEF FoRecvPut, Abandon
  <1>18. CASE \E m \in net : Deliver(w, m) BY <1>18 DEF Deliver
  <1> QED BY <1>1, <1>2, <1>3, <1>4, <1>5, <1>6, <1>7, <1>8, <1>9, <1>10, <1>11, <1>12,
             <1>13, <1>14, <1>15, <1>16, <1>17, <1>18
          DEF FoRecvStep

-----------------------------------------------------------------------------
(* One request per task *)

\* The requests of threads are well typed.
LEMMA PreMsg ==
    ASSUME TypeInv, NEW w \in Thread, pc[w] # "idle"
    PROVE  /\ msg[w] \in Msg /\ msg[w].pid \in Pid /\ msg[w].n \in 1 .. MaxOpen
           /\ msg[w].type \in Type /\ <<msg[w].pid, msg[w].n>> \in Session
  BY MsgType DEF TypeInv

\* A task makes a request when it has none.
LEMMA RequestClient ==
    ASSUME TypeInv, RequestInv, NEW p \in Pid, Client(p)
    PROVE  RequestInv'
  <1>1. PICK m \in Msg :
          /\ m.pid = p /\ net' = net \cup {m} /\ n'[p] = m.n
          /\ cl[p] \in {"closed", "open"} /\ cl' = [cl EXCEPT ![p] = Busy(m.type)]
          /\ \A q \in Pid \ {p} : n'[q] = n[q]
          /\ UNCHANGED <<pc, msg>>
    <2> USE DEF Request, Msg, Type, threadVars, TypeInv, Busy
    <2>1. CASE ClientOpen(p) BY <2>1 DEF ClientOpen
    <2>2. CASE ClientIo(p)
      <3>1. n[p] \in 1 .. MaxOpen BY <2>2 DEF ClientIo
      <3> QED BY <2>2, <3>1 DEF ClientIo
    <2>3. CASE ClientRelease(p)
      <3>1. n[p] \in 1 .. MaxOpen BY <2>3 DEF ClientRelease
      <3> QED BY <2>3, <3>1 DEF ClientRelease
    <2> QED BY <2>1, <2>2, <2>3 DEF Client
  <1>2. \A k \in net : k.pid \in Pid \ {p}
    BY <1>1, MsgType DEF TypeInv, RequestInv, Pending, Busy
  <1>3. \A w \in Thread : pc[w] \in Pre => msg[w].pid \in Pid \ {p}
    BY <1>1, PreMsg DEF RequestInv, Pending, Busy, Pre
  <1>4. \A q \in Pid \ {p} : n'[q] = n[q] /\ cl'[q] = cl[q]
    BY <1>1 DEF TypeInv
  <1>5. cl'[p] = Busy(m.type) BY <1>1 DEF TypeInv
  <1> QED BY <1>1, <1>2, <1>3, <1>4, <1>5 DEF RequestInv, Pending

\* A thread works on one request and answers it last.
LEMMA RequestRecv ==
    ASSUME TypeInv, RequestInv, NEW w \in Thread,
           FoRecvStep(w) \/ \E m \in net : Deliver(w, m)
    PROVE  RequestInv'
  <1> USE DEF TypeInv, Goto, Pre, RequestInv, Pending, threadVars, tableVars,
              lockVars, clientVars
  <1>1. CASE FindAccLock(w) BY <1>1 DEF FindAccLock
  <1>2. CASE FindAccHit(w) BY <1>2 DEF FindAccHit
  <1>3. CASE FindAccMiss(w) BY <1>3 DEF FindAccMiss, Abandon
  <1>4. CASE AccStartLock(w) BY <1>4 DEF AccStartLock
  <1>5. CASE AccStartFail(w) BY <1>5 DEF AccStartFail, Abandon
  <1>6. CASE AccStartAdd(w) BY <1>6 DEF AccStartAdd
  <1>7. CASE ExecOpen(w) BY <1>7 DEF ExecOpen
  <1>8. CASE ExecOpenKept(w) BY <1>8 DEF ExecOpenKept
  <1>9. CASE ExecIo(w) BY <1>9 DEF ExecIo
  <1>10. CASE ExecRelease(w) BY <1>10 DEF ExecRelease
  <1>11. CASE ExecNoReq(w)
    <2>1. /\ pc[w] = "exec" /\ pc' = [pc EXCEPT ![w] = "idle"]
          /\ \A v \in Thread \ {w} : msg'[v] = msg[v]
          /\ \A q \in Pid \ {msg[w].pid} : cl'[q] = cl[q]
          /\ UNCHANGED <<net, n>>
      BY <1>11 DEF ExecNoReq, Abandon, Reply
    <2>2. \A m \in net : m.pid \in Pid \ {msg[w].pid}
      <3>1. \A m \in net : m.pid \in Pid BY MsgType
      <3> QED BY <2>1, <3>1
    <2>3. \A v \in Thread \ {w} : pc[v] \in Pre => msg[v].pid \in Pid \ {msg[w].pid}
      BY <2>1, PreMsg
    <2> QED BY <2>1, <2>2, <2>3
  <1>12. CASE UseFreed(w) BY <1>12 DEF UseFreed, Abandon
  <1>13. CASE SendReply(w)
    <2>1. /\ pc[w] = "reply" /\ \E l \in {"destroy", "put"} : pc' = [pc EXCEPT ![w] = l]
          /\ \A q \in Pid \ {msg[w].pid} : cl'[q] = cl[q]
          /\ UNCHANGED <<net, n, msg>>
      BY <1>13 DEF SendReply, Reply
    <2>2. \A m \in net : m.pid \in Pid \ {msg[w].pid}
      <3>1. \A m \in net : m.pid \in Pid BY MsgType
      <3> QED BY <2>1, <3>1
    <2>3. \A v \in Thread \ {w} : pc[v] \in Pre => msg[v].pid \in Pid \ {msg[w].pid}
      BY <2>1, PreMsg
    <2> QED BY <2>1, <2>2, <2>3
  <1>14. CASE DestroyBlock(w) BY <1>14 DEF DestroyBlock
  <1>15. CASE DestroyLock(w) BY <1>15 DEF DestroyLock
  <1>16. CASE Unhash(w) BY <1>16 DEF Unhash
  <1>17. CASE FoRecvPut(w) BY <1>17 DEF FoRecvPut, Abandon
  <1>18. CASE \E m \in net : Deliver(w, m) BY <1>18 DEF Deliver
  <1> QED BY <1>1, <1>2, <1>3, <1>4, <1>5, <1>6, <1>7, <1>8, <1>9,
             <1>10, <1>11, <1>12, <1>13, <1>14, <1>15, <1>16, <1>17, <1>18 DEF FoRecvStep

-----------------------------------------------------------------------------
(* fo_access objects and their users *)

\* A session is named by its task and a number.
LEMMA SessionType ==
    ASSUME NEW s \in Session
    PROVE  s[1] \in Pid /\ s[2] \in 1 .. MaxOpen /\ s = <<s[1], s[2]>>
  BY DEF Session

\* A new session of a task makes its old ones older.
LEMMA AccClient ==
    ASSUME TypeInv, RequestInv, AccInv, NEW p \in Pid, Client(p)
    PROVE  AccInv'
  <1>1. PICK m \in Msg :
          /\ m.pid = p /\ net' = net \cup {m}
          /\ n[p] < n'[p] \/ (n'[p] = n[p] /\ cl[p] = "open")
          /\ \A q \in Pid \ {p} : n'[q] = n[q] /\ cl'[q] = cl[q]
          /\ UNCHANGED <<pc, msg, acc, htable, overtaken>>
    <2> USE DEF Request, Msg, Type, threadVars, tableVars, TypeInv
    <2>1. CASE ClientOpen(p)
      <3>1. PICK k \in 1 .. MaxOpen : NextOpen(k) /\ n' = [n EXCEPT ![p] = k] /\ Request(p, "OPEN", k)
        BY <2>1, Zenon DEF ClientOpen
      <3>2. n[p] < k BY <3>1 DEF NextOpen
      <3>3. cl' = [cl EXCEPT ![p] = "opening"] BY <2>1 DEF ClientOpen
      <3> QED BY <3>1, <3>2, <3>3
    <2>2. CASE ClientIo(p)
      <3>1. n[p] \in 1 .. MaxOpen BY <2>2 DEF ClientIo
      <3> QED BY <2>2, <3>1 DEF ClientIo
    <2>3. CASE ClientRelease(p)
      <3>1. n[p] \in 1 .. MaxOpen BY <2>3 DEF ClientRelease
      <3> QED BY <2>3, <3>1 DEF ClientRelease
    <2> QED BY <2>1, <2>2, <2>3 DEF Client
  <1>2. \A q \in Pid : n[q] \in Nat /\ n'[q] \in Nat /\ n[q] <= n'[q]
    BY <1>1, TypeClient DEF TypeInv
  <1>3. TableInv'
    <2>1. \A s \in htable : s[1] \in Pid /\ s[2] \in Nat BY SessionType DEF TypeInv
    <2> QED BY <1>1, <1>2, <2>1 DEF AccInv, TableInv
  <1>4. HandInv' BY <1>1 DEF AccInv, HandInv
  <1>5. DyingInv'
    <2> SUFFICES ASSUME NEW w \in Thread, pc[w] \in Dying
                 PROVE  /\ msg[w].type = "RELEASE" /\ msg[w].n <= n'[msg[w].pid]
                        /\ msg[w].n = n'[msg[w].pid]
                           => Quiet(msg[w].pid)' /\ cl'[msg[w].pid] \in {"closed", "closing"}
        BY <1>1 DEF DyingInv
    <2>1. msg[w].pid \in Pid /\ msg[w].n \in Nat
      <3>1. pc[w] # "idle" BY DEF Dying
      <3>2. msg[w].pid \in Pid /\ msg[w].n \in 1 .. MaxOpen BY <3>1, PreMsg
      <3> QED BY <3>2
    <2>2. CASE msg[w].pid = p
      BY <1>1, <1>2, <2>1, <2>2 DEF AccInv, DyingInv
    <2>3. CASE msg[w].pid # p
      <3>1. Quiet(msg[w].pid) => Quiet(msg[w].pid)' BY <1>1, <2>3 DEF Quiet
      <3> QED BY <1>1, <2>1, <2>3, <3>1 DEF AccInv, DyingInv
    <2> QED BY <2>2, <2>3
  <1>6. AloneInv' /\ NoUseAfterFree' BY <1>1 DEF AccInv, AloneInv, NoUseAfterFree
  <1> QED BY <1>3, <1>4, <1>5, <1>6 DEF AccInv

\* No thread invents a session number, or takes up another task's fo_access.
LEMMA HandRecv ==
    ASSUME TypeInv, RequestInv, AccInv, NEW w \in Thread,
           FoRecvStep(w) \/ \E m \in net : Deliver(w, m)
    PROVE  TableInv' /\ HandInv'
  <1> USE DEF TypeInv, Goto, HasAcc, AccInv, TableInv, HandInv, threadVars, tableVars,
              lockVars, clientVars
  <1>1. CASE FindAccLock(w) BY <1>1 DEF FindAccLock
  <1>2. CASE FindAccHit(w)
    <2>1. PICK s \in htable : s[1] = msg[w].pid /\ acc' = [acc EXCEPT ![w] = s]
      BY <1>2 DEF FindAccHit, FindAcc
    <2>2. s[2] <= msg[w].n BY <1>2, <2>1 DEF FindAccHit, RequestInv, Pending, Pre
    <2> QED BY <1>2, <2>1, <2>2 DEF FindAccHit
  <1>3. CASE FindAccMiss(w)
    <2>1. msg[w].n \in 1 .. MaxOpen BY <1>3, PreMsg DEF FindAccMiss
    <2> QED BY <1>3, <2>1 DEF FindAccMiss, Abandon
  <1>4. CASE AccStartLock(w) BY <1>4 DEF AccStartLock
  <1>5. CASE AccStartFail(w) BY <1>5 DEF AccStartFail, Abandon
  <1>6. CASE AccStartAdd(w)
    <2>1. acc[w] = <<msg[w].pid, msg[w].n>> /\ msg[w].n = n[msg[w].pid]
      BY <1>6 DEF AccStartAdd, RequestInv, Pending, Pre
    <2>2. msg[w].n \in 1 .. MaxOpen BY <1>6, PreMsg DEF AccStartAdd
    <2> QED BY <1>6, <2>1, <2>2 DEF AccStartAdd
  <1>7. CASE ExecOpen(w) BY <1>7 DEF ExecOpen
  <1>8. CASE ExecOpenKept(w) BY <1>8 DEF ExecOpenKept
  <1>9. CASE ExecIo(w) BY <1>9 DEF ExecIo
  <1>10. CASE ExecRelease(w) BY <1>10 DEF ExecRelease
  <1>11. CASE ExecNoReq(w) BY <1>11 DEF ExecNoReq, Abandon, Reply
  <1>12. CASE UseFreed(w) BY <1>12 DEF UseFreed, Abandon
  <1>13. CASE SendReply(w) BY <1>13 DEF SendReply, Reply
  <1>14. CASE DestroyBlock(w) BY <1>14 DEF DestroyBlock
  <1>15. CASE DestroyLock(w) BY <1>15 DEF DestroyLock
  <1>16. CASE Unhash(w) BY <1>16 DEF Unhash
  <1>17. CASE FoRecvPut(w) BY <1>17 DEF FoRecvPut, Abandon
  <1>18. CASE \E m \in net : Deliver(w, m) BY <1>18 DEF Deliver
  <1> QED BY <1>1, <1>2, <1>3, <1>4, <1>5, <1>6, <1>7, <1>8, <1>9,
             <1>10, <1>11, <1>12, <1>13, <1>14, <1>15, <1>16, <1>17, <1>18 DEF FoRecvStep

\* A step of a thread leaves the other threads alone.
Others(w) ==
    /\ n' = n
    /\ \A v \in Thread \ {w} : /\ pc'[v] = pc[v] /\ msg'[v] = msg[v]
                               /\ acc'[v] = acc[v] /\ res'[v] = res[v]

\* It neither takes up nor answers a request: at most it gives up its own.
Continues(w) ==
    /\ Others(w) /\ net' = net
    /\ pc'[w] \in Pre => pc[w] \in Pre /\ msg'[w] = msg[w]
    /\ pc'[w] \in Dying => pc[w] \in Dying /\ msg'[w] = msg[w] /\ acc'[w] = acc[w]
    /\ \A q \in Pid : cl'[q] = cl[q] \/ (pc[w] \in Pre /\ q = msg[w].pid /\ pc'[w] = "idle")

\* Every step of fo_recv but the answer goes on with the request.
LEMMA RecvShape ==
    ASSUME TypeInv, NEW w \in Thread, FoRecvStep(w), ~SendReply(w)
    PROVE  Continues(w)
  <1> USE DEF TypeInv, Goto, Pre, Dying, Others, Continues, threadVars, tableVars,
              lockVars, clientVars
  <1>1. CASE FindAccLock(w) BY <1>1 DEF FindAccLock
  <1>2. CASE FindAccHit(w) BY <1>2 DEF FindAccHit
  <1>3. CASE FindAccMiss(w) BY <1>3 DEF FindAccMiss, Abandon
  <1>4. CASE AccStartLock(w) BY <1>4 DEF AccStartLock
  <1>5. CASE AccStartFail(w) BY <1>5 DEF AccStartFail, Abandon
  <1>6. CASE AccStartAdd(w) BY <1>6 DEF AccStartAdd
  <1>7. CASE ExecOpen(w) BY <1>7 DEF ExecOpen
  <1>8. CASE ExecOpenKept(w) BY <1>8 DEF ExecOpenKept
  <1>9. CASE ExecIo(w) BY <1>9 DEF ExecIo
  <1>10. CASE ExecRelease(w) BY <1>10 DEF ExecRelease
  <1>11. CASE ExecNoReq(w) BY <1>11 DEF ExecNoReq, Abandon, Reply
  <1>12. CASE UseFreed(w) BY <1>12 DEF UseFreed, Abandon
  <1>14. CASE DestroyBlock(w) BY <1>14 DEF DestroyBlock
  <1>15. CASE DestroyLock(w) BY <1>15 DEF DestroyLock
  <1>16. CASE Unhash(w) BY <1>16 DEF Unhash
  <1>17. CASE FoRecvPut(w) BY <1>17 DEF FoRecvPut, Abandon
  <1> QED BY <1>1, <1>2, <1>3, <1>4, <1>5, <1>6, <1>7, <1>8, <1>9, <1>10, <1>11,
             <1>12, <1>14, <1>15, <1>16, <1>17
          DEF FoRecvStep

\* What the answer changes.
LEMMA ReplyShape ==
    ASSUME TypeInv, RequestInv, NEW w \in Thread, SendReply(w)
    PROVE  /\ Others(w) /\ pc[w] = "reply" /\ UNCHANGED <<msg, acc, net>>
           /\ UNCHANGED <<htable, filp, opened, overtaken, kept, users>>
           /\ res'[w] = "fail"
           /\ pc'[w] = IF msg[w].type = "RELEASE" THEN "destroy" ELSE "put"
           /\ \A q \in Pid \ {msg[w].pid} : cl'[q] = cl[q]
           /\ \/ cl'[msg[w].pid] = cl[msg[w].pid]
              \/ cl'[msg[w].pid] = Answered(cl[msg[w].pid], res[w])
  <1>1. msg[w].pid \in Pid BY PreMsg DEF SendReply
  <1> QED BY <1>1
          DEF SendReply, Reply, TypeInv, Goto, Others, tableVars, lockVars

\* What taking up a request changes.
LEMMA DeliverShape ==
    ASSUME TypeInv, NEW w \in Thread, NEW m \in net, Deliver(w, m)
    PROVE  /\ Others(w) /\ pc[w] = "idle" /\ pc'[w] = "find" /\ msg'[w] = m
           /\ net' = net \ {m} /\ UNCHANGED <<cl, acc, res, overtaken>>
           /\ UNCHANGED <<htable, filp, opened, kept>> /\ users' = users + 1
  BY DEF Deliver, TypeInv, Goto, Others, tableVars

\* A thread that destroys a fo_access does it for a RELEASE that was answered.
LEMMA DyingRecv ==
    ASSUME TypeInv, RequestInv, AccInv, NEW w \in Thread,
           FoRecvStep(w) \/ \E m \in net : Deliver(w, m)
    PROVE  DyingInv'
  <1>0. \A v \in Thread : pc[v] \in Dying =>
          /\ msg[v].type = "RELEASE" /\ msg[v].n <= n[msg[v].pid] /\ msg[v].pid \in Pid
          /\ msg[v].n = n[msg[v].pid]
              => Quiet(msg[v].pid) /\ cl[msg[v].pid] \in {"closed", "closing"}
    BY PreMsg DEF AccInv, DyingInv, Dying
  <1>1. CASE FoRecvStep(w) /\ ~SendReply(w)
    <2>1. Continues(w) BY <1>1, RecvShape
    <2>2. \A q \in Pid : Quiet(q) => Quiet(q)' BY <2>1 DEF Quiet, Continues, Others
    <2>3. \A q \in Pid : Quiet(q) => cl'[q] = cl[q] BY <2>1 DEF Quiet, Continues
    <2> HIDE DEF Quiet
    <2>4. \A v \in Thread : pc'[v] \in Dying => pc[v] \in Dying /\ msg'[v] = msg[v]
      BY <2>1 DEF Continues, Others
    <2>5. n' = n BY <2>1 DEF Continues, Others
    <2> SUFFICES ASSUME NEW v \in Thread, pc'[v] \in Dying
                 PROVE  /\ msg[v].type = "RELEASE" /\ msg[v].n <= n[msg[v].pid]
                        /\ msg[v].n = n[msg[v].pid]
                           => Quiet(msg[v].pid)' /\ cl'[msg[v].pid] \in {"closed", "closing"}
        BY <2>4, <2>5 DEF DyingInv
    <2> QED BY <1>0, <2>2, <2>3, <2>4
  <1>2. CASE SendReply(w)
    <2>0. /\ Others(w) /\ pc[w] = "reply" /\ UNCHANGED <<msg, net>>
          /\ pc'[w] = IF msg[w].type = "RELEASE" THEN "destroy" ELSE "put"
          /\ \A q \in Pid \ {msg[w].pid} : cl'[q] = cl[q]
      BY <1>2, ReplyShape
    <2>1. msg[w].pid \in Pid /\ msg[w] \in Msg /\ Pending(msg[w])
      BY <2>0, PreMsg DEF RequestInv, Pre
    <2>2. \A q \in Pid : Quiet(q) => Quiet(q)' BY <2>0 DEF Quiet, Others, Pre
    <2>3. \A q \in Pid : Quiet(q) => cl'[q] = cl[q] BY <2>0 DEF Quiet, Pre
    <2>4. Quiet(msg[w].pid)' BY <2>0 DEF Quiet, RequestInv, Others, Pre
    <2>5. msg[w].type = "RELEASE" => cl'[msg[w].pid] \in {"closed", "closing"}
      BY <1>2, <2>1, ReplyShape, AnsweredType DEF TypeInv, Pending, Busy
    <2>6. msg[w].n = n[msg[w].pid] BY <2>1 DEF Pending
    <2> SUFFICES ASSUME NEW v \in Thread, pc'[v] \in Dying
                 PROVE  /\ msg[v].type = "RELEASE" /\ msg[v].n <= n[msg[v].pid]
                        /\ msg[v].n = n[msg[v].pid]
                           => Quiet(msg[v].pid)' /\ cl'[msg[v].pid] \in {"closed", "closing"}
        BY <2>0 DEF DyingInv, Others
    <2>7. CASE v = w
      <3>1. msg[w].n \in 1 .. MaxOpen BY <2>1, MsgType
      <3>2. msg[w].type = "RELEASE" BY <2>0, <2>7 DEF Dying
      <3> QED BY <2>4, <2>5, <2>6, <2>7, <3>1, <3>2
    <2>8. CASE v # w
      <3>1. pc[v] \in Dying BY <2>0, <2>8 DEF Others
      <3> QED BY <1>0, <2>0, <2>2, <2>3, <3>1
    <2> QED BY <2>7, <2>8
  <1>3. CASE \E m \in net : Deliver(w, m)
    <2> PICK m \in net : Deliver(w, m) BY <1>3
    <2>0. /\ Others(w) /\ pc[w] = "idle" /\ pc'[w] = "find" /\ msg'[w] = m
          /\ net' = net \ {m} /\ UNCHANGED cl
      BY DeliverShape
    <2>1. \A q \in Pid : Quiet(q) => Quiet(q)' BY <2>0 DEF Quiet, Others
    <2>2. \A v \in Thread : pc'[v] \in Dying => pc[v] \in Dying /\ msg'[v] = msg[v]
      BY <2>0 DEF Others, Dying
    <2>3. n' = n BY <2>0 DEF Others
    <2> SUFFICES ASSUME NEW v \in Thread, pc'[v] \in Dying
                 PROVE  /\ msg[v].type = "RELEASE" /\ msg[v].n <= n[msg[v].pid]
                        /\ msg[v].n = n[msg[v].pid]
                           => Quiet(msg[v].pid)' /\ cl'[msg[v].pid] \in {"closed", "closing"}
        BY <2>2, <2>3 DEF DyingInv
    <2> QED BY <1>0, <2>0, <2>1, <2>2
  <1> QED BY <1>1, <1>2, <1>3

\* No step makes a thread share a fo_access that is about to be destroyed,
\* unless its task counts as overtaken, and none is destroyed under its user.
LEMMA AloneRecv ==
    ASSUME TypeInv, RequestInv, AccInv, NEW w \in Thread,
           FoRecvStep(w) \/ \E m \in net : Deliver(w, m)
    PROVE  AloneInv' /\ NoUseAfterFree'
  <1> USE DEF TypeInv, Goto, HasAcc, Dying, AccInv, AloneInv, HandInv, NoUseAfterFree,
              threadVars, tableVars, lockVars, clientVars
  <1>1. CASE FindAccLock(w) BY <1>1 DEF FindAccLock
  <1>2. CASE FindAccHit(w)
    <2>1. PICK s \in htable :
            /\ acc' = [acc EXCEPT ![w] = s]
            /\ overtaken' = overtaken \cup {msg[v].pid : v \in {v \in Thread :
                                acc[v] = s /\ pc[v] \in {"destroy", "unhash"}}}
      BY <1>2 DEF FindAccHit, FindAcc
    <2>2. \A v \in Thread : pc[v] \in Dying /\ acc[v] = s => msg[v].pid \in overtaken'
      BY <2>1
    <2>3. overtaken \subseteq overtaken' BY <2>1
    <2>4. /\ pc[w] = "scan" /\ pc' = [pc EXCEPT ![w] = "exec"]
          /\ UNCHANGED <<msg, htable>>
      BY <1>2 DEF FindAccHit
    <2> QED BY <2>1, <2>2, <2>3, <2>4
  <1>3. CASE FindAccMiss(w)
    <2>1. CASE msg[w].type # "OPEN" BY <1>3, <2>1 DEF FindAccMiss, Abandon
    <2>2. CASE msg[w].type = "OPEN"
      <3>1. /\ pc[w] \in {"find", "scan"} /\ pc' = [pc EXCEPT ![w] = "acc_lock"]
            /\ acc' = [acc EXCEPT ![w] = <<msg[w].pid, msg[w].n>>]
            /\ UNCHANGED <<msg, htable, overtaken>>
        BY <1>3, <2>2 DEF FindAccMiss
      <3>2. ASSUME NEW x \in Thread, pc[x] \in Dying, acc[x] = <<msg[w].pid, msg[w].n>>
            PROVE  FALSE
        <4>1. /\ msg[w].n = n[msg[w].pid] /\ ~Quiet(msg[w].pid)
              /\ msg[w].pid \in Pid /\ msg[w].n \in Int
          BY <3>1, PreMsg DEF RequestInv, Pending, Quiet, Pre
        <4>2. /\ msg[x].pid = msg[w].pid /\ msg[w].n <= msg[x].n /\ msg[x].n \in Int
          <5>1. acc[x][1] = msg[x].pid /\ acc[x][2] <= msg[x].n BY <3>2
          <5>2. acc[x][1] = msg[w].pid /\ acc[x][2] = msg[w].n BY <3>2
          <5>3. msg[x].n \in 1 .. MaxOpen BY <3>2, PreMsg
          <5> QED BY <5>1, <5>2, <5>3
        <4>3. msg[x].n <= n[msg[x].pid] /\ (msg[x].n = n[msg[x].pid] => Quiet(msg[x].pid))
          BY <3>2 DEF DyingInv
        <4> QED BY <4>1, <4>2, <4>3
      <3> QED BY <3>1, <3>2
    <2> QED BY <2>1, <2>2
  <1>4. CASE AccStartLock(w) BY <1>4 DEF AccStartLock
  <1>5. CASE AccStartFail(w) BY <1>5 DEF AccStartFail, Abandon
  <1>6. CASE AccStartAdd(w) BY <1>6 DEF AccStartAdd
  <1>7. CASE ExecOpen(w) BY <1>7 DEF ExecOpen
  <1>8. CASE ExecOpenKept(w) BY <1>8 DEF ExecOpenKept
  <1>9. CASE ExecIo(w) BY <1>9 DEF ExecIo
  <1>10. CASE ExecRelease(w) BY <1>10 DEF ExecRelease
  <1>11. CASE ExecNoReq(w) BY <1>11 DEF ExecNoReq, Abandon, Reply
  <1>12. CASE UseFreed(w) BY <1>12 DEF UseFreed, Abandon
  <1>13. CASE SendReply(w)
    <2>1. /\ pc[w] = "reply" /\ \E l \in {"put", "destroy"} : pc' = [pc EXCEPT ![w] = l]
          /\ UNCHANGED <<acc, msg, htable, overtaken>>
      BY <1>13 DEF SendReply
    <2>2. ASSUME NEW v \in Thread, v # w, pc[v] \in HasAcc, acc[v] = acc[w]
          PROVE  msg[v].pid = msg[w].pid /\ msg[w].pid \in overtaken
      <3>1. msg[v].pid = msg[w].pid BY <2>1, <2>2
      <3>2. pc[v] \in Dying BY <2>1, <2>2, <3>1 DEF RequestInv, Pre
      <3> QED BY <2>1, <2>2, <3>1, <3>2
    <2> QED BY <2>1, <2>2
  <1>14. CASE DestroyBlock(w) BY <1>14 DEF DestroyBlock
  <1>15. CASE DestroyLock(w) BY <1>15 DEF DestroyLock
  <1>16. CASE Unhash(w)
    <2>1. /\ pc[w] = "unhash" /\ pc' = [pc EXCEPT ![w] = "put"]
          /\ htable' = htable \ {acc[w]} /\ UNCHANGED <<acc, msg, overtaken>>
      BY <1>16 DEF Unhash
    <2>2. \A v \in Thread : v # w /\ pc[v] \in HasAcc /\ acc[v] = acc[w]
                            => msg[v].pid \in overtaken
      BY <2>1
    <2> QED BY <2>1, <2>2
  <1>17. CASE FoRecvPut(w) BY <1>17 DEF FoRecvPut, Abandon
  <1>18. CASE \E m \in net : Deliver(w, m) BY <1>18 DEF Deliver
  <1> QED BY <1>1, <1>2, <1>3, <1>4, <1>5, <1>6, <1>7, <1>8, <1>9,
             <1>10, <1>11, <1>12, <1>13, <1>14, <1>15, <1>16, <1>17, <1>18 DEF FoRecvStep

\* Every step of a thread keeps fo_access objects with their users.
LEMMA AccRecv ==
    ASSUME TypeInv, RequestInv, AccInv, NEW w \in Thread,
           FoRecvStep(w) \/ \E m \in net : Deliver(w, m)
    PROVE  AccInv'
  BY HandRecv, DyingRecv, AloneRecv DEF AccInv

-----------------------------------------------------------------------------
(* Sessions and their files *)

\* The newest fo_access of a task is one.
LEMMA FindAccOne ==
    ASSUME TypeInv, NEW p \in Pid, NEW s \in FindAcc(p), NEW t \in FindAcc(p)
    PROVE  s = t
  <1>1. s \in Session /\ t \in Session /\ s[1] = t[1] /\ s[2] <= t[2] /\ t[2] <= s[2]
    BY DEF FindAcc, TypeInv
  <1>2. /\ s[2] \in 1 .. MaxOpen /\ t[2] \in 1 .. MaxOpen
        /\ s = <<s[1], s[2]>> /\ t = <<t[1], t[2]>>
    BY <1>1, SessionType
  <1>3. s[2] = t[2] BY <1>1, <1>2
  <1> QED BY <1>1, <1>2, <1>3

\* A request of a task does not touch its files.
LEMMA SessionClient ==
    ASSUME TypeInv, RequestInv, AccInv, SessionInv, NEW p \in Pid, Client(p)
    PROVE  SessionInv'
  <1>1. /\ UNCHANGED <<pc, msg, acc, res, htable, filp, overtaken>>
        /\ \E m : m.pid = p /\ net' = net \cup {m}
        /\ \A q \in Pid \ {p} : n'[q] = n[q] /\ cl'[q] = cl[q]
        /\ \/ cl'[p] = "opening"
           \/ cl[p] = "open" /\ n'[p] = n[p]
    <2> USE DEF Request, threadVars, tableVars, TypeInv
    <2>1. CASE ClientOpen(p) BY <2>1 DEF ClientOpen
    <2>2. CASE ClientIo(p) BY <2>2 DEF ClientIo
    <2>3. CASE ClientRelease(p) BY <2>3 DEF ClientRelease
    <2> QED BY <2>1, <2>2, <2>3 DEF Client
  <1>2. OpensInv' /\ OwnFile'
    BY <1>1 DEF SessionInv, OpensInv, OwnFile, FindAcc, File
  <1>3. \A q \in Pid : n'[q] = n[q] /\ Held(q) => Held(q)'
    BY <1>1 DEF Held, FindAcc
  <1>4. \A q \in Pid \ {p} : Quiet(q) => Quiet(q)'
    BY <1>1 DEF Quiet
  <1>5. \A q \in Pid \ overtaken : NeedsFile(q)' => n'[q] = n[q] /\ Held(q)
    <2> SUFFICES ASSUME NEW q \in Pid \ overtaken, NeedsFile(q)'
                 PROVE  n'[q] = n[q] /\ Held(q)
        OBVIOUS
    <2>1. CASE q = p BY <1>1, <2>1 DEF SessionInv, HeldInv, NeedsFile
    <2>2. CASE q # p BY <1>1, <1>4, <2>2 DEF SessionInv, HeldInv, NeedsFile
    <2> QED BY <2>1, <2>2
  <1>6. HeldInv' BY <1>1, <1>3, <1>5 DEF HeldInv
  <1> QED BY <1>2, <1>6 DEF SessionInv

\* Until it is answered, a task does not start to rely on a file.
LEMMA NeedsKept ==
    ASSUME TypeInv, RequestInv, AccInv, FileInv, NEW w \in Thread,
           \/ FoRecvStep(w) /\ ~SendReply(w)
           \/ \E m \in net : Deliver(w, m),
           NEW q \in Pid, NeedsFile(q)'
    PROVE  NeedsFile(q)
  <1>1. CASE FoRecvStep(w) /\ ~SendReply(w)
    <2>1. Continues(w) BY <1>1, RecvShape
    <2>2. Quiet(q) => Quiet(q)' BY <2>1 DEF Quiet, Continues, Others
    <2>3. CASE cl'[q] = cl[q] BY <2>2, <2>3 DEF NeedsFile
    <2>4. CASE cl'[q] # cl[q]
      <3>1. pc[w] \in Pre /\ q = msg[w].pid BY <2>1, <2>4 DEF Continues
      <3>2. ExecNoReq(w)
        BY <1>1, <2>4
           DEF FoRecvStep, FindAccLock, FindAccHit, FindAccMiss, AccStartLock,
               AccStartFail, AccStartAdd, ExecOpen, ExecOpenKept, ExecIo, ExecRelease,
               UseFreed, DestroyBlock, DestroyLock, Unhash, FoRecvPut, clientVars
      <3>3. cl'[q] = Answered(cl[q], res[w]) /\ res[w] = "fail"
        BY <3>1, <3>2 DEF ExecNoReq, Reply, FileInv, TypeInv
      <3>4. Pending(msg[w]) /\ msg[w] \in Msg BY <3>1, PreMsg DEF RequestInv, Pre
      <3>5. cl'[q] \in {"open", "closed"} /\ (cl'[q] = "open" => msg[w].type = "IO")
        BY <3>1, <3>3, <3>4, AnsweredType, MsgType DEF Type
      <3>6. cl[q] = "io" /\ ~Quiet(q)
        BY <3>1, <3>4, <3>5 DEF NeedsFile, Pending, Busy, Quiet
      <3> QED BY <3>6 DEF NeedsFile
    <2> QED BY <2>3, <2>4
  <1>2. CASE \E m \in net : Deliver(w, m)
    <2> PICK m \in net : Deliver(w, m) BY <1>2
    <2>1. /\ Others(w) /\ pc[w] = "idle" /\ pc'[w] = "find" /\ msg'[w] = m
          /\ net' = net \ {m} /\ UNCHANGED cl
      BY DeliverShape
    <2>2. Quiet(q) => Quiet(q)' BY <2>1 DEF Quiet, Others
    <2> QED BY <2>1, <2>2 DEF NeedsFile
  <1> QED BY <1>1, <1>2

\* A step that changes no fo_access, and starts no operation on one.
Plain(w) ==
    /\ Others(w) /\ UNCHANGED <<htable, filp, overtaken>>
    /\ pc'[w] # "exec"
    /\ pc'[w] = "reply" => pc[w] = "exec" /\ msg'[w] = msg[w] /\ msg[w].type # "OPEN"
    /\ pc'[w] \in Dying => pc[w] \in Dying /\ acc'[w] = acc[w]

\* Such a step keeps sessions.
LEMMA SessionPlain ==
    ASSUME TypeInv, RequestInv, AccInv, SessionInv, FileInv, NEW w \in Thread,
           \/ FoRecvStep(w) /\ ~SendReply(w)
           \/ \E m \in net : Deliver(w, m),
           Plain(w)
    PROVE  SessionInv'
  <1>1. OpensInv' /\ OwnFile'
    BY DEF SessionInv, OpensInv, OwnFile, FindAcc, File, Plain, Others
  <1>2. \A q \in Pid : Held(q) => Held(q)'
    BY DEF Held, FindAcc, Plain, Others
  <1>3. \A q \in Pid : NeedsFile(q)' => NeedsFile(q) BY NeedsKept
  <1>4. HeldInv' BY <1>2, <1>3 DEF SessionInv, HeldInv, Plain
  <1> QED BY <1>1, <1>4 DEF SessionInv

\* Looking up a fo_access finds the one of the session.
LEMMA SessionHit ==
    ASSUME TypeInv, RequestInv, AccInv, SessionInv, FileInv, NEW w \in Thread,
           FindAccHit(w)
    PROVE  SessionInv'
  <1>1. PICK s \in FindAcc(msg[w].pid) : acc' = [acc EXCEPT ![w] = s]
    BY DEF FindAccHit
  <1>2. /\ pc[w] = "scan" /\ pc' = [pc EXCEPT ![w] = "exec"]
        /\ UNCHANGED <<msg, res, htable, filp, n>> /\ overtaken \subseteq overtaken'
    BY DEF FindAccHit, Goto, tableVars
  <1>3. msg[w].pid \in Pid /\ Pending(msg[w]) /\ msg[w].type \in Type /\ ~Quiet(msg[w].pid)
    BY <1>2, PreMsg DEF RequestInv, Pre, Quiet
  <1>4. OpensInv'
    BY <1>1, <1>2 DEF SessionInv, OpensInv, FindAcc, TypeInv
  <1>5. ASSUME msg[w].type # "OPEN", msg[w].pid \notin overtaken
        PROVE  filp[s] = FileOf(<<msg[w].pid, msg[w].n>>)
    <2>1. NeedsFile(msg[w].pid)
      BY <1>3, <1>5 DEF NeedsFile, Pending, Busy, Type
    <2>2. Held(msg[w].pid) BY <1>3, <1>5, <2>1 DEF SessionInv, HeldInv
    <2>3. PICK t \in FindAcc(msg[w].pid) : filp[t] = FileOf(<<msg[w].pid, n[msg[w].pid]>>)
      BY <2>2 DEF Held
    <2>4. s = t BY <1>3, FindAccOne
    <2> QED BY <1>3, <2>3, <2>4 DEF Pending
  <1>6. OwnFile'
    BY <1>1, <1>2, <1>5 DEF SessionInv, OwnFile, File, TypeInv
  <1>7. \A q \in Pid : Held(q) => Held(q)'
    BY <1>1, <1>2 DEF Held, FindAcc, TypeInv, Dying
  <1>8. \A q \in Pid : NeedsFile(q)' => NeedsFile(q)
    <2>1. FoRecvStep(w) /\ ~SendReply(w) BY <1>2 DEF FoRecvStep, SendReply
    <2> QED BY <2>1, NeedsKept
  <1>9. HeldInv' BY <1>2, <1>7, <1>8 DEF SessionInv, HeldInv
  <1> QED BY <1>4, <1>6, <1>9 DEF SessionInv

\* A thread that adds a fo_access, or puts a file in one, does it for a task
\* that is opening the device.
LEMMA SessionOpen ==
    ASSUME TypeInv, RequestInv, AccInv, SessionInv, FileInv, NEW w \in Thread,
           AccStartAdd(w) \/ ExecOpen(w) \/ ExecOpenKept(w)
    PROVE  SessionInv'
  <1>1. /\ Others(w) /\ pc[w] \in {"acc_add", "exec"} /\ msg' = msg
        /\ msg[w].type = "OPEN" /\ acc' = acc /\ overtaken' = overtaken
        /\ pc'[w] \in {"exec", "reply"}
    BY DEF AccStartAdd, ExecOpen, ExecOpenKept, Others, Goto, TypeInv, AccInv, HandInv,
           clientVars
  <1>2. msg[w].pid \in Pid /\ Pending(msg[w]) /\ acc[w] \in Session /\ acc[w][1] = msg[w].pid
    BY <1>1, PreMsg DEF RequestInv, Pre, AccInv, HandInv, HasAcc, TypeInv
  <1>3. /\ htable \subseteq htable' /\ htable' \subseteq htable \cup {acc[w]}
        /\ \A s \in Session : s # acc[w] => filp'[s] = filp[s]
    BY <1>2 DEF AccStartAdd, ExecOpen, ExecOpenKept, tableVars, TypeInv
  <1>4. \A v \in Thread \ {w} : pc[v] \in {"exec", "reply"} =>
          msg[v].pid # msg[w].pid /\ acc[v] # acc[w] /\ acc[v] \in Session
    BY <1>1, <1>2 DEF RequestInv, Pre, AccInv, HandInv, HasAcc, TypeInv
  <1>5. \A q \in Pid \ {msg[w].pid} : \A s : s \in FindAcc(q) <=> s \in FindAcc(q)'
    BY <1>2, <1>3 DEF FindAcc
  <1>6. acc[w] \in FindAcc(msg[w].pid)' \/ msg[w].pid \in overtaken
    <2>1. CASE AccStartAdd(w)
      <3>1. acc[w] = <<msg[w].pid, n[msg[w].pid]>> /\ htable' = htable \cup {acc[w]}
        BY <1>2, <2>1 DEF AccStartAdd, AccInv, HandInv, Pending
      <3>2. n[msg[w].pid] \in Int BY <1>2 DEF TypeInv
      <3>3. \A t \in htable' : t[1] = msg[w].pid => t[2] <= acc[w][2]
        BY <3>1, <3>2 DEF AccInv, TableInv
      <3> QED BY <1>1, <1>2, <3>1, <3>3 DEF FindAcc
    <2>2. CASE ExecOpen(w) \/ ExecOpenKept(w)
      <3>1. htable' = htable /\ pc[w] = "exec" BY <2>2 DEF ExecOpen, ExecOpenKept
      <3>2. acc[w] \in FindAcc(msg[w].pid) \/ msg[w].pid \in overtaken
        BY <1>1, <3>1 DEF SessionInv, OpensInv
      <3> QED BY <1>1, <3>1, <3>2 DEF FindAcc
    <2> QED BY <2>1, <2>2
  <1>7. pc'[w] = "reply" /\ res'[w] = "ok" => filp'[acc[w]] = FileOf(<<msg[w].pid, msg[w].n>>)
    BY <1>1, <1>2 DEF AccStartAdd, ExecOpen, ExecOpenKept, Goto, TypeInv, FileInv
  <1>8. OpensInv'
    <2> SUFFICES ASSUME NEW v \in Thread, pc'[v] \in {"exec", "reply"},
                        msg[v].type = "OPEN", msg[v].pid \notin overtaken
                 PROVE  /\ acc[v] \in FindAcc(msg[v].pid)'
                        /\ pc'[v] = "reply" /\ res'[v] = "ok"
                           => filp'[acc[v]] = FileOf(<<msg[v].pid, msg[v].n>>)
        BY <1>1 DEF OpensInv
    <2>1. CASE v = w BY <1>6, <1>7, <2>1
    <2>2. CASE v # w
      <3>1. pc[v] = pc'[v] /\ res'[v] = res[v] BY <1>1, <2>2 DEF Others
      <3>2. msg[v].pid \in Pid BY <3>1, PreMsg
      <3>3. acc[v] \in FindAcc(msg[v].pid) BY <3>1 DEF SessionInv, OpensInv
      <3>4. acc[v] \in FindAcc(msg[v].pid)' BY <1>1, <1>4, <1>5, <2>2, <3>1, <3>2, <3>3
      <3>5. filp'[acc[v]] = filp[acc[v]] BY <1>3, <1>4, <2>2, <3>1
      <3> QED BY <3>1, <3>4, <3>5 DEF SessionInv, OpensInv
    <2> QED BY <2>1, <2>2
  <1>9. OwnFile'
    BY <1>1, <1>3, <1>4 DEF SessionInv, OwnFile, File, Others
  <1>10. HeldInv'
    <2>1. \A q \in Pid : NeedsFile(q)' => NeedsFile(q)
      <3>1. FoRecvStep(w) /\ ~SendReply(w) BY <1>1 DEF FoRecvStep, SendReply
      <3> QED BY <3>1, NeedsKept
    <2>2. ~NeedsFile(msg[w].pid) BY <1>1, <1>2 DEF NeedsFile, Pending, Busy
    <2>3. \A q \in Pid \ {msg[w].pid} : Held(q) => Held(q)'
      <3> SUFFICES ASSUME NEW q \in Pid \ {msg[w].pid}, Held(q) PROVE Held(q)'
          OBVIOUS
      <3>1. PICK s \in FindAcc(q) : /\ filp[s] = FileOf(<<q, n[q]>>)
                                    /\ \A v \in Thread : pc[v] \in Dying => acc[v] # s
        BY DEF Held
      <3>2. s \in FindAcc(q)' BY <1>5
      <3>3. filp'[s] = filp[s] BY <1>2, <1>3 DEF FindAcc, TypeInv
      <3>4. \A v \in Thread : pc'[v] \in Dying => acc'[v] # s
        BY <1>1, <3>1 DEF Others, Dying
      <3> QED BY <1>1, <3>1, <3>2, <3>3, <3>4 DEF Held, Others
    <2> QED BY <1>1, <2>1, <2>2, <2>3 DEF SessionInv, HeldInv
  <1> QED BY <1>8, <1>9, <1>10 DEF SessionInv

\* What is destroyed is not the fo_access of a session that goes on.
LEMMA SessionUnhash ==
    ASSUME TypeInv, RequestInv, AccInv, SessionInv, FileInv, NEW w \in Thread, Unhash(w)
    PROVE  SessionInv'
  <1>1. /\ pc[w] = "unhash" /\ pc' = [pc EXCEPT ![w] = "put"]
        /\ htable' = htable \ {acc[w]} /\ UNCHANGED <<msg, acc, res, filp, n, overtaken>>
    BY DEF Unhash, Goto, clientVars
  <1>2. \A q \in Pid : \A s \in FindAcc(q) : s # acc[w] => s \in FindAcc(q)'
    BY <1>1 DEF FindAcc
  <1>3. \A v \in Thread : pc[v] \in {"exec", "reply"} /\ msg[v].pid \notin overtaken
                          => acc[v] # acc[w] /\ msg[v].pid \in Pid
    <2>1. \A v \in Thread : pc[v] \in {"exec", "reply"} => msg[v].pid \in Pid
      BY PreMsg
    <2> QED BY <1>1, <2>1 DEF AccInv, AloneInv, HandInv, HasAcc, Dying
  <1>4. OpensInv' BY <1>1, <1>2, <1>3 DEF SessionInv, OpensInv, TypeInv
  <1>5. OwnFile' BY <1>1 DEF SessionInv, OwnFile, File, TypeInv
  <1>6. \A q \in Pid : Held(q) => Held(q)'
    <2> SUFFICES ASSUME NEW q \in Pid, Held(q) PROVE Held(q)' OBVIOUS
    <2>1. PICK s \in FindAcc(q) : /\ filp[s] = FileOf(<<q, n[q]>>)
                                  /\ \A v \in Thread : pc[v] \in Dying => acc[v] # s
      BY DEF Held
    <2>2. s \in FindAcc(q)' BY <1>1, <1>2, <2>1 DEF Dying
    <2>3. \A v \in Thread : pc'[v] \in Dying => acc'[v] # s
      BY <1>1, <2>1 DEF Dying, TypeInv
    <2> QED BY <1>1, <2>1, <2>2, <2>3 DEF Held
  <1>7. \A q \in Pid : NeedsFile(q)' => NeedsFile(q)
    <2>1. FoRecvStep(w) /\ ~SendReply(w) BY <1>1 DEF FoRecvStep, SendReply
    <2> QED BY <2>1, NeedsKept
  <1>8. HeldInv' BY <1>1, <1>6, <1>7 DEF SessionInv, HeldInv
  <1> QED BY <1>4, <1>5, <1>8 DEF SessionInv

\* An answer tells a task that it has the device open only if its fo_access
\* holds the file, and after a release no request needs it.
LEMMA SessionReply ==
    ASSUME TypeInv, RequestInv, AccInv, SessionInv, FileInv, NEW w \in Thread, SendReply(w)
    PROVE  SessionInv'
  <1> PICK p \in Pid : p = msg[w].pid BY PreMsg DEF SendReply
  <1>1. /\ Others(w) /\ pc[w] = "reply" /\ UNCHANGED <<msg, acc, net, htable, filp, overtaken>>
        /\ pc'[w] = IF msg[w].type = "RELEASE" THEN "destroy" ELSE "put"
        /\ \A q \in Pid \ {p} : cl'[q] = cl[q]
        /\ cl'[p] = cl[p] \/ cl'[p] = Answered(cl[p], res[w])
    BY ReplyShape
  <1>2. msg[w] \in Msg /\ Pending(msg[w]) /\ ~Quiet(p) /\ msg[w].type \in Type
    BY <1>1, PreMsg DEF RequestInv, Pre, Quiet
  <1>3. OpensInv' /\ OwnFile'
    BY <1>1 DEF SessionInv, OpensInv, OwnFile, FindAcc, File, Others
  <1>4. \A q \in Pid : Quiet(q) => Quiet(q)' BY <1>1 DEF Quiet, Others, Pre
  <1>5. \A q \in Pid \ {p} : Held(q) => Held(q)'
    <2>1. acc[w][1] = p BY <1>1 DEF AccInv, HandInv, HasAcc
    <2> QED BY <1>1, <2>1 DEF Held, FindAcc, Others
  <1>6. ASSUME p \notin overtaken, NeedsFile(p)' PROVE Held(p)'
    <2>1. CASE msg[w].type = "RELEASE"
      <3>1. DyingInv' /\ pc'[w] \in Dying /\ n' = n /\ msg' = msg
        BY <1>1, <2>1, DyingRecv DEF FoRecvStep, Dying, Others
      <3>2. Quiet(p)' /\ cl'[p] \in {"closed", "closing"}
        BY <1>2, <3>1 DEF DyingInv, Pending
      <3> QED BY <1>6, <3>2 DEF NeedsFile
    <2>2. CASE msg[w].type = "IO"
      <3>1. Held(p) BY <1>2, <1>6, <2>2 DEF SessionInv, HeldInv, NeedsFile, Pending, Busy
      <3>2. pc'[w] \notin Dying BY <1>1, <2>2 DEF Dying
      <3> QED BY <1>1, <3>1, <3>2 DEF Held, FindAcc, Others
    <2>3. CASE msg[w].type = "OPEN"
      <3>1. cl[p] = "opening" BY <1>2, <2>3 DEF Pending, Busy
      <3>2. Answered(cl[p], res[w]) = IF res[w] = "ok" THEN "open" ELSE "closed"
        BY <1>2, <2>3, AnsweredType DEF TypeInv
      <3>3. res[w] = "ok" BY <1>1, <1>6, <3>1, <3>2 DEF NeedsFile
      <3>4. acc[w] \in FindAcc(p) /\ filp[acc[w]] = FileOf(<<p, n[p]>>)
        BY <1>1, <1>2, <1>6, <2>3, <3>3 DEF SessionInv, OpensInv, Pending
      <3>5. \A v \in Thread : pc[v] \in Dying => acc[v] # acc[w]
        BY <1>1, <1>6 DEF AccInv, AloneInv, HandInv, HasAcc, Dying
      <3>6. pc'[w] \notin Dying BY <1>1, <2>3 DEF Dying
      <3> QED BY <1>1, <3>4, <3>5, <3>6 DEF Held, FindAcc, Others
    <2> QED BY <1>2, <2>1, <2>2, <2>3 DEF Type
  <1>7. \A q \in Pid \ {p} : NeedsFile(q)' => NeedsFile(q)
    BY <1>1, <1>4 DEF NeedsFile
  <1>8. HeldInv' BY <1>1, <1>5, <1>6, <1>7 DEF SessionInv, HeldInv
  <1> QED BY <1>3, <1>8 DEF SessionInv

\* Every step of a thread keeps sessions.
LEMMA SessionRecv ==
    ASSUME TypeInv, RequestInv, AccInv, SessionInv, FileInv, NEW w \in Thread,
           FoRecvStep(w) \/ \E m \in net : Deliver(w, m)
    PROVE  SessionInv'
  <1>1. CASE \E m \in net : Deliver(w, m)
    <2>1. Plain(w) BY <1>1, DeliverShape DEF Plain, Dying
    <2> QED BY <1>1, <2>1, SessionPlain
  <1>2. ASSUME \/ FindAccLock(w) \/ FindAccMiss(w) \/ AccStartLock(w) \/ AccStartFail(w)
               \/ ExecIo(w) \/ ExecRelease(w) \/ ExecNoReq(w) \/ UseFreed(w)
               \/ DestroyBlock(w) \/ DestroyLock(w) \/ FoRecvPut(w)
        PROVE  Plain(w) /\ ~SendReply(w)
    <2> USE DEF TypeInv, Goto, Plain, Others, Dying, threadVars, tableVars, lockVars,
                clientVars, SendReply
    <2>1. CASE FindAccLock(w) BY <2>1 DEF FindAccLock
    <2>2. CASE FindAccMiss(w) BY <2>2 DEF FindAccMiss, Abandon
    <2>3. CASE AccStartLock(w) BY <2>3 DEF AccStartLock
    <2>4. CASE AccStartFail(w) BY <2>4 DEF AccStartFail, Abandon
    <2>5. CASE ExecIo(w) BY <2>5 DEF ExecIo
    <2>6. CASE ExecRelease(w) BY <2>6 DEF ExecRelease
    <2>7. CASE ExecNoReq(w) BY <2>7 DEF ExecNoReq, Abandon, Reply
    <2>8. CASE UseFreed(w) BY <2>8 DEF UseFreed, Abandon
    <2>9. CASE DestroyBlock(w) BY <2>9 DEF DestroyBlock
    <2>10. CASE DestroyLock(w) BY <2>10 DEF DestroyLock
    <2>11. CASE FoRecvPut(w) BY <2>11 DEF FoRecvPut, Abandon
    <2> QED BY <1>2, <2>1, <2>2, <2>3, <2>4, <2>5, <2>6, <2>7, <2>8, <2>9, <2>10, <2>11
  <1> QED BY <1>1, <1>2, SessionPlain, SessionHit, SessionOpen, SessionUnhash, SessionReply
          DEF FoRecvStep

-----------------------------------------------------------------------------
(* Which files are open *)

\* A new session has no file yet, and those of the old ones are closed.
LEMMA FileClient ==
    ASSUME TypeInv, RequestInv, FileInv, NEW p \in Pid, Client(p)
    PROVE  FileInv'
  <1>1. PICK m \in Msg :
          /\ m.pid = p /\ net' = net \cup {m} /\ n'[p] = m.n /\ cl'[p] # "closed"
          /\ \/ m.type # "OPEN" /\ n'[p] = n[p] /\ cl[p] # "closed"
             \/ n[p] < n'[p] /\ cl[p] = "closed"
          /\ \A q \in Pid \ {p} : n'[q] = n[q] /\ cl'[q] = cl[q]
          /\ UNCHANGED <<pc, msg, res, opened, kept, overtaken>>
    <2> USE DEF Request, Msg, Type, threadVars, tableVars, TypeInv
    <2>1. CASE ClientOpen(p)
      <3>1. PICK k \in 1 .. MaxOpen : NextOpen(k) /\ n' = [n EXCEPT ![p] = k] /\ Request(p, "OPEN", k)
        BY <2>1, Zenon DEF ClientOpen
      <3>2. n[p] < k BY <3>1 DEF NextOpen
      <3>3. cl[p] = "closed" /\ cl' = [cl EXCEPT ![p] = "opening"] BY <2>1 DEF ClientOpen
      <3> QED BY <3>1, <3>2, <3>3
    <2>2. CASE ClientIo(p)
      <3>1. n[p] \in 1 .. MaxOpen BY <2>2 DEF ClientIo
      <3> QED BY <2>2, <3>1 DEF ClientIo
    <2>3. CASE ClientRelease(p)
      <3>1. n[p] \in 1 .. MaxOpen BY <2>3 DEF ClientRelease
      <3> QED BY <2>3, <3>1 DEF ClientRelease
    <2> QED BY <2>1, <2>2, <2>3 DEF Client
  <1>2. \A s \in opened : s[1] \in Pid /\ s[2] \in Int /\ s[2] <= n[s[1]]
    BY SessionType DEF TypeInv, FileInv
  <1>3. n[p] \in Int /\ n'[p] \in Int /\ n[p] <= n'[p]
    <2>1. m.n \in 1 .. MaxOpen BY MsgType
    <2>2. n[p] \in Int BY DEF TypeInv
    <2> QED BY <1>1, <2>1, <2>2
  <1>4. m.type = "OPEN" => <<m.pid, m.n>> \notin opened BY <1>1, <1>2, <1>3
  <1>5. \A s \in opened : s[2] <= n'[s[1]] BY <1>1, <1>2, <1>3
  <1>6. ClosedFiles'
    <2> SUFFICES ASSUME NEW s \in opened
                 PROVE  \/ s \in kept \/ s[1] \in overtaken
                        \/ s[2] = n'[s[1]] /\ cl'[s[1]] # "closed"
        BY <1>1 DEF ClosedFiles
    <2>1. CASE s[1] = p BY <1>1, <2>1 DEF FileInv, ClosedFiles
    <2>2. CASE s[1] # p BY <1>1, <1>2, <2>2 DEF FileInv, ClosedFiles
    <2> QED BY <2>1, <2>2
  <1> QED BY <1>1, <1>4, <1>5, <1>6 DEF FileInv

\* A step that opens and closes no file and answers nobody.
SameFiles(w) ==
    /\ Others(w) /\ UNCHANGED <<opened, kept, cl>> /\ overtaken \subseteq overtaken'
    /\ net' \subseteq net
    /\ pc'[w] # "reply" => res'[w] = "fail"
    /\ pc'[w] = "reply" => msg'[w].type = "IO"
    /\ pc'[w] \in Pre \ {"reply"}
       => (pc[w] \in Pre \ {"reply"} /\ msg'[w] = msg[w]) \/ msg'[w] \in net

\* Such a step changes nothing about open files.
LEMMA FileSame ==
    ASSUME TypeInv, FileInv, NEW w \in Thread, SameFiles(w)
    PROVE  FileInv'
  <1> USE DEF SameFiles, Others, FileInv
  <1>1. \A v \in Thread : pc'[v] # "reply" => res'[v] = "fail" OBVIOUS
  <1>2. \A s \in opened' : s[2] <= n'[s[1]] OBVIOUS
  <1>3. \A m \in net' : m.type = "OPEN" => <<m.pid, m.n>> \notin opened' OBVIOUS
  <1>4. \A v \in Thread : pc'[v] \in Pre \ {"reply"} /\ msg'[v].type = "OPEN"
            => <<msg'[v].pid, msg'[v].n>> \notin opened'
    OBVIOUS
  <1>5. \A v \in Thread : pc'[v] = "reply" /\ msg'[v].type = "OPEN" /\ res'[v] = "fail"
            => <<msg'[v].pid, msg'[v].n>> \notin opened' \ kept'
    OBVIOUS
  <1>6. \A v \in Thread : /\ pc'[v] = "reply" /\ msg'[v].type = "RELEASE"
                          /\ msg'[v].pid \notin overtaken'
            => <<msg'[v].pid, msg'[v].n>> \notin opened'
    OBVIOUS
  <1>7. ClosedFiles' BY DEF ClosedFiles
  <1> QED BY <1>1, <1>2, <1>3, <1>4, <1>5, <1>6, <1>7

\* An OPEN opens the file of its own session, which had none.
LEMMA FileOpen ==
    ASSUME TypeInv, RequestInv, FileInv, NEW w \in Thread, ExecOpen(w) \/ ExecOpenKept(w)
    PROVE  FileInv'
  <1> PICK p \in Pid : p = msg[w].pid BY PreMsg DEF ExecOpen, ExecOpenKept
  <1> PICK s \in Session : s = <<p, msg[w].n>> BY PreMsg DEF ExecOpen, ExecOpenKept
  <1>1. /\ Others(w) /\ pc[w] = "exec" /\ pc'[w] = "reply" /\ msg[w].type = "OPEN"
        /\ UNCHANGED <<msg, cl, net, overtaken>> /\ kept \subseteq kept'
    BY DEF ExecOpen, ExecOpenKept, Others, Goto, TypeInv, clientVars
  <1>2. /\ opened' = opened \/ opened' = opened \cup {s}
        /\ res'[w] = "fail" => opened' = opened \/ s \in kept'
    BY DEF ExecOpen, ExecOpenKept, TypeInv
  <1>3. Pending(msg[w]) /\ s \notin opened BY <1>1 DEF RequestInv, Pre, FileInv
  <1>4. s[1] = p /\ s[2] = n[p] /\ cl[p] = "opening" /\ n[p] \in Int /\ n' = n
    BY <1>1, <1>3 DEF Pending, Busy, TypeInv, Others
  <1>5. \A m \in net : <<m.pid, m.n>> # s BY <1>1 DEF RequestInv, Pre
  <1>6. \A v \in Thread \ {w} : pc[v] \in Pre => <<msg[v].pid, msg[v].n>> # s
    BY <1>1 DEF RequestInv, Pre
  <1>7. ClosedFiles'
    BY <1>1, <1>2, <1>4 DEF FileInv, ClosedFiles
  <1>8. \A v \in Thread : pc'[v] # "reply" => res'[v] = "fail"
    BY <1>1 DEF FileInv, Others
  <1>9. \A t \in opened' : t[2] <= n'[t[1]] BY <1>2, <1>4 DEF FileInv
  <1>10. \A m \in net' : m.type = "OPEN" => <<m.pid, m.n>> \notin opened'
    BY <1>1, <1>2, <1>5 DEF FileInv
  <1>11. ASSUME NEW v \in Thread \ {w}
         PROVE  /\ pc'[v] \in Pre \ {"reply"} /\ msg'[v].type = "OPEN"
                   => <<msg'[v].pid, msg'[v].n>> \notin opened'
                /\ pc'[v] = "reply" /\ msg'[v].type = "OPEN" /\ res'[v] = "fail"
                   => <<msg'[v].pid, msg'[v].n>> \notin opened' \ kept'
                /\ /\ pc'[v] = "reply" /\ msg'[v].type = "RELEASE"
                   /\ msg'[v].pid \notin overtaken'
                   => <<msg'[v].pid, msg'[v].n>> \notin opened'
    BY <1>1, <1>2, <1>6 DEF FileInv, Others, Pre
  <1>12. res'[w] = "fail" => <<msg'[w].pid, msg'[w].n>> \notin opened' \ kept'
    BY <1>1, <1>2, <1>3
  <1> QED BY <1>1, <1>7, <1>8, <1>9, <1>10, <1>11, <1>12 DEF FileInv

\* A RELEASE closes the file that its session opened.
LEMMA FileRelease ==
    ASSUME TypeInv, RequestInv, SessionInv, FileInv, NEW w \in Thread, ExecRelease(w)
    PROVE  FileInv'
  <1>1. /\ Others(w) /\ pc[w] = "exec" /\ pc'[w] = "reply" /\ msg[w].type = "RELEASE"
        /\ UNCHANGED <<msg, cl, net, overtaken, kept>> /\ opened' = opened \ {File(w).of}
        /\ res'[w] = "ok"
    BY DEF ExecRelease, Others, Goto, TypeInv, clientVars
  <1>2. msg[w].pid \notin overtaken => File(w).of = <<msg[w].pid, msg[w].n>>
    BY <1>1 DEF SessionInv, OwnFile, FileOf
  <1>3. ClosedFiles' BY <1>1 DEF FileInv, ClosedFiles, Others
  <1>4. \A v \in Thread \ {w} : /\ pc'[v] = pc[v] /\ msg'[v] = msg[v] /\ res'[v] = res[v]
    BY <1>1 DEF Others
  <1>5. n' = n BY <1>1 DEF Others
  <1> QED BY <1>1, <1>2, <1>3, <1>4, <1>5 DEF FileInv

\* An answer closes a session only when its file is closed or left open by an
\* error path.
LEMMA FileReply ==
    ASSUME TypeInv, RequestInv, SessionInv, FileInv, NEW w \in Thread,
           SendReply(w) \/ ExecNoReq(w)
    PROVE  FileInv'
  <1> PICK p \in Pid : p = msg[w].pid BY PreMsg DEF SendReply, ExecNoReq
  <1>1. /\ Others(w) /\ pc[w] \in {"reply", "exec"} /\ pc'[w] \in {"idle", "destroy", "put"}
        /\ UNCHANGED <<net, opened, overtaken>>
        /\ kept \subseteq kept' /\ res'[w] = "fail"
        /\ \A q \in Pid \ {p} : cl'[q] = cl[q]
        /\ cl'[p] = cl[p] \/ cl'[p] = Answered(cl[p], res[w])
    BY DEF SendReply, ExecNoReq, Reply, Abandon, Goto, Others, TypeInv, FileInv,
           tableVars, lockVars
  <1>2. msg[w] \in Msg /\ Pending(msg[w]) /\ msg[w].type \in Type
    BY <1>1, PreMsg DEF RequestInv, Pre
  <1>3. n' = n BY <1>1 DEF Others
  <1>4. ASSUME NEW s \in opened, s[1] = p, s[2] = n[p], cl'[p] = "closed", p \notin overtaken
        PROVE  s \in kept'
    <2>1. s = <<p, msg[w].n>> BY <1>2, <1>4, SessionType DEF Pending, TypeInv
    <2>2. cl'[p] = Answered(cl[p], res[w])
      BY <1>1, <1>2, <1>4 DEF Pending, Busy
    <2>3. msg[w].type = "RELEASE" \/ (msg[w].type = "OPEN" /\ res[w] = "fail")
      BY <1>2, <1>4, <2>2, AnsweredType DEF Type, TypeInv
    <2>4. CASE SendReply(w)
      BY <1>1, <1>4, <2>1, <2>3, <2>4 DEF SendReply, FileInv
    <2>5. CASE ExecNoReq(w)
      <3>1. pc[w] = "exec" BY <2>5 DEF ExecNoReq
      <3>2. CASE msg[w].type = "OPEN" BY <1>4, <2>1, <3>1, <3>2 DEF FileInv, Pre
      <3>3. CASE msg[w].type = "RELEASE"
        <4>1. File(w) = FileOf(s)
          BY <1>4, <2>1, <3>1, <3>3 DEF SessionInv, OwnFile
        <4>2. File(w).st = "file" /\ File(w).of = s BY <4>1 DEF FileOf
        <4> QED BY <2>5, <3>3, <4>2 DEF ExecNoReq
      <3> QED BY <2>3, <3>2, <3>3
    <2> QED BY <2>4, <2>5
  <1>5. ClosedFiles'
    <2> SUFFICES ASSUME NEW s \in opened
                 PROVE  \/ s \in kept' \/ s[1] \in overtaken
                        \/ s[2] = n[s[1]] /\ cl'[s[1]] # "closed"
        BY <1>1, <1>3 DEF ClosedFiles
    <2>1. s[1] \in Pid BY SessionType DEF TypeInv
    <2>2. \/ s \in kept \/ s[1] \in overtaken
          \/ s[2] = n[s[1]] /\ cl[s[1]] # "closed"
      BY DEF FileInv, ClosedFiles
    <2> QED BY <1>1, <1>4, <2>1, <2>2
  <1>6. \A v \in Thread \ {w} : /\ pc'[v] = pc[v] /\ msg'[v] = msg[v] /\ res'[v] = res[v]
    BY <1>1 DEF Others
  <1> QED BY <1>1, <1>3, <1>5, <1>6 DEF FileInv, Pre

\* Every step of a thread keeps track of open files.
LEMMA FileRecv ==
    ASSUME TypeInv, RequestInv, AccInv, SessionInv, FileInv, NEW w \in Thread,
           FoRecvStep(w) \/ \E m \in net : Deliver(w, m)
    PROVE  FileInv'
  <1>1. CASE \E m \in net : Deliver(w, m)
    <2>1. SameFiles(w) BY <1>1, DeliverShape DEF SameFiles, FileInv
    <2> QED BY <2>1, FileSame
  <1>2. ASSUME \/ FindAccLock(w) \/ FindAccHit(w) \/ FindAccMiss(w) \/ AccStartLock(w)
               \/ AccStartFail(w) \/ AccStartAdd(w) \/ ExecIo(w) \/ UseFreed(w)
               \/ DestroyBlock(w) \/ DestroyLock(w) \/ Unhash(w) \/ FoRecvPut(w)
        PROVE  SameFiles(w)
    <2> USE DEF TypeInv, Goto, SameFiles, Others, Pre, threadVars, tableVars, lockVars,
                clientVars, FileInv
    <2>1. CASE FindAccLock(w) BY <2>1 DEF FindAccLock
    <2>2. CASE FindAccHit(w) BY <2>2 DEF FindAccHit
    <2>3. CASE FindAccMiss(w) BY <2>3 DEF FindAccMiss, Abandon
    <2>4. CASE AccStartLock(w) BY <2>4 DEF AccStartLock
    <2>5. CASE AccStartFail(w) BY <2>5 DEF AccStartFail, Abandon
    <2>6. CASE AccStartAdd(w) BY <2>6 DEF AccStartAdd
    <2>7. CASE ExecIo(w) BY <2>7 DEF ExecIo
    <2>8. CASE UseFreed(w) BY <2>8 DEF UseFreed, Abandon
    <2>9. CASE DestroyBlock(w) BY <2>9 DEF DestroyBlock
    <2>10. CASE DestroyLock(w) BY <2>10 DEF DestroyLock
    <2>11. CASE Unhash(w) BY <2>11 DEF Unhash
    <2>12. CASE FoRecvPut(w) BY <2>12 DEF FoRecvPut, Abandon
    <2> QED BY <1>2, <2>1, <2>2, <2>3, <2>4, <2>5, <2>6, <2>7, <2>8, <2>9, <2>10, <2>11, <2>12
  <1> QED BY <1>1, <1>2, FileSame, FileOpen, FileRelease, FileReply DEF FoRecvStep

-----------------------------------------------------------------------------
(* The reference counter *)

InRecv == {w \in Thread : pc[w] # "idle"}

\* What is counted is finite.
LEMMA UsersFinite ==
    ASSUME TypeInv
    PROVE  /\ IsFiniteSet(htable) /\ IsFiniteSet(InRecv)
           /\ Cardinality(htable) \in Nat /\ Cardinality(InRecv) \in Nat
  <1>1. IsFiniteSet(1 .. MaxOpen) BY FS_Interval
  <1>2. IsFiniteSet(Session) BY <1>1, FS_Product DEF Session
  <1> QED BY <1>2, FS_Subset, FS_CardinalityType DEF TypeInv, InRecv

\* The steps of fo_recv keep the counter right: a thread gives back what it
\* took when it ends, and one that is abandoned leaves its reference counted.
LEMMA UsersRecv ==
    ASSUME TypeInv, AccInv, UsersCover, NEW w \in Thread,
           FoRecvStep(w) \/ \E m \in net : Deliver(w, m)
    PROVE  UsersCover'
  <1> SUFFICES ASSUME overtaken' = {}
               PROVE  users' >= 1 + Cardinality(htable') + Cardinality(InRecv')
      BY DEF UsersCover, InRecv
  <1>0. overtaken = {}
    BY DEF FoRecvStep, Deliver, FindAccLock, FindAccHit, FindAccMiss, AccStartLock,
           AccStartFail, AccStartAdd, ExecOpen, ExecOpenKept, ExecIo, ExecRelease,
           ExecNoReq, UseFreed, SendReply, DestroyBlock, DestroyLock, Unhash, FoRecvPut,
           clientVars
  <1>1. users >= 1 + Cardinality(htable) + Cardinality(InRecv) /\ users \in Int
    BY <1>0 DEF UsersCover, InRecv, TypeInv
  <1>2. /\ IsFiniteSet(htable) /\ IsFiniteSet(InRecv)
        /\ Cardinality(htable) \in Nat /\ Cardinality(InRecv) \in Nat
    BY UsersFinite
  <1>3. CASE \E m \in net : Deliver(w, m)
    <2>1. /\ users' = users + 1 /\ htable' = htable
          /\ InRecv' = InRecv \cup {w} /\ w \notin InRecv
      BY <1>3, DeliverShape DEF InRecv, Others
    <2>2. Cardinality(InRecv') = Cardinality(InRecv) + 1 BY <1>2, <2>1, FS_AddElement
    <2> QED BY <1>1, <1>2, <2>1, <2>2
  <1>4. CASE AccStartAdd(w)
    <2>1. users' = users + 1 /\ htable' = htable \cup {acc[w]} /\ InRecv' = InRecv
      BY <1>4 DEF AccStartAdd, Goto, InRecv, TypeInv
    <2>2. \/ Cardinality(htable') = Cardinality(htable)
          \/ Cardinality(htable') = Cardinality(htable) + 1
      BY <1>2, <2>1, FS_AddElement
    <2> QED BY <1>1, <1>2, <2>1, <2>2
  <1>5. CASE Unhash(w)
    <2>1. users' = users - 1 /\ htable' = htable \ {acc[w]} /\ InRecv' = InRecv
      BY <1>5 DEF Unhash, Goto, InRecv, TypeInv
    <2>2. acc[w] \in htable BY <1>0, <1>5 DEF Unhash, AccInv, NoUseAfterFree
    <2>3. Cardinality(htable') = Cardinality(htable) - 1
      BY <1>2, <2>1, <2>2, FS_RemoveElement
    <2> QED BY <1>1, <1>2, <2>1, <2>3
  <1>6. CASE FoRecvPut(w)
    <2>1. /\ users' = users - 1 /\ htable' = htable
          /\ InRecv' = InRecv \ {w} /\ w \in InRecv
      BY <1>6 DEF FoRecvPut, Abandon, Goto, InRecv, TypeInv, tableVars
    <2>2. Cardinality(InRecv') = Cardinality(InRecv) - 1 BY <1>2, <2>1, FS_RemoveElement
    <2> QED BY <1>1, <1>2, <2>1, <2>2
  <1>7. CASE FoRecvStep(w) /\ ~AccStartAdd(w) /\ ~Unhash(w) /\ ~FoRecvPut(w)
    <2>1. users' = users /\ htable' = htable
      BY <1>7 DEF FoRecvStep, FindAccLock, FindAccHit, FindAccMiss, AccStartLock,
           AccStartFail, ExecOpen, ExecOpenKept, ExecIo, ExecRelease,
           ExecNoReq, UseFreed, SendReply, DestroyBlock, DestroyLock, tableVars
    <2>2. InRecv' \subseteq InRecv
      BY <1>7 DEF FoRecvStep, FindAccLock, FindAccHit, FindAccMiss, AccStartLock,
           AccStartFail, ExecOpen, ExecOpenKept, ExecIo, ExecRelease, threadVars,
           ExecNoReq, UseFreed, SendReply, DestroyBlock, DestroyLock, InRecv, Goto,
           Abandon, TypeInv
    <2>3. Cardinality(InRecv') <= Cardinality(InRecv) /\ Cardinality(InRecv') \in Nat
      BY <1>2, <2>2, FS_Subset, FS_CardinalityType
    <2> QED BY <1>1, <1>2, <2>1, <2>3
  <1> QED BY <1>3, <1>4, <1>5, <1>6, <1>7

-----------------------------------------------------------------------------
(* The theorems *)

\* Initially nothing is open, under way or referenced.
LEMMA ServerInit == Init => ServerInv
  <1> SUFFICES ASSUME Init PROVE ServerInv OBVIOUS
  <1>1. TypeInv BY TypeInit
  <1>2. RequestInv BY DEF Init, RequestInv, Pre
  <1>3. AccInv
    BY DEF Init, AccInv, TableInv, HandInv, DyingInv, AloneInv, NoUseAfterFree, HasAcc, Dying
  <1>4. SessionInv
    BY DEF Init, SessionInv, HeldInv, NeedsFile, OpensInv, OwnFile
  <1>5. FileInv BY DEF Init, FileInv, ClosedFiles, Pre
  <1>6. UsersCover
    <2>1. htable = {} /\ InRecv = {} /\ users = 1 BY DEF Init, InRecv
    <2> QED BY <2>1, FS_EmptySet DEF UsersCover, InRecv
  <1> QED BY <1>1, <1>2, <1>3, <1>4, <1>5, <1>6 DEF ServerInv

\* Every step keeps the invariant.
LEMMA ServerStep == ServerInv /\ [Next]_vars => ServerInv'
  <1> SUFFICES ASSUME ServerInv, [Next]_vars PROVE ServerInv' OBVIOUS
  <1> USE DEF ServerInv
  <1>1. ASSUME NEW p \in Pid, Client(p) PROVE ServerInv'
    <2>1. UsersCover'
      BY <1>1 DEF Client, ClientOpen, ClientIo, ClientRelease, Request, UsersCover,
                  threadVars, tableVars
    <2> QED BY <1>1, <2>1, TypeClient, RequestClient, AccClient, SessionClient, FileClient
  <1>2. ASSUME NEW w \in Thread, FoRecvStep(w) \/ \E m \in net : Deliver(w, m)
        PROVE  ServerInv'
    BY <1>2, TypeRecv, RequestRecv, AccRecv, SessionRecv, FileRecv, UsersRecv
  <1>3. CASE UNCHANGED vars
    <2> USE <1>3 DEF vars, threadVars, tableVars, lockVars, clientVars
    <2>1. TypeInv' BY DEF TypeInv
    <2>2. RequestInv' BY DEF RequestInv, Pending
    <2>3. AccInv'
      BY DEF AccInv, TableInv, HandInv, DyingInv, AloneInv, NoUseAfterFree, Quiet
    <2>4. HeldInv' BY DEF SessionInv, HeldInv, NeedsFile, Quiet, Held, FindAcc
    <2>5. OpensInv' /\ OwnFile' BY DEF SessionInv, OpensInv, OwnFile, FindAcc, File
    <2>6. FileInv' BY DEF FileInv, ClosedFiles
    <2>7. UsersCover' BY DEF UsersCover
    <2> QED BY <2>1, <2>2, <2>3, <2>4, <2>5, <2>6, <2>7 DEF SessionInv
  <1> QED BY <1>1, <1>2, <1>3 DEF Next

\* The invariant holds always.
LEMMA ServerInvariant == Spec => []ServerInv
  BY ServerInit, ServerStep, PTL DEF Spec

\* Every variable keeps its type; the reference counter never goes below zero
\* unless a fo_access was destroyed twice.
THEOREM TypeCorrect == Spec => []TypeOK
  <1>1. ServerInv => TypeOK
    <2> SUFFICES ASSUME ServerInv PROVE TypeOK OBVIOUS
    <2>1. overtaken = {} => users \in Nat
      <3> HAVE overtaken = {}
      <3>1. users >= 1 + Cardinality(htable) + Cardinality(InRecv)
        BY DEF ServerInv, UsersCover, InRecv
      <3> QED BY <3>1, UsersFinite DEF ServerInv, TypeInv
    <2> QED BY <2>1 DEF ServerInv, TypeInv, TypeOK
  <1> QED BY <1>1, ServerInvariant, PTL

\* A thread's fo_access is not freed while it uses it, whatever the other
\* tasks and threads do and whichever allocation fails, unless its task has
\* reopened the device before the thread of its RELEASE had ended.
THEOREM NoAccessFreed == Spec => []NoUseAfterFree
  <1>1. ServerInv => NoUseAfterFree BY DEF ServerInv, AccInv
  <1> QED BY <1>1, ServerInvariant, PTL

\* An operation is executed on the file that its own session has opened.
THEOREM OperatesOwnFile == Spec => []OwnFile
  <1>1. ServerInv => OwnFile BY DEF ServerInv, SessionInv
  <1> QED BY <1>1, ServerInvariant, PTL

\* No file of the served device outlives its session, but for the two error
\* paths that the model names.
THEOREM FilesAreClosed == Spec => []ClosedFiles
  <1>1. ServerInv => ClosedFiles BY DEF ServerInv, FileInv
  <1> QED BY <1>1, ServerInvariant, PTL

\* nddata->users of a served device never under-counts while no task is
\* overtaken.
THEOREM UsersCounted == Spec => []UsersCover
  <1>1. ServerInv => UsersCover BY DEF ServerInv
  <1> QED BY <1>1, ServerInvariant, PTL
=============================================================================
