-------------------------------- MODULE Proxy -------------------------------
(***************************************************************************)
(* The path of a file operation between two machines: the netlink socket   *)
(* between kernel module and daemon on each of them, the two daemons'      *)
(* proxy_loop, the TCP connection, and the kernel threads that run fo_recv:*)
(* on the serving machine they execute the operation, on the machine with  *)
(* the dummy device they complete it.                                      *)
(*                                                                         *)
(* The hard part is the netlink socket.  It carries three kinds of messages*)
(* to the daemon in one queue: requests, results, and the ACK for each     *)
(* message the daemon itself sent.  The daemon, having sent one, takes     *)
(* whatever comes next for its ACK.                                        *)
(*                                                                         *)
(* Sockets are first-in first-out and lose nothing while they are up; when *)
(* conn_send and conn_recv make that of a stream is Stream's subject, how  *)
(* the daemons got here is Handshake's, and how a reply finds its request  *)
(* inside the kernel is FoComm's.                                          *)
(***************************************************************************)
EXTENDS Integers, Sequences, FiniteSets

CONSTANTS
    Op,         \* file operations
    Window,     \* operations that may be under way at the same time
    Failures,   \* whether connections are lost and lookups fail
    None

ASSUME WindowAssumption == Window \in Nat \ {0}
ASSUME FailuresAssumption == Failures \in BOOLEAN

C == "client"               \* the machine with the dummy device
S == "server"               \* the machine with the real one
Machine == {C, S}
Peer(m) == IF m = C THEN S ELSE C

\* A file operation message.  A request has rvalue -1, which is "fail": sent
\* back untouched it reports a failure.
Msg == [op : Op, res : {"ok", "fail"}]
Ack == [op |-> None, res |-> "ack"]

\* None is neither an operation nor a message.
ASSUME NoneAssumption == None \notin Op /\ None \notin Msg

DaemonPc == {"select", "nl", "rm", "ksend", "kack", "ack", "unreg", "destroy",
             "exit", "gone", "killed"}

VARIABLES
    dpc,        \* where each daemon's proxy is
    rmready,    \* the remote socket was ready in the last select
    hand,       \* the message a daemon received from its peer
    nlq,        \* messages from the kernel to the daemon, not yet received
    nllock,     \* nddata->nllock is held by netlink_recv
    tcp,        \* tcp[m]: messages to machine m's daemon, not yet received
    conn,       \* the connection is up
    woken,      \* fo_recv threads, by the message each was started for
    replies,    \* executed operations whose thread has yet to send the result
    called,     \* operations whose request was sent
    runs,       \* how often the served device was operated for an operation
    verdict,    \* auxiliary: the result that was decided on the server
    result      \* the result the operation returned

daemonVars == <<dpc, rmready, hand>>
opVars == <<called, runs, verdict, result>>
vars == <<daemonVars, nlq, nllock, tcp, conn, woken, replies, opVars>>

TypeOK ==
    /\ dpc \in [Machine -> DaemonPc]
    /\ rmready \in [Machine -> BOOLEAN]
    /\ hand \in [Machine -> Msg \cup {None}]
    /\ nlq \in [Machine -> Seq(Msg \cup {Ack})]
    /\ nllock \in [Machine -> BOOLEAN]
    /\ tcp \in [Machine -> Seq(Msg)]
    /\ conn \in BOOLEAN
    /\ woken \in [Machine -> SUBSET Msg]
    /\ replies \in SUBSET Msg
    /\ called \in SUBSET Op
    /\ runs \in [Op -> 0 .. 1]
    /\ verdict \in [Op -> {"none", "ok", "fail"}]
    /\ result \in [Op -> {"none", "ok", "fail"}]

\* Both devices are registered and both daemons have entered proxy_loop.
Init ==
    /\ dpc = [m \in Machine |-> "select"]
    /\ rmready = [m \in Machine |-> FALSE]
    /\ hand = [m \in Machine |-> None]
    /\ nlq = [m \in Machine |-> << >>]
    /\ nllock = [m \in Machine |-> FALSE]
    /\ tcp = [m \in Machine |-> << >>]
    /\ conn = TRUE
    /\ woken = [m \in Machine |-> {}]
    /\ replies = {}
    /\ called = {}
    /\ runs = [o \in Op |-> 0]
    /\ verdict = [o \in Op |-> "none"]
    /\ result = [o \in Op |-> "none"]

Alive(m) == dpc[m] \notin {"gone", "killed"}

\* nlmsg_unicast to a daemon that is no more fails
Unicast(m, x) ==
    nlq' = IF Alive(m) THEN [nlq EXCEPT ![m] = Append(@, x)] ELSE nlq

\* the daemon's netlink_recv: peeks at the header, then takes the message
NetlinkRecv(m) == nlq' = [nlq EXCEPT ![m] = Tail(@)]

\* conn_send and conn_recv: header and payload go through the stream together
ConnSend(m, x) == tcp' = [tcp EXCEPT ![Peer(m)] = Append(@, x)]
ConnRecv(m) == tcp[m] # << >> /\ tcp' = [tcp EXCEPT ![m] = Tail(@)]

DaemonAt(m, l) == dpc' = [dpc EXCEPT ![m] = l]

-----------------------------------------------------------------------------
(* The kernel on the dummy's side: netlink_send called by fo_send.         *)

UnderWay == {o \in called : result[o] = "none"}

SendRequest(o) ==
    /\ o \notin called /\ Cardinality(UnderWay) < Window
    /\ ~nllock[C] /\ Alive(C)
    /\ called' = called \cup {o}
    /\ Unicast(C, [op |-> o, res |-> "fail"])
    /\ UNCHANGED <<daemonVars, nllock, tcp, conn, woken, replies, runs,
                   verdict, result>>

-----------------------------------------------------------------------------
(* proxy_loop *)

RemoteReady(m) == tcp[m] # << >> \/ ~conn

Select(m) ==
    /\ dpc[m] = "select"
    /\ nlq[m] # << >> \/ RemoteReady(m)
    /\ rmready' = [rmready EXCEPT ![m] = RemoteReady(m)]
    /\ DaemonAt(m, IF nlq[m] # << >> THEN "nl" ELSE "rm")
    /\ UNCHANGED <<hand, nlq, nllock, tcp, conn, woken, replies, opVars>>

AfterNetlink(m) == IF rmready[m] THEN "rm" ELSE "select"

HandleNetlinkPeek(m) ==         \* mutant: MSG_PEEK is not cleared
    /\ dpc[m] = "nl" /\ Head(nlq[m]) # Ack
    /\ \/ /\ conn /\ ConnSend(m, Head(nlq[m]))
          /\ DaemonAt(m, AfterNetlink(m))
       \/ /\ ~conn /\ UNCHANGED tcp
          /\ DaemonAt(m, AfterNetlink(m)) \/ DaemonAt(m, "killed")
    /\ UNCHANGED <<rmready, hand, nlq, nllock, conn, woken, replies, opVars>>

\* proxy_handle_netlink: a file operation is forwarded; the result of
\* conn_send is ignored, but writing to a connection that is closed may
\* raise SIGPIPE, which ends the daemon.
HandleNetlink(m) ==
    /\ dpc[m] = "nl" /\ Head(nlq[m]) # Ack
    /\ NetlinkRecv(m)
    /\ \/ /\ conn /\ ConnSend(m, Head(nlq[m]))
          /\ DaemonAt(m, AfterNetlink(m))
       \/ /\ ~conn /\ UNCHANGED tcp
          /\ DaemonAt(m, AfterNetlink(m)) \/ DaemonAt(m, "killed")
    /\ UNCHANGED <<rmready, hand, nllock, conn, woken, replies, opVars>>

\* proxy_handle_netlink: any other message ends the loop.
HandleNetlinkOther(m) ==
    /\ dpc[m] = "nl" /\ Head(nlq[m]) = Ack
    /\ NetlinkRecv(m)
    /\ DaemonAt(m, "unreg")
    /\ UNCHANGED <<rmready, hand, nllock, tcp, conn, woken, replies, opVars>>

\* proxy_handle_remote, up to netlink_send_nlh
HandleRemote(m) ==
    /\ dpc[m] = "rm" /\ ConnRecv(m)
    /\ hand' = [hand EXCEPT ![m] = Head(tcp[m])]
    /\ DaemonAt(m, "ksend")
    /\ UNCHANGED <<rmready, nlq, nllock, conn, woken, replies, opVars>>

\* conn_recv fails at the end of the stream; getsockopt, which is given an
\* uninitialised length, may also report a connection as lost.
HandleRemoteLost(m) ==
    /\ dpc[m] = "rm" /\ (Failures \/ tcp[m] = << >>)
    /\ DaemonAt(m, "unreg")
    /\ UNCHANGED <<rmready, hand, nlq, nllock, tcp, conn, woken, replies, opVars>>

-----------------------------------------------------------------------------
(* netlink_send_nlh: the kernel's netlink_recv runs inside the sendmsg of  *)
(* the daemon.                                                             *)

KernelRecvNoWake(m) ==          \* mutant: the thread is created, not started
    /\ dpc[m] = "ksend" /\ ~nllock[m]
    /\ nllock' = [nllock EXCEPT ![m] = TRUE]
    /\ hand' = [hand EXCEPT ![m] = None]
    /\ DaemonAt(m, "kack")
    /\ UNCHANGED <<rmready, nlq, tcp, conn, woken, replies, opVars>>

KernelRecv(m) ==
    /\ dpc[m] = "ksend" /\ ~nllock[m]
    /\ nllock' = [nllock EXCEPT ![m] = TRUE]
    /\ woken' = [woken EXCEPT ![m] = @ \cup {hand[m]}]
    /\ hand' = [hand EXCEPT ![m] = None]
    /\ DaemonAt(m, "kack")
    /\ UNCHANGED <<rmready, nlq, tcp, conn, replies, opVars>>

\* ndmgm_find fails because another device's teardown holds
\* netdev_htable_sem: netlink_recv returns without an ACK.
KernelRecvNoDevice(m) ==
    /\ dpc[m] = "ksend" /\ Failures
    /\ hand' = [hand EXCEPT ![m] = None]
    /\ DaemonAt(m, "ack")
    /\ UNCHANGED <<rmready, nlq, nllock, tcp, conn, woken, replies, opVars>>

KernelAckLost(m) ==             \* mutant: no ACK is sent
    /\ dpc[m] = "kack"
    /\ nllock' = [nllock EXCEPT ![m] = FALSE]
    /\ DaemonAt(m, "ack")
    /\ UNCHANGED <<rmready, hand, nlq, tcp, conn, woken, replies, opVars>>

KernelAck(m) ==
    /\ dpc[m] = "kack"
    /\ Unicast(m, Ack)
    /\ nllock' = [nllock EXCEPT ![m] = FALSE]
    /\ DaemonAt(m, "ack")
    /\ UNCHANGED <<rmready, hand, tcp, conn, woken, replies, opVars>>

\* The daemon's netlink_recv blocks; what it gets is dropped, and that it
\* was no confirmation is only printed.
AwaitAck(m) ==
    /\ dpc[m] = "ack" /\ nlq[m] # << >>
    /\ NetlinkRecv(m)
    /\ DaemonAt(m, "select")
    /\ UNCHANGED <<rmready, hand, nllock, tcp, conn, woken, replies, opVars>>

(* netlink_unregister_dev and the end of proxy_client and proxy_server.    *)

\* ndmgm_find_destroy tears nothing down that an operation could notice: the
\* device is a server, or the dummy's file is closed, or a trylock is lost.
\* The ACK is sent whatever the outcome.
Unregister(m) ==
    /\ dpc[m] = "unreg"
    /\ Unicast(m, Ack)
    /\ DaemonAt(m, "exit")
    /\ UNCHANGED <<rmready, hand, nllock, tcp, conn, woken, replies, opVars>>

Exit(m) ==
    /\ dpc[m] = "exit"
    /\ DaemonAt(m, "gone")
    /\ nlq' = [nlq EXCEPT ![m] = << >>]
    /\ conn' = FALSE
    /\ UNCHANGED <<rmready, hand, nllock, tcp, woken, replies, opVars>>

\* ndmgm_destroy_dummy with a file open: ndmgm_destroy_allacc completes the
\* requests in the file's queue and then waits, in fo_acc_destroy, for the
\* semaphore that ndmgm_destroy_dummy holds.  The daemon never returns.
DestroyDummy ==
    /\ dpc[C] = "unreg"
    /\ DaemonAt(C, "destroy")
    /\ UNCHANGED <<rmready, hand, nlq, nllock, tcp, conn, woken, replies, opVars>>

FreeQueue(o) ==
    /\ dpc[C] = "destroy" /\ o \in UnderWay
    /\ result' = [result EXCEPT ![o] = "fail"]
    /\ UNCHANGED <<daemonVars, nlq, nllock, tcp, conn, woken, replies, called,
                   runs, verdict>>

\* The network fails: what was under way is lost.
ConnectionLost ==
    /\ Failures
    /\ conn' = FALSE
    /\ tcp' = [m \in Machine |-> << >>]
    /\ UNCHANGED <<daemonVars, nlq, nllock, woken, replies, opVars>>

-----------------------------------------------------------------------------
(* fo_recv threads *)

\* fo_execute on the serving machine: the operation is executed (and may
\* report a failure), or it is not implemented and fails.
Execute(x) ==
    /\ x \in woken[S]
    /\ woken' = [woken EXCEPT ![S] = @ \ {x}]
    /\ \/ /\ runs' = [runs EXCEPT ![x.op] = @ + 1]
          /\ \E v \in {"ok", "fail"} :
                /\ replies' = replies \cup {[x EXCEPT !.res = v]}
                /\ verdict' = [verdict EXCEPT ![x.op] = v]
       \/ /\ replies' = replies \cup {x}
          /\ verdict' = [verdict EXCEPT ![x.op] = x.res]
          /\ UNCHANGED runs
    /\ UNCHANGED <<daemonVars, nlq, nllock, tcp, conn, called, result>>

SendReplyNoLock(x) ==           \* mutant: nllock is not taken
    /\ x \in replies
    /\ replies' = replies \ {x}
    /\ Unicast(S, x)
    /\ UNCHANGED <<daemonVars, nllock, tcp, conn, woken, opVars>>

\* netlink_send_skb
SendReply(x) ==
    /\ x \in replies /\ ~nllock[S]
    /\ replies' = replies \ {x}
    /\ Unicast(S, x)
    /\ UNCHANGED <<daemonVars, nllock, tcp, conn, woken, opVars>>

\* fo_complete on the machine with the dummy: the request is still queued
Complete(x) ==
    /\ x \in woken[C] /\ result[x.op] = "none"
    /\ woken' = [woken EXCEPT ![C] = @ \ {x}]
    /\ result' = [result EXCEPT ![x.op] = x.res]
    /\ UNCHANGED <<daemonVars, nlq, nllock, tcp, conn, replies, called, runs, verdict>>

\* fo_recv ends and says nothing: a trylock of ndmgm_find_acc, fo_acc_start
\* or fo_acc_foreq_find is lost to somebody at work at the same time, or the
\* device is being torn down or gone.
GiveUp(m, x) ==
    /\ x \in woken[m]
    /\ Cardinality(UnderWay) > 1 \/ dpc[m] \in {"destroy", "exit", "gone"}
    /\ woken' = [woken EXCEPT ![m] = @ \ {x}]
    /\ UNCHANGED <<daemonVars, nlq, nllock, tcp, conn, replies, opVars>>

-----------------------------------------------------------------------------
DaemonStep(m) ==
    Select(m) \/ HandleNetlink(m) \/ HandleNetlinkOther(m) \/ HandleRemote(m)
    \/ HandleRemoteLost(m) \/ KernelRecv(m) \/ KernelRecvNoDevice(m)
    \/ KernelAck(m) \/ AwaitAck(m) \/ Unregister(m) \/ Exit(m)

ThreadStep ==
    \/ \E x \in woken[S] : Execute(x)
    \/ \E x \in replies : SendReply(x)
    \/ \E x \in woken[C] : Complete(x)
    \/ \E m \in Machine : \E x \in woken[m] : GiveUp(m, x)

Next ==
    \/ \E o \in Op : SendRequest(o)
    \/ \E m \in Machine : DaemonStep(m)
    \/ ThreadStep
    \/ DestroyDummy \/ \E o \in UnderWay : FreeQueue(o)
    \/ ConnectionLost

Spec == Init /\ [][Next]_vars

\* Daemons and kernel threads that can run do run.
FairSpec ==
    Spec /\ (\A m \in Machine : WF_vars(DaemonStep(m))) /\ WF_vars(ThreadStep)

-----------------------------------------------------------------------------
(* Properties *)

\* What a daemon takes for the confirmation of its message is one: the ACK
\* precedes every request and result that the kernel sends meanwhile.
AckFirst == \A m \in Machine : dpc[m] = "ack" /\ nlq[m] # << >> => Head(nlq[m]) = Ack

\* The places an operation's request or result is in, with multiplicity.
InQueue(o, q) == Cardinality({i \in 1 .. Len(q) : q[i].op = o})
Copies(o) ==
    InQueue(o, nlq[C]) + InQueue(o, nlq[S]) + InQueue(o, tcp[C]) + InQueue(o, tcp[S])
    + Cardinality({m \in Machine : hand[m] # None /\ hand[m].op = o})
    + Cardinality({x \in woken[C] : x.op = o}) + Cardinality({x \in woken[S] : x.op = o})
    + Cardinality({x \in replies : x.op = o})

\* An operation that has not returned is in exactly one place on its way
\* there or back; one that has returned is in none.
Conserved == \A o \in called : Copies(o) = IF result[o] = "none" THEN 1 ELSE 0

\* Whatever is lost, nothing is duplicated: a request or its result is in
\* one place at most.
NeverDuplicated == \A o \in Op : Copies(o) <= 1

\* Every operation that was sent returns.
OperationsReturn == \A o \in Op : o \in called ~> result[o] # "none"

\* The path implements RemoteCall, even when daemons, connections and
\* threads give up: an operation is dealt with once and returns its own
\* result, or fails when its device is torn down.
RC == INSTANCE RemoteCall WITH Op <- Op, called <- called, runs <- runs,
                               verdict <- verdict, result <- result
ImplementsRemoteCall == RC!RCSpec
=============================================================================
