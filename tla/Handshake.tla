------------------------------ MODULE Handshake -----------------------------
(***************************************************************************)
(* The set-up of a connection between two proxies, from fork to proxy_loop *)
(* and on to their end: proxy_client on the machine with the dummy device, *)
(* proxy_server on the machine with the real one, the exchange of versions,*)
(* the registration of the two devices, and the four ways out of every     *)
(* step: a return, a crash, a closed connection, a signal.                 *)
(*                                                                         *)
(* A connection is named by its client.  File operations are Proxy's       *)
(* subject: here the first one of a task stands for them, because it may   *)
(* come while the registration is still being confirmed.  The processes    *)
(* that fork the proxies are in module Daemon, which extends this one.     *)
(***************************************************************************)
EXTENDS Integers, Sequences, FiniteSets

CONSTANTS
    Conn,       \* connections, one for every configured device
    Mismatch,   \* those whose ends have different protocol versions
    ShortName,  \* those whose device name has fewer than three characters
    MaxFaults,  \* bound: calls that fail and parents that die
    None

ASSUME ConnAssumption == IsFiniteSet(Conn) /\ None \notin Conn
ASSUME KindAssumption == Mismatch \subseteq Conn /\ ShortName \subseteq Conn
ASSUME FaultAssumption == MaxFaults \in Nat

C == "client"
S == "server"
Machine == {C, S}

Listener == "listener"      \* the parent of the proxies on the serving machine
Stray == "stray"            \* a child that was forked without a connection

\* netdev_header: a version, the reply to it, a device name, the reply to it
Header == {"version", "vreply", "vwrong", "reg", "rreply"}

ClientPc == {"none", "start", "sendver", "recvver", "sendreg", "recvreg",
             "regdummy", "regack", "ack", "loop", "unreg", "wedged", "ended"}
ServerPc == {"none", "start", "recvver", "sendver", "badver", "recvreg", "register",
             "sendreg", "loop", "unreg", "ended"}

VARIABLES
    cpc,        \* where each proxy_client is
    spc,        \* where each proxy_server is
    tosrv,      \* messages on the connection, not yet received
    tocli,
    backlog,    \* connections that were made and not accepted
    fds,        \* the processes that hold the server's end of a connection
    nlq,        \* netlink messages to proxy_client
    dummy,      \* connections whose dummy device is registered
    served,     \* connections whose served device is registered
    opened,     \* connections whose dummy device a task has opened
    zombies,    \* children that have ended and were not waited for
    chld,       \* SIGCHLD is pending for the parent
    hup,        \* proxies for which SIGHUP is pending
    parent,     \* what the parent process is doing
    faults      \* auxiliary: faults so far

pcVars == <<cpc, spc>>
tcpVars == <<tosrv, tocli, backlog, fds>>
devVars == <<nlq, dummy, served, opened, faults>>
procVars == <<zombies, chld, hup, parent>>
hsVars == <<pcVars, tcpVars, devVars, procVars>>

HsTypeOK ==
    /\ cpc \in [Conn -> ClientPc] /\ spc \in [Conn -> ServerPc]
    /\ tosrv \in [Conn -> Seq(Header)] /\ tocli \in [Conn -> Seq(Header)]
    /\ backlog \in SUBSET Conn
    /\ fds \in [Conn -> SUBSET (Conn \cup {Listener})]
    /\ nlq \in [Conn -> Seq({"ack", "nak", "req"})]
    /\ dummy \in SUBSET Conn /\ served \in SUBSET Conn /\ opened \in SUBSET Conn
    /\ zombies \in [Machine -> SUBSET (Conn \cup {Stray})]
    /\ chld \in [Machine -> BOOLEAN]
    /\ hup \in SUBSET (Machine \X Conn)
    /\ parent \in [Machine -> {"run", "handler", "dead"}]
    /\ faults \in 0 .. MaxFaults

HsInit ==
    /\ cpc = [c \in Conn |-> "none"] /\ spc = [c \in Conn |-> "none"]
    /\ tosrv = [c \in Conn |-> << >>] /\ tocli = [c \in Conn |-> << >>]
    /\ backlog = {}
    /\ fds = [c \in Conn |-> {}]
    /\ nlq = [c \in Conn |-> << >>]
    /\ dummy = {} /\ served = {} /\ opened = {}
    /\ zombies = [m \in Machine |-> {}]
    /\ chld = [m \in Machine |-> FALSE]
    /\ hup = {}
    /\ parent = [m \in Machine |-> "run"]
    /\ faults = 0

-----------------------------------------------------------------------------
(* Sockets and processes *)

\* An end is open until the last process that holds it closes it or ends.
ClientOpen(c) == cpc[c] # "ended"
ServerOpen(c) == c \in backlog \/ fds[c] # {}

\* A call fails though nothing in the model makes it fail.
Fault == faults < MaxFaults /\ faults' = faults + 1
FaultUnless(reason) == IF reason THEN UNCHANGED faults ELSE Fault

ClientAt(c, l) == cpc' = [cpc EXCEPT ![c] = l]
ServerAt(c, l) == spc' = [spc EXCEPT ![c] = l]

\* exit: the parent, if there is one, gets a SIGCHLD
Exit(m, p) ==
    /\ IF parent[m] = "dead" THEN UNCHANGED <<zombies, chld>>
       ELSE /\ zombies' = [zombies EXCEPT ![m] = @ \cup {p}]
            /\ chld' = [chld EXCEPT ![m] = TRUE]
    /\ UNCHANGED parent

\* The proxy returns, exits or crashes: its sockets are closed with it.
EndClient(c) ==
    /\ ClientAt(c, "ended")
    /\ Exit(C, c)
    /\ hup' = hup \ {<<C, c>>}
    /\ nlq' = [nlq EXCEPT ![c] = << >>]
    /\ UNCHANGED <<spc, tcpVars, served, opened>>

EndServer(c) ==
    /\ ServerAt(c, "ended")
    /\ Exit(S, c)
    /\ hup' = hup \ {<<S, c>>}
    /\ fds' = [d \in Conn |-> fds[d] \ {c}]
    /\ UNCHANGED <<cpc, tosrv, tocli, backlog, nlq, dummy, opened>>

\* conn_send: what is written to a connection that the peer has closed is
\* lost; an error, or death by SIGPIPE, comes with the next write.
SendToServer(c, h) ==
    tosrv' = IF ServerOpen(c) THEN [tosrv EXCEPT ![c] = Append(@, h)] ELSE tosrv
SendToClient(c, h) ==
    tocli' = IF ClientOpen(c) THEN [tocli EXCEPT ![c] = Append(@, h)] ELSE tocli

\* conn_recv fails at the end of the stream; the reset of a connection may
\* take messages with it that were not yet received.
ClientEof(c) == ~ServerOpen(c)
ServerEof(c) == ~ClientOpen(c)

-----------------------------------------------------------------------------
(* proxy_client *)

\* proxy_setup_signals, proxy_setup_unixsoc and netlink_setup have succeeded;
\* conn_server connects
ConnServerConnect(c) ==
    /\ cpc[c] = "start" /\ parent[S] # "dead"
    /\ backlog' = backlog \cup {c}
    /\ ClientAt(c, "sendver")
    /\ UNCHANGED <<spc, tosrv, tocli, fds, devVars, procVars>>

\* one of them has failed, or connect fails
ProxyClientFail(c) ==
    /\ cpc[c] = "start" /\ FaultUnless(parent[S] = "dead")
    /\ EndClient(c) /\ UNCHANGED dummy

ConnServerSend(c) ==
    /\ cpc[c] = "sendver"
    /\ SendToServer(c, "version")
    /\ ClientAt(c, "recvver")
    /\ UNCHANGED <<spc, tocli, backlog, fds, devVars, procVars>>

\* conn_send fails: rvalue is still the 0 of connect, so that proxy_client
\* goes on with the registration.
ConnServerSendFail(c) ==
    /\ cpc[c] = "sendver" /\ FaultUnless(~ServerOpen(c))
    /\ ClientAt(c, "sendreg")
    /\ UNCHANGED <<spc, tcpVars, nlq, dummy, served, opened, procVars>>

\* conn_server goes on whatever version the reply names: on "wrong version"
\* rvalue is the 0 of connect, too.
ConnServerRecv(c) ==
    /\ cpc[c] = "recvver" /\ tocli[c] # << >>
    /\ tocli' = [tocli EXCEPT ![c] = Tail(@)]
    /\ ClientAt(c, "sendreg")
    /\ UNCHANGED <<spc, tosrv, backlog, fds, devVars, procVars>>

ConnSendDevReg(c) ==
    /\ cpc[c] = "sendreg"
    /\ SendToServer(c, "reg")
    /\ ClientAt(c, "recvreg")
    /\ UNCHANGED <<spc, tocli, backlog, fds, devVars, procVars>>

\* A reply is as long as the name: of a short one the client reads a part
\* of the four bytes, and memory it has not written behind them.
Verdict(c, h) ==
    IF h = "vwrong" THEN {FALSE} ELSE IF c \in ShortName THEN BOOLEAN ELSE {TRUE}

ConnSendDevRegReply(c) ==
    /\ cpc[c] = "recvreg" /\ tocli[c] # << >>
    /\ TRUE \in Verdict(c, Head(tocli[c]))
    /\ tocli' = [tocli EXCEPT ![c] = Tail(@)]
    /\ ClientAt(c, "regdummy")
    /\ UNCHANGED <<spc, tosrv, backlog, fds, devVars, procVars>>

ConnSendDevRegRefused(c) ==
    /\ cpc[c] = "recvreg" /\ tocli[c] # << >>
    /\ FALSE \in Verdict(c, Head(tocli[c]))
    /\ EndClient(c) /\ UNCHANGED <<dummy, faults>>

\* conn_send or conn_recv fails: conn_server, which then uses the missing
\* header, crashes; conn_send_dev_reg returns -1.
ConnLostClient(c) ==
    /\ cpc[c] \in {"sendver", "recvver", "sendreg", "recvreg"} /\ ClientEof(c)
    /\ EndClient(c) /\ UNCHANGED <<dummy, faults>>

\* netlink_reg_dummy_dev: ndmgm_create_dummy in the kernel, without nllock.
\* From then on a task can open the device.
RegDummy(c) ==
    /\ cpc[c] = "regdummy"
    /\ dummy' = dummy \cup {c}
    /\ ClientAt(c, "regack")
    /\ UNCHANGED <<spc, tcpVars, nlq, served, opened, faults, procVars>>

RegDummyFail(c) ==
    /\ cpc[c] = "regdummy" /\ Fault
    /\ nlq' = [nlq EXCEPT ![c] = Append(@, "nak")]
    /\ ClientAt(c, "ack")
    /\ UNCHANGED <<spc, tcpVars, dummy, served, opened, procVars>>

\* netlink_ack
RegDummyAck(c) ==
    /\ cpc[c] = "regack"
    /\ nlq' = [nlq EXCEPT ![c] = Append(@, "ack")]
    /\ ClientAt(c, "ack")
    /\ UNCHANGED <<spc, tcpVars, dummy, served, opened, faults, procVars>>

\* The external task: its OPEN goes to the proxy of the device, if it lives.
TaskOpen(c) ==
    /\ c \in dummy \ opened
    /\ opened' = opened \cup {c}
    /\ nlq' = IF cpc[c] \in {"wedged", "ended"} THEN nlq
              ELSE [nlq EXCEPT ![c] = Append(@, "req")]
    /\ UNCHANGED <<pcVars, tcpVars, dummy, served, faults, procVars>>

AwaitAckAny(c) ==           \* mutant: the type of the message is not checked
    /\ cpc[c] = "ack" /\ nlq[c] # << >>
    /\ nlq' = [nlq EXCEPT ![c] = Tail(@)]
    /\ ClientAt(c, "loop")
    /\ UNCHANGED <<spc, tcpVars, dummy, served, opened, faults, procVars>>

\* netlink_send_nlh: the next message must be the confirmation
AwaitAck(c) ==
    /\ cpc[c] = "ack" /\ nlq[c] # << >> /\ Head(nlq[c]) = "ack"
    /\ nlq' = [nlq EXCEPT ![c] = Tail(@)]
    /\ ClientAt(c, "loop")
    /\ UNCHANGED <<spc, tcpVars, dummy, served, opened, faults, procVars>>

\* It is a refusal, or a request that came first: proxy_client returns and
\* leaves the device registered.
AwaitAckOther(c) ==
    /\ cpc[c] = "ack" /\ nlq[c] # << >> /\ Head(nlq[c]) # "ack"
    /\ EndClient(c) /\ UNCHANGED <<dummy, faults>>

\* proxy_loop: select returns for a request, which is forwarded, or because
\* the peer has closed, which ends the loop, as other failures do.
ClientLoop(c) ==
    /\ cpc[c] = "loop" /\ (nlq[c] # << >> \/ ClientEof(c))
    /\ nlq' = IF nlq[c] = << >> THEN nlq ELSE [nlq EXCEPT ![c] = Tail(@)]
    /\ \/ ~ClientEof(c) /\ UNCHANGED <<cpc, faults>>
       \/ FaultUnless(ClientEof(c)) /\ ClientAt(c, "unreg")
    /\ UNCHANGED <<spc, tcpVars, dummy, served, opened, procVars>>

\* netlink_unregister_dev: the device is destroyed, or a trylock is lost and
\* it stays; if a task has it open the teardown never ends (Teardown).
ClientUnregister(c) ==
    /\ cpc[c] = "unreg"
    /\ \/ c \notin opened /\ dummy' = dummy \ {c} /\ EndClient(c) /\ UNCHANGED faults
       \/ Fault /\ UNCHANGED dummy /\ EndClient(c)
       \/ c \in opened /\ ClientAt(c, "wedged")
          /\ UNCHANGED <<spc, tcpVars, devVars, procVars>>

-----------------------------------------------------------------------------
(* proxy_server *)

\* proxy_setup_signals, proxy_alloc_dev, proxy_setup_unixsoc, netlink_setup
ProxyServerSetup(c) ==
    /\ spc[c] = "start"
    /\ ServerAt(c, "recvver")
    /\ UNCHANGED <<cpc, tcpVars, devVars, procVars>>

ProxyServerFail(c) ==
    /\ spc[c] = "start" /\ Fault
    /\ EndServer(c) /\ UNCHANGED served

\* conn_client: a message of another type is taken for a version, too, when
\* it has four bytes; otherwise its size is wrong.
ConnClientRecv(c) ==
    /\ spc[c] = "recvver" /\ tosrv[c] # << >>
    /\ tosrv' = [tosrv EXCEPT ![c] = Tail(@)]
    /\ ServerAt(c, IF Head(tosrv[c]) = "version" /\ c \notin Mismatch
                   THEN "sendver" ELSE "badver")
    /\ UNCHANGED <<cpc, tocli, backlog, fds, devVars, procVars>>

ConnClientSize(c) ==
    /\ spc[c] = "recvver" /\ tosrv[c] # << >> /\ Head(tosrv[c]) # "version"
    /\ EndServer(c) /\ UNCHANGED <<served, faults>>

\* The reply is 0, or the version of the server, which conn_client returns:
\* proxy_server tests for -1 only and goes on.
ConnClientSend(c) ==
    /\ spc[c] \in {"sendver", "badver"}
    /\ SendToClient(c, IF spc[c] = "sendver" THEN "vreply" ELSE "vwrong")
    /\ ServerAt(c, "recvreg")
    /\ UNCHANGED <<cpc, tosrv, backlog, fds, devVars, procVars>>

ConnRecvDevReg(c) ==
    /\ spc[c] = "recvreg" /\ tosrv[c] # << >> /\ Head(tosrv[c]) = "reg"
    /\ tosrv' = [tosrv EXCEPT ![c] = Tail(@)]
    /\ ServerAt(c, "register")
    /\ UNCHANGED <<cpc, tocli, backlog, fds, devVars, procVars>>

RegRemoteEarly(c) ==        \* mutant: the reply is sent before the registration
    /\ spc[c] = "register"
    /\ SendToClient(c, "rreply")
    /\ served' = served \cup {c}
    /\ ServerAt(c, "sendreg")
    /\ UNCHANGED <<cpc, tosrv, backlog, fds, nlq, dummy, opened, faults, procVars>>

\* netlink_reg_remote_dev: ndmgm_create_server and its ACK; the kernel sends
\* nothing else to this daemon before it has forwarded a request.
RegRemote(c) ==
    /\ spc[c] = "register"
    /\ served' = served \cup {c}
    /\ ServerAt(c, "sendreg")
    /\ UNCHANGED <<cpc, tcpVars, nlq, dummy, opened, faults, procVars>>

\* The client is not told.
RegRemoteFail(c) ==
    /\ spc[c] = "register" /\ Fault
    /\ EndServer(c) /\ UNCHANGED served

ConnRecvDevRegReply(c) ==
    /\ spc[c] = "sendreg"
    /\ SendToClient(c, "rreply")
    /\ ServerAt(c, "loop")
    /\ UNCHANGED <<cpc, tosrv, backlog, fds, devVars, procVars>>

\* conn_send or conn_recv fails: conn_client and conn_recv_dev_reg use the
\* missing header, which is a crash, or return -1.  In the last of these
\* states the device stays registered.
ConnLostServer(c) ==
    /\ spc[c] \in {"recvver", "sendver", "badver", "recvreg", "sendreg"} /\ ServerEof(c)
    /\ EndServer(c) /\ UNCHANGED <<served, faults>>

\* proxy_loop: what it forwards changes nothing here
ServerLoop(c) ==
    /\ spc[c] = "loop" /\ FaultUnless(ServerEof(c))
    /\ ServerAt(c, "unreg")
    /\ UNCHANGED <<cpc, tcpVars, nlq, dummy, served, opened, procVars>>

ServerUnregister(c) ==
    /\ spc[c] = "unreg"
    /\ \/ served' = served \ {c} /\ UNCHANGED faults
       \/ Fault /\ UNCHANGED served
    /\ EndServer(c)

-----------------------------------------------------------------------------
(* proxy_sig_hup only prints: what ends a proxy is that the signal          *)
(* interrupts the call it is blocked in.  Anywhere else it has no effect.   *)

SigHupLost(m, c) ==
    /\ <<m, c>> \in hup
    /\ hup' = hup \ {<<m, c>>}
    /\ UNCHANGED <<pcVars, tcpVars, devVars, zombies, chld, parent>>

SigHupSelect(m, c) ==
    /\ <<m, c>> \in hup
    /\ IF m = C THEN cpc[c] = "loop" /\ ClientAt(c, "unreg") /\ UNCHANGED spc
       ELSE spc[c] = "loop" /\ ServerAt(c, "unreg") /\ UNCHANGED cpc
    /\ hup' = hup \ {<<m, c>>}
    /\ UNCHANGED <<tcpVars, devVars, zombies, chld, parent>>

\* connect or recvmsg fails with EINTR, and the set-up with it
SigHupSetup(m, c) ==
    /\ <<m, c>> \in hup
    /\ IF m = C THEN cpc[c] \in {"start", "recvver", "recvreg"}
                     /\ EndClient(c) /\ UNCHANGED dummy
       ELSE spc[c] \in {"recvver", "recvreg"} /\ EndServer(c) /\ UNCHANGED served
    /\ UNCHANGED faults

-----------------------------------------------------------------------------
ClientStep(c) ==
    ConnServerConnect(c) \/ ProxyClientFail(c)
    \/ ConnServerSend(c) \/ ConnServerSendFail(c) \/ ConnServerRecv(c)
    \/ ConnSendDevReg(c) \/ ConnSendDevRegReply(c) \/ ConnSendDevRegRefused(c)
    \/ ConnLostClient(c) \/ RegDummy(c) \/ RegDummyFail(c) \/ RegDummyAck(c)
    \/ AwaitAck(c) \/ AwaitAckOther(c) \/ ClientLoop(c) \/ ClientUnregister(c)

ServerStep(c) ==
    ProxyServerSetup(c) \/ ProxyServerFail(c) \/ ConnClientRecv(c) \/ ConnClientSize(c)
    \/ ConnClientSend(c) \/ ConnRecvDevReg(c) \/ RegRemote(c) \/ RegRemoteFail(c)
    \/ ConnRecvDevRegReply(c) \/ ConnLostServer(c) \/ ServerLoop(c)
    \/ ServerUnregister(c)

SigHup(m, c) == SigHupLost(m, c) \/ SigHupSelect(m, c) \/ SigHupSetup(m, c)

-----------------------------------------------------------------------------
(* Properties *)

\* The dummy device of a connection appears only after the server has
\* registered the real one and said so: a task that opens it finds a server
\* that serves it or is already ending.
ServerFirst ==
    \A c \in Conn : cpc[c] \in {"regdummy", "regack", "ack", "loop"}
                    => spc[c] \in {"loop", "unreg", "ended"}

\* Where the set-up ends is where Proxy begins: in proxy_loop both devices
\* are registered, no message of the set-up is left on the connection, and
\* no confirmation is left that the loop would take for a wrong message.
LoopReady ==
    \A c \in Conn :
        /\ cpc[c] = "loop" => /\ c \in dummy /\ tocli[c] = << >>
                              /\ \A i \in 1 .. Len(nlq[c]) : nlq[c][i] = "req"
        /\ spc[c] = "loop" => c \in served /\ tosrv[c] = << >>

\* When one proxy of a connection ends, whatever the reason and wherever the
\* other one is, that one ends, too; only a client whose device is open may
\* hang in its teardown.
PeerEnds ==
    \A c \in Conn :
        /\ (cpc[c] = "ended" /\ spc[c] # "none") ~> spc[c] = "ended"
        /\ spc[c] = "ended" ~> cpc[c] \in {"ended", "wedged"}
=============================================================================
