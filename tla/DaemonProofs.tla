---------------------------- MODULE DaemonProofs ----------------------------
(***************************************************************************)
(* Theorems about the set-up of connections, for any number of devices and *)
(* faults: the types, and that a proxy reaches its loop only when its peer *)
(* has done its part.                                                      *)
(***************************************************************************)
EXTENDS Daemon, SequenceTheorems, TLAPS

USE ConnAssumption, KindAssumption, FaultAssumption

\* What proxy_server has not yet received: at most one message, and none
\* after the registration.
ServerInv(c) ==
    /\ spc[c] \in {"none", "start", "recvver"}
       => tosrv[c] \in {<< >>, <<"version">>, <<"reg">>}
    /\ spc[c] = "recvreg" => tosrv[c] \in {<< >>, <<"reg">>}
    /\ spc[c] \in {"sendver", "badver", "register", "sendreg", "loop", "unreg"}
       => tosrv[c] = << >>
    /\ spc[c] \in {"sendreg", "loop"} => c \in served

\* What each step of proxy_client knows of the server and of the replies
\* that are on their way.
VersionInv(c) ==
    /\ cpc[c] \in {"none", "start"}
       => spc[c] = "none" /\ tosrv[c] = << >> /\ tocli[c] = << >>
    /\ cpc[c] = "sendver"
       => /\ spc[c] \in {"none", "start", "recvver", "ended"} /\ tocli[c] = << >>
          /\ spc[c] # "ended" => tosrv[c] = << >>
    /\ cpc[c] = "recvver"
       => \/ spc[c] \in {"none", "start", "recvver", "sendver", "badver"}
             /\ tocli[c] = << >>
          \/ spc[c] = "recvreg" /\ tosrv[c] = << >>
             /\ tocli[c] \in {<<"vreply">>, <<"vwrong">>}
          \/ spc[c] = "ended" /\ tocli[c] \in {<< >>, <<"vreply">>, <<"vwrong">>}

\* When the version was not sent, the name is taken for one, and the reply
\* that comes back is a refusal.
RegisterInv(c) ==
    /\ cpc[c] = "sendreg"
       => /\ spc[c] \in {"none", "start", "recvver", "recvreg", "ended"}
          /\ tocli[c] = << >>
          /\ spc[c] # "ended" => tosrv[c] = << >>
    /\ cpc[c] = "recvreg"
       => \/ spc[c] \in {"none", "start", "recvver", "badver"}
             /\ tocli[c] = << >> /\ tosrv[c] # <<"version">>
          \/ spc[c] \in {"recvreg", "register", "sendreg"} /\ tocli[c] = << >>
          \/ spc[c] = "recvreg" /\ tosrv[c] = << >> /\ tocli[c] = <<"vwrong">>
          \/ spc[c] \in {"loop", "unreg"} /\ tocli[c] = <<"rreply">>
          \/ spc[c] = "ended" /\ tocli[c] \in {<< >>, <<"vwrong">>, <<"rreply">>}
    /\ cpc[c] \in {"regdummy", "regack", "ack", "loop"}
       => spc[c] \in {"loop", "unreg", "ended"} /\ tocli[c] = << >>

\* The dummy device and what the kernel has sent to the proxy of it.
DummyInv(c) ==
    /\ cpc[c] \in {"none", "start", "sendver", "recvver", "sendreg", "recvreg", "regdummy"}
       => c \notin dummy /\ c \notin opened /\ nlq[c] = << >>
    /\ cpc[c] = "regack"
       => /\ c \in dummy
          /\ \/ c \notin opened /\ nlq[c] = << >>
             \/ c \in opened /\ nlq[c] = <<"req">>
    /\ cpc[c] = "ack"
       => \/ c \notin dummy /\ nlq[c] = <<"nak">>
          \/ c \in dummy /\ c \notin opened /\ nlq[c] = <<"ack">>
          \/ c \in dummy /\ c \in opened /\ nlq[c] \in {<<"ack", "req">>, <<"req", "ack">>}
    /\ cpc[c] = "loop"
       => /\ c \in dummy
          /\ \/ nlq[c] = << >>
             \/ c \in opened /\ nlq[c] = <<"req">>

\* A connection goes through the listener once, and gets one server.
AcceptInv(c) ==
    /\ cpc[c] \in {"none", "start"} => c \notin backlog /\ c # connfd
    /\ c \in backlog => spc[c] = "none" /\ c # connfd
    /\ c = connfd /\ lpc = "fork" => spc[c] = "none"

ConnInv(c) == ServerInv(c) /\ VersionInv(c) /\ RegisterInv(c) /\ DummyInv(c) /\ AcceptInv(c)

\* The inductive invariant.
DaemonInv ==
    /\ TypeOK
    /\ lpc = "accept" => connfd = None
    /\ \A c \in Conn : ConnInv(c)

-----------------------------------------------------------------------------
(* Types *)

USE DEF C, S, Machine, Listener, Stray

\* The end of a process keeps the types.
LEMMA ExitTypes ==
    ASSUME HsTypeOK, NEW m \in Machine, NEW p \in Conn \cup {Stray}, Exit(m, p)
    PROVE  /\ zombies' \in [Machine -> SUBSET (Conn \cup {Stray})]
           /\ chld' \in [Machine -> BOOLEAN]
           /\ parent' \in [Machine -> {"run", "handler", "dead"}]
  <1>1. CASE parent[m] = "dead" BY <1>1, Zenon DEF Exit, HsTypeOK
  <1>2. CASE parent[m] # "dead"
    <2>1. /\ zombies' = [zombies EXCEPT ![m] = @ \cup {p}]
          /\ chld' = [chld EXCEPT ![m] = TRUE] /\ parent' = parent
      BY <1>2, Zenon DEF Exit
    <2>2. zombies' \in [Machine -> SUBSET (Conn \cup {Stray})] BY <2>1 DEF HsTypeOK
    <2>3. chld' \in [Machine -> BOOLEAN] BY <2>1, Zenon DEF HsTypeOK
    <2> QED BY <2>1, <2>2, <2>3, Zenon DEF HsTypeOK
  <1> QED BY <1>1, <1>2

\* A proxy_client that ends leaves well-typed state behind.
LEMMA EndClientTypes ==
    ASSUME TypeOK, NEW c \in Conn, EndClient(c), dummy' \subseteq Conn,
           faults' \in 0 .. MaxFaults, UNCHANGED <<lpc, connfd>>
    PROVE  TypeOK'
  <1>1. /\ zombies' \in [Machine -> SUBSET (Conn \cup {Stray})]
        /\ chld' \in [Machine -> BOOLEAN]
        /\ parent' \in [Machine -> {"run", "handler", "dead"}]
    BY ExitTypes DEF EndClient, TypeOK
  <1>2. cpc' \in [Conn -> ClientPc] BY DEF EndClient, ClientAt, ClientPc, TypeOK, HsTypeOK
  <1>3. nlq' \in [Conn -> Seq({"ack", "nak", "req"})] BY DEF EndClient, TypeOK, HsTypeOK
  <1>4. hup' \in SUBSET (Machine \X Conn) BY DEF EndClient, TypeOK, HsTypeOK
  <1> QED BY <1>1, <1>2, <1>3, <1>4, Zenon DEF EndClient, TypeOK, HsTypeOK, tcpVars

\* So does a proxy_server.
LEMMA EndServerTypes ==
    ASSUME TypeOK, NEW c \in Conn, EndServer(c), served' \subseteq Conn,
           faults' \in 0 .. MaxFaults, UNCHANGED <<lpc, connfd>>
    PROVE  TypeOK'
  <1>1. /\ zombies' \in [Machine -> SUBSET (Conn \cup {Stray})]
        /\ chld' \in [Machine -> BOOLEAN]
        /\ parent' \in [Machine -> {"run", "handler", "dead"}]
    BY ExitTypes DEF EndServer, TypeOK
  <1>2. spc' \in [Conn -> ServerPc] BY DEF EndServer, ServerAt, ServerPc, TypeOK, HsTypeOK
  <1>3. fds' \in [Conn -> SUBSET (Conn \cup {Listener})] BY DEF EndServer, TypeOK, HsTypeOK
  <1>4. hup' \in SUBSET (Machine \X Conn) BY DEF EndServer, TypeOK, HsTypeOK
  <1> QED BY <1>1, <1>2, <1>3, <1>4, Zenon DEF EndServer, TypeOK, HsTypeOK

\* What a step of the set-up may send keeps the types of the connection.
LEMMA SendTypes ==
    ASSUME HsTypeOK, NEW c \in Conn, NEW h \in Header
    PROVE  /\ SendToServer(c, h) => tosrv' \in [Conn -> Seq(Header)]
           /\ SendToClient(c, h) => tocli' \in [Conn -> Seq(Header)]
  <1>1. [tosrv EXCEPT ![c] = Append(@, h)] \in [Conn -> Seq(Header)] BY DEF HsTypeOK
  <1>2. [tocli EXCEPT ![c] = Append(@, h)] \in [Conn -> Seq(Header)] BY DEF HsTypeOK
  <1>3. tosrv \in [Conn -> Seq(Header)] /\ tocli \in [Conn -> Seq(Header)] BY DEF HsTypeOK
  <1> QED BY <1>1, <1>2, <1>3, Zenon DEF SendToServer, SendToClient

\* The faults are counted up to their bound.
LEMMA FaultTypes ==
    ASSUME HsTypeOK, NEW r \in BOOLEAN
    PROVE  /\ Fault => faults' \in 0 .. MaxFaults
           /\ FaultUnless(r) => faults' \in 0 .. MaxFaults
  <1>1. Fault => faults' \in 0 .. MaxFaults BY DEF Fault, HsTypeOK
  <1> QED BY <1>1, Zenon DEF FaultUnless, HsTypeOK

\* Every step of proxy_client keeps the types.
LEMMA ClientTypes ==
    ASSUME TypeOK, NEW c \in Conn, ClientStep(c), UNCHANGED <<lpc, connfd>>
    PROVE  TypeOK'
  <1> USE DEF TypeOK, ClientAt, pcVars, tcpVars, devVars, procVars
  <1>1. CASE ConnServerConnect(c)
    BY <1>1 DEF ConnServerConnect, HsTypeOK, ClientPc
  <1>2. CASE ProxyClientFail(c)
    BY <1>2, EndClientTypes, FaultTypes DEF ProxyClientFail, HsTypeOK
  <1>3. CASE ConnServerSend(c)
    BY <1>3, SendTypes DEF ConnServerSend, HsTypeOK, Header, ClientPc
  <1>4. CASE ConnServerSendFail(c)
    BY <1>4, FaultTypes DEF ConnServerSendFail, HsTypeOK, ClientPc
  <1>5. CASE ConnServerRecv(c)
    BY <1>5 DEF ConnServerRecv, HsTypeOK, ClientPc
  <1>6. CASE ConnSendDevReg(c)
    BY <1>6, SendTypes DEF ConnSendDevReg, HsTypeOK, Header, ClientPc
  <1>7. CASE ConnSendDevRegReply(c)
    BY <1>7 DEF ConnSendDevRegReply, HsTypeOK, ClientPc
  <1>8. CASE ConnSendDevRegRefused(c)
    BY <1>8, EndClientTypes DEF ConnSendDevRegRefused, HsTypeOK
  <1>9. CASE ConnLostClient(c)
    BY <1>9, EndClientTypes DEF ConnLostClient, HsTypeOK
  <1>10. CASE RegDummy(c)
    BY <1>10 DEF RegDummy, HsTypeOK, ClientPc
  <1>11. CASE RegDummyFail(c)
    <2>1. "ack" \in ClientPc BY DEF ClientPc
    <2>2. cpc' \in [Conn -> ClientPc] BY <1>11, <2>1 DEF RegDummyFail, HsTypeOK
    <2>3. nlq' \in [Conn -> Seq({"ack", "nak", "req"})] BY <1>11 DEF RegDummyFail, HsTypeOK
    <2>4. faults' \in 0 .. MaxFaults BY <1>11, FaultTypes DEF RegDummyFail
    <2> QED BY <1>11, <2>2, <2>3, <2>4 DEF RegDummyFail, HsTypeOK
  <1>12. CASE RegDummyAck(c)
    <2>1. "ack" \in ClientPc BY DEF ClientPc
    <2>2. cpc' \in [Conn -> ClientPc] BY <1>12, <2>1 DEF RegDummyAck, HsTypeOK
    <2>3. nlq' \in [Conn -> Seq({"ack", "nak", "req"})] BY <1>12 DEF RegDummyAck, HsTypeOK
    <2> QED BY <1>12, <2>2, <2>3 DEF RegDummyAck, HsTypeOK
  <1>13. CASE AwaitAck(c)
    <2>1. "loop" \in ClientPc BY DEF ClientPc
    <2>2. cpc' \in [Conn -> ClientPc] BY <1>13, <2>1 DEF AwaitAck, HsTypeOK
    <2>3. nlq' \in [Conn -> Seq({"ack", "nak", "req"})] BY <1>13 DEF AwaitAck, HsTypeOK
    <2> QED BY <1>13, <2>2, <2>3 DEF AwaitAck, HsTypeOK
  <1>14. CASE AwaitAckOther(c)
    BY <1>14, EndClientTypes DEF AwaitAckOther, HsTypeOK
  <1>15. CASE ClientLoop(c)
    <2>1. nlq' \in [Conn -> Seq({"ack", "nak", "req"})] BY <1>15 DEF ClientLoop, HsTypeOK
    <2>2. cpc' \in [Conn -> ClientPc]
      <3>1. "unreg" \in ClientPc /\ cpc \in [Conn -> ClientPc] BY DEF ClientPc, HsTypeOK
      <3>2. cpc' = cpc \/ cpc' = [cpc EXCEPT ![c] = "unreg"] BY ONLY <1>15 DEF ClientLoop, ClientAt
      <3> QED BY ONLY <3>1, <3>2
    <2>3. ClientEof(c) \in BOOLEAN BY DEF ClientEof
    <2>4. faults' \in 0 .. MaxFaults BY <1>15, <2>3, FaultTypes DEF ClientLoop, HsTypeOK
    <2> QED BY <1>15, <2>1, <2>2, <2>4 DEF ClientLoop, HsTypeOK
  <1>16. CASE ClientUnregister(c)
    <2>1. CASE EndClient(c) /\ faults' \in 0 .. MaxFaults /\ dummy' \subseteq Conn
      BY <2>1, EndClientTypes
    <2>2. CASE ClientAt(c, "wedged") /\ UNCHANGED <<spc, tcpVars, devVars, procVars>>
      BY <2>2 DEF HsTypeOK, ClientPc
    <2> QED BY <1>16, <2>1, <2>2, FaultTypes DEF ClientUnregister, HsTypeOK
  <1> QED
    BY <1>1, <1>2, <1>3, <1>4, <1>5, <1>6, <1>7, <1>8, <1>9, <1>10, <1>11, <1>12,
       <1>13, <1>14, <1>15, <1>16 DEF ClientStep

\* Every step of proxy_server keeps the types.
LEMMA ServerTypes ==
    ASSUME TypeOK, NEW c \in Conn, ServerStep(c), UNCHANGED <<lpc, connfd>>
    PROVE  TypeOK'
  <1> USE DEF TypeOK, ServerAt, pcVars, tcpVars, devVars, procVars
  <1>1. CASE ProxyServerSetup(c)
    BY <1>1 DEF ProxyServerSetup, HsTypeOK, ServerPc
  <1>2. CASE ProxyServerFail(c)
    BY <1>2, EndServerTypes, FaultTypes DEF ProxyServerFail, HsTypeOK
  <1>3. CASE ConnClientRecv(c)
    BY <1>3 DEF ConnClientRecv, HsTypeOK, ServerPc
  <1>4. CASE ConnClientSize(c)
    BY <1>4, EndServerTypes DEF ConnClientSize, HsTypeOK
  <1>5. CASE ConnClientSend(c)
    BY <1>5, SendTypes DEF ConnClientSend, HsTypeOK, Header, ServerPc
  <1>6. CASE ConnRecvDevReg(c)
    BY <1>6 DEF ConnRecvDevReg, HsTypeOK, ServerPc
  <1>7. CASE RegRemote(c)
    BY <1>7 DEF RegRemote, HsTypeOK, ServerPc
  <1>8. CASE RegRemoteFail(c)
    BY <1>8, EndServerTypes, FaultTypes DEF RegRemoteFail, HsTypeOK
  <1>9. CASE ConnRecvDevRegReply(c)
    BY <1>9, SendTypes DEF ConnRecvDevRegReply, HsTypeOK, Header, ServerPc
  <1>10. CASE ConnLostServer(c)
    BY <1>10, EndServerTypes DEF ConnLostServer, HsTypeOK
  <1>11. CASE ServerLoop(c)
    <2>1. ServerEof(c) \in BOOLEAN BY DEF ServerEof
    <2> QED BY <1>11, <2>1, FaultTypes DEF ServerLoop, HsTypeOK, ServerPc
  <1>12. CASE ServerUnregister(c)
    BY <1>12, EndServerTypes, FaultTypes DEF ServerUnregister, HsTypeOK
  <1> QED
    BY <1>1, <1>2, <1>3, <1>4, <1>5, <1>6, <1>7, <1>8, <1>9, <1>10, <1>11, <1>12
    DEF ServerStep

\* A SIGHUP, wherever it strikes, keeps the types.
LEMMA SignalTypes ==
    ASSUME TypeOK, NEW m \in Machine, NEW c \in Conn, SigHup(m, c),
           UNCHANGED <<lpc, connfd>>
    PROVE  TypeOK'
  <1> USE DEF TypeOK, ClientAt, ServerAt, pcVars, tcpVars, devVars, procVars
  <1>1. CASE SigHupLost(m, c) BY <1>1 DEF SigHupLost, HsTypeOK
  <1>2. CASE SigHupSelect(m, c)
    <2>1. /\ "unreg" \in ClientPc /\ "unreg" \in ServerPc
          /\ cpc \in [Conn -> ClientPc] /\ spc \in [Conn -> ServerPc]
      BY DEF ClientPc, ServerPc, HsTypeOK
    <2>2. /\ cpc' = cpc \/ cpc' = [cpc EXCEPT ![c] = "unreg"]
          /\ spc' = spc \/ spc' = [spc EXCEPT ![c] = "unreg"]
      BY ONLY <1>2 DEF SigHupSelect, ClientAt, ServerAt
    <2>3. cpc' \in [Conn -> ClientPc] /\ spc' \in [Conn -> ServerPc] BY ONLY <2>1, <2>2
    <2>4. hup' \in SUBSET (Machine \X Conn) BY <1>2 DEF SigHupSelect, HsTypeOK
    <2>5. /\ UNCHANGED <<tosrv, tocli, backlog, fds, nlq, dummy, served, opened, faults>>
          /\ UNCHANGED <<zombies, chld, parent>>
      BY <1>2 DEF SigHupSelect
    <2> QED BY <2>3, <2>4, <2>5 DEF HsTypeOK
  <1>3. CASE SigHupSetup(m, c)
    BY <1>3, EndClientTypes, EndServerTypes DEF SigHupSetup, HsTypeOK
  <1> QED BY <1>1, <1>2, <1>3 DEF SigHup

\* The steps of main, the listener and the handlers keep the types.
LEMMA ParentTypes ==
    ASSUME TypeOK, \/ \E c \in Conn : MainFork(c)
                   \/ ListenerStep \/ AcceptError
                   \/ \E m \in Machine : HandlerStep(m) \/ ParentDies(m)
    PROVE  TypeOK'
  <1> USE DEF TypeOK, ClientAt, ServerAt, pcVars, tcpVars, devVars, procVars, hsVars
  <1>1. ASSUME NEW c \in Conn, MainFork(c) PROVE TypeOK'
    BY <1>1, FaultTypes DEF MainFork, HsTypeOK, ClientPc
  <1>2. ASSUME NEW c \in Conn, Accept(c) PROVE TypeOK'
    BY <1>2 DEF Accept, HsTypeOK
  <1>3. CASE Fork
    <2>1. CASE connfd = None
      BY <1>3, <2>1, ExitTypes DEF Fork, HsTypeOK
    <2>2. CASE connfd # None
      <3>0. connfd \in Conn BY <2>2
      <3>1. spc' \in [Conn -> ServerPc] BY <1>3, <2>2, <3>0 DEF Fork, HsTypeOK, ServerPc
      <3>2. fds' \in [Conn -> SUBSET (Conn \cup {Listener})]
        <4>1. ASSUME NEW d \in Conn
              PROVE  (IF Listener \in fds[d] THEN fds[d] \cup {connfd} ELSE fds[d])
                     \in SUBSET (Conn \cup {Listener})
          BY <3>0 DEF HsTypeOK
        <4> QED BY <1>3, <2>2, <4>1 DEF Fork
      <3> QED BY <1>3, <2>2, <3>1, <3>2 DEF Fork, HsTypeOK
    <2> QED BY <2>1, <2>2
  <1>4. CASE ForkFail
    BY <1>4, FaultTypes DEF ForkFail, HsTypeOK
  <1>5. CASE Close
    BY <1>5 DEF Close, HsTypeOK
  <1>6. CASE AcceptError
    BY <1>6, FaultTypes DEF AcceptError, HsTypeOK
  <1>7. ASSUME NEW m \in Machine, SigChld(m) PROVE TypeOK'
    BY <1>7 DEF SigChld, HsTypeOK
  <1>8. ASSUME NEW m \in Machine, Waitpid(m) PROVE TypeOK'
    BY <1>8 DEF Waitpid, HsTypeOK
  <1>9. ASSUME NEW m \in Machine, SigChldReturn(m) PROVE TypeOK'
    BY <1>9 DEF SigChldReturn, HsTypeOK
  <1>10. ASSUME NEW m \in Machine, ParentDies(m) PROVE TypeOK'
    BY <1>10, FaultTypes DEF ParentDies, HsTypeOK
  <1> QED
    BY <1>1, <1>2, <1>3, <1>4, <1>5, <1>6, <1>7, <1>8, <1>9, <1>10
    DEF ListenerStep, HandlerStep

\* TypeOK: the types of the sockets, queues, processes and signals, in every
\* state of the two daemons.
THEOREM TypeCorrect == Spec => []TypeOK
  <1>1. Init => TypeOK
    BY DEF Init, HsInit, TypeOK, HsTypeOK, ClientPc, ServerPc
  <1>2. TypeOK /\ [Next]_vars => TypeOK'
    <2> SUFFICES ASSUME TypeOK, [Next]_vars PROVE TypeOK' OBVIOUS
    <2>1. ASSUME NEW c \in Conn, TaskOpen(c), UNCHANGED <<lpc, connfd>> PROVE TypeOK'
      BY <2>1 DEF TaskOpen, TypeOK, HsTypeOK, pcVars, tcpVars, procVars
    <2>2. CASE Proxies
      BY <2>1, <2>2, ClientTypes, ServerTypes, SignalTypes DEF Proxies
    <2>3. CASE UNCHANGED vars
      BY <2>3 DEF vars, hsVars, pcVars, tcpVars, devVars, procVars, TypeOK, HsTypeOK
    <2> QED BY <2>2, <2>3, ParentTypes DEF Next
  <1> QED BY <1>1, <1>2, PTL DEF Spec

-----------------------------------------------------------------------------
(* Connections *)

\* The step does not concern connection c.
Untouched(c) ==
    /\ cpc'[c] = cpc[c] /\ spc'[c] = spc[c]
    /\ tosrv'[c] = tosrv[c] /\ tocli'[c] = tocli[c] /\ nlq'[c] = nlq[c]
    /\ c \in dummy' <=> c \in dummy
    /\ c \in served' <=> c \in served
    /\ c \in opened' <=> c \in opened
    /\ c \in backlog' <=> c \in backlog

\* A connection that a step does not touch keeps its invariant.
LEMMA UntouchedConn ==
    ASSUME NEW c \in Conn, ConnInv(c), Untouched(c), UNCHANGED <<lpc, connfd>>
    PROVE  ConnInv(c)'
  BY DEF ConnInv, ServerInv, VersionInv, RegisterInv, DummyInv, AcceptInv, Untouched

\* So does one whose proxy_client ends, wherever that one is.
LEMMA EndClientConn ==
    ASSUME TypeOK, NEW c \in Conn, ConnInv(c), cpc[c] # "none",
           EndClient(c), UNCHANGED <<lpc, connfd>>
    PROVE  ConnInv(c)'
  <1>1. /\ cpc'[c] = "ended" /\ spc'[c] = spc[c] /\ tosrv' = tosrv /\ served' = served
        /\ backlog' = backlog
    BY DEF TypeOK, HsTypeOK, EndClient, ClientAt, tcpVars
  <1> QED BY <1>1 DEF ConnInv, ServerInv, VersionInv, RegisterInv, DummyInv, AcceptInv

\* And one whose proxy_server ends.
LEMMA EndServerConn ==
    ASSUME TypeOK, NEW c \in Conn, ConnInv(c), spc[c] # "none",
           EndServer(c), UNCHANGED <<lpc, connfd>>
    PROVE  ConnInv(c)'
  <1>1. /\ cpc' = cpc /\ spc'[c] = "ended" /\ tosrv' = tosrv /\ tocli' = tocli
        /\ backlog' = backlog /\ nlq' = nlq /\ dummy' = dummy /\ opened' = opened
    BY DEF TypeOK, HsTypeOK, EndServer, ServerAt
  <1> QED BY <1>1 DEF ConnInv, ServerInv, VersionInv, RegisterInv, DummyInv, AcceptInv

\* A step of one proxy is no step of another connection.
LEMMA ProxyOthers ==
    ASSUME TypeOK, NEW d \in Conn, NEW c \in Conn, c # d,
           \/ ClientStep(d) \/ ServerStep(d) \/ TaskOpen(d)
           \/ \E m \in Machine : SigHup(m, d)
    PROVE  Untouched(c)
  <1> USE DEF TypeOK, HsTypeOK, ClientAt, ServerAt, EndClient, EndServer,
              SendToServer, SendToClient, pcVars, tcpVars, devVars, Untouched
  <1>1. CASE ClientStep(d)
    <2>0. CASE ConnServerConnect(d) \/ ConnServerSendFail(d)
      BY <2>0 DEF ConnServerConnect, ConnServerSendFail
    <2>1. CASE ConnServerSend(d) \/ ConnSendDevReg(d)
      BY <2>1 DEF ConnServerSend, ConnSendDevReg
    <2>6. CASE ConnServerRecv(d) \/ ConnSendDevRegReply(d)
      BY <2>6 DEF ConnServerRecv, ConnSendDevRegReply
    <2>2. CASE ProxyClientFail(d) \/ ConnSendDevRegRefused(d) \/ ConnLostClient(d)
               \/ AwaitAckOther(d)
      BY <2>2 DEF ProxyClientFail, ConnSendDevRegRefused, ConnLostClient, AwaitAckOther
    <2>3. CASE RegDummy(d) \/ RegDummyFail(d) \/ RegDummyAck(d) \/ AwaitAck(d)
      BY <2>3 DEF RegDummy, RegDummyFail, RegDummyAck, AwaitAck
    <2>4. CASE ClientLoop(d) BY <2>4 DEF ClientLoop
    <2>5. CASE ClientUnregister(d) BY <2>5 DEF ClientUnregister
    <2> QED BY <1>1, <2>0, <2>1, <2>2, <2>3, <2>4, <2>5, <2>6 DEF ClientStep
  <1>2. CASE ServerStep(d)
    BY <1>2 DEF ServerStep, ProxyServerSetup, ProxyServerFail, ConnClientRecv,
         ConnClientSize, ConnClientSend, ConnRecvDevReg, RegRemote, RegRemoteFail,
         ConnRecvDevRegReply, ConnLostServer, ServerLoop, ServerUnregister
  <1>3. CASE TaskOpen(d) BY <1>3 DEF TaskOpen
  <1>4. CASE \E m \in Machine : SigHup(m, d)
    BY <1>4 DEF SigHup, SigHupLost, SigHupSelect, SigHupSetup
  <1> QED BY <1>1, <1>2, <1>3, <1>4

\* Sequences of at most two messages.
LEMMA ShortSeqs ==
    ASSUME NEW x, NEW y
    PROVE  /\ Append(<< >>, x) = <<x>> /\ Append(<<x>>, y) = <<x, y>>
           /\ Tail(<<x>>) = << >> /\ Tail(<<x, y>>) = <<y>>
           /\ Head(<<x>>) = x /\ Head(<<x, y>>) = x
           /\ <<x>> # << >> /\ <<x, y>> # << >>
           /\ Len(<< >>) = 0 /\ Len(<<x>>) = 1 /\ Len(<<x, y>>) = 2
  <1>1. Append(<< >>, x) = <<x>> OBVIOUS
  <1>0. Append(<<x>>, y) = <<x, y>>
    <2> DEFINE s == Append(<<x>>, y)
               t == <<x, y>>
    <2>1. s \in Seq({x, y}) /\ Len(s) = 2 /\ s[1] = x /\ s[2] = y OBVIOUS
    <2>2. t \in Seq({x, y}) /\ Len(t) = 2 /\ t[1] = x /\ t[2] = y OBVIOUS
    <2> HIDE DEF s, t
    <2>3. \A i \in 1 .. Len(s) : s[i] = t[i] BY <2>1, <2>2
    <2>4. s = t BY <2>1, <2>2, <2>3, SeqEqual
    <2> QED BY <2>4 DEF s, t
  <1>2. Tail(<<x>>) = << >> /\ Tail(<<x, y>>) = <<y>> OBVIOUS
  <1>3. Head(<<x>>) = x /\ Head(<<x, y>>) = x OBVIOUS
  <1>4. Len(<< >>) = 0 /\ Len(<<x>>) = 1 /\ Len(<<x, y>>) = 2 OBVIOUS
  <1>5. <<x>> # << >> /\ <<x, y>> # << >> BY <1>4
  <1> QED BY <1>0, <1>1, <1>2, <1>3, <1>4, <1>5

\* The steps of proxy_client up to the reply to its registration.
LEMMA ConnectConn ==
    ASSUME TypeOK, NEW c \in Conn, ConnInv(c), UNCHANGED <<lpc, connfd>>,
           \/ ConnServerConnect(c) \/ ConnServerSend(c) \/ ConnServerSendFail(c)
           \/ ConnServerRecv(c) \/ ConnSendDevReg(c) \/ ConnSendDevRegReply(c)
    PROVE  ConnInv(c)'
  <1> USE DEF TypeOK, HsTypeOK, ClientAt, pcVars, tcpVars, devVars, ConnInv
  <1>1. CASE ConnServerConnect(c)
    BY <1>1 DEF ConnServerConnect, ServerInv, VersionInv, RegisterInv, DummyInv, AcceptInv
  <1>2. CASE ConnServerSend(c)
    <2>1. /\ cpc[c] = "sendver" /\ cpc'[c] = "recvver" /\ spc' = spc /\ tocli' = tocli
          /\ UNCHANGED <<nlq, dummy, served, opened, backlog>>
      BY <1>2 DEF ConnServerSend
    <2>2. \/ tosrv'[c] = tosrv[c]
          \/ tosrv'[c] = Append(tosrv[c], "version")
      BY <1>2 DEF ConnServerSend, SendToServer
    <2>3. Append(<< >>, "version") = <<"version">> BY ShortSeqs
    <2> QED BY <2>1, <2>2, <2>3
            DEF ServerInv, VersionInv, RegisterInv, DummyInv, AcceptInv
  <1>3. CASE ConnServerSendFail(c)
    BY <1>3 DEF ConnServerSendFail, ServerInv, VersionInv, RegisterInv, DummyInv, AcceptInv
  <1>4. CASE ConnServerRecv(c)
    <2>1. /\ cpc[c] = "recvver" /\ cpc'[c] = "sendreg" /\ spc' = spc /\ tosrv' = tosrv
          /\ tocli[c] # << >> /\ tocli'[c] = Tail(tocli[c])
          /\ UNCHANGED <<nlq, dummy, served, opened, backlog>>
      BY <1>4 DEF ConnServerRecv
    <2>2. Tail(<<"vreply">>) = << >> /\ Tail(<<"vwrong">>) = << >> BY ShortSeqs
    <2> QED BY <2>1, <2>2 DEF ServerInv, VersionInv, RegisterInv, DummyInv, AcceptInv
  <1>5. CASE ConnSendDevReg(c)
    <2>1. /\ cpc[c] = "sendreg" /\ cpc'[c] = "recvreg" /\ spc' = spc /\ tocli' = tocli
          /\ UNCHANGED <<nlq, dummy, served, opened, backlog>>
      BY <1>5 DEF ConnSendDevReg
    <2>2. \/ tosrv'[c] = tosrv[c]
          \/ tosrv'[c] = Append(tosrv[c], "reg")
      BY <1>5 DEF ConnSendDevReg, SendToServer
    <2>3. Append(<< >>, "reg") = <<"reg">> /\ <<"reg">> # <<"version">>
          /\ << >> # <<"version">>
      BY ShortSeqs
    <2> QED BY <2>1, <2>2, <2>3
            DEF ServerInv, VersionInv, RegisterInv, DummyInv, AcceptInv
  <1>6. CASE ConnSendDevRegReply(c)
    <2>1. /\ cpc[c] = "recvreg" /\ cpc'[c] = "regdummy" /\ spc' = spc /\ tosrv' = tosrv
          /\ tocli[c] # << >> /\ tocli'[c] = Tail(tocli[c]) /\ Head(tocli[c]) # "vwrong"
          /\ UNCHANGED <<nlq, dummy, served, opened, backlog>>
      BY <1>6 DEF ConnSendDevRegReply, Verdict
    <2>2. Head(<<"vwrong">>) = "vwrong" /\ Tail(<<"rreply">>) = << >> BY ShortSeqs
    <2> QED BY <2>1, <2>2 DEF ServerInv, VersionInv, RegisterInv, DummyInv, AcceptInv
  <1> QED BY <1>1, <1>2, <1>3, <1>4, <1>5, <1>6

\* The steps of proxy_client from the registration of its device to the loop.
LEMMA RegisterConn ==
    ASSUME TypeOK, NEW c \in Conn, ConnInv(c), UNCHANGED <<lpc, connfd>>,
           \/ RegDummy(c) \/ RegDummyFail(c) \/ RegDummyAck(c) \/ AwaitAck(c)
           \/ ClientLoop(c) \/ ClientUnregister(c) \/ TaskOpen(c)
    PROVE  ConnInv(c)'
  <1> USE DEF TypeOK, HsTypeOK, ClientAt, pcVars, tcpVars, devVars, ConnInv
  <1>s. /\ Append(<< >>, "nak") = <<"nak">> /\ Append(<< >>, "ack") = <<"ack">>
        /\ Append(<< >>, "req") = <<"req">> /\ Append(<<"req">>, "ack") = <<"req", "ack">>
        /\ Append(<<"ack">>, "req") = <<"ack", "req">>
        /\ Tail(<<"ack">>) = << >> /\ Tail(<<"ack", "req">>) = <<"req">>
        /\ Tail(<<"req">>) = << >>
        /\ Head(<<"nak">>) = "nak" /\ Head(<<"req", "ack">>) = "req"
    BY ShortSeqs
  <1>1. CASE RegDummy(c)
    BY <1>1 DEF RegDummy, ServerInv, VersionInv, RegisterInv, DummyInv, AcceptInv
  <1>2. CASE RegDummyFail(c)
    BY <1>2, <1>s DEF RegDummyFail, ServerInv, VersionInv, RegisterInv, DummyInv, AcceptInv
  <1>3. CASE RegDummyAck(c)
    BY <1>3, <1>s DEF RegDummyAck, ServerInv, VersionInv, RegisterInv, DummyInv, AcceptInv
  <1>4. CASE AwaitAck(c)
    BY <1>4, <1>s DEF AwaitAck, ServerInv, VersionInv, RegisterInv, DummyInv, AcceptInv
  <1>5. CASE ClientLoop(c)
    BY <1>5, <1>s DEF ClientLoop, ServerInv, VersionInv, RegisterInv, DummyInv, AcceptInv
  <1>6. CASE ClientUnregister(c)
    <2>1. CASE EndClient(c) BY <1>6, <2>1, EndClientConn DEF ClientUnregister
    <2>2. CASE ClientAt(c, "wedged") /\ UNCHANGED <<spc, tcpVars, devVars, procVars>>
      BY <2>2, <1>6
         DEF ClientUnregister, ServerInv, VersionInv, RegisterInv, DummyInv, AcceptInv
    <2> QED BY <1>6, <2>1, <2>2 DEF ClientUnregister
  <1>7. CASE TaskOpen(c)
    BY <1>7, <1>s DEF TaskOpen, ServerInv, VersionInv, RegisterInv, DummyInv, AcceptInv
  <1> QED BY <1>1, <1>2, <1>3, <1>4, <1>5, <1>6, <1>7

\* The steps of proxy_server.
LEMMA ServerConn ==
    ASSUME TypeOK, NEW c \in Conn, ConnInv(c), UNCHANGED <<lpc, connfd>>, ServerStep(c)
    PROVE  ConnInv(c)'
  <1> USE DEF TypeOK, HsTypeOK, ServerAt, pcVars, tcpVars, devVars, ConnInv
  <1>s. /\ Tail(<<"version">>) = << >> /\ Tail(<<"reg">>) = << >>
        /\ Head(<<"version">>) = "version" /\ Head(<<"reg">>) = "reg"
        /\ Append(<< >>, "vreply") = <<"vreply">> /\ Append(<< >>, "vwrong") = <<"vwrong">>
        /\ Append(<< >>, "rreply") = <<"rreply">>
    BY ShortSeqs
  <1>1. CASE ProxyServerSetup(c)
    BY <1>1 DEF ProxyServerSetup, ServerInv, VersionInv, RegisterInv, DummyInv, AcceptInv
  <1>2. CASE EndServer(c) /\ spc[c] # "none" BY <1>2, EndServerConn
  <1>3. CASE ConnClientRecv(c)
    <2>1. /\ spc[c] = "recvver" /\ tosrv[c] # << >> /\ tosrv'[c] = Tail(tosrv[c])
          /\ \/ spc'[c] = "sendver" /\ Head(tosrv[c]) = "version"
             \/ spc'[c] = "badver"
          /\ UNCHANGED <<cpc, tocli, backlog, nlq, dummy, opened, served>>
      BY <1>3 DEF ConnClientRecv
    <2>2. tosrv[c] = <<"version">> \/ tosrv[c] = <<"reg">> BY <2>1 DEF ServerInv
    <2>3. tosrv'[c] = << >> BY <2>1, <2>2, <1>s
    <2>4. <<"reg">> # <<"version">> /\ << >> # <<"version">> BY <1>s
    <2>5. ServerInv(c)' /\ DummyInv(c)' /\ AcceptInv(c)'
      BY <2>1, <2>3 DEF ServerInv, DummyInv, AcceptInv
    <2>6. VersionInv(c)' BY <2>1, <2>2, <2>3 DEF VersionInv
    <2>7. RegisterInv(c)' BY <2>1, <2>2, <2>3, <2>4, <1>s DEF RegisterInv
    <2> QED BY <2>5, <2>6, <2>7
  <1>4. CASE ConnClientSend(c)
    <2>1. /\ spc'[c] = "recvreg" /\ spc[c] \in {"sendver", "badver"}
          /\ UNCHANGED <<cpc, tosrv, backlog, nlq, dummy, opened, served>>
      BY <1>4 DEF ConnClientSend
    <2>2. tocli'[c] = IF ClientOpen(c)
                      THEN Append(tocli[c], IF spc[c] = "sendver" THEN "vreply" ELSE "vwrong")
                      ELSE tocli[c]
      BY <1>4 DEF ConnClientSend, SendToClient
    <2> QED BY <2>1, <2>2, <1>s
            DEF ServerInv, VersionInv, RegisterInv, DummyInv, AcceptInv, ClientOpen
  <1>5. CASE ConnRecvDevReg(c)
    BY <1>5, <1>s DEF ConnRecvDevReg, ServerInv, VersionInv, RegisterInv, DummyInv, AcceptInv
  <1>6. CASE RegRemote(c)
    BY <1>6 DEF RegRemote, ServerInv, VersionInv, RegisterInv, DummyInv, AcceptInv
  <1>7. CASE ConnRecvDevRegReply(c)
    <2>1. /\ spc'[c] = "loop" /\ spc[c] = "sendreg"
          /\ UNCHANGED <<cpc, tosrv, backlog, nlq, dummy, opened, served>>
      BY <1>7 DEF ConnRecvDevRegReply
    <2>2. tocli'[c] = IF ClientOpen(c) THEN Append(tocli[c], "rreply") ELSE tocli[c]
      BY <1>7 DEF ConnRecvDevRegReply, SendToClient
    <2> QED BY <2>1, <2>2, <1>s
            DEF ServerInv, VersionInv, RegisterInv, DummyInv, AcceptInv, ClientOpen
  <1>8. CASE ServerLoop(c)
    BY <1>8 DEF ServerLoop, ServerInv, VersionInv, RegisterInv, DummyInv, AcceptInv
  <1> QED
    BY <1>1, <1>2, <1>3, <1>4, <1>5, <1>6, <1>7, <1>8
    DEF ServerStep, ProxyServerFail, ConnClientSize, RegRemoteFail, ConnLostServer,
        ServerUnregister

\* main, the listener and the signal handlers.
LEMMA ParentConn ==
    ASSUME DaemonInv, \/ \E c \in Conn : MainFork(c)
                      \/ ListenerStep \/ AcceptError
                      \/ \E m \in Machine : HandlerStep(m) \/ ParentDies(m)
    PROVE  /\ lpc' = "accept" => connfd' = None
           /\ \A c \in Conn : ConnInv(c)'
  <1> USE DEF DaemonInv, TypeOK, HsTypeOK, pcVars, tcpVars, devVars, procVars, hsVars
  <1>1. ASSUME NEW d \in Conn, MainFork(d)
        PROVE  lpc' = lpc /\ connfd' = connfd /\ \A c \in Conn : ConnInv(c)'
    <2> SUFFICES ASSUME NEW c \in Conn PROVE ConnInv(c)' BY <1>1 DEF MainFork
    <2>1. CASE c = d
      BY <1>1, <2>1 DEF MainFork, ClientAt, ConnInv, ServerInv, VersionInv, RegisterInv,
                        DummyInv, AcceptInv
    <2>2. CASE c # d
      BY <1>1, <2>2, UntouchedConn DEF MainFork, ClientAt, Untouched
    <2> QED BY <2>1, <2>2
  <1>2. ASSUME NEW d \in Conn, Accept(d)
        PROVE  lpc' # "accept" /\ \A c \in Conn : ConnInv(c)'
    <2> SUFFICES ASSUME NEW c \in Conn PROVE ConnInv(c)' BY <1>2 DEF Accept
    <2> QED BY <1>2, ConnAssumption
            DEF Accept, ConnInv, ServerInv, VersionInv, RegisterInv, DummyInv, AcceptInv
  <1>3. CASE Fork
    <2> SUFFICES ASSUME NEW c \in Conn PROVE ConnInv(c)' BY <1>3 DEF Fork
    <2>0. /\ lpc = "fork" /\ lpc' = "close" /\ connfd' = connfd
          /\ UNCHANGED <<cpc, tosrv, tocli, backlog, nlq, dummy, served, opened>>
      BY <1>3 DEF Fork
    <2>1. CASE spc'[c] = spc[c]
      BY <2>0, <2>1
         DEF ConnInv, ServerInv, VersionInv, RegisterInv, DummyInv, AcceptInv
    <2>2. CASE c = connfd /\ spc'[c] = "start"
      BY <2>0, <2>2
         DEF ConnInv, ServerInv, VersionInv, RegisterInv, DummyInv, AcceptInv
    <2>3. spc'[c] = spc[c] \/ (c = connfd /\ spc'[c] = "start")
      <3>1. spc' = spc \/ (connfd \in Conn /\ spc' = [spc EXCEPT ![connfd] = "start"])
        BY <1>3 DEF Fork, ServerAt
      <3>2. spc \in [Conn -> ServerPc] BY DEF HsTypeOK
      <3>3. CASE spc' = spc BY <3>3
      <3>4. CASE connfd \in Conn /\ spc' = [spc EXCEPT ![connfd] = "start"]
        BY <3>2, <3>4
      <3> QED BY <3>1, <3>3, <3>4
    <2> QED BY <2>1, <2>2, <2>3
  <1>4. CASE ForkFail \/ Close \/ AcceptError
    <2>0. /\ UNCHANGED <<pcVars, tosrv, tocli, backlog, nlq, dummy, served, opened>>
          /\ connfd' = None \/ (connfd' = connfd /\ lpc' # "fork")
             \/ (connfd' = connfd /\ connfd = None)
      BY <1>4 DEF ForkFail, Close, AcceptError, tcpVars, devVars
    <2>1. ASSUME NEW c \in Conn PROVE ConnInv(c)'
      <3>1. c # None BY ConnAssumption
      <3>2. /\ UNCHANGED <<cpc, spc, tosrv, tocli, backlog, nlq, dummy, served, opened>>
            /\ c = connfd' => c = connfd /\ lpc' # "fork"
        BY <2>0, <3>1 DEF pcVars
      <3>3. ConnInv(c) OBVIOUS
      <3> QED BY ONLY <3>2, <3>3
              DEF ConnInv, ServerInv, VersionInv, RegisterInv, DummyInv, AcceptInv
    <2> QED BY <1>4, <2>1 DEF ForkFail, Close, AcceptError
  <1>5. ASSUME NEW m \in Machine, HandlerStep(m)
        PROVE  lpc' = lpc /\ connfd' = connfd /\ \A c \in Conn : ConnInv(c)'
    <2> SUFFICES ASSUME NEW c \in Conn PROVE ConnInv(c)'
      BY <1>5 DEF HandlerStep, SigChld, Waitpid, SigChldReturn
    <2> QED BY <1>5, UntouchedConn
            DEF HandlerStep, SigChld, Waitpid, SigChldReturn, Untouched
  <1>6. ASSUME NEW m \in Machine, ParentDies(m)
        PROVE  lpc' = lpc /\ connfd' = connfd /\ \A c \in Conn : ConnInv(c)'
    <2> SUFFICES ASSUME NEW c \in Conn PROVE ConnInv(c)' BY <1>6 DEF ParentDies
    <2> QED BY <1>6
            DEF ParentDies, ConnInv, ServerInv, VersionInv, RegisterInv, DummyInv, AcceptInv
  <1> QED BY <1>1, <1>2, <1>3, <1>4, <1>5, <1>6 DEF ListenerStep

\* One step of a proxy or of a task, seen from every connection.
LEMMA ProxyConn ==
    ASSUME DaemonInv, Proxies, NEW c \in Conn
    PROVE  ConnInv(c)'
  <1> USE DEF DaemonInv
  <1>1. PICK d \in Conn : \/ ClientStep(d) \/ ServerStep(d) \/ TaskOpen(d)
                          \/ \E m \in Machine : SigHup(m, d)
    BY DEF Proxies
  <1>2. UNCHANGED <<lpc, connfd>> BY DEF Proxies
  <1>3. CASE c # d BY <1>1, <1>2, <1>3, ProxyOthers, UntouchedConn
  <1>4. CASE c = d /\ ClientStep(d)
    <2>1. CASE EndClient(c) /\ cpc[c] # "none" BY <1>2, <2>1, EndClientConn
    <2> QED BY <1>2, <1>4, <2>1, ConnectConn, RegisterConn
            DEF ClientStep, ProxyClientFail, ConnSendDevRegRefused, ConnLostClient,
                AwaitAckOther
  <1>5. CASE c = d /\ ServerStep(d) BY <1>2, <1>5, ServerConn
  <1>6. CASE c = d /\ TaskOpen(d) BY <1>2, <1>6, RegisterConn
  <1>7. ASSUME c = d, NEW m \in Machine, SigHup(m, d) PROVE ConnInv(c)'
    <2>1. CASE SigHupLost(m, d)
      BY <1>2, <1>7, <2>1, UntouchedConn
         DEF SigHupLost, Untouched, pcVars, tcpVars, devVars
    <2>2. CASE SigHupSelect(m, d)
      <3>1. /\ UNCHANGED <<tosrv, tocli, backlog, nlq, dummy, served, opened, lpc, connfd>>
            /\ \/ cpc[c] = "loop" /\ cpc' = [cpc EXCEPT ![c] = "unreg"] /\ spc' = spc
               \/ spc[c] = "loop" /\ spc' = [spc EXCEPT ![c] = "unreg"] /\ cpc' = cpc
        BY <1>2, <1>7, <2>2 DEF SigHupSelect, ClientAt, ServerAt, tcpVars, devVars
      <3>2. cpc \in [Conn -> ClientPc] /\ spc \in [Conn -> ServerPc] BY DEF TypeOK, HsTypeOK
      <3>3. CASE cpc[c] = "loop" /\ cpc'[c] = "unreg" /\ spc'[c] = spc[c]
        BY <3>1, <3>3 DEF ConnInv, ServerInv, VersionInv, RegisterInv, DummyInv, AcceptInv
      <3>4. CASE spc[c] = "loop" /\ spc'[c] = "unreg" /\ cpc'[c] = cpc[c]
        BY <3>1, <3>4 DEF ConnInv, ServerInv, VersionInv, RegisterInv, DummyInv, AcceptInv
      <3> QED BY <3>1, <3>2, <3>3, <3>4
    <2>3. CASE SigHupSetup(m, d)
      BY <1>2, <1>7, <2>3, EndClientConn, EndServerConn DEF SigHupSetup
    <2> QED BY <1>7, <2>1, <2>2, <2>3 DEF SigHup
  <1> QED BY <1>1, <1>3, <1>4, <1>5, <1>6, <1>7

\* The inductive invariant holds in every state.
LEMMA DaemonInvariant == Spec => []DaemonInv
  <1>1. Init => DaemonInv
    BY DEF Init, HsInit, TypeOK, HsTypeOK, ClientPc, ServerPc, DaemonInv, ConnInv, ServerInv,
           VersionInv, RegisterInv, DummyInv, AcceptInv
  <1>2. TypeOK' /\ DaemonInv /\ [Next]_vars => DaemonInv'
    <2> SUFFICES ASSUME TypeOK', DaemonInv, [Next]_vars PROVE DaemonInv' OBVIOUS
    <2>1. CASE Proxies BY <2>1, ProxyConn DEF Proxies, DaemonInv
    <2>2. CASE UNCHANGED vars
      BY <2>2, UntouchedConn DEF vars, hsVars, pcVars, tcpVars, devVars, Untouched, DaemonInv
    <2> QED BY <2>1, <2>2, ParentConn DEF Next, DaemonInv
  <1> QED BY <1>1, <1>2, TypeCorrect, PTL DEF Spec

\* ServerFirst: a dummy device appears, in netlink_reg_dummy_dev, only after
\* the proxy_server of the connection has registered the real one and sent
\* its reply, whatever was lost, interrupted or mistaken on the way.
THEOREM ServerRegistersFirst == Spec => []ServerFirst
  <1>1. DaemonInv => ServerFirst BY DEF DaemonInv, ConnInv, RegisterInv, ServerFirst
  <1> QED BY <1>1, DaemonInvariant, PTL

\* LoopReady: proxy_loop starts with both devices registered and nothing of
\* the set-up left to read, neither on the connection nor on netlink.
THEOREM LoopsStartClean == Spec => []LoopReady
  <1>1. ASSUME DaemonInv, NEW c \in Conn, cpc[c] = "loop"
        PROVE  /\ c \in dummy /\ tocli[c] = << >>
               /\ \A i \in 1 .. Len(nlq[c]) : nlq[c][i] = "req"
    <2>1. c \in dummy /\ tocli[c] = << >> BY <1>1 DEF DaemonInv, ConnInv, DummyInv, RegisterInv
    <2>2. nlq[c] = << >> \/ nlq[c] = <<"req">> BY <1>1 DEF DaemonInv, ConnInv, DummyInv
    <2>3. \A i \in 1 .. Len(<< >>) : << >>[i] = "req" OBVIOUS
    <2>4. \A i \in 1 .. Len(<<"req">>) : <<"req">>[i] = "req" OBVIOUS
    <2> QED BY <2>1, <2>2, <2>3, <2>4
  <1>2. ASSUME DaemonInv, NEW c \in Conn, spc[c] = "loop"
        PROVE  c \in served /\ tosrv[c] = << >>
    BY <1>2 DEF DaemonInv, ConnInv, ServerInv
  <1>3. DaemonInv => LoopReady BY <1>1, <1>2 DEF LoopReady
  <1> QED BY <1>3, DaemonInvariant, PTL
=============================================================================
