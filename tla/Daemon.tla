------------------------------- MODULE Daemon -------------------------------
(***************************************************************************)
(* The processes of the two daemons: main, which forks a proxy_client for  *)
(* every configured device and then listens, netdev_listener, which accepts*)
(* connections and forks a proxy_server for each, the SIGCHLD handler that *)
(* waits for ended children, and the SIGHUP that the proxies get when      *)
(* their parent dies.  Composes the parents with the proxies of Handshake. *)
(***************************************************************************)
EXTENDS Handshake

VARIABLES
    lpc,        \* where netdev_listener is
    connfd      \* the connection it has accepted, None when accept failed

vars == <<hsVars, lpc, connfd>>

TypeOK == /\ HsTypeOK
          /\ lpc \in {"accept", "fork", "close"}
          /\ connfd \in Conn \cup {None}

Init == HsInit /\ lpc = "accept" /\ connfd = None

-----------------------------------------------------------------------------
(* main and netdev_listener *)

\* fork of a proxy_client; if it fails the device is passed over
MainFork(c) ==
    /\ parent[C] = "run" /\ cpc[c] = "none"
    /\ \/ ClientAt(c, "start") /\ UNCHANGED faults
       \/ ClientAt(c, "ended") /\ Fault
    /\ UNCHANGED <<spc, tcpVars, nlq, dummy, served, opened, procVars, lpc, connfd>>

Accept(c) ==
    /\ parent[S] = "run" /\ lpc = "accept" /\ c \in backlog
    /\ backlog' = backlog \ {c}
    /\ fds' = [fds EXCEPT ![c] = @ \cup {Listener}]
    /\ connfd' = c
    /\ lpc' = "fork"
    /\ UNCHANGED <<pcVars, tosrv, tocli, devVars, procVars>>

\* accept fails, and not with EINTR: the listener forks all the same
AcceptError ==
    /\ parent[S] = "run" /\ lpc = "accept" /\ Fault
    /\ lpc' = "fork"
    /\ UNCHANGED <<pcVars, tcpVars, nlq, dummy, served, opened, procVars, connfd>>

ForkUnchecked ==            \* mutant: a proxy starts without a connection, too
    /\ parent[S] = "run" /\ lpc = "fork"
    /\ lpc' = "close"
    /\ spc' = [d \in Conn \cup {connfd} |-> IF d = connfd THEN "start" ELSE spc[d]]
    /\ fds' = [d \in Conn |-> IF Listener \in fds[d] THEN fds[d] \cup {connfd} ELSE fds[d]]
    /\ UNCHANGED <<cpc, tosrv, tocli, backlog, procVars, devVars, connfd>>

\* The child inherits what the listener has open; without a connection its
\* proxy_alloc_dev fails and it exits.
Fork ==
    /\ parent[S] = "run" /\ lpc = "fork"
    /\ lpc' = "close"
    /\ IF connfd = None
       THEN Exit(S, Stray) /\ UNCHANGED <<pcVars, tcpVars, hup>>
       ELSE /\ ServerAt(connfd, "start")
            /\ fds' = [d \in Conn |-> IF Listener \in fds[d] THEN fds[d] \cup {connfd}
                                      ELSE fds[d]]
            /\ UNCHANGED <<cpc, tosrv, tocli, backlog, procVars>>
    /\ UNCHANGED <<devVars, connfd>>

ForkFail ==
    /\ parent[S] = "run" /\ lpc = "fork" /\ Fault
    /\ lpc' = "close"
    /\ UNCHANGED <<pcVars, tcpVars, nlq, dummy, served, opened, procVars, connfd>>

CloseKeep ==                \* mutant: the parent keeps the connection
    /\ parent[S] = "run" /\ lpc = "close"
    /\ connfd' = None
    /\ lpc' = "accept"
    /\ UNCHANGED hsVars

Close ==
    /\ parent[S] = "run" /\ lpc = "close"
    /\ fds' = [c \in Conn |-> IF c = connfd THEN fds[c] \ {Listener} ELSE fds[c]]
    /\ connfd' = None
    /\ lpc' = "accept"
    /\ UNCHANGED <<pcVars, tosrv, tocli, backlog, devVars, procVars>>

-----------------------------------------------------------------------------
(* parent_sig_chld: SIGCHLD is blocked while the handler runs, and signals  *)
(* that arrive meanwhile become one.                                        *)

SigChld(m) ==
    /\ parent[m] = "run" /\ chld[m]
    /\ chld' = [chld EXCEPT ![m] = FALSE]
    /\ parent' = [parent EXCEPT ![m] = "handler"]
    /\ UNCHANGED <<pcVars, tcpVars, devVars, zombies, hup, lpc, connfd>>

Waitpid(m) ==
    /\ parent[m] = "handler"
    /\ \E p \in zombies[m] : zombies' = [zombies EXCEPT ![m] = @ \ {p}]
    /\ UNCHANGED <<pcVars, tcpVars, devVars, chld, hup, parent, lpc, connfd>>

SigChldOnce(m) ==           \* mutant: the handler may return after one child
    /\ parent[m] = "handler"
    /\ parent' = [parent EXCEPT ![m] = "run"]
    /\ UNCHANGED <<pcVars, tcpVars, devVars, zombies, chld, hup, lpc, connfd>>

\* waitpid says that there is none left
SigChldReturn(m) ==
    /\ parent[m] = "handler" /\ zombies[m] = {}
    /\ parent' = [parent EXCEPT ![m] = "run"]
    /\ UNCHANGED <<pcVars, tcpVars, devVars, zombies, chld, hup, lpc, connfd>>

\* The parent is killed: its sockets are closed, its ended children have no
\* more to wait for, and every proxy gets a SIGHUP (one that has
\* not yet called prctl does not, which is as if it were lost).
ParentDies(m) ==
    /\ parent[m] # "dead" /\ Fault
    /\ parent' = [parent EXCEPT ![m] = "dead"]
    /\ zombies' = [zombies EXCEPT ![m] = {}]
    /\ hup' = hup \cup {<<m, c>> : c \in {c \in Conn :
                (IF m = C THEN cpc[c] ELSE spc[c]) \notin {"none", "ended"}}}
    /\ IF m = S
       THEN /\ backlog' = {}
            /\ fds' = [c \in Conn |-> fds[c] \ {Listener}]
       ELSE UNCHANGED <<backlog, fds>>
    /\ UNCHANGED <<pcVars, tosrv, tocli, nlq, dummy, served, opened, chld, lpc, connfd>>

-----------------------------------------------------------------------------
ListenerStep == (\E c \in Conn : Accept(c)) \/ Fork \/ ForkFail \/ Close
HandlerStep(m) == SigChld(m) \/ Waitpid(m) \/ SigChldReturn(m)

Proxies ==
    /\ \E c \in Conn : \/ ClientStep(c) \/ ServerStep(c) \/ TaskOpen(c)
                       \/ \E m \in Machine : SigHup(m, c)
    /\ UNCHANGED <<lpc, connfd>>

Next ==
    \/ Proxies
    \/ \E c \in Conn : MainFork(c)
    \/ ListenerStep \/ AcceptError
    \/ \E m \in Machine : HandlerStep(m) \/ ParentDies(m)

Spec == Init /\ [][Next]_vars

\* Processes that can run do run.  Nothing makes a task open a device, a
\* call fail, or a parent die.
FairSpec ==
    /\ Spec
    /\ \A c \in Conn : /\ WF_vars(ClientStep(c) /\ UNCHANGED <<lpc, connfd>>)
                       /\ WF_vars(ServerStep(c) /\ UNCHANGED <<lpc, connfd>>)
    /\ WF_vars(ListenerStep)
    /\ \A m \in Machine : WF_vars(HandlerStep(m))

-----------------------------------------------------------------------------
(* Properties *)

\* Children that have ended are all waited for, though the SIGCHLDs of those
\* that end at the same time are merged and the listener may be anywhere.
Reaped == \A m \in Machine : zombies[m] # {} ~> zombies[m] = {}
=============================================================================
