----------------------------- MODULE RemoteCall -----------------------------
(***************************************************************************)
(* What netdev promises the user of a dummy device: a file operation is    *)
(* carried to the serving machine, dealt with there at most once, and      *)
(* returns, if it returns, with the result it was given there, or with a   *)
(* failure when its device is torn down.                                   *)
(***************************************************************************)
EXTENDS Integers

CONSTANT Op

VARIABLES
    called,     \* the operations that were called
    runs,       \* how often the served device was operated for each
    verdict,    \* what the serving side made of it
    result      \* what it returned to the caller

rcvars == <<called, runs, verdict, result>>

RCInit ==
    /\ called = {}
    /\ runs = [o \in Op |-> 0]
    /\ verdict = [o \in Op |-> "none"]
    /\ result = [o \in Op |-> "none"]

RCCall(o) ==
    /\ o \notin called
    /\ called' = called \cup {o}
    /\ UNCHANGED <<runs, verdict, result>>

\* The device is operated, or the operation is refused without touching it.
\* The caller may have been sent away meanwhile.
RCServe(o) ==
    /\ o \in called /\ verdict[o] = "none"
    /\ \/ /\ runs' = [runs EXCEPT ![o] = @ + 1]
          /\ \E v \in {"ok", "fail"} : verdict' = [verdict EXCEPT ![o] = v]
       \/ /\ verdict' = [verdict EXCEPT ![o] = "fail"]
          /\ UNCHANGED runs
    /\ UNCHANGED <<called, result>>

RCReturn(o) ==
    /\ o \in called /\ verdict[o] # "none" /\ result[o] = "none"
    /\ result' = [result EXCEPT ![o] = verdict[o]]
    /\ UNCHANGED <<called, runs, verdict>>

\* The device is torn down under the caller.
RCAbort(o) ==
    /\ o \in called /\ result[o] = "none"
    /\ result' = [result EXCEPT ![o] = "fail"]
    /\ UNCHANGED <<called, runs, verdict>>

RCNext == \E o \in Op : RCCall(o) \/ RCServe(o) \/ RCReturn(o) \/ RCAbort(o)

RCSpec == RCInit /\ [][RCNext]_rcvars
=============================================================================
