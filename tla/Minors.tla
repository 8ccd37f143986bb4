------------------------------- MODULE Minors -------------------------------
(***************************************************************************)
(* The table of minor numbers (netdevmgm.c): which daemon's device has     *)
(* which minor.  Registrations and unregistrations run in the context of   *)
(* the daemon that sends the netlink message, so those of different daemons*)
(* and the opens of devices run concurrently; all of them take             *)
(* netdev_minor_sem with a trylock and give up when somebody else has it.  *)
(*                                                                         *)
(* netdev_minors_used has MaxDevices entries.  ndmgm_get_minor can read one*)
(* past its end: what is there is not the driver's, so the read has either *)
(* outcome.                                                                *)
(***************************************************************************)
EXTENDS Integers, FiniteSets, FiniteSetsExt

CONSTANTS
    Pid,            \* daemons that may register a dummy device
    Opener,         \* tasks that open device nodes
    MaxDevices,     \* NETDEV_MAX_DEVICES
    None,           \* the -1 that marks a free entry
    Free,           \* netdev_minor_sem not held
    Wedged          \* netdev_minor_sem after up_read by its writer

ASSUME MaxAssumption == MaxDevices \in Nat \ {0}
ASSUME NameAssumption ==
    /\ Pid \cap Opener = {}
    /\ None \notin Pid \cup Opener
    /\ Free \notin Pid \cup Opener /\ Wedged \notin Pid \cup Opener
    /\ Free # Wedged /\ None \notin Int

Index == 0 .. MaxDevices - 1

VARIABLES
    used,       \* netdev_minors_used
    max_minor,  \* netdev_max_minor
    writer,     \* who holds netdev_minor_sem for writing, or Free or Wedged
    readers,    \* who holds it for reading
    pc,         \* what each daemon's request is doing
    minor,      \* the minor of the daemon's device, or None
    target,     \* the device whose node a task is opening, or None
    look,       \* the minor of that node
    found       \* what ndmgm_find_pid returned, None before and for -1

vars == <<used, max_minor, writer, readers, pc, minor, target, look, found>>

TypeOK ==
    /\ used \in [Index -> Pid \cup {None}]
    /\ max_minor \in 0 .. MaxDevices
    /\ writer \in Pid \cup {Free, Wedged}
    /\ readers \in SUBSET Opener
    /\ pc \in [Pid -> {"none", "get", "create", "device", "put"}]
    /\ minor \in [Pid -> (0 .. MaxDevices) \cup {None}]
    /\ target \in [Opener -> Pid \cup {None}]
    /\ look \in [Opener -> (0 .. MaxDevices) \cup {None}]
    /\ found \in [Opener -> Pid \cup {None}]

\* ndmgm_prepare
Init ==
    /\ used = [i \in Index |-> None]
    /\ max_minor = 0
    /\ writer = Free /\ readers = {}
    /\ pc = [p \in Pid |-> "none"]
    /\ minor = [p \in Pid |-> None]
    /\ target = [o \in Opener |-> None]
    /\ look = [o \in Opener |-> None]
    /\ found = [o \in Opener |-> None]

CanWrite == writer = Free /\ readers = {}

-----------------------------------------------------------------------------
(* ndmgm_get_minor, called first by ndmgm_create_dummy.  If the trylock    *)
(* fails the registration is refused and nothing changes.                  *)

GetLock(p) ==
    /\ pc[p] = "none" /\ CanWrite
    /\ writer' = p
    /\ pc' = [pc EXCEPT ![p] = "get"]
    /\ UNCHANGED <<used, max_minor, readers, minor, target, look, found>>

\* The limit test leaves with up_read though the semaphore is held for
\* writing: from then on every trylock fails.
GetLimit(p) ==
    /\ pc[p] = "get" /\ max_minor = MaxDevices
    /\ writer' = Wedged
    /\ pc' = [pc EXCEPT ![p] = "none"]
    /\ UNCHANGED <<used, max_minor, readers, minor, target, look, found>>

\* Entries the loop of ndmgm_get_minor looks at and finds free.
FreeSeen == {i \in Index : i <= max_minor + 1 /\ used[i] = None}

GetMinorNoMark(p) ==        \* mutant: the entry is not marked as used
    /\ pc[p] = "get" /\ max_minor < MaxDevices /\ FreeSeen # {}
    /\ LET i == Min(FreeSeen) IN
        /\ max_minor' = IF i > max_minor THEN i ELSE max_minor
        /\ minor' = [minor EXCEPT ![p] = i]
    /\ writer' = Free
    /\ pc' = [pc EXCEPT ![p] = "create"]
    /\ UNCHANGED <<used, readers, target, look, found>>

GetMinor(p) ==
    /\ pc[p] = "get" /\ max_minor < MaxDevices /\ FreeSeen # {}
    /\ LET i == Min(FreeSeen) IN
        /\ used' = [used EXCEPT ![i] = p]
        /\ max_minor' = IF i > max_minor THEN i ELSE max_minor
        /\ minor' = [minor EXCEPT ![p] = i]
    /\ writer' = Free
    /\ pc' = [pc EXCEPT ![p] = "create"]
    /\ UNCHANGED <<readers, target, look, found>>

\* All entries are taken and the loop reads the word after the array, which
\* happens to be -1.
GetMinorBeyond(p) ==
    /\ pc[p] = "get" /\ max_minor + 1 = MaxDevices /\ FreeSeen = {}
    /\ max_minor' = MaxDevices
    /\ minor' = [minor EXCEPT ![p] = MaxDevices]
    /\ writer' = Free
    /\ pc' = [pc EXCEPT ![p] = "create"]
    /\ UNCHANGED <<used, readers, target, look, found>>

GetNone(p) ==
    /\ pc[p] = "get" /\ max_minor < MaxDevices /\ FreeSeen = {}
    /\ writer' = Free
    /\ pc' = [pc EXCEPT ![p] = "none"]
    /\ UNCHANGED <<used, max_minor, readers, minor, target, look, found>>

(* The rest of ndmgm_create_dummy.  No failure path gives the minor back.  *)

Create(p) ==
    /\ pc[p] = "create"
    /\ pc' = [pc EXCEPT ![p] = "device"]
    /\ UNCHANGED <<used, max_minor, writer, readers, minor, target, look, found>>

CreateFail(p) ==
    /\ pc[p] = "create"
    /\ pc' = [pc EXCEPT ![p] = "none"]
    /\ minor' = [minor EXCEPT ![p] = None]
    /\ UNCHANGED <<used, max_minor, writer, readers, target, look, found>>

-----------------------------------------------------------------------------
(* ndmgm_put_minor, called last by ndmgm_destroy_dummy. *)

PutLock(p) ==
    /\ pc[p] = "device" /\ CanWrite
    /\ writer' = p
    /\ pc' = [pc EXCEPT ![p] = "put"]
    /\ UNCHANGED <<used, max_minor, readers, minor, target, look, found>>

\* The device goes, its entry stays.
PutFail(p) ==
    /\ pc[p] = "device" /\ ~CanWrite
    /\ pc' = [pc EXCEPT ![p] = "none"]
    /\ minor' = [minor EXCEPT ![p] = None]
    /\ UNCHANGED <<used, max_minor, writer, readers, target, look, found>>

LowerMaxByOne(u, m) ==      \* mutant: one below, even below 0
    IF m = max_minor THEN m - 1 ELSE max_minor

\* The loop that lowers netdev_max_minor from m has no break: it ends with
\* the lowest used minor that is not 0.
LowerMax(u, m) ==
    LET taken == {i \in Index : 0 < i /\ i <= m /\ u[i] # None}
    IN  IF m = max_minor /\ taken # {} THEN Min(taken) ELSE max_minor

PutMinor(p) ==
    LET m == minor[p]
        u == [i \in Index |-> IF i = m THEN None ELSE used[i]]
    IN  /\ pc[p] = "put"
        /\ used' = u
        /\ max_minor' = LowerMax(u, m)
        /\ minor' = [minor EXCEPT ![p] = None]
        /\ writer' = Free
        /\ pc' = [pc EXCEPT ![p] = "none"]
        /\ UNCHANGED <<readers, target, look, found>>

-----------------------------------------------------------------------------
(* ndfo_send_open: the VFS has found the cdev of the node; ndmgm_find_pid   *)
(* looks its minor up.  If the trylock fails the result is -1.             *)

Devices == {p \in Pid : pc[p] = "device"}

OpenNode(o) ==
    /\ target[o] = None
    /\ \E p \in Devices :
        /\ target' = [target EXCEPT ![o] = p]
        /\ look' = [look EXCEPT ![o] = minor[p]]
    /\ UNCHANGED <<used, max_minor, writer, readers, pc, minor, found>>

FindLock(o) ==
    /\ target[o] # None /\ found[o] = None /\ o \notin readers /\ writer = Free
    /\ readers' = readers \cup {o}
    /\ UNCHANGED <<used, max_minor, writer, pc, minor, target, look, found>>

FindPidNext(o) ==           \* mutant: off by one
    /\ o \in readers
    /\ found' = [found EXCEPT ![o] = used[(look[o] + 1) % MaxDevices]]
    /\ readers' = readers \ {o}
    /\ UNCHANGED <<used, max_minor, writer, pc, minor, target, look>>

\* Beyond the array anything may be read.
FindPid(o) ==
    /\ o \in readers
    /\ \E v \in IF look[o] \in Index THEN {used[look[o]]} ELSE Pid \cup {None} :
            found' = [found EXCEPT ![o] = v]
    /\ readers' = readers \ {o}
    /\ UNCHANGED <<used, max_minor, writer, pc, minor, target, look>>

\* ndmgm_find and the rest of open, whose outcome does not matter here, or
\* the failed trylock
OpenDone(o) ==
    /\ target[o] # None /\ o \notin readers
    /\ target' = [target EXCEPT ![o] = None]
    /\ look' = [look EXCEPT ![o] = None]
    /\ found' = [found EXCEPT ![o] = None]
    /\ UNCHANGED <<used, max_minor, writer, readers, pc, minor>>

-----------------------------------------------------------------------------
Next ==
    \/ \E p \in Pid : \/ GetLock(p) \/ GetLimit(p) \/ GetMinor(p)
                      \/ GetMinorBeyond(p) \/ GetNone(p)
                      \/ Create(p) \/ CreateFail(p)
                      \/ PutLock(p) \/ PutFail(p) \/ PutMinor(p)
    \/ \E o \in Opener : OpenNode(o) \/ FindLock(o) \/ FindPid(o) \/ OpenDone(o)

Spec == Init /\ [][Next]_vars

-----------------------------------------------------------------------------
(* Properties *)

\* The table names the owner of every minor that was handed out and two
\* devices never share one, in spite of the wrong netdev_max_minor that
\* ndmgm_put_minor computes, of the entries that failed registrations leave
\* behind and of the minor beyond the table.
MinorOwner ==
    /\ \A p \in Pid : minor[p] \in Index => used[minor[p]] = p
    /\ \A p, q \in Pid : minor[p] = minor[q] /\ minor[p] # None => p = q

\* The lookup of a minor in the table gives the daemon of the node that is
\* being opened, or none, as long as that daemon's device is there and has
\* the minor: only a device that is replaced between the VFS and the lookup
\* is mistaken for another.
OpenReaches ==
    [][\A o \in Opener :
        /\ found'[o] # found[o] /\ look[o] \in Index
        /\ target[o] \in Devices /\ minor[target[o]] = look[o]
        => found'[o] \in {None, target[o]}]_vars
=============================================================================
