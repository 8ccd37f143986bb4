---------------------------- MODULE MinorsProofs ----------------------------
(***************************************************************************)
(* Theorems about Minors, for any table size and any number of daemons.    *)
(***************************************************************************)
EXTENDS Minors, WellFoundedInduction, TLAPS

USE MaxAssumption, NameAssumption

\* A set of minors that is not empty has a least element, which Min returns.
LEMMA MinIsLeast ==
    ASSUME NEW S \in SUBSET Nat, S # {}
    PROVE  Min(S) \in S /\ \A j \in S : Min(S) <= j
  <1>1. PICK x \in S : \A y \in S : ~(<<y, x>> \in OpToRel(<, Nat))
    BY WFMin, NatLessThanWellFounded
  <1>2. ASSUME NEW y \in S PROVE x <= y
    <2>1. x \in Nat /\ y \in Nat OBVIOUS
    <2>2. y < x => <<y, x>> \in {ss \in Nat \X Nat : ss[1] < ss[2]} BY <2>1
    <2>3. OpToRel(<, Nat) = {ss \in Nat \X Nat : ss[1] < ss[2]} BY DEF OpToRel
    <2>4. ~(<<y, x>> \in OpToRel(<, Nat)) BY <1>1
    <2>5. ~(y < x) BY <2>2, <2>3, <2>4
    <2> QED BY <2>1, <2>5
  <1> QED BY <1>2 DEF Min

\* What the minors of the daemons say about the table.  The third part
\* is what keeps the minor beyond the table from being handed out twice.
MinorInv ==
    /\ TypeOK
    /\ MinorOwner
    /\ \A p \in Pid : minor[p] = MaxDevices => max_minor = MaxDevices
    /\ \A p \in Pid : pc[p] \in {"none", "get"} => minor[p] = None
    /\ \A p \in Pid : pc[p] \in {"create", "device", "put"} => minor[p] # None

\* ndmgm_prepare leaves every entry free.
LEMMA MinorInit == Init => MinorInv
  BY DEF Init, MinorInv, TypeOK, MinorOwner, Index

\* Every registration, unregistration and open keeps the table consistent.
LEMMA MinorStep == MinorInv /\ [Next]_vars => MinorInv'
  <1> SUFFICES ASSUME MinorInv, [Next]_vars PROVE MinorInv' OBVIOUS
  <1> USE DEF MinorInv, TypeOK, MinorOwner, Index
  <1>1. ASSUME NEW p \in Pid, GetLock(p) PROVE MinorInv' BY <1>1 DEF GetLock
  <1>2. ASSUME NEW p \in Pid, GetLimit(p) PROVE MinorInv' BY <1>2 DEF GetLimit
  <1>3. ASSUME NEW p \in Pid, GetMinor(p) PROVE MinorInv'
    <2> DEFINE i == Min(FreeSeen)
    <2>1. i \in FreeSeen
      <3>1. FreeSeen \in SUBSET Nat /\ FreeSeen # {} BY <1>3 DEF FreeSeen, GetMinor
      <3> QED BY <3>1, MinIsLeast
    <2>2. i \in Index /\ i <= max_minor + 1 /\ used[i] = None
      BY <2>1 DEF FreeSeen
    <2> HIDE DEF i
    <2> QED BY <1>3, <2>2 DEF GetMinor, i
  <1>4. ASSUME NEW p \in Pid, GetMinorBeyond(p) PROVE MinorInv'
    BY <1>4 DEF GetMinorBeyond
  <1>5. ASSUME NEW p \in Pid, GetNone(p) PROVE MinorInv' BY <1>5 DEF GetNone
  <1>6. ASSUME NEW p \in Pid, Create(p) PROVE MinorInv' BY <1>6 DEF Create
  <1>7. ASSUME NEW p \in Pid, CreateFail(p) PROVE MinorInv' BY <1>7 DEF CreateFail
  <1>8. ASSUME NEW p \in Pid, PutLock(p) PROVE MinorInv' BY <1>8 DEF PutLock
  <1>9. ASSUME NEW p \in Pid, PutFail(p) PROVE MinorInv' BY <1>9 DEF PutFail
  <1>10. ASSUME NEW p \in Pid, PutMinor(p) PROVE MinorInv'
    <2> DEFINE m == minor[p]
               u == [k \in Index |-> IF k = m THEN None ELSE used[k]]
    <2>1. LowerMax(u, m) \in 0 .. MaxDevices /\ (m # max_minor => LowerMax(u, m) = max_minor)
      <3> DEFINE taken == {k \in Index : 0 < k /\ k <= m /\ u[k] # None}
      <3>1. taken # {} => Min(taken) \in Index
        <4>1. taken \in SUBSET Nat OBVIOUS
        <4>2. taken # {} => Min(taken) \in taken BY <4>1, MinIsLeast
        <4> QED BY <4>2
      <3>2. LowerMax(u, m) = IF m = max_minor /\ taken # {} THEN Min(taken) ELSE max_minor
        BY DEF LowerMax
      <3> HIDE DEF taken, u
      <3> QED BY <3>1, <3>2
    <2>2. u \in [Index -> Pid \cup {None}] OBVIOUS
    <2>3. /\ used' = u /\ max_minor' = LowerMax(u, m)
          /\ minor' = [minor EXCEPT ![p] = None] /\ pc[p] = "put"
          /\ writer' = Free /\ pc' = [pc EXCEPT ![p] = "none"]
          /\ UNCHANGED <<readers, target, look, found>>
      BY <1>10 DEF PutMinor
    <2>4. \A q \in Pid : q # p /\ minor[q] \in Index => u[minor[q]] = q
      BY <2>3
    <2>5. \A q \in Pid : q # p /\ minor[q] = MaxDevices => LowerMax(u, m) = MaxDevices
      BY <2>1, <2>3
    <2> HIDE DEF u
    <2> QED BY <2>1, <2>2, <2>3, <2>4, <2>5
  <1>11. ASSUME NEW o \in Opener, OpenNode(o) PROVE MinorInv'
    <2> PICK p \in Devices : /\ target' = [target EXCEPT ![o] = p]
                            /\ look' = [look EXCEPT ![o] = minor[p]]
        BY <1>11 DEF OpenNode
    <2> QED BY <1>11 DEF OpenNode, Devices
  <1>12. ASSUME NEW o \in Opener, FindLock(o) PROVE MinorInv' BY <1>12 DEF FindLock
  <1>13. ASSUME NEW o \in Opener, FindPid(o) PROVE MinorInv' BY <1>13 DEF FindPid
  <1>14. ASSUME NEW o \in Opener, OpenDone(o) PROVE MinorInv' BY <1>14 DEF OpenDone
  <1>15. CASE UNCHANGED vars BY <1>15 DEF vars
  <1> QED BY <1>1, <1>2, <1>3, <1>4, <1>5, <1>6, <1>7, <1>8, <1>9, <1>10, <1>11,
             <1>12, <1>13, <1>14, <1>15 DEF Next

\* The table names the owner of every minor that was handed out and no two
\* devices have the same one, whatever ndmgm_put_minor makes of
\* netdev_max_minor, for every size of the table.
THEOREM MinorsOwned == Spec => []MinorOwner
  <1>1. MinorInv => MinorOwner BY DEF MinorInv
  <1> QED BY MinorInit, MinorStep, <1>1, PTL DEF Spec

\* Every value of the table and of netdev_max_minor stays in its range.
THEOREM MinorsTyped == Spec => []TypeOK
  <1>1. MinorInv => TypeOK BY DEF MinorInv
  <1> QED BY MinorInit, MinorStep, <1>1, PTL DEF Spec
\* One step of any process: what a lookup finds.
LEMMA LookupStep ==
    ASSUME MinorInv, [Next]_vars, NEW o \in Opener,
           found'[o] # found[o], look[o] \in Index,
           target[o] \in Devices, minor[target[o]] = look[o]
    PROVE  found'[o] \in {None, target[o]}
  <1> USE DEF MinorInv, TypeOK
  <1>1. used[look[o]] = target[o] BY DEF MinorOwner, Devices
  <1>2. ASSUME NEW r \in Opener, FindPid(r) PROVE found'[o] \in {None, target[o]}
    BY <1>1, <1>2 DEF FindPid
  <1>3. ASSUME NEW r \in Opener, OpenDone(r) PROVE found'[o] \in {None, target[o]}
    BY <1>3 DEF OpenDone
  <1>4. (\E r \in Opener : FindPid(r) \/ OpenDone(r)) \/ UNCHANGED found
    BY DEF Next, vars, GetLock, GetLimit, GetMinor, GetMinorBeyond, GetNone, Create,
           CreateFail, PutLock, PutFail, PutMinor, OpenNode, FindLock
  <1> QED BY <1>2, <1>3, <1>4

\* A lookup gives the daemon of the node that is being opened, or none, as
\* long as that daemon's device is there: for every size of the table.
THEOREM OpensReach == Spec => OpenReaches
  <1>1. MinorInv /\ [Next]_vars =>
          [\A o \in Opener :
            /\ found'[o] # found[o] /\ look[o] \in Index
            /\ target[o] \in Devices /\ minor[target[o]] = look[o]
            => found'[o] \in {None, target[o]}]_vars
    BY LookupStep
  <1> QED BY <1>1, MinorInit, MinorStep, PTL DEF Spec, OpenReaches
=============================================================================
