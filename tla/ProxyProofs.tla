---------------------------- MODULE ProxyProofs ----------------------------
(***************************************************************************)
(* Theorems about the path of an operation through both daemons, for any   *)
(* number of operations.  With failures and any number of operations under *)
(* way: nothing is duplicated, and the path implements RemoteCall.  With   *)
(* one operation at a time and no failures: the daemons always get their   *)
(* own ACK, and nothing is lost.                                           *)
(***************************************************************************)
EXTENDS Proxy, FiniteSetTheorems, SequenceTheorems, TLAPS

USE WindowAssumption, FailuresAssumption, NoneAssumption

\* Copies(o) as a sum over the kinds of places.
Ind(o, x) == IF x # None /\ x.op = o THEN 1 ELSE 0
QSum(o, f) == InQueue(o, f[C]) + InQueue(o, f[S])
SetCount(o, T) == Cardinality({x \in T : x.op = o})
SSum(o, f) == SetCount(o, f[C]) + SetCount(o, f[S])
HandCount(o, h) == Cardinality({m \in Machine : h[m] # None /\ h[m].op = o})

Nl == Msg \cup {Ack}

Elems(q) == {q[i] : i \in 1 .. Len(q)}

\* The messages from one kernel that the other has not dealt with, what is on
\* its way out, and on its way back.
Travelling(m) == (Elems(nlq[m]) \cup Elems(tcp[Peer(m)]) \cup {hand[Peer(m)]}
                  \cup woken[Peer(m)]) \ {Ack, None}
Outbound == Travelling(C)
Inbound == Travelling(S) \cup replies

\* A request that has not been decided on, and a result that has.
IsRequest(x) == x.op \in called /\ x.res = "fail" /\ verdict[x.op] = "none"
IsResult(x) == x.op \in called /\ verdict[x.op] = x.res

\* A daemon that handles a message has it.
StepInv == \A m \in Machine : /\ dpc[m] = "nl" => nlq[m] # << >>
                              /\ dpc[m] = "ksend" => hand[m] # None

\* The device is not operated before the operation is decided on.
RunsInv == \A o \in Op : verdict[o] = "none" => runs[o] = 0

\* Only what was called is decided on.
VerdictInv == \A o \in Op \ called : verdict[o] = "none"

\* Nothing is duplicated, and nothing is there before it is sent.
CountInv == \A o \in Op : Copies(o) <= 1 /\ (o \notin called => Copies(o) = 0)

\* What goes out are requests, what comes back are the results decided on.
PathInv == (\A x \in Outbound : IsRequest(x)) /\ (\A x \in Inbound : IsResult(x))

\* The inductive invariant, for all constants.
ProxyInv == TypeOK /\ StepInv /\ RunsInv /\ VerdictInv /\ CountInv /\ PathInv

\* With one operation at a time and no failures, neither daemon leaves its loop
\* and one operation is under way at most.
AliveInv == conn /\ \A m \in Machine : dpc[m] \in {"select", "nl", "rm", "ksend", "kack", "ack"}
OneInv ==
    /\ IsFiniteSet(called)
    /\ \A o, p \in UnderWay : o = p
    /\ \A o \in Op \ called : result[o] = "none"

\* What each daemon's place in proxy_loop says of its message, of nllock and of
\* the sockets.  The kernel's netlink_recv holds nllock from its start to the
\* ACK, and the queue it sends the ACK to is empty.
HandInv == \A m \in Machine : hand[m] # None => dpc[m] = "ksend"
LockInv == \A m \in Machine : /\ dpc[m] = "kack" => nllock[m] /\ nlq[m] = << >>
                              /\ nllock[m] => dpc[m] = "kack"
ReadyInv ==
    \A m \in Machine : dpc[m] = "rm" \/ (dpc[m] = "nl" /\ rmready[m]) => tcp[m] # << >>

\* The ACK is in the queue when its daemon waits for it, and then it is first.
AckOrder(l, q) == /\ l = "ack" => q # << >>
                  /\ \A i \in 1 .. Len(q) : q[i] = Ack <=> i = 1 /\ l = "ack"
AckInv == \A m \in Machine : AckOrder(dpc[m], nlq[m])

\* Nothing is lost.
KeepInv == \A o \in Op : Copies(o) = IF o \in UnderWay THEN 1 ELSE 0

\* The inductive invariant for one operation at a time without failures.
SingleInv ==
    AliveInv /\ OneInv /\ HandInv /\ LockInv /\ ReadyInv /\ AckInv /\ KeepInv

-----------------------------------------------------------------------------
(* Counting *)

\* The two machines, and the one a daemon is connected to.
LEMMA TwoMachines ==
    /\ C # S /\ C \in Machine /\ S \in Machine
    /\ \A m \in Machine : m = C \/ m = S
    /\ Peer(C) = S /\ Peer(S) = C
    /\ \A m, k \in Machine : Peer(m) = Peer(k) => m = k
    /\ \A m \in Machine : Peer(m) \in Machine /\ Peer(m) # m
  BY DEF C, S, Machine, Peer

\* An ACK is no operation's message, and a message is neither.
LEMMA AckIsNone ==
    /\ \A o \in Op : o # None /\ Ind(o, Ack) = 0 /\ Ind(o, None) = 0
    /\ Ack \notin Msg
    /\ \A x \in Msg : x.op \in Op /\ x.res \in {"ok", "fail"} /\ x # None
    /\ \A o \in Op : \A x \in Nl : Ind(o, x) = IF x.op = o THEN 1 ELSE 0
  BY DEF Ack, Msg, Ind, Nl

\* The number of an operation's messages in a queue.
LEMMA QueueCount ==
    ASSUME NEW o \in Op, NEW q \in Seq(Nl)
    PROVE  /\ InQueue(o, q) \in Nat
           /\ InQueue(o, q) = 0 <=> \A i \in 1 .. Len(q) : q[i].op # o
           /\ IsFiniteSet({i \in 1 .. Len(q) : q[i].op = o})
  <1> DEFINE A == {i \in 1 .. Len(q) : q[i].op = o}
  <1>1. IsFiniteSet(1 .. Len(q)) BY FS_Interval
  <1>2. IsFiniteSet(A) BY <1>1, FS_Subset
  <1>3. Cardinality(A) \in Nat BY <1>2, FS_CardinalityType
  <1>4. Cardinality(A) = 0 <=> A = {} BY <1>2, FS_EmptySet
  <1> QED BY <1>2, <1>3, <1>4 DEF InQueue

\* A message put at the end of a queue adds one for its operation.
LEMMA QueueAppend ==
    ASSUME NEW o \in Op, NEW q \in Seq(Nl), NEW x \in Nl
    PROVE  InQueue(o, Append(q, x)) = InQueue(o, q) + Ind(o, x)
  <1> DEFINE r == Append(q, x)
             A == {i \in 1 .. Len(q) : q[i].op = o}
             B == {i \in 1 .. Len(r) : r[i].op = o}
  <1>1. /\ r \in Seq(Nl) /\ Len(r) = Len(q) + 1 /\ r[Len(q) + 1] = x
        /\ \A i \in 1 .. Len(q) : r[i] = q[i]
    BY AppendProperties
  <1>2. Len(q) \in Nat OBVIOUS
  <1>3. B = IF x.op = o THEN A \cup {Len(q) + 1} ELSE A
    BY <1>1, <1>2
  <1>4. Len(q) + 1 \notin A BY <1>2
  <1>5. IsFiniteSet(A) BY QueueCount
  <1>6. Cardinality(A) \in Nat BY <1>5, FS_CardinalityType
  <1>7. Cardinality(A \cup {Len(q) + 1}) = Cardinality(A) + 1
    BY <1>4, <1>5, FS_AddElement
  <1>8. Ind(o, x) = IF x.op = o THEN 1 ELSE 0
    BY AckIsNone
  <1>9. Cardinality(B) = Cardinality(A) + Ind(o, x)
    <2> HIDE DEF A, B
    <2>1. CASE x.op = o BY <1>3, <1>7, <1>8, <2>1
    <2>2. CASE x.op # o BY <1>3, <1>6, <1>8, <2>2
    <2> QED BY <2>1, <2>2
  <1> QED BY <1>9 DEF InQueue

\* A message taken from the front of a queue takes its operation's one away.
LEMMA QueueTail ==
    ASSUME NEW o \in Op, NEW q \in Seq(Nl), q # << >>
    PROVE  InQueue(o, Tail(q)) = InQueue(o, q) - Ind(o, Head(q))
  <1> DEFINE r == Tail(q)
             A == {i \in 1 .. Len(q) : q[i].op = o}
             B == {i \in 1 .. Len(r) : r[i].op = o}
             f == [i \in B |-> i + 1]
  <1>1. /\ r \in Seq(Nl) /\ Len(r) = Len(q) - 1 /\ Head(q) \in Nl
        /\ \A i \in 1 .. Len(r) : r[i] = q[i + 1]
    BY HeadTailProperties
  <1>2. Len(q) \in Nat /\ Len(q) # 0 /\ Head(q) = q[1] BY EmptySeq, SMT
  <1>3. IsFiniteSet(A) /\ IsFiniteSet(B) BY <1>1, QueueCount
  <1>4. f \in Bijection(B, A \ {1})
    <2>1. f \in [B -> A \ {1}] BY <1>1, <1>2
    <2>2. \A a, b \in B : f[a] = f[b] => a = b BY <1>1, <1>2
    <2>3. \A a \in A \ {1} : \E b \in B : f[b] = a
      <3> SUFFICES ASSUME NEW a \in A \ {1} PROVE \E b \in B : f[b] = a OBVIOUS
      <3>1. a \in 2 .. Len(q) /\ q[a].op = o BY <1>2
      <3>2. a - 1 \in 1 .. Len(r) /\ (a - 1) + 1 = a BY <1>1, <1>2, <3>1
      <3>3. r[a - 1] = q[a] BY <1>1, <3>2
      <3>4. a - 1 \in B BY <3>1, <3>2, <3>3
      <3>5. f[a - 1] = a BY <3>4, <3>2
      <3> QED BY <3>4, <3>5
    <2> QED BY <2>1, <2>2, <2>3 DEF Bijection, Injection, Surjection, IsInjective
  <1>5. Cardinality(A \ {1}) = Cardinality(B)
    <2> HIDE DEF A, B, f
    <2>1. ExistsBijection(B, A \ {1}) BY <1>4 DEF ExistsBijection
    <2> QED BY <1>3, <2>1, FS_Bijection
  <1>6. Cardinality(A \ {1}) = IF 1 \in A THEN Cardinality(A) - 1 ELSE Cardinality(A)
    BY <1>3, FS_RemoveElement
  <1>7. Cardinality(A) \in Nat BY <1>3, FS_CardinalityType
  <1>8. Ind(o, Head(q)) = IF Head(q).op = o THEN 1 ELSE 0
    BY <1>1, AckIsNone
  <1>9. 1 \in A <=> Head(q).op = o BY <1>2
  <1>10. Cardinality(B) = Cardinality(A) - Ind(o, Head(q))
    <2> HIDE DEF A, B
    <2> QED BY <1>5, <1>6, <1>7, <1>8, <1>9
  <1> QED BY <1>10 DEF InQueue

\* The number of an operation's messages in a set.
LEMMA SetCounts ==
    ASSUME NEW o \in Op, NEW T \in SUBSET Msg
    PROVE  /\ SetCount(o, T) \in Nat
           /\ SetCount(o, T) = 0 <=> \A x \in T : x.op # o
           /\ \A x \in T : x.op = o /\ SetCount(o, T) <= 1
                           => \A y \in T : y.op = o => y = x
           /\ IsFiniteSet({x \in T : x.op = o})
  <1> DEFINE A == {x \in T : x.op = o}
             B == {[op |-> o, res |-> "ok"], [op |-> o, res |-> "fail"]}
  <1>1. IsFiniteSet(B)
    <2>1. IsFiniteSet({[op |-> o, res |-> "ok"]}) BY FS_Singleton
    <2>2. IsFiniteSet({[op |-> o, res |-> "ok"]} \cup {[op |-> o, res |-> "fail"]})
      BY <2>1, FS_AddElement
    <2>3. B = {[op |-> o, res |-> "ok"]} \cup {[op |-> o, res |-> "fail"]} OBVIOUS
    <2> QED BY <2>2, <2>3
  <1>2. A \in SUBSET B BY DEF Msg
  <1>3. IsFiniteSet(A) BY <1>1, <1>2, FS_Subset
  <1>4. Cardinality(A) \in Nat BY <1>3, FS_CardinalityType
  <1>5. Cardinality(A) = 0 <=> A = {} BY <1>3, FS_EmptySet
  <1>6. Cardinality(A) = 1 <=> \E x : A = {x} BY <1>3, FS_Singleton
  <1>7. ASSUME NEW x \in A, Cardinality(A) <= 1, NEW y \in A PROVE y = x
    <2>1. Cardinality(A) = 1 BY <1>4, <1>5, <1>7
    <2> QED BY <2>1, <1>6, <1>7
  <1> QED BY <1>3, <1>4, <1>5, <1>7 DEF SetCount

\* The same, as a type.
LEMMA SetCountType ==
    ASSUME NEW o \in Op
    PROVE  \A T \in SUBSET Msg : SetCount(o, T) \in Nat
  <1> TAKE T \in SUBSET Msg
  <1> QED BY SetCounts

\* Adding a message to a set adds at most one for its operation.
LEMMA SetAdd ==
    ASSUME NEW o \in Op, NEW T \in SUBSET Msg, NEW x \in Msg
    PROVE  /\ SetCount(o, T \cup {x}) <= SetCount(o, T) + Ind(o, x)
           /\ x \notin T => SetCount(o, T \cup {x}) = SetCount(o, T) + Ind(o, x)
  <1> DEFINE A == {y \in T : y.op = o}
             B == {y \in T \cup {x} : y.op = o}
  <1>1. IsFiniteSet(A) /\ Cardinality(A) \in Nat BY SetCounts, FS_CardinalityType
  <1>2. Cardinality(A \cup {x}) = IF x \in A THEN Cardinality(A) ELSE Cardinality(A) + 1
    BY <1>1, FS_AddElement
  <1>3. Ind(o, x) = IF x.op = o THEN 1 ELSE 0 BY AckIsNone DEF Nl
  <1>4. CASE x.op = o
    <2>1. B = A \cup {x} BY <1>4
    <2>2. x \notin T => x \notin A OBVIOUS
    <2>3. SetCount(o, T) = Cardinality(A) /\ SetCount(o, T \cup {x}) = Cardinality(B)
      BY DEF SetCount
    <2> HIDE DEF A, B
    <2> QED BY <1>1, <1>2, <1>3, <1>4, <2>1, <2>2, <2>3
  <1>5. CASE x.op # o
    <2>1. B = A BY <1>5
    <2>2. SetCount(o, T) = Cardinality(A) /\ SetCount(o, T \cup {x}) = Cardinality(B)
      BY DEF SetCount
    <2> HIDE DEF A, B
    <2> QED BY <1>1, <1>3, <1>5, <2>1, <2>2
  <1> QED BY <1>4, <1>5

\* Removing takes one away from the count of the operation.
LEMMA SetRemove ==
    ASSUME NEW o \in Op, NEW T \in SUBSET Msg, NEW x \in T
    PROVE  SetCount(o, T \ {x}) = SetCount(o, T) - Ind(o, x)
  <1> DEFINE A == {y \in T : y.op = o}
             B == {y \in T \ {x} : y.op = o}
  <1>1. IsFiniteSet(A) /\ Cardinality(A) \in Nat BY SetCounts, FS_CardinalityType
  <1>2. Cardinality(A \ {x}) = IF x \in A THEN Cardinality(A) - 1 ELSE Cardinality(A)
    BY <1>1, FS_RemoveElement
  <1>3. Ind(o, x) = IF x.op = o THEN 1 ELSE 0 BY AckIsNone DEF Nl
  <1>4. B = A \ {x} OBVIOUS
  <1>5. x \in A <=> x.op = o OBVIOUS
  <1>6. Cardinality(B) = Cardinality(A) - Ind(o, x)
    <2> HIDE DEF A, B
    <2> QED BY <1>1, <1>2, <1>3, <1>4, <1>5
  <1> QED BY <1>6 DEF SetCount

\* The number of an operation's messages in the daemons' hands.
LEMMA HandCounts ==
    ASSUME NEW o \in Op, NEW h
    PROVE  HandCount(o, h) = Ind(o, h[C]) + Ind(o, h[S])
  <1> DEFINE A == {m \in Machine : h[m] # None /\ h[m].op = o}
  <1>1. Cardinality({}) = 0 BY FS_EmptySet
  <1>2. IsFiniteSet({C}) /\ Cardinality({C}) = 1 /\ Cardinality({S}) = 1 BY FS_Singleton
  <1>3. Cardinality({C} \cup {S}) = 2
    <2>1. C # S BY TwoMachines
    <2>2. S \notin {C} BY <2>1
    <2> QED BY <1>2, <2>2, FS_AddElement
  <1>4. CASE Ind(o, h[C]) = 1 /\ Ind(o, h[S]) = 1
    <2>1. A = {C} \cup {S} BY <1>4, TwoMachines DEF Ind
    <2> QED BY <1>3, <1>4, <2>1 DEF HandCount
  <1>5. CASE Ind(o, h[C]) = 1 /\ Ind(o, h[S]) = 0
    <2>1. A = {C} BY <1>5, TwoMachines DEF Ind
    <2> QED BY <1>2, <1>5, <2>1 DEF HandCount
  <1>6. CASE Ind(o, h[C]) = 0 /\ Ind(o, h[S]) = 1
    <2>1. A = {S} BY <1>6, TwoMachines DEF Ind
    <2> QED BY <1>2, <1>6, <2>1 DEF HandCount
  <1>7. CASE Ind(o, h[C]) = 0 /\ Ind(o, h[S]) = 0
    <2>1. A = {} BY <1>7, TwoMachines DEF Ind
    <2> QED BY <1>1, <1>7, <2>1 DEF HandCount
  <1> QED BY <1>4, <1>5, <1>6, <1>7 DEF Ind

-----------------------------------------------------------------------------
(* The same for both machines together *)

\* Sequences of messages are sequences of what the netlink socket carries.
LEMMA SeqMsg == \A q \in Seq(Msg) : q \in Seq(Nl)
  BY DEF Nl

\* All counts are numbers.
LEMMA SumTypes ==
    ASSUME NEW o \in Op
    PROVE  /\ \A x : Ind(o, x) \in 0 .. 1
           /\ \A f \in [Machine -> Seq(Nl)] : QSum(o, f) \in Nat
           /\ \A f \in [Machine -> SUBSET Msg] : SSum(o, f) \in Nat
           /\ \A h : HandCount(o, h) \in Nat
  <1>1. \A x : Ind(o, x) \in 0 .. 1 BY DEF Ind
  <1>2. \A f \in [Machine -> Seq(Nl)] : QSum(o, f) \in Nat
    <2> TAKE f \in [Machine -> Seq(Nl)]
    <2>1. f[C] \in Seq(Nl) /\ f[S] \in Seq(Nl) BY TwoMachines
    <2>2. InQueue(o, f[C]) \in Nat /\ InQueue(o, f[S]) \in Nat BY <2>1, QueueCount
    <2> QED BY <2>2 DEF QSum
  <1>3. \A f \in [Machine -> SUBSET Msg] : SSum(o, f) \in Nat
    <2> TAKE f \in [Machine -> SUBSET Msg]
    <2>1. f[C] \in SUBSET Msg /\ f[S] \in SUBSET Msg BY TwoMachines
    <2>2. SetCount(o, f[C]) \in Nat /\ SetCount(o, f[S]) \in Nat BY <2>1, SetCountType
    <2> QED BY <2>2 DEF SSum
  <1>4. \A h : HandCount(o, h) \in Nat BY <1>1, HandCounts
  <1> QED BY <1>1, <1>2, <1>3, <1>4

\* Sending a message adds one for its operation.
LEMMA QSumPut ==
    ASSUME NEW o \in Op, NEW f \in [Machine -> Seq(Nl)], NEW m \in Machine, NEW x \in Nl
    PROVE  QSum(o, [f EXCEPT ![m] = Append(f[m], x)]) = QSum(o, f) + Ind(o, x)
  <1>1. InQueue(o, Append(f[m], x)) = InQueue(o, f[m]) + Ind(o, x) BY QueueAppend
  <1>2. \A k \in Machine : InQueue(o, f[k]) \in Nat BY QueueCount
  <1>3. Ind(o, x) \in Nat BY DEF Ind
  <1> QED BY <1>1, <1>2, <1>3, TwoMachines DEF QSum

\* Receiving the first message of a socket takes its operation's one away.
LEMMA QSumTake ==
    ASSUME NEW o \in Op, NEW f \in [Machine -> Seq(Nl)], NEW m \in Machine, f[m] # << >>
    PROVE  QSum(o, [f EXCEPT ![m] = Tail(f[m])]) = QSum(o, f) - Ind(o, Head(f[m]))
  <1>1. InQueue(o, Tail(f[m])) = InQueue(o, f[m]) - Ind(o, Head(f[m])) BY QueueTail
  <1>2. \A k \in Machine : InQueue(o, f[k]) \in Nat BY QueueCount
  <1>3. Ind(o, Head(f[m])) \in Nat BY DEF Ind
  <1> QED BY <1>1, <1>2, <1>3, TwoMachines DEF QSum

\* A socket that is closed loses what it held.
LEMMA QSumDrop ==
    ASSUME NEW o \in Op, NEW f \in [Machine -> Seq(Nl)], NEW m \in Machine
    PROVE  QSum(o, [f EXCEPT ![m] = << >>]) <= QSum(o, f)
  <1>1. InQueue(o, << >>) = 0 BY FS_EmptySet DEF InQueue
  <1>2. \A k \in Machine : InQueue(o, f[k]) \in Nat BY QueueCount
  <1> QED BY <1>1, <1>2, TwoMachines DEF QSum

\* A thread started for a message adds one, if there was none for it.
LEMMA SSumAdd ==
    ASSUME NEW o \in Op, NEW f \in [Machine -> SUBSET Msg], NEW m \in Machine, NEW x \in Msg
    PROVE  /\ SSum(o, [f EXCEPT ![m] = f[m] \cup {x}]) <= SSum(o, f) + Ind(o, x)
           /\ x \notin f[m]
              => SSum(o, [f EXCEPT ![m] = f[m] \cup {x}]) = SSum(o, f) + Ind(o, x)
  <1>1. /\ SetCount(o, f[m] \cup {x}) <= SetCount(o, f[m]) + Ind(o, x)
        /\ x \notin f[m] => SetCount(o, f[m] \cup {x}) = SetCount(o, f[m]) + Ind(o, x)
    BY SetAdd
  <1>2. \A k \in Machine : SetCount(o, f[k]) \in Nat BY SetCounts
  <1>3. Ind(o, x) \in Nat BY DEF Ind
  <1>4. SetCount(o, f[m] \cup {x}) \in Nat
    <2>1. f[m] \cup {x} \in SUBSET Msg OBVIOUS
    <2> QED BY <2>1, SetCountType
  <1> QED BY <1>1, <1>2, <1>3, <1>4, TwoMachines DEF SSum

\* A thread that ends takes its operation's one away.
LEMMA SSumRemove ==
    ASSUME NEW o \in Op, NEW f \in [Machine -> SUBSET Msg], NEW m \in Machine, NEW x \in f[m]
    PROVE  SSum(o, [f EXCEPT ![m] = f[m] \ {x}]) = SSum(o, f) - Ind(o, x)
  <1>1. SetCount(o, f[m] \ {x}) = SetCount(o, f[m]) - Ind(o, x) BY SetRemove
  <1>2. \A k \in Machine : SetCount(o, f[k]) \in Nat BY SetCounts
  <1>3. Ind(o, x) \in Nat BY DEF Ind
  <1> QED BY <1>1, <1>2, <1>3, TwoMachines DEF SSum

\* A daemon has another message in its hand.
LEMMA HandSet ==
    ASSUME NEW o \in Op, NEW h \in [Machine -> Msg \cup {None}], NEW m \in Machine, NEW x
    PROVE  HandCount(o, [h EXCEPT ![m] = x]) = HandCount(o, h) - Ind(o, h[m]) + Ind(o, x)
  <1>1. \A y : Ind(o, y) \in Nat BY SumTypes
  <1>2. HandCount(o, h) = Ind(o, h[C]) + Ind(o, h[S]) BY HandCounts
  <1>3. PICK g : g = [h EXCEPT ![m] = x] OBVIOUS
  <1>4. HandCount(o, g) = Ind(o, g[C]) + Ind(o, g[S]) BY HandCounts
  <1>5. g[m] = x /\ \A k \in Machine \ {m} : g[k] = h[k] BY <1>3
  <1>6. CASE m = C BY <1>1, <1>2, <1>3, <1>4, <1>5, <1>6, TwoMachines
  <1>7. CASE m = S BY <1>1, <1>2, <1>3, <1>4, <1>5, <1>7, TwoMachines
  <1> QED BY <1>6, <1>7, TwoMachines

\* Copies is the sum of the counts.
LEMMA CopiesSum ==
    ASSUME NEW o
    PROVE  Copies(o) = InQueue(o, nlq[C]) + InQueue(o, nlq[S])
                       + InQueue(o, tcp[C]) + InQueue(o, tcp[S]) + HandCount(o, hand)
                       + SetCount(o, woken[C]) + SetCount(o, woken[S]) + SetCount(o, replies)
  BY DEF Copies, HandCount, SetCount

-----------------------------------------------------------------------------
(* Types *)

\* What the elements of a queue become when it is written and read.
LEMMA QueueElems ==
    ASSUME NEW q \in Seq(Nl)
    PROVE  /\ \A x \in Nl : Elems(Append(q, x)) = Elems(q) \cup {x}
           /\ q # << >> => Elems(Tail(q)) \subseteq Elems(q) /\ Head(q) \in Elems(q)
           /\ Elems(<< >>) = {}
           /\ Elems(q) \subseteq Nl
  <1>1. ASSUME NEW x \in Nl PROVE Elems(Append(q, x)) = Elems(q) \cup {x}
    <2>1. /\ Len(Append(q, x)) = Len(q) + 1 /\ Append(q, x)[Len(q) + 1] = x
          /\ \A i \in 1 .. Len(q) : Append(q, x)[i] = q[i]
      BY AppendProperties
    <2>2. Len(q) \in Nat OBVIOUS
    <2>3. 1 .. (Len(q) + 1) = (1 .. Len(q)) \cup {Len(q) + 1} BY <2>2
    <2> QED BY <2>1, <2>3 DEF Elems
  <1>2. ASSUME q # << >> PROVE Elems(Tail(q)) \subseteq Elems(q) /\ Head(q) \in Elems(q)
    <2>1. /\ Len(Tail(q)) = Len(q) - 1
          /\ \A i \in 1 .. Len(Tail(q)) : Tail(q)[i] = q[i + 1]
      BY <1>2, HeadTailProperties
    <2>2. Len(q) \in Nat \ {0} /\ Head(q) = q[1] BY <1>2
    <2>3. \A i \in 1 .. Len(Tail(q)) : i + 1 \in 1 .. Len(q) BY <2>1, <2>2
    <2>4. 1 \in 1 .. Len(q) BY <2>2
    <2> QED BY <2>1, <2>2, <2>3, <2>4 DEF Elems
  <1>3. Elems(<< >>) = {} BY DEF Elems
  <1>4. Elems(q) \subseteq Nl BY DEF Elems
  <1> QED BY <1>1, <1>2, <1>3, <1>4

\* The queues of both kinds hold what a netlink socket can carry.
LEMMA Queues ==
    ASSUME TypeOK
    PROVE  /\ nlq \in [Machine -> Seq(Nl)] /\ tcp \in [Machine -> Seq(Nl)]
           /\ \A m \in Machine : tcp[m] # << >> => Head(tcp[m]) \in Msg
           /\ \A m \in Machine : nlq[m] # << >> => Head(nlq[m]) \in Nl
           /\ \A m \in Machine : nlq[m] # << >> /\ Head(nlq[m]) # Ack => Head(nlq[m]) \in Msg
  <1>1. nlq \in [Machine -> Seq(Nl)] BY DEF TypeOK, Nl
  <1>2. tcp \in [Machine -> Seq(Msg)] BY DEF TypeOK
  <1>3. tcp \in [Machine -> Seq(Nl)] BY <1>2, SeqMsg
  <1>4. \A m \in Machine : tcp[m] # << >> => Head(tcp[m]) \in Msg BY <1>2
  <1>5. \A m \in Machine : nlq[m] # << >> => Head(nlq[m]) \in Nl BY <1>1
  <1> QED BY <1>1, <1>3, <1>4, <1>5 DEF Nl

\* Every step keeps the types.  That the device is operated once for an
\* operation needs that a request is not decided on yet.
LEMMA TypeStep ==
    ASSUME ProxyInv, Next
    PROVE  TypeOK'
  <1> USE DEF ProxyInv, TypeOK, DaemonPc, daemonVars, opVars, DaemonAt
  <1>0. TypeOK /\ StepInv OBVIOUS
  <1>1. ASSUME NEW o \in Op, SendRequest(o) PROVE TypeOK'
    <2>1. [op |-> o, res |-> "fail"] \in Msg BY DEF Msg
    <2>2. nlq' \in [Machine -> Seq(Msg \cup {Ack})]
      BY <1>1, <2>1, TwoMachines DEF SendRequest, Unicast
    <2>3. called' \in SUBSET Op BY <1>1 DEF SendRequest
    <2> QED BY <1>1, <2>2, <2>3 DEF SendRequest
  <1>2. ASSUME NEW m \in Machine, DaemonStep(m) PROVE TypeOK'
    <2>1. CASE Select(m) BY <2>1 DEF Select, RemoteReady
    <2>2. CASE HandleNetlink(m)
      <3>1. nlq[m] # << >> /\ Head(nlq[m]) \in Msg BY <2>2, Queues DEF HandleNetlink, StepInv
      <3>2. nlq' \in [Machine -> Seq(Msg \cup {Ack})]
        BY <2>2, <3>1 DEF HandleNetlink, NetlinkRecv
      <3>3. tcp' \in [Machine -> Seq(Msg)]
        <4>1. Append(tcp[Peer(m)], Head(nlq[m])) \in Seq(Msg) BY <3>1, TwoMachines
        <4>2. \/ tcp' = [tcp EXCEPT ![Peer(m)] = Append(tcp[Peer(m)], Head(nlq[m]))]
              \/ tcp' = tcp
          BY <2>2 DEF HandleNetlink, ConnSend
        <4> QED BY <4>1, <4>2
      <3>4. dpc' \in [Machine -> DaemonPc] BY <2>2 DEF HandleNetlink, AfterNetlink
      <3> QED BY <2>2, <3>2, <3>3, <3>4 DEF HandleNetlink
    <2>3. CASE HandleNetlinkOther(m)
      <3>1. nlq[m] # << >> BY <2>3 DEF HandleNetlinkOther, StepInv
      <3>2. nlq' \in [Machine -> Seq(Msg \cup {Ack})]
        BY <2>3, <3>1 DEF HandleNetlinkOther, NetlinkRecv
      <3> QED BY <2>3, <3>2 DEF HandleNetlinkOther
    <2>4. CASE HandleRemote(m)
      <3>1. tcp[m] # << >> /\ Head(tcp[m]) \in Msg BY <2>4, Queues DEF HandleRemote, ConnRecv
      <3>2. tcp' \in [Machine -> Seq(Msg)] BY <2>4, <3>1 DEF HandleRemote, ConnRecv
      <3>3. hand' \in [Machine -> Msg \cup {None}] BY <2>4, <3>1 DEF HandleRemote
      <3>4. dpc' \in [Machine -> DaemonPc] BY <2>4 DEF HandleRemote
      <3> QED BY <2>4, <3>2, <3>3, <3>4 DEF HandleRemote
    <2>5. CASE HandleRemoteLost(m) BY <2>5 DEF HandleRemoteLost
    <2>6. CASE KernelRecv(m)
      <3>1. hand[m] \in Msg BY <2>6 DEF KernelRecv, StepInv
      <3>2. woken' \in [Machine -> SUBSET Msg] BY <2>6, <3>1 DEF KernelRecv
      <3>3. hand' \in [Machine -> Msg \cup {None}] BY <2>6 DEF KernelRecv
      <3>4. nllock' \in [Machine -> BOOLEAN] BY <2>6 DEF KernelRecv
      <3>5. dpc' \in [Machine -> DaemonPc] BY <2>6 DEF KernelRecv
      <3> QED BY <2>6, <3>2, <3>3, <3>4, <3>5 DEF KernelRecv
    <2>7. CASE KernelRecvNoDevice(m) BY <2>7 DEF KernelRecvNoDevice
    <2>8. CASE KernelAck(m)
      <3>1. nlq' \in [Machine -> Seq(Msg \cup {Ack})] BY <2>8 DEF KernelAck, Unicast
      <3> QED BY <2>8, <3>1 DEF KernelAck
    <2>9. CASE AwaitAck(m)
      <3>1. nlq' \in [Machine -> Seq(Msg \cup {Ack})] BY <2>9 DEF AwaitAck, NetlinkRecv
      <3> QED BY <2>9, <3>1 DEF AwaitAck
    <2>10. CASE Unregister(m)
      <3>1. nlq' \in [Machine -> Seq(Msg \cup {Ack})] BY <2>10 DEF Unregister, Unicast
      <3> QED BY <2>10, <3>1 DEF Unregister
    <2>11. CASE Exit(m)
      <3>1. nlq' \in [Machine -> Seq(Msg \cup {Ack})] BY <2>11 DEF Exit
      <3> QED BY <2>11, <3>1 DEF Exit
    <2> QED BY <1>2, <2>1, <2>2, <2>3, <2>4, <2>5, <2>6, <2>7, <2>8, <2>9, <2>10, <2>11
            DEF DaemonStep
  <1>3. ASSUME NEW x \in woken[S], Execute(x) PROVE TypeOK'
    <2>1. x \in Msg /\ x.op \in Op /\ x.res \in {"ok", "fail"} BY TwoMachines, AckIsNone
    <2>2. x \in Outbound BY TwoMachines, AckIsNone, <2>1 DEF Outbound, Travelling
    <2>3. runs[x.op] = 0 BY <2>1, <2>2 DEF PathInv, IsRequest, RunsInv
    <2>4. \A v \in {"ok", "fail"} : [x EXCEPT !.res = v] \in Msg BY <2>1 DEF Msg
    <2>5. replies' \in SUBSET Msg 
      <3>1. \/ \E v \in {"ok", "fail"} : replies' = replies \cup {[x EXCEPT !.res = v]}
            \/ replies' = replies \cup {x}
        BY <1>3 DEF Execute
      <3>2. replies \in SUBSET Msg OBVIOUS
      <3>3. \E y \in Msg : replies' = replies \cup {y} BY <2>1, <2>4, <3>1, Zenon
      <3> QED BY <3>2, <3>3
    <2>6. runs' \in [Op -> 0 .. 1] 
      <3>1. runs' = runs \/ runs' = [runs EXCEPT ![x.op] = runs[x.op] + 1]
        BY <1>3 DEF Execute
      <3> QED BY <2>1, <2>3, <3>1
    <2>7. verdict' \in [Op -> {"none", "ok", "fail"}] BY <1>3, <2>1 DEF Execute
    <2>8. woken' \in [Machine -> SUBSET Msg] BY <1>3 DEF Execute
    <2> QED BY <1>3, <2>5, <2>6, <2>7, <2>8 DEF Execute
  <1>4. ASSUME NEW x \in replies, SendReply(x) PROVE TypeOK'
    <2>1. x \in Msg OBVIOUS
    <2>2. nlq' \in [Machine -> Seq(Msg \cup {Ack})]
      BY <1>4, <2>1, TwoMachines DEF SendReply, Unicast
    <2>3. replies' \in SUBSET Msg BY <1>4 DEF SendReply
    <2> QED BY <1>4, <2>2, <2>3 DEF SendReply
  <1>5. ASSUME NEW x \in woken[C], Complete(x) PROVE TypeOK'
    <2>1. x \in Msg /\ x.op \in Op /\ x.res \in {"ok", "fail"} BY TwoMachines, AckIsNone
    <2>2. woken' \in [Machine -> SUBSET Msg] BY <1>5 DEF Complete
    <2>3. result' \in [Op -> {"none", "ok", "fail"}] BY <1>5, <2>1 DEF Complete
    <2> QED BY <1>5, <2>2, <2>3 DEF Complete
  <1>6. ASSUME NEW m \in Machine, NEW x \in woken[m], GiveUp(m, x) PROVE TypeOK'
    <2>1. woken' \in [Machine -> SUBSET Msg] BY <1>6 DEF GiveUp
    <2> QED BY <1>6, <2>1 DEF GiveUp
  <1>7. CASE DestroyDummy BY <1>7 DEF DestroyDummy
  <1>8. ASSUME NEW o \in UnderWay, FreeQueue(o) PROVE TypeOK'
    BY <1>8 DEF FreeQueue, UnderWay
  <1>9. CASE ConnectionLost
    <2>1. tcp' \in [Machine -> Seq(Msg)] BY <1>9 DEF ConnectionLost
    <2> QED BY <1>9, <2>1 DEF ConnectionLost
  <1> QED
    BY <1>1, <1>2, <1>3, <1>4, <1>5, <1>6, <1>7, <1>8, <1>9 DEF Next, ThreadStep

-----------------------------------------------------------------------------
(* Where the daemons are, and what was operated *)

\* A queue that was written to is not empty.
LEMMA AppendSome == \A q \in Seq(Nl) : \A x \in Nl : Append(q, x) # << >>
  <1> TAKE q \in Seq(Nl)
  <1> TAKE x \in Nl
  <1>1. Len(Append(q, x)) = Len(q) + 1 /\ Len(q) \in Nat BY AppendProperties
  <1> QED BY <1>1

\* A daemon that handles a message has it: nobody else reads its socket.
LEMMA StepStep ==
    ASSUME ProxyInv, Next
    PROVE  StepInv'
  <1> USE DEF ProxyInv, TypeOK, daemonVars, opVars, DaemonAt
  <1>0. \A m \in Machine, x \in Nl : Append(nlq[m], x) # << >>
    <2> TAKE m \in Machine, x \in Nl
    <2>1. nlq[m] \in Seq(Nl) BY Queues
    <2> QED BY <2>1, AppendSome
  <1>1. ASSUME NEW m \in Machine, NEW x \in Nl, Unicast(m, x)
        PROVE  \A k \in Machine : nlq[k] # << >> => nlq'[k] # << >>
    BY <1>0, <1>1 DEF Unicast
  <1>2. ASSUME NEW o \in Op, SendRequest(o) PROVE StepInv'
    <2>1. [op |-> o, res |-> "fail"] \in Nl BY DEF Msg, Nl
    <2> QED BY <1>1, <1>2, <2>1, TwoMachines DEF SendRequest, StepInv
  <1>3. ASSUME NEW m \in Machine, DaemonStep(m) PROVE StepInv'
    <2>1. CASE Select(m) BY <2>1 DEF Select, RemoteReady, StepInv
    <2>2. CASE HandleNetlink(m)
      BY <2>2 DEF HandleNetlink, NetlinkRecv, AfterNetlink, StepInv
    <2>3. CASE HandleNetlinkOther(m)
      BY <2>3 DEF HandleNetlinkOther, NetlinkRecv, StepInv
    <2>4. CASE HandleRemote(m)
      <3>1. Head(tcp[m]) # None BY <2>4, Queues DEF HandleRemote, ConnRecv
      <3> QED BY <2>4, <3>1 DEF HandleRemote, StepInv
    <2>5. CASE HandleRemoteLost(m) BY <2>5 DEF HandleRemoteLost, StepInv
    <2>6. CASE KernelRecv(m) BY <2>6 DEF KernelRecv, StepInv
    <2>7. CASE KernelRecvNoDevice(m) BY <2>7 DEF KernelRecvNoDevice, StepInv
    <2>8. CASE KernelAck(m)
      <3>1. Unicast(m, Ack) /\ dpc' = [dpc EXCEPT ![m] = "ack"] /\ hand' = hand
        BY <2>8 DEF KernelAck
      <3>2. \A k \in Machine : nlq[k] # << >> => nlq'[k] # << >> BY <1>1, <3>1 DEF Nl
      <3> QED BY <3>1, <3>2 DEF StepInv
    <2>9. CASE AwaitAck(m) BY <2>9 DEF AwaitAck, NetlinkRecv, StepInv
    <2>10. CASE Unregister(m)
      <3>1. Unicast(m, Ack) /\ dpc' = [dpc EXCEPT ![m] = "exit"] /\ hand' = hand
        BY <2>10 DEF Unregister
      <3>2. \A k \in Machine : nlq[k] # << >> => nlq'[k] # << >> BY <1>1, <3>1 DEF Nl
      <3> QED BY <3>1, <3>2 DEF StepInv
    <2>11. CASE Exit(m) BY <2>11 DEF Exit, StepInv
    <2> QED BY <1>3, <2>1, <2>2, <2>3, <2>4, <2>5, <2>6, <2>7, <2>8, <2>9, <2>10, <2>11
            DEF DaemonStep
  <1>4. ASSUME NEW x \in replies, SendReply(x) PROVE StepInv'
    <2>1. x \in Nl BY DEF Nl
    <2> QED BY <1>1, <1>4, <2>1, TwoMachines DEF SendReply, StepInv
  <1>5. ASSUME UNCHANGED <<dpc, hand, nlq>> PROVE StepInv'
    BY <1>5 DEF StepInv
  <1>6. CASE DestroyDummy BY <1>6 DEF DestroyDummy, StepInv
  <1> QED
    BY <1>2, <1>3, <1>4, <1>5, <1>6
    DEF Next, ThreadStep, Execute, Complete, GiveUp, FreeQueue, ConnectionLost

\* The device is operated in the step that decides on the operation.
LEMMA RunsStep ==
    ASSUME ProxyInv, Next
    PROVE  RunsInv' /\ VerdictInv'
  <1> USE DEF ProxyInv, TypeOK
  <1>1. ASSUME NEW x \in woken[S], Execute(x) PROVE RunsInv' /\ VerdictInv'
    <2>1. x \in Msg /\ x.op \in Op /\ x.res \in {"ok", "fail"} BY TwoMachines, AckIsNone
    <2>2. \E v \in {"ok", "fail"} : verdict' = [verdict EXCEPT ![x.op] = v]
      BY <1>1, <2>1 DEF Execute
    <2>3. runs' = runs \/ runs' = [runs EXCEPT ![x.op] = runs[x.op] + 1]
      BY <1>1 DEF Execute
    <2>4. RunsInv' BY <2>1, <2>2, <2>3 DEF RunsInv
    <2>5. x \in Outbound BY <2>1, TwoMachines, AckIsNone DEF Outbound, Travelling
    <2>6. x.op \in called /\ called' = called BY <1>1, <2>5 DEF PathInv, IsRequest, Execute
    <2>7. VerdictInv' BY <2>1, <2>2, <2>6 DEF VerdictInv
    <2> QED BY <2>4, <2>7
  <1>2. ASSUME UNCHANGED <<runs, verdict>>, called \subseteq called'
        PROVE  RunsInv' /\ VerdictInv'
    BY <1>2 DEF RunsInv, VerdictInv
  <1> QED
    BY <1>1, <1>2
    DEF Next, ThreadStep, DaemonStep, SendRequest, Select, HandleNetlink,
        HandleNetlinkOther, HandleRemote, HandleRemoteLost, KernelRecv,
        KernelRecvNoDevice, KernelAck, AwaitAck, Unregister, Exit, SendReply, Complete,
        GiveUp, DestroyDummy, FreeQueue, ConnectionLost, opVars

-----------------------------------------------------------------------------
(* What each action does to the number of copies *)

\* Copies as a sum of numbers, in both states of a step.
Total(o) == QSum(o, nlq) + QSum(o, tcp) + HandCount(o, hand) + SSum(o, woken)
            + SetCount(o, replies)

\* The total is the number of copies, and its parts are numbers.
LEMMA CopiesTotal ==
    ASSUME TypeOK, NEW o \in Op
    PROVE  /\ Copies(o) = Total(o)
           /\ QSum(o, nlq) \in Nat /\ QSum(o, tcp) \in Nat /\ HandCount(o, hand) \in Nat
           /\ SSum(o, woken) \in Nat /\ SetCount(o, replies) \in Nat
  <1>1. /\ nlq \in [Machine -> Seq(Nl)] /\ tcp \in [Machine -> Seq(Nl)]
        /\ woken \in [Machine -> SUBSET Msg] /\ replies \in SUBSET Msg
    BY Queues DEF TypeOK
  <1>2. Copies(o) = Total(o)
    <2>1. \A m \in Machine : InQueue(o, nlq[m]) \in Nat /\ InQueue(o, tcp[m]) \in Nat
      BY <1>1, QueueCount
    <2>2. \A m \in Machine : SetCount(o, woken[m]) \in Nat BY <1>1, SetCountType
    <2>3. HandCount(o, hand) \in Nat /\ SetCount(o, replies) \in Nat
      BY <1>1, SumTypes, SetCountType
    <2> QED BY <2>1, <2>2, <2>3, CopiesSum, TwoMachines DEF Total, QSum, SSum
  <1> QED BY <1>1, <1>2, SumTypes, SetCountType

\* The same in the next state.
LEMMA CopiesTotalNext ==
    ASSUME TypeOK', NEW o \in Op
    PROVE  Copies(o)' = Total(o)'
  <1>1. /\ nlq' \in [Machine -> Seq(Nl)] /\ tcp' \in [Machine -> Seq(Msg)]
        /\ woken' \in [Machine -> SUBSET Msg] /\ replies' \in SUBSET Msg
    BY DEF TypeOK, Nl
  <1>2. tcp' \in [Machine -> Seq(Nl)] BY <1>1, SeqMsg
  <1>3. Copies(o)'
        = InQueue(o, nlq'[C]) + InQueue(o, nlq'[S]) + InQueue(o, tcp'[C]) + InQueue(o, tcp'[S])
          + HandCount(o, hand') + SetCount(o, woken'[C]) + SetCount(o, woken'[S])
          + SetCount(o, replies')
    BY DEF Copies, HandCount, SetCount
  <1>4. Total(o)' = QSum(o, nlq') + QSum(o, tcp') + HandCount(o, hand') + SSum(o, woken')
                    + SetCount(o, replies')
    BY DEF Total
  <1>5. \A m \in Machine : InQueue(o, nlq'[m]) \in Nat /\ InQueue(o, tcp'[m]) \in Nat
    BY <1>1, <1>2, QueueCount
  <1>6. \A m \in Machine : SetCount(o, woken'[m]) \in Nat BY <1>1, SetCountType
  <1>7. HandCount(o, hand') \in Nat /\ SetCount(o, replies') \in Nat
    BY <1>1, SumTypes, SetCountType
  <1> QED BY <1>3, <1>4, <1>5, <1>6, <1>7, TwoMachines DEF QSum, SSum

\* nlmsg_unicast adds a message if the daemon is there.
LEMMA UnicastTotal ==
    ASSUME TypeOK, NEW o \in Op, NEW m \in Machine, NEW x \in Nl, Unicast(m, x)
    PROVE  QSum(o, nlq') = IF Alive(m) THEN QSum(o, nlq) + Ind(o, x) ELSE QSum(o, nlq)
  <1>1. nlq \in [Machine -> Seq(Nl)] BY Queues
  <1>2. CASE Alive(m)
    <2>1. nlq' = [nlq EXCEPT ![m] = Append(nlq[m], x)] BY <1>2 DEF Unicast
    <2>2. QSum(o, nlq') = QSum(o, nlq) + Ind(o, x) BY <1>1, <2>1, QSumPut
    <2> QED BY <1>2, <2>2
  <1>3. CASE ~Alive(m) BY <1>3 DEF Unicast
  <1> QED BY <1>2, <1>3

\* The handlers of proxy_loop: a message is passed on, or lost with the
\* connection.
LEMMA LoopTotal ==
    ASSUME TypeOK, StepInv, NEW o \in Op, NEW m \in Machine
    PROVE  /\ Select(m) \/ HandleRemoteLost(m) => Total(o)' = Total(o)
           /\ HandleNetlink(m) => /\ conn => Total(o)' = Total(o)
                                  /\ Total(o)' <= Total(o)
           /\ HandleNetlinkOther(m) => Total(o)' = Total(o)
           /\ HandleRemote(m) => Total(o)' = Total(o) - Ind(o, hand[m])
  <1> USE DEF daemonVars, opVars, Total
  <1>0. /\ nlq \in [Machine -> Seq(Nl)] /\ tcp \in [Machine -> Seq(Nl)]
        /\ hand \in [Machine -> Msg \cup {None}]
    BY Queues DEF TypeOK
  <1>a. /\ QSum(o, nlq) \in Nat /\ QSum(o, tcp) \in Nat /\ HandCount(o, hand) \in Nat
        /\ SSum(o, woken) \in Nat /\ SetCount(o, replies) \in Nat
    BY CopiesTotal
  <1>b. \A x : Ind(o, x) \in 0 .. 1 BY SumTypes
  <1>1. ASSUME Select(m) \/ HandleRemoteLost(m) PROVE Total(o)' = Total(o)
    BY <1>1 DEF Select, HandleRemoteLost
  <1>2. ASSUME HandleNetlink(m)
        PROVE  (conn => Total(o)' = Total(o)) /\ Total(o)' <= Total(o)
    <2>1. nlq[m] # << >> BY <1>2 DEF HandleNetlink, StepInv
    <2>2. PICK x \in Msg : x = Head(nlq[m]) BY <1>2, <2>1, Queues DEF HandleNetlink
    <2>3. nlq' = [nlq EXCEPT ![m] = Tail(nlq[m])] BY <1>2 DEF HandleNetlink, NetlinkRecv
    <2>4. QSum(o, nlq') = QSum(o, nlq) - Ind(o, x) BY <1>0, <2>1, <2>2, <2>3, QSumTake
    <2>5. \/ conn /\ tcp' = [tcp EXCEPT ![Peer(m)] = Append(tcp[Peer(m)], x)]
          \/ ~conn /\ tcp' = tcp
      BY <1>2, <2>2 DEF HandleNetlink, ConnSend
    <2>6. UNCHANGED <<hand, woken, replies>> BY <1>2 DEF HandleNetlink
    <2>7. ASSUME tcp' = [tcp EXCEPT ![Peer(m)] = Append(tcp[Peer(m)], x)]
          PROVE  QSum(o, tcp') = QSum(o, tcp) + Ind(o, x)
      <3>1. Peer(m) \in Machine /\ x \in Nl BY TwoMachines DEF Nl
      <3> QED BY <1>0, <2>7, <3>1, QSumPut
    <2>8. Ind(o, x) \in 0 .. 1 BY <1>b
    <2>9. CASE conn
      <3>1. QSum(o, tcp') = QSum(o, tcp) + Ind(o, x) BY <2>5, <2>7, <2>9
      <3> QED BY <1>a, <2>4, <2>6, <2>8, <3>1
    <2>10. CASE ~conn
      <3>1. tcp' = tcp BY <2>5, <2>10
      <3> QED BY <1>a, <2>4, <2>6, <2>8, <2>10, <3>1
    <2> QED BY <2>9, <2>10
  <1>3. ASSUME HandleNetlinkOther(m) PROVE Total(o)' = Total(o)
    <2>1. nlq[m] # << >> BY <1>3 DEF HandleNetlinkOther, StepInv
    <2>2. nlq' = [nlq EXCEPT ![m] = Tail(nlq[m])] BY <1>3 DEF HandleNetlinkOther, NetlinkRecv
    <2>3. Ind(o, Head(nlq[m])) = 0 BY <1>3, AckIsNone DEF HandleNetlinkOther
    <2>4. QSum(o, nlq') = QSum(o, nlq) - Ind(o, Head(nlq[m]))
      BY <1>0, <2>1, <2>2, QSumTake
    <2>5. UNCHANGED <<tcp, hand, woken, replies>> BY <1>3 DEF HandleNetlinkOther
    <2> QED BY <1>a, <2>3, <2>4, <2>5
  <1>4. ASSUME HandleRemote(m) PROVE Total(o)' = Total(o) - Ind(o, hand[m])
    <2>1. tcp[m] # << >> /\ tcp' = [tcp EXCEPT ![m] = Tail(tcp[m])]
      BY <1>4 DEF HandleRemote, ConnRecv
    <2>2. hand' = [hand EXCEPT ![m] = Head(tcp[m])] BY <1>4 DEF HandleRemote
    <2>3. QSum(o, tcp') = QSum(o, tcp) - Ind(o, Head(tcp[m])) BY <1>0, <2>1, QSumTake
    <2>4. HandCount(o, hand') = HandCount(o, hand) - Ind(o, hand[m]) + Ind(o, Head(tcp[m]))
      BY <1>0, <2>2, HandSet
    <2>5. UNCHANGED <<nlq, woken, replies>> BY <1>4 DEF HandleRemote
    <2> QED BY <1>a, <1>b, <2>3, <2>4, <2>5
  <1> QED BY <1>1, <1>2, <1>3, <1>4

\* netlink_recv and the daemon's wait for its ACK.
LEMMA KernelTotal ==
    ASSUME TypeOK, StepInv, NEW o \in Op, NEW m \in Machine
    PROVE  /\ KernelRecv(m) => /\ hand[m] \notin woken[m] => Total(o)' = Total(o)
                               /\ Total(o)' <= Total(o)
           /\ KernelRecvNoDevice(m) => Total(o)' <= Total(o)
           /\ KernelAck(m) => Total(o)' = Total(o)
           /\ AwaitAck(m) => Total(o)' = Total(o) - Ind(o, Head(nlq[m]))
  <1> USE DEF daemonVars, opVars, Total
  <1>0. /\ nlq \in [Machine -> Seq(Nl)] /\ woken \in [Machine -> SUBSET Msg]
        /\ hand \in [Machine -> Msg \cup {None}]
    BY Queues DEF TypeOK
  <1>a. /\ QSum(o, nlq) \in Nat /\ QSum(o, tcp) \in Nat /\ HandCount(o, hand) \in Nat
        /\ SSum(o, woken) \in Nat /\ SetCount(o, replies) \in Nat
    BY CopiesTotal
  <1>b. \A x : Ind(o, x) \in 0 .. 1 BY SumTypes
  <1>c. ASSUME hand' = [hand EXCEPT ![m] = None]
        PROVE  HandCount(o, hand') = HandCount(o, hand) - Ind(o, hand[m])
    <2>1. HandCount(o, hand') = HandCount(o, hand) - Ind(o, hand[m]) + Ind(o, None)
      BY <1>0, <1>c, HandSet
    <2> QED BY <1>a, <1>b, <2>1, AckIsNone
  <1>1. ASSUME KernelRecv(m)
        PROVE  /\ hand[m] \notin woken[m] => Total(o)' = Total(o)
               /\ Total(o)' <= Total(o)
    <2>1. PICK x \in Msg : x = hand[m] BY <1>0, <1>1 DEF KernelRecv, StepInv
    <2>2. woken' = [woken EXCEPT ![m] = woken[m] \cup {x}] BY <1>1, <2>1 DEF KernelRecv
    <2>3. /\ SSum(o, woken') <= SSum(o, woken) + Ind(o, x)
          /\ x \notin woken[m] => SSum(o, woken') = SSum(o, woken) + Ind(o, x)
      BY <1>0, <2>2, SSumAdd
    <2>4. woken' \in [Machine -> SUBSET Msg] BY <1>0, <2>2
    <2>5. SSum(o, woken') \in Nat BY <2>4, SumTypes
    <2>6. HandCount(o, hand') = HandCount(o, hand) - Ind(o, x)
      BY <1>1, <1>c, <2>1 DEF KernelRecv
    <2>7. UNCHANGED <<nlq, tcp, replies>> BY <1>1 DEF KernelRecv
    <2> QED BY <1>a, <1>b, <2>1, <2>3, <2>5, <2>6, <2>7
  <1>2. ASSUME KernelRecvNoDevice(m) PROVE Total(o)' <= Total(o)
    <2>1. HandCount(o, hand') = HandCount(o, hand) - Ind(o, hand[m])
      BY <1>2, <1>c DEF KernelRecvNoDevice
    <2>2. UNCHANGED <<nlq, tcp, woken, replies>> BY <1>2 DEF KernelRecvNoDevice
    <2> QED BY <1>a, <1>b, <2>1, <2>2
  <1>3. ASSUME KernelAck(m) PROVE Total(o)' = Total(o)
    <2>1. Unicast(m, Ack) /\ Ack \in Nl BY <1>3 DEF KernelAck, Nl
    <2>2. QSum(o, nlq') = QSum(o, nlq) BY <1>a, <2>1, UnicastTotal, AckIsNone
    <2>3. UNCHANGED <<tcp, hand, woken, replies>> BY <1>3 DEF KernelAck
    <2> QED BY <2>2, <2>3
  <1>4. ASSUME AwaitAck(m) PROVE Total(o)' = Total(o) - Ind(o, Head(nlq[m]))
    <2>1. nlq[m] # << >> /\ nlq' = [nlq EXCEPT ![m] = Tail(nlq[m])]
      BY <1>4 DEF AwaitAck, NetlinkRecv
    <2>2. QSum(o, nlq') = QSum(o, nlq) - Ind(o, Head(nlq[m])) BY <1>0, <2>1, QSumTake
    <2>3. UNCHANGED <<tcp, hand, woken, replies>> BY <1>4 DEF AwaitAck
    <2> QED BY <1>a, <1>b, <2>2, <2>3
  <1> QED BY <1>1, <1>2, <1>3, <1>4

\* The end of a daemon and of the connection.
LEMMA EndTotal ==
    ASSUME TypeOK, NEW o \in Op
    PROVE  /\ \A m \in Machine : Unregister(m) => Total(o)' = Total(o)
           /\ \A m \in Machine : Exit(m) => Total(o)' <= Total(o)
           /\ DestroyDummy => Total(o)' = Total(o)
           /\ \A p \in UnderWay : FreeQueue(p) => Total(o)' = Total(o)
           /\ ConnectionLost => Total(o)' <= Total(o)
  <1> USE DEF daemonVars, opVars, Total
  <1>0. nlq \in [Machine -> Seq(Nl)] BY Queues
  <1>a. /\ QSum(o, nlq) \in Nat /\ QSum(o, tcp) \in Nat /\ HandCount(o, hand) \in Nat
        /\ SSum(o, woken) \in Nat /\ SetCount(o, replies) \in Nat
    BY CopiesTotal
  <1>1. ASSUME NEW m \in Machine, Unregister(m) PROVE Total(o)' = Total(o)
    <2>1. Unicast(m, Ack) /\ Ack \in Nl BY <1>1 DEF Unregister, Nl
    <2>2. QSum(o, nlq') = QSum(o, nlq) BY <1>a, <2>1, UnicastTotal, AckIsNone
    <2>3. UNCHANGED <<tcp, hand, woken, replies>> BY <1>1 DEF Unregister
    <2> QED BY <2>2, <2>3
  <1>2. ASSUME NEW m \in Machine, Exit(m) PROVE Total(o)' <= Total(o)
    <2>1. nlq' = [nlq EXCEPT ![m] = << >>] BY <1>2 DEF Exit
    <2>2. QSum(o, nlq') <= QSum(o, nlq) BY <1>0, <2>1, QSumDrop
    <2>3. nlq' \in [Machine -> Seq(Nl)] BY <1>0, <2>1
    <2>4. QSum(o, nlq') \in Nat BY <2>3, SumTypes
    <2>5. UNCHANGED <<tcp, hand, woken, replies>> BY <1>2 DEF Exit
    <2> QED BY <1>a, <2>2, <2>4, <2>5
  <1>3. ASSUME DestroyDummy PROVE Total(o)' = Total(o)
    BY <1>3 DEF DestroyDummy
  <1>4. ASSUME NEW p \in UnderWay, FreeQueue(p) PROVE Total(o)' = Total(o)
    BY <1>4 DEF FreeQueue
  <1>5. ASSUME ConnectionLost PROVE Total(o)' <= Total(o)
    <2>1. tcp' = [m \in Machine |-> << >>] BY <1>5 DEF ConnectionLost
    <2>2. tcp'[C] = << >> /\ tcp'[S] = << >> BY <2>1, TwoMachines
    <2>3. InQueue(o, << >>) = 0 BY FS_EmptySet DEF InQueue
    <2>4. QSum(o, tcp') = 0 BY <2>2, <2>3 DEF QSum
    <2>5. UNCHANGED <<nlq, hand, woken, replies>> BY <1>5 DEF ConnectionLost
    <2> QED BY <1>a, <2>4, <2>5
  <1> QED BY <1>1, <1>2, <1>3, <1>4, <1>5

\* A task sends a request; the threads of fo_recv execute it, send the result,
\* complete the request or give up.
LEMMA ThreadTotal ==
    ASSUME TypeOK, NEW o \in Op
    PROVE  /\ \A p \in Op : SendRequest(p) => Total(o)' = Total(o) + (IF p = o THEN 1 ELSE 0)
           /\ \A x \in woken[S] : Execute(x) =>
                /\ Total(o)' <= Total(o)
                /\ (\A y \in replies : y.op # x.op) => Total(o)' = Total(o)
           /\ \A x \in replies : SendReply(x) => /\ Alive(S) => Total(o)' = Total(o)
                                                 /\ Total(o)' <= Total(o)
           /\ \A x \in woken[C] : Complete(x) => Total(o)' = Total(o) - Ind(o, x)
           /\ \A m \in Machine : \A x \in woken[m] :
                GiveUp(m, x) => Total(o)' <= Total(o)
  <1> USE DEF daemonVars, opVars, Total
  <1>0. /\ nlq \in [Machine -> Seq(Nl)] /\ woken \in [Machine -> SUBSET Msg]
        /\ replies \in SUBSET Msg /\ C \in Machine /\ S \in Machine
    BY Queues, TwoMachines DEF TypeOK
  <1>a. /\ QSum(o, nlq) \in Nat /\ QSum(o, tcp) \in Nat /\ HandCount(o, hand) \in Nat
        /\ SSum(o, woken) \in Nat /\ SetCount(o, replies) \in Nat
    BY CopiesTotal
  <1>b. \A x : Ind(o, x) \in 0 .. 1 BY SumTypes
  <1>1. ASSUME NEW p \in Op, SendRequest(p)
        PROVE  Total(o)' = Total(o) + (IF p = o THEN 1 ELSE 0)
    <2>1. PICK x \in Msg : x = [op |-> p, res |-> "fail"] BY DEF Msg
    <2>2. Unicast(C, x) /\ Alive(C) /\ x \in Nl BY <1>1, <2>1 DEF SendRequest, Nl
    <2>3. Ind(o, x) = IF p = o THEN 1 ELSE 0 BY <2>1, <2>2, AckIsNone
    <2>4. QSum(o, nlq') = QSum(o, nlq) + Ind(o, x) BY <2>2, TwoMachines, UnicastTotal
    <2>5. UNCHANGED <<tcp, hand, woken, replies>> BY <1>1 DEF SendRequest
    <2> QED BY <1>a, <2>3, <2>4, <2>5
  <1>2. ASSUME NEW x \in woken[S], Execute(x)
        PROVE  /\ Total(o)' <= Total(o)
               /\ (\A y \in replies : y.op # x.op) => Total(o)' = Total(o)
    <2>1. x \in Msg BY <1>0, TwoMachines
    <2>2. PICK z \in Msg : z.op = x.op /\ replies' = replies \cup {z}
      <3>1. \A v \in {"ok", "fail"} : [x EXCEPT !.res = v] \in Msg
                                      /\ [x EXCEPT !.res = v].op = x.op
        BY <2>1 DEF Msg
      <3>2. \/ \E v \in {"ok", "fail"} : replies' = replies \cup {[x EXCEPT !.res = v]}
            \/ replies' = replies \cup {x}
        BY <1>2 DEF Execute
      <3> QED BY <2>1, <3>1, <3>2
    <2>3. woken' = [woken EXCEPT ![S] = woken[S] \ {x}] BY <1>2 DEF Execute
    <2>4. SSum(o, woken') = SSum(o, woken) - Ind(o, x) BY <1>0, <2>3, SSumRemove
    <2>5. /\ SetCount(o, replies') <= SetCount(o, replies) + Ind(o, z)
          /\ z \notin replies => SetCount(o, replies') = SetCount(o, replies) + Ind(o, z)
      BY <1>0, <2>2, SetAdd
    <2>6. Ind(o, z) = Ind(o, x) BY <2>1, <2>2, AckIsNone DEF Nl
    <2>7. replies' \in SUBSET Msg BY <1>0, <2>2
    <2>8. SetCount(o, replies') \in Nat BY <2>7, SetCountType
    <2>9. UNCHANGED <<nlq, tcp, hand>> BY <1>2 DEF Execute
    <2>10. Total(o)' <= Total(o) BY <1>a, <1>b, <2>4, <2>5, <2>6, <2>8, <2>9
    <2>11. ASSUME \A y \in replies : y.op # x.op PROVE Total(o)' = Total(o)
      <3>1. z \notin replies BY <2>2, <2>11
      <3> QED BY <1>a, <1>b, <2>4, <2>5, <2>6, <2>9, <3>1
    <2> QED BY <2>10, <2>11
  <1>3. ASSUME NEW x \in replies, SendReply(x)
        PROVE  (Alive(S) => Total(o)' = Total(o)) /\ Total(o)' <= Total(o)
    <2>1. Unicast(S, x) /\ x \in Nl BY <1>0, <1>3 DEF SendReply, Nl
    <2>2. QSum(o, nlq') = IF Alive(S) THEN QSum(o, nlq) + Ind(o, x) ELSE QSum(o, nlq)
      BY <2>1, TwoMachines, UnicastTotal
    <2>3. replies' = replies \ {x} BY <1>3 DEF SendReply
    <2>4. SetCount(o, replies') = SetCount(o, replies) - Ind(o, x)
      BY <1>0, <2>3, SetRemove
    <2>5. UNCHANGED <<tcp, hand, woken>> BY <1>3 DEF SendReply
    <2> QED BY <1>a, <1>b, <2>2, <2>4, <2>5
  <1>4. ASSUME NEW x \in woken[C], Complete(x) PROVE Total(o)' = Total(o) - Ind(o, x)
    <2>1. woken' = [woken EXCEPT ![C] = woken[C] \ {x}] BY <1>4 DEF Complete
    <2>2. SSum(o, woken') = SSum(o, woken) - Ind(o, x) BY <1>0, <2>1, SSumRemove
    <2>3. UNCHANGED <<nlq, tcp, hand, replies>> BY <1>4 DEF Complete
    <2> QED BY <1>a, <1>b, <2>2, <2>3
  <1>5. ASSUME NEW m \in Machine, NEW x \in woken[m], GiveUp(m, x)
        PROVE  Total(o)' <= Total(o)
    <2>1. woken' = [woken EXCEPT ![m] = woken[m] \ {x}] BY <1>5 DEF GiveUp
    <2>2. SSum(o, woken') = SSum(o, woken) - Ind(o, x) BY <1>0, <2>1, SSumRemove
    <2>3. UNCHANGED <<nlq, tcp, hand, replies>> BY <1>5 DEF GiveUp
    <2> QED BY <1>a, <1>b, <2>2, <2>3
  <1> QED BY <1>1, <1>2, <1>3, <1>4, <1>5

\* Nothing is duplicated: only the request of an operation that was never
\* called is added.
LEMMA CountStep ==
    ASSUME ProxyInv, Next, TypeOK'
    PROVE  CountInv'
  <1> SUFFICES ASSUME NEW o \in Op
               PROVE  Copies(o)' <= 1 /\ (o \notin called' => Copies(o)' = 0)
    BY DEF CountInv
  <1>0. /\ TypeOK /\ StepInv
        /\ Total(o) <= 1 /\ (o \notin called => Total(o) = 0)
        /\ Total(o) \in Nat /\ Copies(o)' = Total(o)'
    BY CopiesTotal, CopiesTotalNext DEF ProxyInv, CountInv, Total
  <1>1. Total(o)' \in Nat
    <2>1. /\ nlq' \in [Machine -> Seq(Nl)] /\ tcp' \in [Machine -> Seq(Msg)]
          /\ woken' \in [Machine -> SUBSET Msg] /\ replies' \in SUBSET Msg
      BY DEF TypeOK, Nl
    <2>2. tcp' \in [Machine -> Seq(Nl)] BY <2>1, SeqMsg
    <2>3. QSum(o, nlq') \in Nat /\ QSum(o, tcp') \in Nat BY <2>1, <2>2, SumTypes
    <2>4. HandCount(o, hand') \in Nat /\ SSum(o, woken') \in Nat BY <2>1, SumTypes
    <2>5. SetCount(o, replies') \in Nat BY <2>1, SetCountType
    <2> QED BY <2>3, <2>4, <2>5 DEF Total
  <1>2. ASSUME NEW p \in Op, SendRequest(p)
        PROVE  Total(o)' <= 1 /\ (o \notin called' => Total(o)' = 0)
    <2>1. p \notin called /\ called' = called \cup {p} BY <1>2 DEF SendRequest
    <2>2. Total(o)' = Total(o) + (IF p = o THEN 1 ELSE 0) BY <1>0, <1>2, ThreadTotal
    <2> QED BY <1>0, <2>1, <2>2
  <1>3. ASSUME Total(o)' <= Total(o), called' = called
        PROVE  Total(o)' <= 1 /\ (o \notin called' => Total(o)' = 0)
    BY <1>0, <1>1, <1>3
  <1>4. \A x : Ind(o, x) \in 0 .. 1 BY SumTypes
  <1>5. ASSUME NEW m \in Machine, DaemonStep(m) PROVE Total(o)' <= Total(o)
    <2>1. CASE Select(m) \/ HandleRemoteLost(m) BY <1>0, <2>1, LoopTotal
    <2>2. CASE HandleNetlink(m) BY <1>0, <2>2, LoopTotal
    <2>3. CASE HandleNetlinkOther(m) BY <1>0, <2>3, LoopTotal
    <2>4. CASE HandleRemote(m)
      <3>1. Total(o)' = Total(o) - Ind(o, hand[m]) BY <1>0, <2>4, LoopTotal
      <3> QED BY <1>0, <1>4, <3>1
    <2>5. CASE KernelRecv(m) BY <1>0, <2>5, KernelTotal
    <2>6. CASE KernelRecvNoDevice(m) BY <1>0, <2>6, KernelTotal
    <2>7. CASE KernelAck(m) BY <1>0, <2>7, KernelTotal
    <2>8. CASE AwaitAck(m)
      <3>1. Total(o)' = Total(o) - Ind(o, Head(nlq[m])) BY <1>0, <2>8, KernelTotal
      <3> QED BY <1>0, <1>4, <3>1
    <2>9. CASE Unregister(m) BY <1>0, <2>9, EndTotal
    <2>10. CASE Exit(m) BY <1>0, <2>10, EndTotal
    <2> QED BY <1>5, <2>1, <2>2, <2>3, <2>4, <2>5, <2>6, <2>7, <2>8, <2>9, <2>10
            DEF DaemonStep
  <1>6. ASSUME ThreadStep PROVE Total(o)' <= Total(o)
    <2>1. ASSUME NEW x \in woken[C], Complete(x) PROVE Total(o)' <= Total(o)
      <3>1. Total(o)' = Total(o) - Ind(o, x) BY <1>0, <2>1, ThreadTotal
      <3> QED BY <1>0, <1>4, <3>1
    <2> QED BY <1>0, <1>6, <2>1, ThreadTotal DEF ThreadStep
  <1>7. ASSUME DestroyDummy \/ (\E p \in UnderWay : FreeQueue(p)) \/ ConnectionLost
        PROVE  Total(o)' <= Total(o)
    BY <1>0, <1>7, EndTotal
  <1>8. (\E p \in Op : SendRequest(p)) \/ called' = called
    BY DEF Next, ThreadStep, DaemonStep, Select, HandleNetlink,
           HandleNetlinkOther, HandleRemote, HandleRemoteLost, KernelRecv,
           KernelRecvNoDevice, KernelAck, AwaitAck, Unregister, Exit, Execute, SendReply,
           Complete, GiveUp, DestroyDummy, FreeQueue, ConnectionLost, opVars
  <1>9. (\E p \in Op : SendRequest(p)) \/ Total(o)' <= Total(o)
    BY <1>5, <1>6, <1>7 DEF Next
  <1> QED BY <1>0, <1>2, <1>3, <1>8, <1>9

-----------------------------------------------------------------------------
(* Requests go out, results come back *)

\* What a step of a daemon adds to what is travelling: nothing.
LEMMA DaemonTravels ==
    ASSUME ProxyInv, NEW m \in Machine, DaemonStep(m), NEW k \in Machine
    PROVE  Travelling(k)' \subseteq Travelling(k)
  <1> USE DEF daemonVars, opVars
  <1>0. /\ TypeOK /\ StepInv /\ Peer(k) \in Machine
        /\ nlq \in [Machine -> Seq(Nl)] /\ tcp \in [Machine -> Seq(Nl)]
        /\ hand \in [Machine -> Msg \cup {None}] /\ woken \in [Machine -> SUBSET Msg]
    BY Queues, TwoMachines DEF ProxyInv, TypeOK
  <1>1. ASSUME Elems(nlq'[k]) \subseteq Elems(nlq[k]) \cup {Ack},
               UNCHANGED <<tcp, hand, woken>>
        PROVE  Travelling(k)' \subseteq Travelling(k)
    BY <1>1 DEF Travelling
  <1>2. CASE UNCHANGED <<nlq, tcp, hand, woken>>
    BY <1>2 DEF Travelling
  <1>3. ASSUME nlq[m] # << >>, NetlinkRecv(m)
        PROVE  Elems(nlq'[k]) \subseteq Elems(nlq[k])
    <2>1. Elems(Tail(nlq[m])) \subseteq Elems(nlq[m]) BY <1>0, <1>3, QueueElems
    <2> QED BY <1>0, <1>3, <2>1 DEF NetlinkRecv
  <1>4. ASSUME Unicast(m, Ack) PROVE Elems(nlq'[k]) \subseteq Elems(nlq[k]) \cup {Ack}
    <2>1. Elems(Append(nlq[m], Ack)) = Elems(nlq[m]) \cup {Ack} BY <1>0, QueueElems DEF Nl
    <2> QED BY <1>0, <1>4, <2>1 DEF Unicast
  <1>5. CASE HandleNetlink(m)
    <2>1. nlq[m] # << >> /\ NetlinkRecv(m) BY <1>0, <1>5 DEF HandleNetlink, StepInv
    <2>2. PICK x \in Msg : x = Head(nlq[m]) BY <1>0, <1>5, <2>1, Queues DEF HandleNetlink
    <2>3. Elems(nlq'[k]) \subseteq Elems(nlq[k]) BY <1>3, <2>1
    <2>4. x \in Elems(nlq[m]) BY <1>0, <2>1, <2>2, QueueElems
    <2>5. UNCHANGED <<hand, woken>> BY <1>5 DEF HandleNetlink
    <2>6. tcp' = tcp \/ tcp' = [tcp EXCEPT ![Peer(m)] = Append(tcp[Peer(m)], x)]
      BY <1>5, <2>2 DEF HandleNetlink, ConnSend
    <2>7. CASE tcp' = tcp BY <2>3, <2>5, <2>7 DEF Travelling
    <2>8. CASE tcp' = [tcp EXCEPT ![Peer(m)] = Append(tcp[Peer(m)], x)]
      <3>1. tcp[Peer(m)] \in Seq(Nl) /\ x \in Nl BY <1>0, TwoMachines DEF Nl
      <3>2. Elems(Append(tcp[Peer(m)], x)) = Elems(tcp[Peer(m)]) \cup {x} BY <3>1, QueueElems
      <3>3. k = m => Elems(tcp'[Peer(k)]) = Elems(tcp[Peer(k)]) \cup {x}
        BY <1>0, <2>8, <3>2
      <3>4. k # m => tcp'[Peer(k)] = tcp[Peer(k)] BY <1>0, <2>8, TwoMachines
      <3>5. k = m => x \in Travelling(k)
        <4>1. x # Ack /\ x # None BY AckIsNone
        <4> QED BY <2>4, <4>1 DEF Travelling
      <3> QED BY <2>3, <2>5, <3>3, <3>4, <3>5 DEF Travelling
    <2> QED BY <2>6, <2>7, <2>8
  <1>6. CASE HandleNetlinkOther(m)
    <2>1. nlq[m] # << >> /\ NetlinkRecv(m) /\ UNCHANGED <<tcp, hand, woken>>
      BY <1>0, <1>6 DEF HandleNetlinkOther, StepInv
    <2> QED BY <1>1, <1>3, <2>1
  <1>7. CASE HandleRemote(m)
    <2>1. /\ tcp[m] # << >> /\ tcp' = [tcp EXCEPT ![m] = Tail(tcp[m])]
          /\ hand' = [hand EXCEPT ![m] = Head(tcp[m])] /\ UNCHANGED <<nlq, woken>>
      BY <1>7 DEF HandleRemote, ConnRecv
    <2>2. Elems(Tail(tcp[m])) \subseteq Elems(tcp[m]) /\ Head(tcp[m]) \in Elems(tcp[m])
      BY <1>0, <2>1, QueueElems
    <2>3. /\ Elems(tcp'[Peer(k)]) \subseteq Elems(tcp[Peer(k)])
          /\ hand'[Peer(k)] \in Elems(tcp[Peer(k)]) \cup {hand[Peer(k)]}
      BY <1>0, <2>1, <2>2
    <2> QED BY <2>1, <2>3 DEF Travelling
  <1>8. CASE KernelRecv(m)
    <2>1. /\ woken' = [woken EXCEPT ![m] = woken[m] \cup {hand[m]}]
          /\ hand' = [hand EXCEPT ![m] = None] /\ UNCHANGED <<nlq, tcp>>
      BY <1>8 DEF KernelRecv
    <2>2. /\ woken'[Peer(k)] \subseteq woken[Peer(k)] \cup {hand[Peer(k)]}
          /\ hand'[Peer(k)] \in {None, hand[Peer(k)]}
      BY <1>0, <2>1
    <2> QED BY <2>1, <2>2 DEF Travelling
  <1>9. CASE KernelRecvNoDevice(m)
    <2>1. hand' = [hand EXCEPT ![m] = None] /\ UNCHANGED <<nlq, tcp, woken>>
      BY <1>9 DEF KernelRecvNoDevice
    <2>2. hand'[Peer(k)] \in {None, hand[Peer(k)]} BY <1>0, <2>1
    <2> QED BY <2>1, <2>2 DEF Travelling
  <1>10. CASE KernelAck(m) \/ Unregister(m)
    <2>1. Unicast(m, Ack) /\ UNCHANGED <<tcp, hand, woken>>
      BY <1>10 DEF KernelAck, Unregister
    <2> QED BY <1>1, <1>4, <2>1
  <1>11. CASE AwaitAck(m)
    <2>1. nlq[m] # << >> /\ NetlinkRecv(m) /\ UNCHANGED <<tcp, hand, woken>>
      BY <1>11 DEF AwaitAck
    <2> QED BY <1>1, <1>3, <2>1
  <1>12. CASE Exit(m)
    <2>1. nlq' = [nlq EXCEPT ![m] = << >>] /\ UNCHANGED <<tcp, hand, woken>>
      BY <1>12 DEF Exit
    <2>2. Elems(nlq'[k]) \subseteq Elems(nlq[k]) BY <1>0, <2>1 DEF Elems
    <2> QED BY <1>1, <2>1, <2>2
  <1> QED
    BY <1>2, <1>5, <1>6, <1>7, <1>8, <1>9, <1>10, <1>11, <1>12
    DEF DaemonStep, Select, HandleRemoteLost

\* What the other steps add: a task its request, a server's thread a result.
LEMMA ThreadTravels ==
    ASSUME ProxyInv
    PROVE  /\ \A p \in Op : SendRequest(p) =>
                /\ Outbound' \subseteq Outbound \cup {[op |-> p, res |-> "fail"]}
                /\ Inbound' \subseteq Inbound
           /\ \A x \in replies : SendReply(x) => Outbound' = Outbound /\ Inbound' \subseteq Inbound
           /\ \A x \in woken[C] : Complete(x) =>
                Outbound' = Outbound /\ Inbound' \subseteq Inbound
           /\ \A m \in Machine : \A x \in woken[m] : GiveUp(m, x) =>
                Outbound' \subseteq Outbound /\ Inbound' \subseteq Inbound
           /\ DestroyDummy \/ (\E p \in UnderWay : FreeQueue(p)) \/ ConnectionLost =>
                Outbound' \subseteq Outbound /\ Inbound' \subseteq Inbound
  <1> USE DEF daemonVars, opVars, Outbound, Inbound
  <1>0. /\ nlq \in [Machine -> Seq(Nl)] /\ woken \in [Machine -> SUBSET Msg]
        /\ replies \in SUBSET Msg /\ C \in Machine /\ S \in Machine
        /\ nlq[C] \in Seq(Nl) /\ nlq[S] \in Seq(Nl)
    BY Queues, TwoMachines DEF ProxyInv, TypeOK
  <1>1. ASSUME NEW p \in Op, SendRequest(p)
        PROVE  /\ Outbound' \subseteq Outbound \cup {[op |-> p, res |-> "fail"]}
               /\ Inbound' \subseteq Inbound
    <2>1. PICK x \in Nl : x = [op |-> p, res |-> "fail"] BY DEF Msg, Nl
    <2>2. nlq' = [nlq EXCEPT ![C] = Append(nlq[C], x)] /\ UNCHANGED <<tcp, hand, woken, replies>>
      BY <1>1, <2>1 DEF SendRequest, Unicast
    <2>3. Elems(Append(nlq[C], x)) = Elems(nlq[C]) \cup {x} BY <1>0, QueueElems
    <2>4. Elems(nlq'[C]) = Elems(nlq[C]) \cup {x} /\ nlq'[S] = nlq[S]
      BY <1>0, <2>2, <2>3, TwoMachines
    <2> QED BY <2>1, <2>2, <2>4 DEF Travelling
  <1>2. ASSUME NEW x \in replies, SendReply(x)
        PROVE  Outbound' = Outbound /\ Inbound' \subseteq Inbound
    <2>1. /\ nlq' = [nlq EXCEPT ![S] = Append(nlq[S], x)] \/ nlq' = nlq
          /\ replies' = replies \ {x} /\ UNCHANGED <<tcp, hand, woken>>
      BY <1>2 DEF SendReply, Unicast
    <2>2. Elems(Append(nlq[S], x)) = Elems(nlq[S]) \cup {x} BY <1>0, QueueElems DEF Nl
    <2>3. Elems(nlq'[S]) \subseteq Elems(nlq[S]) \cup {x} /\ nlq'[C] = nlq[C]
      BY <1>0, <2>1, <2>2, TwoMachines
    <2> QED BY <2>1, <2>3 DEF Travelling
  <1>3. ASSUME NEW x \in woken[C], Complete(x)
        PROVE  Outbound' = Outbound /\ Inbound' \subseteq Inbound
    <2>1. /\ woken' = [woken EXCEPT ![C] = woken[C] \ {x}]
          /\ UNCHANGED <<nlq, tcp, hand, replies>>
      BY <1>3 DEF Complete
    <2>2. woken'[C] \subseteq woken[C] /\ woken'[S] = woken[S] BY <1>0, <2>1, TwoMachines
    <2> QED BY <2>1, <2>2, TwoMachines DEF Travelling
  <1>4. ASSUME NEW m \in Machine, NEW x \in woken[m], GiveUp(m, x)
        PROVE  Outbound' \subseteq Outbound /\ Inbound' \subseteq Inbound
    <2>1. /\ woken' = [woken EXCEPT ![m] = woken[m] \ {x}]
          /\ UNCHANGED <<nlq, tcp, hand, replies>>
      BY <1>4 DEF GiveUp
    <2>2. woken'[C] \subseteq woken[C] /\ woken'[S] \subseteq woken[S]
      BY <1>0, <2>1, TwoMachines
    <2> QED BY <2>1, <2>2, TwoMachines DEF Travelling
  <1>5. ASSUME ConnectionLost PROVE Outbound' \subseteq Outbound /\ Inbound' \subseteq Inbound
    <2>1. tcp' = [k \in Machine |-> << >>] /\ UNCHANGED <<nlq, hand, woken, replies>>
      BY <1>5 DEF ConnectionLost
    <2>2. Elems(tcp'[C]) = {} /\ Elems(tcp'[S]) = {} BY <1>0, <2>1 DEF Elems
    <2> QED BY <2>1, <2>2, TwoMachines DEF Travelling
  <1>6. ASSUME DestroyDummy \/ (\E p \in UnderWay : FreeQueue(p))
        PROVE  Outbound' \subseteq Outbound /\ Inbound' \subseteq Inbound
    BY <1>6 DEF DestroyDummy, FreeQueue, Travelling
  <1> QED BY <1>1, <1>2, <1>3, <1>4, <1>5, <1>6

\* The operation that a server's thread executes has no other copy.
LEMMA Alone ==
    ASSUME ProxyInv, NEW x \in woken[S]
    PROVE  /\ \A y \in Inbound : y.op # x.op
           /\ \A y \in Outbound : y.op = x.op => y = x
           /\ x \notin Elems(nlq[C]) \cup Elems(tcp[S]) \cup {hand[S]}
  <1>0. /\ nlq \in [Machine -> Seq(Nl)] /\ tcp \in [Machine -> Seq(Nl)]
        /\ woken \in [Machine -> SUBSET Msg] /\ replies \in SUBSET Msg
        /\ C \in Machine /\ S \in Machine /\ TypeOK /\ CountInv
    BY Queues, TwoMachines DEF ProxyInv, TypeOK
  <1>1. PICK o \in Op : x.op = o BY <1>0, AckIsNone
  <1>2. InQueue(o, nlq[C]) \in Nat /\ InQueue(o, nlq[S]) \in Nat BY <1>0, QueueCount
  <1>3. InQueue(o, tcp[C]) \in Nat /\ InQueue(o, tcp[S]) \in Nat BY <1>0, QueueCount
  <1>4. /\ SetCount(o, woken[C]) \in Nat /\ SetCount(o, woken[S]) \in Nat
        /\ SetCount(o, replies) \in Nat
    BY <1>0, SetCountType
  <1>5. HandCount(o, hand) \in Nat BY SumTypes
  <1>6. SetCount(o, woken[S]) # 0 BY <1>0, <1>1, SetCounts
  <1>7. Copies(o) <= 1 BY <1>0 DEF CountInv
  <1>8. /\ InQueue(o, nlq[C]) = 0 /\ InQueue(o, nlq[S]) = 0
        /\ InQueue(o, tcp[C]) = 0 /\ InQueue(o, tcp[S]) = 0
        /\ HandCount(o, hand) = 0 /\ SetCount(o, woken[C]) = 0
        /\ SetCount(o, replies) = 0 /\ SetCount(o, woken[S]) <= 1
    <2>1. InQueue(o, nlq[C]) + InQueue(o, nlq[S]) + InQueue(o, tcp[C]) + InQueue(o, tcp[S])
            + HandCount(o, hand) + SetCount(o, woken[C]) + SetCount(o, woken[S])
            + SetCount(o, replies) <= 1
      BY <1>7, CopiesSum
    <2> QED BY ONLY <1>2, <1>3, <1>4, <1>5, <1>6, <2>1
  <1>9. \A q \in Seq(Nl) : InQueue(o, q) = 0 => \A y \in Elems(q) : y.op # o
    BY QueueCount DEF Elems
  <1>10. \A y \in Elems(nlq[C]) \cup Elems(nlq[S]) \cup Elems(tcp[C]) \cup Elems(tcp[S]) :
            y.op # o
    BY <1>0, <1>8, <1>9
  <1>11. /\ hand[C] # None => hand[C].op # o
         /\ hand[S] # None => hand[S].op # o
    <2>1. Ind(o, hand[C]) + Ind(o, hand[S]) = 0 BY <1>8, HandCounts
    <2>2. Ind(o, hand[C]) \in 0 .. 1 /\ Ind(o, hand[S]) \in 0 .. 1 BY SumTypes
    <2>3. Ind(o, hand[C]) = 0 /\ Ind(o, hand[S]) = 0 BY <2>1, <2>2
    <2> QED BY <2>3 DEF Ind
  <1>12. (\A y \in woken[C] : y.op # o) /\ (\A y \in replies : y.op # o)
    BY <1>0, <1>8, SetCounts
  <1>13. \A y \in woken[S] : y.op = o => y = x
    <2>1. PICK T \in SUBSET Msg : T = woken[S] BY <1>0
    <2>2. \A z \in T : z.op = o /\ SetCount(o, T) <= 1 => \A y \in T : y.op = o => y = z
      BY SetCounts
    <2> QED BY <1>1, <1>8, <2>1, <2>2
  <1>14. x # None BY <1>0, AckIsNone
  <1> QED BY <1>1, <1>10, <1>11, <1>12, <1>13, <1>14, TwoMachines DEF Outbound, Inbound, Travelling

\* Every step keeps the requests undecided and the results those decided on.
LEMMA PathStep ==
    ASSUME ProxyInv, Next
    PROVE  PathInv'
  <1>0. /\ PathInv /\ TypeOK /\ woken \in [Machine -> SUBSET Msg] /\ replies \in SUBSET Msg
        /\ C \in Machine /\ S \in Machine
    BY TwoMachines DEF ProxyInv, TypeOK
  <1>1. ASSUME Outbound' \subseteq Outbound, Inbound' \subseteq Inbound,
               UNCHANGED <<called, verdict>>
        PROVE  PathInv'
    <2>1. (\A x \in Outbound' : IsRequest(x)') /\ (\A x \in Inbound' : IsResult(x)')
      BY <1>0, <1>1 DEF PathInv, IsRequest, IsResult
    <2> QED BY <2>1 DEF PathInv, IsRequest, IsResult
  <1>2. ASSUME NEW p \in Op, SendRequest(p) PROVE PathInv'
    <2>1. /\ p \notin called /\ called' = called \cup {p} /\ verdict' = verdict
      BY <1>2 DEF SendRequest
    <2>2. Outbound' \subseteq Outbound \cup {[op |-> p, res |-> "fail"]} /\ Inbound' \subseteq Inbound
      BY <1>2, ThreadTravels
    <2>3. verdict[p] = "none" BY <2>1 DEF ProxyInv, VerdictInv
    <2>4. \A x \in Outbound' : IsRequest(x)'
      BY <1>0, <2>1, <2>2, <2>3 DEF PathInv, IsRequest
    <2>5. \A x \in Inbound' : IsResult(x)' BY <1>0, <2>1, <2>2 DEF PathInv, IsResult
    <2> QED BY <2>4, <2>5 DEF PathInv, IsRequest, IsResult
  <1>3. ASSUME NEW m \in Machine, DaemonStep(m) PROVE PathInv'
    <2>1. Travelling(C)' \subseteq Travelling(C) /\ Travelling(S)' \subseteq Travelling(S)
      BY <1>0, <1>3, DaemonTravels
    <2>2. UNCHANGED <<called, verdict, replies>>
      BY <1>3 DEF DaemonStep, Select, HandleNetlink, HandleNetlinkOther, HandleRemote,
                  HandleRemoteLost, KernelRecv, KernelRecvNoDevice, KernelAck, AwaitAck,
                  Unregister, Exit, opVars
    <2>3. Outbound' \subseteq Outbound /\ Inbound' \subseteq Inbound
      BY <2>1, <2>2 DEF Outbound, Inbound
    <2> QED BY <1>1, <2>2, <2>3
  <1>4. ASSUME NEW x \in woken[S], Execute(x) PROVE PathInv'
    <2>1. x \in Msg /\ x.op \in Op /\ x.res \in {"ok", "fail"} BY <1>0, AckIsNone
    <2>2. x \in Outbound BY <1>0, <2>1, AckIsNone, TwoMachines DEF Outbound, Travelling
    <2>3. IsRequest(x) BY <1>0, <2>2 DEF PathInv
    <2>4. PICK v \in {"ok", "fail"} : /\ verdict' = [verdict EXCEPT ![x.op] = v]
                                      /\ replies' = replies \cup {[x EXCEPT !.res = v]}
      <3>1. [x EXCEPT !.res = x.res] = x BY <2>1 DEF Msg
      <3> QED BY <1>4, <2>1, <3>1 DEF Execute
    <2>5. PICK z : z = [x EXCEPT !.res = v] OBVIOUS
    <2>6. z.op = x.op /\ z.res = v BY <2>1, <2>5 DEF Msg
    <2>7. woken' = [woken EXCEPT ![S] = woken[S] \ {x}] /\ UNCHANGED <<nlq, tcp, hand, called>>
      BY <1>4 DEF Execute, daemonVars
    <2>8. woken'[S] = woken[S] \ {x} /\ woken'[C] = woken[C] BY <1>0, <2>7, TwoMachines
    <2>9. Outbound' \subseteq Outbound \ {x}
      BY <2>7, <2>8, Alone, TwoMachines DEF Outbound, Travelling
    <2>10. Inbound' \subseteq Inbound \cup {z}
      BY <2>4, <2>5, <2>7, <2>8, TwoMachines DEF Inbound, Travelling
    <2>11. \A o \in called : o # x.op => verdict'[o] = verdict[o]
      BY <2>4 DEF ProxyInv, TypeOK
    <2>12. verdict'[x.op] = v BY <2>1, <2>4 DEF ProxyInv, TypeOK
    <2>13. \A y \in Outbound' : IsRequest(y)'
      BY <1>0, <2>7, <2>9, <2>11, Alone DEF PathInv, IsRequest
    <2>14. \A y \in Inbound' : IsResult(y)'
      BY <1>0, <2>3, <2>6, <2>7, <2>10, <2>11, <2>12, Alone DEF PathInv, IsResult, IsRequest
    <2> QED BY <2>13, <2>14 DEF PathInv, IsRequest, IsResult
  <1>5. ASSUME NEW x \in replies, SendReply(x) PROVE PathInv'
    BY <1>1, <1>5, ThreadTravels DEF SendReply, opVars
  <1>6. ASSUME NEW x \in woken[C], Complete(x) PROVE PathInv'
    BY <1>1, <1>6, ThreadTravels DEF Complete
  <1>7. ASSUME NEW m \in Machine, NEW x \in woken[m], GiveUp(m, x) PROVE PathInv'
    BY <1>1, <1>7, ThreadTravels DEF GiveUp, opVars
  <1>8. ASSUME DestroyDummy \/ (\E p \in UnderWay : FreeQueue(p)) \/ ConnectionLost
        PROVE  PathInv'
    <2>1. UNCHANGED <<called, verdict>>
      BY <1>8 DEF DestroyDummy, FreeQueue, ConnectionLost, opVars
    <2> QED BY <1>1, <1>8, <2>1, ThreadTravels
  <1> QED BY <1>2, <1>3, <1>4, <1>5, <1>6, <1>7, <1>8 DEF Next, ThreadStep

-----------------------------------------------------------------------------
(* The theorems for all constants *)

\* The daemons start with nothing under way.
LEMMA ProxyInit ==
    ASSUME Init
    PROVE  ProxyInv
  <1>1. TypeOK BY DEF Init, TypeOK, DaemonPc
  <1>2. StepInv /\ RunsInv /\ VerdictInv BY DEF Init, StepInv, RunsInv, VerdictInv
  <1>3. ASSUME NEW o \in Op PROVE Copies(o) = 0
    <2>1. Copies(o) = Total(o) BY <1>1, CopiesTotal
    <2>2. InQueue(o, << >>) = 0 BY FS_EmptySet DEF InQueue
    <2>3. SetCount(o, {}) = 0
      <3>1. {x \in {} : x.op = o} = {} OBVIOUS
      <3> QED BY <3>1, FS_EmptySet DEF SetCount
    <2>4. HandCount(o, hand) = 0
      <3>1. hand[C] = None /\ hand[S] = None BY TwoMachines DEF Init
      <3>2. Ind(o, None) = 0 BY DEF Ind
      <3>3. HandCount(o, hand) = Ind(o, hand[C]) + Ind(o, hand[S]) BY HandCounts
      <3> QED BY <3>1, <3>2, <3>3
    <2>5. /\ nlq[C] = << >> /\ nlq[S] = << >> /\ tcp[C] = << >> /\ tcp[S] = << >>
          /\ woken[C] = {} /\ woken[S] = {} /\ replies = {}
      BY TwoMachines DEF Init
    <2> QED BY <2>1, <2>2, <2>3, <2>4, <2>5 DEF Total, QSum, SSum
  <1>4. CountInv BY <1>3 DEF CountInv
  <1>5. PathInv
    <2>1. Outbound = {} /\ Inbound = {}
      BY TwoMachines DEF Init, Outbound, Inbound, Travelling, Elems
    <2> QED BY <2>1 DEF PathInv
  <1> QED BY <1>1, <1>2, <1>4, <1>5 DEF ProxyInv

\* Every step of the daemons, kernels and threads keeps the invariant.
LEMMA ProxyInductive ==
    ASSUME ProxyInv, [Next]_vars
    PROVE  ProxyInv'
  <1>1. CASE Next
    <2>1. TypeOK' BY <1>1, TypeStep
    <2>2. StepInv' /\ RunsInv' /\ VerdictInv' /\ PathInv'
      BY <1>1, StepStep, RunsStep, PathStep
    <2>3. CountInv' BY <1>1, <2>1, CountStep
    <2> QED BY <2>1, <2>2, <2>3 DEF ProxyInv
  <1>2. CASE UNCHANGED vars
    <2> USE <1>2 DEF vars, daemonVars, opVars
    <2>1. TypeOK' BY DEF ProxyInv, TypeOK
    <2>2. StepInv' BY DEF ProxyInv, StepInv
    <2>3. RunsInv' /\ VerdictInv' BY DEF ProxyInv, RunsInv, VerdictInv
    <2>4. CountInv'
      <3>1. \A o \in Op : Copies(o)' = Copies(o) BY DEF Copies
      <3> QED BY <3>1 DEF ProxyInv, CountInv
    <2>5. PathInv'
      <3>1. Outbound' = Outbound /\ Inbound' = Inbound BY DEF Outbound, Inbound, Travelling
      <3> QED BY <3>1 DEF ProxyInv, PathInv, IsRequest, IsResult
    <2> QED BY <2>1, <2>2, <2>3, <2>4, <2>5 DEF ProxyInv
  <1> QED BY <1>1, <1>2

\* The inductive invariant holds in every state that the daemons reach.
LEMMA ProxyAlways == Spec => []ProxyInv
  <1>1. Init => ProxyInv BY ProxyInit
  <1>2. ProxyInv /\ [Next]_vars => ProxyInv' BY ProxyInductive
  <1> QED BY <1>1, <1>2, PTL DEF Spec

\* Every variable keeps its type, whatever fails and however many operations
\* are under way; in particular the served device is operated at most once for
\* each operation (runs).
THEOREM TypeCorrect == Spec => []TypeOK
  <1>1. ProxyInv => TypeOK BY DEF ProxyInv
  <1> QED BY <1>1, ProxyAlways, PTL

\* A request or its result is in one place at most, between the fo_send of one
\* machine and the fo_complete of the other: no handler of proxy_loop, no
\* netlink_recv and no thread of fo_recv duplicates it, whatever is lost.
THEOREM NothingDuplicated == Spec => []NeverDuplicated
  <1>1. ProxyInv => NeverDuplicated BY DEF ProxyInv, CountInv, NeverDuplicated
  <1> QED BY <1>1, ProxyAlways, PTL

\* A step of the path is a step of RemoteCall, or none.
LEMMA PathSimulates ==
    ASSUME ProxyInv, [Next]_vars
    PROVE  [RC!RCNext]_RC!rcvars
  <1> USE DEF RC!rcvars, opVars
  <1>0. /\ TypeOK /\ PathInv /\ woken \in [Machine -> SUBSET Msg]
        /\ C \in Machine /\ S \in Machine
    BY TwoMachines DEF ProxyInv, TypeOK
  <1>1. ASSUME NEW o \in Op, SendRequest(o) PROVE RC!RCNext
    <2>1. RC!RCCall(o) BY <1>1 DEF SendRequest, RC!RCCall
    <2> QED BY <2>1 DEF RC!RCNext
  <1>2. ASSUME NEW x \in woken[S], Execute(x) PROVE RC!RCNext
    <2>1. x \in Msg /\ x.op \in Op /\ x # Ack /\ x # None BY <1>0, AckIsNone
    <2>2. x \in Outbound BY <2>1, TwoMachines DEF Outbound, Travelling
    <2>3. IsRequest(x) BY <1>0, <2>2 DEF PathInv
    <2>4. RC!RCServe(x.op) BY <1>2, <2>3 DEF Execute, RC!RCServe, IsRequest
    <2> QED BY <2>1, <2>4 DEF RC!RCNext
  <1>3. ASSUME NEW x \in woken[C], Complete(x) PROVE RC!RCNext
    <2>1. /\ x \in Msg /\ x.op \in Op /\ x # Ack /\ x # None
          /\ x.res \in {"ok", "fail"}
      BY <1>0, AckIsNone
    <2>2. x \in Inbound BY <2>1, TwoMachines DEF Inbound, Travelling
    <2>3. IsResult(x) BY <1>0, <2>2 DEF PathInv
    <2>4. RC!RCReturn(x.op) BY <1>3, <2>1, <2>3 DEF Complete, RC!RCReturn, IsResult
    <2> QED BY <2>1, <2>4 DEF RC!RCNext
  <1>4. ASSUME NEW o \in UnderWay, FreeQueue(o) PROVE RC!RCNext
    <2>1. o \in called /\ result[o] = "none" /\ o \in Op BY <1>0 DEF UnderWay, TypeOK
    <2>2. RC!RCAbort(o) BY <1>4, <2>1 DEF FreeQueue, RC!RCAbort
    <2> QED BY <2>1, <2>2 DEF RC!RCNext
  <1>5. CASE UNCHANGED <<called, runs, verdict, result>> BY <1>5
  <1> QED
    BY <1>1, <1>2, <1>3, <1>4, <1>5
    DEF Next, vars, ThreadStep, DaemonStep, Select, HandleNetlink,
        HandleNetlinkOther, HandleRemote, HandleRemoteLost, KernelRecv,
        KernelRecvNoDevice, KernelAck, AwaitAck, Unregister, Exit, SendReply,
        GiveUp, DestroyDummy, ConnectionLost

\* The path of operations through both daemons implements RemoteCall, for any
\* number of operations under way and whatever fails: the served device is
\* operated at most once for a call, and the call returns what the server made
\* of it, or a failure when its own device is torn down.
THEOREM PathImplements == Spec => ImplementsRemoteCall
  <1>1. Init => RC!RCInit BY DEF Init, RC!RCInit
  <1>2. ProxyInv /\ [Next]_vars => [RC!RCNext]_RC!rcvars BY PathSimulates
  <1> QED BY <1>1, <1>2, ProxyAlways, PTL DEF Spec, ImplementsRemoteCall, RC!RCSpec

-----------------------------------------------------------------------------
(* One operation at a time, no failures *)

\* One operation at a time, and nothing fails.
Single == Window = 1 /\ ~Failures

\* The counts of the single places.
LEMMA Parts ==
    ASSUME TypeOK, NEW o \in Op
    PROVE  /\ InQueue(o, nlq[C]) \in Nat /\ InQueue(o, nlq[S]) \in Nat
           /\ InQueue(o, tcp[C]) \in Nat /\ InQueue(o, tcp[S]) \in Nat
           /\ Ind(o, hand[C]) \in Nat /\ Ind(o, hand[S]) \in Nat
           /\ SetCount(o, woken[C]) \in Nat /\ SetCount(o, woken[S]) \in Nat
           /\ SetCount(o, replies) \in Nat
           /\ Copies(o) = InQueue(o, nlq[C]) + InQueue(o, nlq[S]) + InQueue(o, tcp[C])
                          + InQueue(o, tcp[S]) + (Ind(o, hand[C]) + Ind(o, hand[S]))
                          + SetCount(o, woken[C]) + SetCount(o, woken[S])
                          + SetCount(o, replies)
  <1>1. /\ nlq[C] \in Seq(Nl) /\ nlq[S] \in Seq(Nl) /\ tcp[C] \in Seq(Nl) /\ tcp[S] \in Seq(Nl)
        /\ woken[C] \in SUBSET Msg /\ woken[S] \in SUBSET Msg /\ replies \in SUBSET Msg
    BY Queues, TwoMachines DEF TypeOK
  <1>2. InQueue(o, nlq[C]) \in Nat /\ InQueue(o, nlq[S]) \in Nat BY <1>1, QueueCount
  <1>3. InQueue(o, tcp[C]) \in Nat /\ InQueue(o, tcp[S]) \in Nat BY <1>1, QueueCount
  <1>4. Ind(o, hand[C]) \in Nat /\ Ind(o, hand[S]) \in Nat BY SumTypes
  <1>5. /\ SetCount(o, woken[C]) \in Nat /\ SetCount(o, woken[S]) \in Nat
        /\ SetCount(o, replies) \in Nat
    BY <1>1, SetCountType
  <1>6. HandCount(o, hand) = Ind(o, hand[C]) + Ind(o, hand[S]) BY HandCounts
  <1> QED BY <1>2, <1>3, <1>4, <1>5, <1>6, CopiesSum

\* Whatever is in a netlink queue or in a hand belongs to an operation that is
\* under way.
LEMMA Present ==
    ASSUME ProxyInv, SingleInv, NEW m \in Machine
    PROVE  /\ \A y \in Elems(nlq[m]) : y # Ack => y.op \in UnderWay
           /\ hand[m] # None => hand[m].op \in UnderWay
  <1>0. TypeOK /\ KeepInv BY DEF ProxyInv, SingleInv
  <1>1. ASSUME NEW o \in Op, o \notin UnderWay
        PROVE  InQueue(o, nlq[m]) = 0 /\ Ind(o, hand[m]) = 0
    <2>1. Copies(o) = 0 BY <1>0, <1>1 DEF KeepInv
    <2>2. /\ InQueue(o, nlq[C]) = 0 /\ InQueue(o, nlq[S]) = 0
          /\ Ind(o, hand[C]) = 0 /\ Ind(o, hand[S]) = 0
      <3> DEFINE n1 == InQueue(o, nlq[C])
                 n2 == InQueue(o, nlq[S])
                 n3 == InQueue(o, tcp[C])
                 n4 == InQueue(o, tcp[S])
                 n5 == Ind(o, hand[C])
                 n6 == Ind(o, hand[S])
                 n7 == SetCount(o, woken[C])
                 n8 == SetCount(o, woken[S])
                 n9 == SetCount(o, replies)
      <3>1. /\ n1 \in Nat /\ n2 \in Nat /\ n3 \in Nat /\ n4 \in Nat /\ n5 \in Nat
            /\ n6 \in Nat /\ n7 \in Nat /\ n8 \in Nat /\ n9 \in Nat
        BY <1>0, Parts
      <3>2. n1 + n2 + n3 + n4 + (n5 + n6) + n7 + n8 + n9 = 0 BY <1>0, <2>1, Parts
      <3>3. n1 = 0 /\ n2 = 0 /\ n5 = 0 /\ n6 = 0
        <4> HIDE DEF n1, n2, n3, n4, n5, n6, n7, n8, n9
        <4> QED BY <3>1, <3>2
      <3> QED BY <3>3
    <2> QED BY <2>2, TwoMachines
  <1>2. ASSUME NEW y \in Elems(nlq[m]), y # Ack PROVE y.op \in UnderWay
    <2>1. nlq[m] \in Seq(Nl) BY <1>0, Queues
    <2>2. y \in Msg BY <1>2, <2>1, QueueElems DEF Nl
    <2>3. y.op \in Op BY <2>2, AckIsNone
    <2>4. InQueue(y.op, nlq[m]) # 0 BY <2>1, <2>3, QueueCount DEF Elems
    <2> QED BY <1>1, <2>3, <2>4
  <1>3. ASSUME hand[m] # None PROVE hand[m].op \in UnderWay
    <2>1. hand[m] \in Msg BY <1>0, <1>3 DEF TypeOK
    <2>2. hand[m].op \in Op BY <2>1, AckIsNone
    <2>3. Ind(hand[m].op, hand[m]) = 1 BY <1>3 DEF Ind
    <2> QED BY <1>1, <2>2, <2>3
  <1> QED BY <1>2, <1>3

\* While a daemon passes a message to the kernel its own netlink queue is
\* empty, and no thread was started for that message yet.
LEMMA QueueEmpty ==
    ASSUME ProxyInv, SingleInv, NEW m \in Machine, dpc[m] = "ksend"
    PROVE  nlq[m] = << >> /\ hand[m] \notin woken[m]
  <1>0. /\ TypeOK /\ KeepInv /\ AckInv /\ OneInv /\ hand[m] # None
        /\ nlq[m] \in Seq(Nl) /\ woken[m] \in SUBSET Msg
    BY Queues DEF ProxyInv, SingleInv, StepInv, TypeOK
  <1>1. hand[m].op \in UnderWay BY <1>0, Present
  <1>2. PICK o \in Op : o = hand[m].op BY <1>0, <1>1 DEF UnderWay, TypeOK
  <1>3. Ind(o, hand[m]) = 1 BY <1>0, <1>2 DEF Ind
  <1>4. Copies(o) = 1 BY <1>0, <1>1, <1>2 DEF KeepInv
  <1>5. InQueue(o, nlq[m]) = 0 /\ SetCount(o, woken[m]) = 0
    <2> DEFINE n1 == InQueue(o, nlq[C])
               n2 == InQueue(o, nlq[S])
               n3 == InQueue(o, tcp[C])
               n4 == InQueue(o, tcp[S])
               n5 == Ind(o, hand[C])
               n6 == Ind(o, hand[S])
               n7 == SetCount(o, woken[C])
               n8 == SetCount(o, woken[S])
               n9 == SetCount(o, replies)
    <2>0. /\ n1 \in Nat /\ n2 \in Nat /\ n3 \in Nat /\ n4 \in Nat /\ n5 \in Nat
          /\ n6 \in Nat /\ n7 \in Nat /\ n8 \in Nat /\ n9 \in Nat
          /\ 1 = n1 + n2 + n3 + n4 + (n5 + n6) + n7 + n8 + n9
      BY <1>0, <1>4, Parts
    <2>1. (m = C => n5 = 1) /\ (m = S => n6 = 1) BY <1>3
    <2>2. /\ m = C => InQueue(o, nlq[m]) = n1 /\ SetCount(o, woken[m]) = n7
          /\ m = S => InQueue(o, nlq[m]) = n2 /\ SetCount(o, woken[m]) = n8
      OBVIOUS
    <2> HIDE DEF n1, n2, n3, n4, n5, n6, n7, n8, n9
    <2>3. n5 = 1 => n1 = 0 /\ n7 = 0 BY ONLY <2>0
    <2>4. n6 = 1 => n2 = 0 /\ n8 = 0 BY ONLY <2>0
    <2> QED BY <2>1, <2>2, <2>3, <2>4, TwoMachines
  <1>6. hand[m] \notin woken[m] BY <1>0, <1>2, <1>5, SetCounts
  <1>7. ASSUME nlq[m] # << >> PROVE FALSE
    <2>1. /\ 1 \in 1 .. Len(nlq[m]) /\ nlq[m][1] \in Elems(nlq[m])
      BY <1>0, <1>7 DEF Elems
    <2>2. nlq[m][1] # Ack BY <1>0, <2>1 DEF AckInv, AckOrder
    <2>3. nlq[m][1].op \in UnderWay BY <2>1, <2>2, Present
    <2>4. nlq[m][1].op = o BY <1>0, <1>1, <1>2, <2>3 DEF OneInv
    <2> QED BY <1>0, <1>5, <2>1, <2>4, QueueCount
  <1> QED BY <1>6, <1>7

\* No daemon leaves its loop, and no thread gives up.
LEMMA SingleSteps ==
    ASSUME Single, ProxyInv, SingleInv, Next
    PROVE  \/ \E o \in Op : SendRequest(o)
           \/ \E m \in Machine : \/ Select(m) \/ HandleNetlink(m) \/ HandleRemote(m)
                                 \/ KernelRecv(m) \/ KernelAck(m) \/ AwaitAck(m)
           \/ \E x \in woken[S] : Execute(x)
           \/ \E x \in replies : SendReply(x)
           \/ \E x \in woken[C] : Complete(x)
  <1>0. /\ ~Failures /\ AliveInv /\ OneInv /\ ReadyInv /\ AckInv /\ StepInv /\ TypeOK
        /\ C \in Machine
    BY TwoMachines DEF Single, SingleInv, ProxyInv
  <1>1. ASSUME NEW m \in Machine, HandleNetlinkOther(m) PROVE FALSE
    <2>1. dpc[m] = "nl" /\ Head(nlq[m]) = Ack /\ nlq[m] # << >>
      BY <1>0, <1>1 DEF HandleNetlinkOther, StepInv
    <2>2. nlq[m] \in Seq(Nl) BY <1>0, Queues
    <2>3. 1 \in 1 .. Len(nlq[m]) /\ nlq[m][1] = Ack BY <2>1, <2>2
    <2> QED BY <1>0, <2>1, <2>3 DEF AckInv, AckOrder
  <1>2. ASSUME NEW m \in Machine, HandleRemoteLost(m) PROVE FALSE
    BY <1>0, <1>2 DEF HandleRemoteLost, ReadyInv
  <1>3. ASSUME NEW m \in Machine, Unregister(m) \/ Exit(m) \/ KernelRecvNoDevice(m) PROVE FALSE
    BY <1>0, <1>3 DEF Unregister, Exit, KernelRecvNoDevice, AliveInv
  <1>4. ASSUME NEW m \in Machine, NEW x \in woken[m], GiveUp(m, x) PROVE FALSE
    <2>1. Cardinality(UnderWay) <= 1
      <3>1. CASE UnderWay = {} BY <3>1, FS_EmptySet
      <3>2. CASE UnderWay # {}
        <4>1. PICK o : o \in UnderWay BY <3>2
        <4>2. UnderWay = {o} BY <1>0, <4>1 DEF OneInv
        <4> QED BY <4>2, FS_Singleton
      <3> QED BY <3>1, <3>2
    <2>2. dpc[m] \notin {"destroy", "exit", "gone"} BY <1>0 DEF AliveInv
    <2>3. Cardinality(UnderWay) > 1 BY <1>4, <2>2 DEF GiveUp
    <2>4. Cardinality(UnderWay) \in Nat
      <3>1. IsFiniteSet(UnderWay) BY <1>0, FS_Subset DEF UnderWay, OneInv
      <3> QED BY <3>1, FS_CardinalityType
    <2> QED BY <2>1, <2>3, <2>4
  <1>5. ASSUME DestroyDummy \/ (\E o \in UnderWay : FreeQueue(o)) \/ ConnectionLost PROVE FALSE
    BY <1>0, <1>5 DEF DestroyDummy, FreeQueue, ConnectionLost, AliveInv
  <1> QED BY <1>1, <1>2, <1>3, <1>4, <1>5 DEF Next, DaemonStep, ThreadStep

\* The loop goes on: where the daemons are, and whose hand is not empty.
LEMMA LoopSteps ==
    ASSUME Single, ProxyInv, SingleInv, Next
    PROVE  AliveInv' /\ HandInv' /\ OneInv'
  <1> USE DEF daemonVars, opVars, DaemonAt
  <1>0. /\ AliveInv /\ HandInv /\ OneInv /\ Window = 1 /\ C \in Machine /\ S \in Machine
        /\ dpc \in [Machine -> DaemonPc] /\ hand \in [Machine -> Msg \cup {None}]
        /\ result \in [Op -> {"none", "ok", "fail"}] /\ called \in SUBSET Op
    BY TwoMachines DEF Single, SingleInv, ProxyInv, TypeOK
  <1>1. ASSUME UNCHANGED <<called, result>> PROVE OneInv'
    BY <1>0, <1>1 DEF OneInv, UnderWay
  <1>2. ASSUME UNCHANGED <<dpc, conn, hand>> PROVE AliveInv' /\ HandInv'
    BY <1>0, <1>2 DEF AliveInv, HandInv
  <1>3. ASSUME NEW o \in Op, SendRequest(o) PROVE AliveInv' /\ HandInv' /\ OneInv'
    <2>1. /\ called' = called \cup {o} /\ o \notin called /\ Cardinality(UnderWay) < 1
          /\ UNCHANGED <<dpc, conn, hand, result>>
      BY <1>0, <1>3 DEF SendRequest
    <2>2. IsFiniteSet(called') BY <1>0, <2>1, FS_AddElement DEF OneInv
    <2>3. IsFiniteSet(UnderWay) BY <1>0, FS_Subset DEF UnderWay, OneInv
    <2>4. UnderWay = {}
      <3>1. Cardinality(UnderWay) \in Nat BY <2>3, FS_CardinalityType
      <3>2. Cardinality(UnderWay) = 0 BY <2>1, <3>1
      <3> QED BY <2>3, <3>2, FS_EmptySet
    <2>5. UnderWay' \subseteq {o} BY <2>1, <2>4 DEF UnderWay
    <2>6. \A p \in Op \ called' : result'[p] = "none" BY <1>0, <2>1 DEF OneInv
    <2>7. \A p, q \in UnderWay' : p = q BY <2>5
    <2>8. OneInv' BY <2>2, <2>6, <2>7 DEF OneInv
    <2> QED BY <1>2, <2>1, <2>8
  <1>4. ASSUME NEW m \in Machine, \/ Select(m) \/ HandleNetlink(m) \/ HandleRemote(m)
                                  \/ KernelRecv(m) \/ KernelAck(m) \/ AwaitAck(m)
        PROVE  AliveInv' /\ HandInv' /\ OneInv'
    <2>1. UNCHANGED <<called, result, conn>>
      BY <1>4 DEF Select, HandleNetlink, HandleRemote, KernelRecv, KernelAck, AwaitAck
    <2>2. CASE Select(m)
      BY <1>0, <2>1, <2>2, <1>1 DEF Select, AliveInv, HandInv
    <2>3. CASE HandleNetlink(m)
      BY <1>0, <2>1, <2>3, <1>1 DEF HandleNetlink, AfterNetlink, AliveInv, HandInv
    <2>4. CASE HandleRemote(m)
      BY <1>0, <2>1, <2>4, <1>1 DEF HandleRemote, AliveInv, HandInv
    <2>5. CASE KernelRecv(m)
      BY <1>0, <2>1, <2>5, <1>1 DEF KernelRecv, AliveInv, HandInv
    <2>6. CASE KernelAck(m)
      BY <1>0, <2>1, <2>6, <1>1 DEF KernelAck, AliveInv, HandInv
    <2>7. CASE AwaitAck(m)
      BY <1>0, <2>1, <2>7, <1>1 DEF AwaitAck, AliveInv, HandInv
    <2> QED BY <1>4, <2>2, <2>3, <2>4, <2>5, <2>6, <2>7
  <1>5. ASSUME NEW x \in woken[S], Execute(x) PROVE AliveInv' /\ HandInv' /\ OneInv'
    BY <1>1, <1>2, <1>5 DEF Execute
  <1>6. ASSUME NEW x \in replies, SendReply(x) PROVE AliveInv' /\ HandInv' /\ OneInv'
    BY <1>1, <1>2, <1>6 DEF SendReply
  <1>7. ASSUME NEW x \in woken[C], Complete(x) PROVE AliveInv' /\ HandInv' /\ OneInv'
    <2>1. x \in Msg BY <1>0 DEF ProxyInv, TypeOK
    <2>2. x.op \in Op /\ x.res # "none" BY <2>1, AckIsNone
    <2>3. x \in Inbound BY <1>0, <2>1, AckIsNone, TwoMachines DEF Inbound, Travelling
    <2>4. x.op \in called BY <2>3 DEF ProxyInv, PathInv, IsResult
    <2>5. result' = [result EXCEPT ![x.op] = x.res] /\ UNCHANGED <<dpc, conn, hand, called>>
      BY <1>7 DEF Complete
    <2>6. UnderWay' \subseteq UnderWay BY <1>0, <2>2, <2>5 DEF UnderWay
    <2>7. \A p \in Op \ called' : result'[p] = "none"
      BY <1>0, <2>4, <2>5 DEF OneInv
    <2>8. OneInv' BY <1>0, <2>5, <2>6, <2>7 DEF OneInv
    <2> QED BY <1>2, <2>5, <2>8
  <1> QED BY <1>3, <1>4, <1>5, <1>6, <1>7, SingleSteps

\* nllock is held exactly from netlink_recv's start to its ACK, so that nobody
\* puts a message before it.
LEMMA LockSteps ==
    ASSUME Single, ProxyInv, SingleInv, Next
    PROVE  LockInv' /\ ReadyInv'
  <1> USE DEF daemonVars, opVars, DaemonAt
  <1>0. /\ LockInv /\ ReadyInv /\ AliveInv /\ StepInv /\ C \in Machine /\ S \in Machine
        /\ dpc \in [Machine -> DaemonPc] /\ nllock \in [Machine -> BOOLEAN]
        /\ rmready \in [Machine -> BOOLEAN]
        /\ nlq \in [Machine -> Seq(Nl)] /\ tcp \in [Machine -> Seq(Nl)]
    BY Queues, TwoMachines DEF SingleInv, ProxyInv, TypeOK
  <1>1. ASSUME UNCHANGED <<dpc, nllock, nlq>> PROVE LockInv'
    BY <1>0, <1>1 DEF LockInv
  <1>2. ASSUME UNCHANGED <<dpc, rmready, tcp>> PROVE ReadyInv'
    BY <1>0, <1>2 DEF ReadyInv
  <1>3. ASSUME NEW m \in Machine, NEW x, Unicast(m, x), ~nllock[m], UNCHANGED <<dpc, nllock>>
        PROVE  LockInv'
    BY <1>0, <1>3 DEF LockInv, Unicast
  <1>4. CASE \E o \in Op : SendRequest(o)
    <2>1. PICK x : Unicast(C, x) /\ ~nllock[C] /\ UNCHANGED <<dpc, nllock, rmready, tcp>>
      BY <1>4 DEF SendRequest
    <2> QED BY <1>0, <1>2, <1>3, <2>1
  <1>5. CASE \E x \in replies : SendReply(x)
    <2>1. PICK x : Unicast(S, x) /\ ~nllock[S] /\ UNCHANGED <<dpc, nllock, rmready, tcp>>
      BY <1>5 DEF SendReply
    <2> QED BY <1>0, <1>2, <1>3, <2>1
  <1>6. CASE (\E x \in woken[S] : Execute(x)) \/ (\E x \in woken[C] : Complete(x))
    BY <1>1, <1>2, <1>6 DEF Execute, Complete
  <1>7. ASSUME NEW m \in Machine, Select(m) PROVE LockInv' /\ ReadyInv'
    BY <1>0, <1>7 DEF Select, RemoteReady, LockInv, ReadyInv, AliveInv
  <1>8. ASSUME NEW m \in Machine, HandleNetlink(m) PROVE LockInv' /\ ReadyInv'
    <2>1. nlq[m] # << >> /\ dpc[m] = "nl" BY <1>0, <1>8 DEF HandleNetlink, StepInv
    <2>2. PICK x \in Nl : x = Head(nlq[m]) BY <1>0, <2>1
    <2>3. /\ nlq' = [nlq EXCEPT ![m] = Tail(nlq[m])] /\ UNCHANGED <<nllock, rmready>>
          /\ dpc' = [dpc EXCEPT ![m] = AfterNetlink(m)]
          /\ tcp' = [tcp EXCEPT ![Peer(m)] = Append(tcp[Peer(m)], x)]
      BY <1>0, <1>8, <2>2 DEF HandleNetlink, NetlinkRecv, ConnSend, AliveInv
    <2>4. LockInv' BY <1>0, <2>1, <2>3 DEF LockInv, AfterNetlink
    <2>5. tcp[Peer(m)] \in Seq(Nl) BY <1>0, TwoMachines
    <2>6. Append(tcp[Peer(m)], x) # << >> BY <2>5, AppendSome
    <2>7. \A k \in Machine : tcp[k] # << >> => tcp'[k] # << >> BY <1>0, <2>3, <2>6
    <2>8. ReadyInv' BY <1>0, <2>1, <2>3, <2>7 DEF ReadyInv, AfterNetlink
    <2> QED BY <2>4, <2>8
  <1>9. ASSUME NEW m \in Machine, HandleRemote(m) PROVE LockInv' /\ ReadyInv'
    <2>1. /\ tcp' = [tcp EXCEPT ![m] = Tail(tcp[m])] /\ dpc[m] = "rm"
          /\ dpc' = [dpc EXCEPT ![m] = "ksend"] /\ UNCHANGED <<nllock, rmready, nlq>>
      BY <1>9 DEF HandleRemote, ConnRecv
    <2>2. LockInv' BY <1>0, <2>1 DEF LockInv
    <2>3. ReadyInv' BY <1>0, <2>1 DEF ReadyInv
    <2> QED BY <2>2, <2>3
  <1>10. ASSUME NEW m \in Machine, KernelRecv(m) PROVE LockInv' /\ ReadyInv'
    <2>1. nlq[m] = << >> BY <1>10, QueueEmpty DEF KernelRecv
    <2>2. /\ dpc' = [dpc EXCEPT ![m] = "kack"] /\ nllock' = [nllock EXCEPT ![m] = TRUE]
          /\ UNCHANGED <<nlq, tcp, rmready>>
      BY <1>10 DEF KernelRecv
    <2>3. LockInv' BY <1>0, <2>1, <2>2 DEF LockInv
    <2>4. ReadyInv' BY <1>0, <2>2 DEF ReadyInv
    <2> QED BY <2>3, <2>4
  <1>11. ASSUME NEW m \in Machine, KernelAck(m) PROVE LockInv' /\ ReadyInv'
    <2>1. /\ dpc' = [dpc EXCEPT ![m] = "ack"] /\ nllock' = [nllock EXCEPT ![m] = FALSE]
          /\ Unicast(m, Ack) /\ UNCHANGED <<tcp, rmready>>
      BY <1>11 DEF KernelAck
    <2>2. LockInv' BY <1>0, <2>1 DEF LockInv, Unicast
    <2>3. ReadyInv' BY <1>0, <2>1 DEF ReadyInv
    <2> QED BY <2>2, <2>3
  <1>12. ASSUME NEW m \in Machine, AwaitAck(m) PROVE LockInv' /\ ReadyInv'
    <2>1. /\ dpc' = [dpc EXCEPT ![m] = "select"] /\ dpc[m] = "ack"
          /\ nlq' = [nlq EXCEPT ![m] = Tail(nlq[m])] /\ UNCHANGED <<nllock, tcp, rmready>>
      BY <1>12 DEF AwaitAck, NetlinkRecv
    <2>2. LockInv' BY <1>0, <2>1 DEF LockInv
    <2>3. ReadyInv' BY <1>0, <2>1 DEF ReadyInv
    <2> QED BY <2>2, <2>3
  <1> QED
    BY <1>4, <1>5, <1>6, <1>7, <1>8, <1>9, <1>10, <1>11, <1>12, SingleSteps

\* The ACK gets to the front of the queue, and no other is in it.
LEMMA AckSteps ==
    ASSUME Single, ProxyInv, SingleInv, Next
    PROVE  AckInv'
  <1> USE DEF daemonVars, opVars, DaemonAt
  <1>0. /\ AckInv /\ LockInv /\ AliveInv /\ StepInv /\ C \in Machine /\ S \in Machine
        /\ dpc \in [Machine -> DaemonPc] /\ nlq \in [Machine -> Seq(Nl)]
    BY Queues, TwoMachines DEF SingleInv, ProxyInv, TypeOK
  <1>1. ASSUME UNCHANGED <<dpc, nlq>> PROVE AckInv'
    BY <1>0, <1>1 DEF AckInv, AckOrder
  <1>2. ASSUME NEW m \in Machine, NEW x \in Nl, x # Ack, Unicast(m, x), dpc' = dpc
        PROVE  AckInv'
    <2>1. nlq' = [nlq EXCEPT ![m] = Append(nlq[m], x)] BY <1>0, <1>2 DEF Unicast, Alive, AliveInv
    <2>2. PICK q \in Seq(Nl) : q = nlq[m] BY <1>0
    <2>3. /\ Append(q, x) # << >> /\ Len(Append(q, x)) = Len(q) + 1
          /\ Append(q, x)[Len(q) + 1] = x
          /\ \A i \in 1 .. Len(q) : Append(q, x)[i] = q[i]
      BY AppendProperties
    <2>4. \A i \in 1 .. Len(Append(q, x)) : i \in 1 .. Len(q) \/ i = Len(q) + 1
      BY <2>2, <2>3
    <2>5. dpc[m] = "ack" => Len(q) # 0 BY <1>0, <2>2 DEF AckInv, AckOrder
    <2>6. \A i \in 1 .. Len(Append(q, x)) :
             Append(q, x)[i] = Ack <=> i = 1 /\ dpc[m] = "ack"
      <3> TAKE i \in 1 .. Len(Append(q, x))
      <3>1. CASE i \in 1 .. Len(q) BY <1>0, <2>2, <2>3, <3>1 DEF AckInv, AckOrder
      <3>2. CASE i = Len(q) + 1 BY <1>2, <2>2, <2>3, <2>5, <3>2
      <3> QED BY <2>4, <3>1, <3>2
    <2>7. \A k \in Machine : k # m => nlq'[k] = nlq[k] BY <1>0, <2>1
    <2>8. nlq'[m] = Append(q, x) BY <1>0, <2>1, <2>2
    <2>9. AckOrder(dpc'[m], nlq'[m]) BY <1>2, <2>3, <2>6, <2>8 DEF AckOrder
    <2> QED BY <1>0, <1>2, <2>7, <2>9 DEF AckInv
  <1>3. ASSUME NEW m \in Machine, nlq[m] # << >>, nlq' = [nlq EXCEPT ![m] = Tail(nlq[m])],
               NEW l, l # "ack", dpc' = [dpc EXCEPT ![m] = l]
        PROVE  AckInv'
    <2>1. PICK q \in Seq(Nl) : q = nlq[m] BY <1>0
    <2>2. /\ Len(Tail(q)) = Len(q) - 1
          /\ \A i \in 1 .. Len(Tail(q)) : Tail(q)[i] = q[i + 1]
      BY <1>3, <2>1, HeadTailProperties
    <2>3. \A i \in 1 .. Len(Tail(q)) : i + 1 \in 1 .. Len(q) /\ i + 1 # 1 BY <2>1, <2>2
    <2>4. \A i \in 1 .. Len(Tail(q)) : Tail(q)[i] # Ack BY <1>0, <2>1, <2>2, <2>3 DEF AckInv, AckOrder
    <2>5. \A k \in Machine : k # m => nlq'[k] = nlq[k] /\ dpc'[k] = dpc[k] BY <1>0, <1>3
    <2>6. nlq'[m] = Tail(q) /\ dpc'[m] # "ack" BY <1>0, <1>3, <2>1
    <2>7. AckOrder(dpc'[m], nlq'[m]) BY <2>4, <2>6 DEF AckOrder
    <2> QED BY <1>0, <2>5, <2>7 DEF AckInv
  <1>4. ASSUME NEW m \in Machine, nlq' = nlq, NEW l, l # "ack", dpc[m] # "ack",
               dpc' = [dpc EXCEPT ![m] = l]
        PROVE  AckInv'
    <2>1. \A k \in Machine : (dpc'[k] = "ack") <=> (dpc[k] = "ack") BY <1>0, <1>4
    <2> QED BY <1>0, <1>4, <2>1 DEF AckInv, AckOrder
  <1>5. ASSUME NEW o \in Op, SendRequest(o) PROVE AckInv'
    <2>1. PICK x \in Msg : x = [op |-> o, res |-> "fail"] BY DEF Msg
    <2>2. x \in Nl /\ x # Ack BY AckIsNone DEF Nl
    <2> QED BY <1>0, <1>2, <1>5, <2>1, <2>2 DEF SendRequest
  <1>6. ASSUME NEW x \in replies, SendReply(x) PROVE AckInv'
    <2>1. x \in Nl /\ x # Ack BY AckIsNone DEF Nl, ProxyInv, TypeOK
    <2> QED BY <1>0, <1>2, <1>6, <2>1 DEF SendReply
  <1>7. CASE (\E x \in woken[S] : Execute(x)) \/ (\E x \in woken[C] : Complete(x))
    BY <1>1, <1>7 DEF Execute, Complete
  <1>8. ASSUME NEW m \in Machine, Select(m) PROVE AckInv'
    <2>1. PICK l \in {"nl", "rm"} : dpc' = [dpc EXCEPT ![m] = l] BY <1>8 DEF Select
    <2> QED BY <1>4, <1>8, <2>1 DEF Select
  <1>9. ASSUME NEW m \in Machine, HandleNetlink(m) PROVE AckInv'
    <2>1. PICK l \in {"rm", "select"} : dpc' = [dpc EXCEPT ![m] = l]
      BY <1>0, <1>9 DEF HandleNetlink, AfterNetlink, AliveInv
    <2>2. nlq[m] # << >> /\ nlq' = [nlq EXCEPT ![m] = Tail(nlq[m])]
      BY <1>0, <1>9 DEF HandleNetlink, NetlinkRecv, StepInv
    <2> QED BY <1>3, <2>1, <2>2
  <1>10. ASSUME NEW m \in Machine, HandleRemote(m) \/ KernelRecv(m) PROVE AckInv'
    <2>1. \E l \in {"ksend", "kack"} : dpc' = [dpc EXCEPT ![m] = l]
      BY <1>10 DEF HandleRemote, KernelRecv
    <2>2. nlq' = nlq /\ dpc[m] # "ack" BY <1>10 DEF HandleRemote, KernelRecv
    <2> QED BY <1>4, <2>1, <2>2
  <1>11. ASSUME NEW m \in Machine, KernelAck(m) PROVE AckInv'
    <2>1. /\ dpc[m] = "kack" /\ Unicast(m, Ack) /\ dpc' = [dpc EXCEPT ![m] = "ack"]
      BY <1>11 DEF KernelAck
    <2>2. nlq[m] = << >> /\ Alive(m) BY <1>0, <2>1 DEF LockInv, Alive
    <2>3. nlq' = [nlq EXCEPT ![m] = << Ack >>]
      <3>1. Append(<< >>, Ack) = << Ack >> OBVIOUS
      <3> QED BY <2>1, <2>2, <3>1 DEF Unicast
    <2>4. \A k \in Machine : k # m => nlq'[k] = nlq[k] /\ dpc'[k] = dpc[k] BY <1>0, <2>1, <2>3
    <2>5. nlq'[m] = << Ack >> /\ dpc'[m] = "ack" BY <1>0, <2>1, <2>3
    <2>6. << Ack >> # << >> /\ \A i \in 1 .. Len(<< Ack >>) : << Ack >>[i] = Ack /\ i = 1
      OBVIOUS
    <2>7. AckOrder(dpc'[m], nlq'[m]) BY <2>5, <2>6 DEF AckOrder
    <2> QED BY <1>0, <2>4, <2>7 DEF AckInv
  <1>12. ASSUME NEW m \in Machine, AwaitAck(m) PROVE AckInv'
    BY <1>3, <1>12 DEF AwaitAck, NetlinkRecv
  <1> QED
    BY <1>5, <1>6, <1>7, <1>8, <1>9, <1>10, <1>11, <1>12, SingleSteps

\* Nothing is lost: every handler passes on what it takes.
LEMMA KeepSteps ==
    ASSUME Single, ProxyInv, SingleInv, Next, TypeOK'
    PROVE  KeepInv'
  <1> SUFFICES ASSUME NEW o \in Op
               PROVE  Copies(o)' = IF o \in UnderWay' THEN 1 ELSE 0
    BY DEF KeepInv
  <1> USE DEF daemonVars, opVars, UnderWay
  <1>0. /\ TypeOK /\ StepInv /\ PathInv /\ AliveInv /\ OneInv /\ HandInv /\ AckInv
        /\ C \in Machine /\ S \in Machine
        /\ result \in [Op -> {"none", "ok", "fail"}] /\ called \in SUBSET Op
    BY TwoMachines DEF ProxyInv, SingleInv, TypeOK
  <1>1. Total(o) = (IF o \in UnderWay THEN 1 ELSE 0) /\ Copies(o)' = Total(o)'
    BY <1>0, CopiesTotal, CopiesTotalNext DEF SingleInv, KeepInv
  <1>2. ASSUME Total(o)' = Total(o), UNCHANGED <<called, result>>
        PROVE  Copies(o)' = IF o \in UnderWay' THEN 1 ELSE 0
    BY <1>1, <1>2
  <1>3. ASSUME NEW p \in Op, SendRequest(p)
        PROVE  Copies(o)' = IF o \in UnderWay' THEN 1 ELSE 0
    <2>1. Total(o)' = Total(o) + (IF p = o THEN 1 ELSE 0) BY <1>0, <1>3, ThreadTotal
    <2>2. p \notin called /\ called' = called \cup {p} /\ result' = result /\ result[p] = "none"
      BY <1>0, <1>3 DEF SendRequest, OneInv
    <2> QED BY <1>1, <2>1, <2>2
  <1>4. ASSUME NEW m \in Machine, \/ Select(m) \/ HandleNetlink(m) \/ HandleRemote(m)
                                  \/ KernelRecv(m) \/ KernelAck(m) \/ AwaitAck(m)
        PROVE  Copies(o)' = IF o \in UnderWay' THEN 1 ELSE 0
    <2>1. UNCHANGED <<called, result>>
      BY <1>4 DEF Select, HandleNetlink, HandleRemote, KernelRecv, KernelAck, AwaitAck
    <2>2. CASE Select(m) BY <1>0, <1>2, <2>1, <2>2, LoopTotal
    <2>3. CASE HandleNetlink(m)
      <3>1. conn BY <1>0 DEF AliveInv
      <3> QED BY <1>0, <1>2, <2>1, <2>3, <3>1, LoopTotal
    <2>4. CASE HandleRemote(m)
      <3>1. hand[m] = None BY <1>0, <2>4 DEF HandleRemote, HandInv
      <3>2. Ind(o, hand[m]) = 0 BY <3>1 DEF Ind
      <3>3. Total(o)' = Total(o) - Ind(o, hand[m]) BY <1>0, <2>4, LoopTotal
      <3> QED BY <1>1, <1>2, <2>1, <3>2, <3>3
    <2>5. CASE KernelRecv(m)
      <3>1. hand[m] \notin woken[m] BY <2>5, QueueEmpty DEF KernelRecv
      <3> QED BY <1>0, <1>2, <2>1, <2>5, <3>1, KernelTotal
    <2>6. CASE KernelAck(m) BY <1>0, <1>2, <2>1, <2>6, KernelTotal
    <2>7. CASE AwaitAck(m)
      <3>1. dpc[m] = "ack" /\ nlq[m] # << >> /\ nlq[m] \in Seq(Nl)
        BY <1>0, <2>7, Queues DEF AwaitAck
      <3>2. 1 \in 1 .. Len(nlq[m]) /\ Head(nlq[m]) = nlq[m][1] BY <3>1
      <3>3. Head(nlq[m]) = Ack BY <1>0, <3>1, <3>2 DEF AckInv, AckOrder
      <3>4. Ind(o, Head(nlq[m])) = 0 BY <3>3, AckIsNone
      <3>5. Total(o)' = Total(o) - Ind(o, Head(nlq[m])) BY <1>0, <2>7, KernelTotal
      <3> QED BY <1>1, <1>2, <2>1, <3>4, <3>5
    <2> QED BY <1>4, <2>2, <2>3, <2>4, <2>5, <2>6, <2>7
  <1>5. ASSUME NEW x \in woken[S], Execute(x)
        PROVE  Copies(o)' = IF o \in UnderWay' THEN 1 ELSE 0
    <2>1. \A y \in replies : y.op # x.op BY Alone DEF Inbound
    <2>2. Total(o)' = Total(o) BY <1>0, <1>5, <2>1, ThreadTotal
    <2> QED BY <1>2, <1>5, <2>2 DEF Execute
  <1>6. ASSUME NEW x \in replies, SendReply(x)
        PROVE  Copies(o)' = IF o \in UnderWay' THEN 1 ELSE 0
    <2>1. Alive(S) BY <1>0 DEF AliveInv, Alive
    <2>2. Total(o)' = Total(o) BY <1>0, <1>6, <2>1, ThreadTotal
    <2> QED BY <1>2, <1>6, <2>2 DEF SendReply
  <1>7. ASSUME NEW x \in woken[C], Complete(x)
        PROVE  Copies(o)' = IF o \in UnderWay' THEN 1 ELSE 0
    <2>1. x \in Msg BY <1>0 DEF TypeOK
    <2>2. x.op \in Op /\ x.res # "none" /\ x # None /\ x # Ack BY <2>1, AckIsNone
    <2>3. x \in Inbound BY <2>2, TwoMachines DEF Inbound, Travelling
    <2>4. x.op \in called BY <1>0, <2>3 DEF PathInv, IsResult
    <2>5. /\ result[x.op] = "none" /\ result' = [result EXCEPT ![x.op] = x.res]
          /\ called' = called
      BY <1>7 DEF Complete
    <2>6. Total(o)' = Total(o) - Ind(o, x) BY <1>0, <1>7, ThreadTotal
    <2>7. Ind(o, x) = IF x.op = o THEN 1 ELSE 0 BY <2>2 DEF Ind
    <2>8. CASE x.op = o
      <3>1. o \in UnderWay /\ o \notin UnderWay' BY <1>0, <2>2, <2>4, <2>5, <2>8
      <3> QED BY <1>1, <2>6, <2>7, <2>8, <3>1
    <2>9. CASE x.op # o
      <3>1. o \in UnderWay' <=> o \in UnderWay BY <1>0, <2>5, <2>9
      <3> QED BY <1>1, <2>6, <2>7, <2>9, <3>1
    <2> QED BY <2>8, <2>9
  <1> QED BY <1>3, <1>4, <1>5, <1>6, <1>7, SingleSteps

\* The inductive invariant holds with one operation at a time and no failures.
LEMMA SingleAlways ==
    ASSUME Single
    PROVE  Spec => []SingleInv
  <1>1. Init => SingleInv
    <2> SUFFICES ASSUME Init PROVE SingleInv OBVIOUS
    <2>1. ProxyInv BY ProxyInit
    <2>2. AliveInv /\ HandInv /\ LockInv /\ ReadyInv /\ AckInv
      BY DEF Init, AliveInv, HandInv, LockInv, ReadyInv, AckInv, AckOrder
    <2>3. OneInv BY FS_EmptySet DEF Init, OneInv, UnderWay
    <2>4. KeepInv
      <3>1. \A o \in Op : Copies(o) = 0 BY <2>1 DEF ProxyInv, CountInv, Init
      <3> QED BY <3>1 DEF KeepInv, UnderWay, Init
    <2> QED BY <2>2, <2>3, <2>4 DEF SingleInv
  <1>2. ProxyInv /\ SingleInv /\ [Next]_vars => SingleInv'
    <2> SUFFICES ASSUME ProxyInv, SingleInv, [Next]_vars PROVE SingleInv' OBVIOUS
    <2>1. CASE Next
      <3>1. TypeOK' BY <2>1, TypeStep
      <3> QED BY <2>1, <3>1, LoopSteps, LockSteps, AckSteps, KeepSteps DEF SingleInv
    <2>2. CASE UNCHANGED vars
      <3> USE <2>2 DEF vars, daemonVars, opVars
      <3>1. AliveInv' /\ OneInv' /\ HandInv'
        BY DEF SingleInv, AliveInv, OneInv, UnderWay, HandInv
      <3>2. LockInv' /\ ReadyInv' /\ AckInv' BY DEF SingleInv, LockInv, ReadyInv, AckInv, AckOrder
      <3>3. KeepInv'
        <4>1. \A o \in Op : Copies(o)' = Copies(o) BY DEF Copies
        <4>2. UnderWay' = UnderWay BY DEF UnderWay
        <4> QED BY <4>1, <4>2 DEF SingleInv, KeepInv
      <3> QED BY <3>1, <3>2, <3>3 DEF SingleInv
    <2> QED BY <2>1, <2>2
  <1> QED BY <1>1, <1>2, ProxyAlways, PTL DEF Spec

\* netlink_send_nlh takes whatever comes next on its socket for the ACK of what
\* it has sent: with one operation at a time, and no failures, that is its ACK.
THEOREM AcksConfirm ==
    ASSUME Single
    PROVE  Spec => []AckFirst
  <1>1. ProxyInv /\ SingleInv => AckFirst
    <2> SUFFICES ASSUME ProxyInv, SingleInv, NEW m \in Machine, dpc[m] = "ack", nlq[m] # << >>
                 PROVE  Head(nlq[m]) = Ack
      BY DEF AckFirst
    <2>1. nlq[m] \in Seq(Nl) BY Queues DEF ProxyInv
    <2>2. 1 \in 1 .. Len(nlq[m]) /\ Head(nlq[m]) = nlq[m][1] BY <2>1
    <2> QED BY <2>2 DEF SingleInv, AckInv, AckOrder
  <1> QED BY <1>1, ProxyAlways, SingleAlways, PTL

\* Nothing is lost either: until an operation returns its request or result is
\* in exactly one place on the way through both kernels and both daemons, and
\* afterwards in none.
THEOREM NothingLost ==
    ASSUME Single
    PROVE  Spec => []Conserved
  <1>1. ProxyInv /\ SingleInv => Conserved
    BY DEF ProxyInv, TypeOK, SingleInv, KeepInv, UnderWay, Conserved
  <1> QED BY <1>1, ProxyAlways, SingleAlways, PTL
=============================================================================
