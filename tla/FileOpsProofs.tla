---------------------------- MODULE FileOpsProofs ---------------------------
(***************************************************************************)
(* Theorems about FileOps: for every device, every set of bytes and every  *)
(* size of messages, what a call reports is what became of it.             *)
(***************************************************************************)
EXTENDS FileOps, SequenceTheorems, TLAPS

USE SizeAssumption, ByteAssumption

-----------------------------------------------------------------------------
(* The inductive invariant *)

\* What the caller asks for: its own argument, its bytes and, in a read or a
\* write, the position of its file.
SentBy(t, bytes) == IF t = "write" THEN bytes ELSE << >>
OffsetOf(t) == IF t \in {"read", "write"} THEN pos ELSE 0
Sent == SentBy(call.type, call.bytes)
Offset == OffsetOf(call.type)
Request == [rvalue |-> -1, args |-> <<call.arg, Offset, EIO>>, data |-> Sent]

\* What the device answers to it.
Answer(moved, data) ==
    [rvalue |-> 0, args |-> <<call.arg, moved, did.rv>>, data |-> data]

\* What the caller has lent has room for all that is asked for.
RequestInv ==
    pc \in {"exec", "reply"} =>
        /\ call.type \in Type /\ call.arg \in Nat
        /\ call.type \in {"read", "write"} => call.arg < Limit
        /\ call.type = "compat_ioctl" => call.arg = 0
        /\ call.type = "write" => call.arg = Len(call.bytes)
        /\ req.rvalue = -1 /\ req.args = Request.args
        /\ Len(req.data) = IF call.type = "read" THEN call.arg ELSE Len(Sent)

\* The serving machine is handed the request of the caller.
ExecInv == pc = "exec" => message = fo_serialize(Request) /\ ~did.done

\* The device was operated for this call, with the arguments of the caller.
Outcome ==
    /\ did.done /\ call.type # "ioctl" /\ did.rv \in {ENXIO} \cup Nat
    /\ call.type = "read" => /\ did.off = pos /\ did.rv <= call.arg
                             /\ did.rv >= 0 => pos + did.rv <= DevSize
    /\ call.type = "write" /\ did.rv >= 0 => did.bytes = SubSeq(call.bytes, 1, did.rv)
    /\ call.type = "llseek" => did.off = call.arg

\* The position that a read asks the caller to go on from.
Moved == IF did.rv > 0 THEN did.off + did.rv ELSE did.off

\* The bytes of a read, in a block of the size that was asked for.
Brought(data) == Len(data) = call.arg /\ (did.rv >= 0 => SubSeq(data, 1, did.rv) = did.bytes)

\* A call that was not carried out, or by unlocked_ioctl in vain.
Untouched == did.done => call.type = "ioctl"

\* The request comes back as it was, or with the outcome.
ReplyInv ==
    pc = "reply" =>
        \/ message = fo_serialize(Request) /\ Untouched
        \/ /\ Outcome
           /\ \E moved \in 0 .. DevSize, data \in Data :
                 /\ message = fo_serialize(Answer(moved, data))
                 /\ IF call.type = "read" THEN moved = Moved /\ Brought(data)
                    ELSE data = << >>

\* The caller's structures tell what happened.
ReturnInv ==
    pc = "return" =>
        /\ call.type \in Type /\ Len(req.args) = 3
        /\ \/ req.rvalue = -1 /\ Value = EIO /\ Untouched
           \/ /\ req.rvalue = 0 /\ Value = did.rv /\ Outcome
              /\ call.type = "read" =>
                    call.arg < Limit /\ req.args[2] = Moved /\ Brought(req.data)

OpsInv ==
    /\ TypeOK /\ RequestInv /\ ExecInv /\ ReplyInv /\ ReturnInv
    /\ SuccessIsTrue /\ FailureIsTrue

-----------------------------------------------------------------------------
(* The layout of a message *)

\* fo_deserialize undoes fo_serialize, whatever the sizes of the two blocks.
LEMMA RoundTrip ==
    \A v \in Int, a \in Seq(Int), d \in Seq(Int) : \A m :
        m = fo_serialize([rvalue |-> v, args |-> a, data |-> d]) =>
            /\ m \in Seq(Int)
            /\ m[3] = Len(a) /\ m[4] = Len(d)
            /\ fo_deserialize(m) = [rvalue |-> v, args |-> a, data |-> d]
  <1> SUFFICES ASSUME NEW v \in Int, NEW a \in Seq(Int), NEW d \in Seq(Int), NEW m,
                      m = fo_serialize([rvalue |-> v, args |-> a, data |-> d])
               PROVE  /\ m \in Seq(Int)
                      /\ m[3] = Len(a) /\ m[4] = Len(d)
                      /\ fo_deserialize(m) = [rvalue |-> v, args |-> a, data |-> d]
    OBVIOUS
  <1> DEFINE h == <<1, v, Len(a), Len(d)>>
             ha == h \o a
  <1>1. Len(a) \in Nat /\ Len(d) \in Nat OBVIOUS
  <1>2. h \in Seq(Int) /\ Len(h) = 4 /\ h[2] = v /\ h[3] = Len(a) /\ h[4] = Len(d)
    BY <1>1
  <1>3. m = ha \o d BY DEF fo_serialize
  <1> HIDE DEF h
  <1>4. /\ ha \in Seq(Int) /\ Len(ha) = 4 + Len(a)
        /\ \A i \in 1 .. 4 + Len(a) : ha[i] = IF i <= 4 THEN h[i] ELSE a[i - 4]
    <2>1. /\ ha \in Seq(Int) /\ Len(ha) = Len(h) + Len(a)
          /\ \A i \in 1 .. Len(h) + Len(a) :
                ha[i] = IF i <= Len(h) THEN h[i] ELSE a[i - Len(h)]
      BY <1>2, ConcatProperties
    <2> HIDE DEF ha
    <2> QED BY <1>1, <1>2, <2>1
  <1> HIDE DEF ha
  <1>5. /\ m \in Seq(Int) /\ Len(m) = 4 + Len(a) + Len(d)
        /\ \A i \in 1 .. 4 + Len(a) + Len(d) :
              m[i] = IF i <= 4 + Len(a) THEN ha[i] ELSE d[i - (4 + Len(a))]
    <2>1. ha \in Seq(Int) BY <1>4
    <2>2. /\ ha \o d \in Seq(Int) /\ Len(ha \o d) = Len(ha) + Len(d)
          /\ \A i \in 1 .. Len(ha) + Len(d) :
                (ha \o d)[i] = IF i <= Len(ha) THEN ha[i] ELSE d[i - Len(ha)]
      BY <2>1, ConcatProperties
    <2> QED BY <1>1, <1>3, <1>4, <2>2
  <1>6. m[2] = v /\ m[3] = Len(a) /\ m[4] = Len(d) 
    <2>1. \A i \in {2, 3, 4} : m[i] = h[i]
      <3>1. \A i \in {2, 3, 4} : i \in 1 .. 4 + Len(a) /\ i \in 1 .. 4 + Len(a) + Len(d)
        BY <1>1
      <3>2. \A i \in {2, 3, 4} : i <= 4 /\ i <= 4 + Len(a) BY <1>1
      <3> QED BY <1>4, <1>5, <3>1, <3>2
    <2> QED BY <1>2, <2>1
  <1>7. SubSeq(m, 5, 4 + Len(a)) = a
    <2>1. \A i \in 5 .. 4 + Len(a) : m[i] \in Int BY <1>1, <1>5
    <2>2. /\ SubSeq(m, 5, 4 + Len(a)) \in Seq(Int)
          /\ Len(SubSeq(m, 5, 4 + Len(a))) = Len(a)
          /\ \A i \in 1 .. Len(a) : SubSeq(m, 5, 4 + Len(a))[i] = m[4 + i]
      BY <1>1, <2>1, SubSeqProperties
    <2>3. \A i \in 1 .. Len(a) : m[4 + i] = a[i]
      <3> SUFFICES ASSUME NEW i \in 1 .. Len(a) PROVE m[4 + i] = a[i] OBVIOUS
      <3>1. 4 + i \in 1 .. 4 + Len(a) /\ 4 + i \in 1 .. 4 + Len(a) + Len(d) BY <1>1
      <3>2. ~(4 + i <= 4) /\ 4 + i <= 4 + Len(a) /\ (4 + i) - 4 = i BY <1>1
      <3>3. m[4 + i] = ha[4 + i] BY <1>5, <3>1, <3>2
      <3>4. ha[4 + i] = a[(4 + i) - 4] BY <1>4, <3>1, <3>2
      <3> QED BY <3>2, <3>3, <3>4
    <2> QED BY <2>2, <2>3, SeqEqual
  <1>8. SubSeq(m, 5 + Len(a), 4 + Len(a) + Len(d)) = d
    <2> DEFINE s == SubSeq(m, 5 + Len(a), 4 + Len(a) + Len(d))
    <2>1. \A i \in 5 + Len(a) .. 4 + Len(a) + Len(d) : m[i] \in Int BY <1>1, <1>5
    <2>2. /\ s \in Seq(Int) /\ Len(s) = Len(d)
          /\ \A i \in 1 .. Len(d) : s[i] = m[4 + Len(a) + i]
      BY <1>1, <2>1, SubSeqProperties
    <2>3. \A i \in 1 .. Len(d) : m[4 + Len(a) + i] = d[i]
      <3> SUFFICES ASSUME NEW i \in 1 .. Len(d) PROVE m[4 + Len(a) + i] = d[i] OBVIOUS
      <3> DEFINE x == 4 + Len(a) + i
      <3>1. x \in 1 .. 4 + Len(a) + Len(d) /\ ~(x <= 4 + Len(a)) /\ x - (4 + Len(a)) = i
        BY ONLY <1>1, i \in 1 .. Len(d)
      <3> HIDE DEF x
      <3>2. m[x] = d[x - (4 + Len(a))] BY ONLY <1>5, <3>1
      <3> QED BY <3>1, <3>2 DEF x
    <2> HIDE DEF s
    <2>4. s = d BY <2>2, <2>3, SeqEqual
    <2> QED BY <2>4 DEF s
  <1> QED BY <1>5, <1>6, <1>7, <1>8 DEF fo_deserialize

\* A block of the same length replaces what the caller has.
LEMMA OverSame ==
    ASSUME NEW S, NEW old \in Seq(S), NEW new \in Seq(S), Len(new) = Len(old)
    PROVE  Over(old, new) = new
  <1>1. \A i \in 1 .. Len(old) :
            (IF i <= Len(new) THEN new[i] ELSE old[i]) = new[i] OBVIOUS
  <1>2. Over(old, new) = [i \in 1 .. Len(old) |-> new[i]] BY <1>1 DEF Over
  <1>3. Over(old, new) \in Seq(S) /\ Len(Over(old, new)) = Len(new)
    BY <1>2
  <1> QED BY <1>2, <1>3, SeqEqual

\* An empty block leaves what the caller has as it is.
LEMMA OverNone ==
    ASSUME NEW S, NEW old \in Seq(S)
    PROVE  Over(old, << >>) = old
  <1>1. Over(old, << >>) = [i \in 1 .. Len(old) |-> old[i]] BY DEF Over
  <1>2. Over(old, << >>) \in Seq(S) /\ Len(Over(old, << >>)) = Len(old) BY <1>1
  <1> QED BY <1>1, <1>2, SeqEqual

\* Data are the sequences of bytes that a message has room for.
LEMMA DataSeq ==
    \A s : s \in Data <=> s \in Seq(Byte) /\ Len(s) <= Limit
  <1> SUFFICES ASSUME NEW s PROVE s \in Data <=> s \in Seq(Byte) /\ Len(s) <= Limit
    OBVIOUS
  <1>1. ASSUME s \in Data PROVE s \in Seq(Byte) /\ Len(s) <= Limit
    <2>1. PICK n \in 0 .. Limit : s \in [1 .. n -> Byte] BY <1>1 DEF Data
    <2> QED BY <2>1
  <1>2. ASSUME s \in Seq(Byte), Len(s) <= Limit PROVE s \in Data
    <2>1. Len(s) \in 0 .. Limit /\ s \in [1 .. Len(s) -> Byte] BY <1>2, LenProperties
    <2> QED BY <2>1 DEF Data
  <1> QED BY <1>1, <1>2

\* No bytes are data.
LEMMA NoData == << >> \in Data /\ << >> \in Seq(Byte) /\ Len(<< >>) = 0
  <1>1. << >> \in Seq(Byte) /\ Len(<< >>) = 0 BY EmptySeq
  <1> HIDE DEF Data
  <1>2. Len(<< >>) <= Limit BY <1>1
  <1> QED BY <1>1, <1>2, DataSeq

\* Bytes are integers, and so is everything else in a message.
LEMMA BytesInts == \A s \in Seq(Byte) : s \in Seq(Int)
  <1> SUFFICES ASSUME NEW s \in Seq(Byte) PROVE s \in Seq(Int) OBVIOUS
  <1>1. Len(s) \in Nat /\ s \in [1 .. Len(s) -> Int] BY LenProperties
  <1> QED BY <1>1

\* A zeroed buffer of n bytes.
LEMMA ZerosShape == \A n \in Nat : Zeros(n) \in Seq(Byte) /\ Len(Zeros(n)) = n
  BY DEF Zeros

-----------------------------------------------------------------------------
(* What is in a message *)

\* A request is laid out as it was asked for.
LEMMA RequestLayout ==
    ASSUME TypeOK, RequestInv, pc \in {"exec", "reply"}
    PROVE  /\ Request.args \in Seq(Int) /\ Len(Request.args) = 3
           /\ Sent \in Seq(Byte) /\ Len(Sent) <= Limit
           /\ \A m : m = fo_serialize(Request) =>
                 /\ m \in Seq(Int) /\ m[3] = 3 /\ m[4] = Len(Sent)
                 /\ fo_deserialize(m) = Request
  <1>1. call.arg \in Int /\ Offset \in Int /\ EIO \in Int
    BY DEF TypeOK, RequestInv, Offset, OffsetOf, EIO
  <1> DEFINE a == <<call.arg, Offset, EIO>>
  <1>2. a \in Seq(Int) /\ Len(a) = 3 BY <1>1
  <1>0. a \in Seq(Int) BY <1>2
  <1>3. Request = [rvalue |-> -1, args |-> a, data |-> Sent] BY DEF Request
  <1> HIDE DEF a
  <1>4. call.bytes \in Seq(Byte) /\ Len(call.bytes) <= Limit BY DataSeq DEF TypeOK
  <1>5. Sent \in Seq(Byte) /\ Len(Sent) <= Limit BY <1>4, NoData DEF Sent, SentBy
  <1>6. Sent \in Seq(Int) BY <1>5, BytesInts
  <1>7. ASSUME NEW m, m = fo_serialize(Request)
        PROVE  m \in Seq(Int) /\ m[3] = 3 /\ m[4] = Len(Sent) /\ fo_deserialize(m) = Request
    <2> DEFINE v == -1
    <2>1. v \in Int /\ m = fo_serialize([rvalue |-> v, args |-> a, data |-> Sent])
      BY <1>3, <1>7
    <2>2. Request = [rvalue |-> v, args |-> a, data |-> Sent] BY <1>3
    <2> HIDE DEF v
    <2>3. /\ m \in Seq(Int) /\ m[3] = Len(a) /\ m[4] = Len(Sent)
          /\ fo_deserialize(m) = [rvalue |-> v, args |-> a, data |-> Sent]
      BY <1>0, <1>6, <2>1, RoundTrip
    <2> QED BY <1>2, <2>2, <2>3
  <1> QED BY <1>2, <1>3, <1>5, <1>7

\* An answer is, too.
LEMMA AnswerLayout ==
    ASSUME NEW arg \in Int, NEW moved \in Int, NEW rv \in Int, NEW data \in Data, NEW m,
           m = fo_serialize([rvalue |-> 0, args |-> <<arg, moved, rv>>, data |-> data])
    PROVE  /\ m \in Seq(Int) /\ m[3] = 3 /\ m[4] = Len(data)
           /\ fo_deserialize(m) = [rvalue |-> 0, args |-> <<arg, moved, rv>>, data |-> data]
  <1> DEFINE a == <<arg, moved, rv>>
  <1>1. a \in Seq(Int) /\ Len(a) = 3 OBVIOUS
  <1>0. a \in Seq(Int) BY <1>1
  <1>2. data \in Seq(Int) BY DataSeq, BytesInts
  <1> DEFINE v == 0
  <1>3. v \in Int OBVIOUS
  <1> HIDE DEF a, v
  <1>4. m = fo_serialize([rvalue |-> v, args |-> a, data |-> data]) BY DEF a, v
  <1>5. /\ m \in Seq(Int) /\ m[3] = Len(a) /\ m[4] = Len(data)
        /\ fo_deserialize(m) = [rvalue |-> v, args |-> a, data |-> data]
    BY <1>0, <1>2, <1>3, <1>4, RoundTrip
  <1> QED BY <1>1, <1>5 DEF a, v

-----------------------------------------------------------------------------
(* The calls *)

\* Nothing has been called.
LEMMA OpsInit == Init => OpsInv
  <1> SUFFICES ASSUME Init PROVE OpsInv OBVIOUS
  <1>1. << >> \in Data BY NoData
  <1>2. dev \in [0 .. DevSize - 1 -> Byte] BY DEF Init
  <1>3. ops \in SUBSET Type BY DEF Init
  <1>4. TypeOK BY <1>1, <1>2, <1>3 DEF Init, TypeOK, NoCall, NoReq, Nothing, EIO
  <1> QED BY <1>4 DEF Init, OpsInv, RequestInv, ExecInv, ReplyInv, ReturnInv,
                     SuccessIsTrue, FailureIsTrue, Returned, NoCall

\* A call leaves behind the request that its arguments make.
LEMMA CallStep ==
    ASSUME OpsInv, NEW t \in Type, NEW n \in Nat, NEW bytes \in Data, NEW buffer \in Seq(Byte),
           t \in {"read", "write"} => n < Limit,
           t = "write" => n = Len(bytes),
           t = "compat_ioctl" => n = 0,
           Len(buffer) = IF t = "read" THEN n ELSE Len(SentBy(t, bytes)),
           Call([type |-> t, arg |-> n, bytes |-> bytes], <<n, OffsetOf(t), EIO>>,
                buffer, SentBy(t, bytes))
    PROVE  OpsInv'
  <1> DEFINE a == <<n, OffsetOf(t), EIO>>
             sent == SentBy(t, bytes)
             v == -1
  <1>1. /\ pc' = "exec" /\ did' = Nothing
        /\ call' = [type |-> t, arg |-> n, bytes |-> bytes]
        /\ req' = [rvalue |-> v, args |-> a, data |-> buffer]
        /\ message' = fo_serialize([req' EXCEPT !.data = sent])
        /\ ncalls < MaxCalls /\ ncalls' = ncalls + 1
        /\ UNCHANGED <<ops, dev, pos, ubuf, ret>>
    BY DEF Call
  <1>2. call'.type = t /\ call'.arg = n /\ call'.bytes = bytes BY <1>1
  <1>3. Sent' = sent BY <1>2 DEF Sent, SentBy
  <1>4. Offset' = OffsetOf(t) BY <1>1, <1>2 DEF Offset, OffsetOf
  <1>5. Request' = [rvalue |-> v, args |-> a, data |-> sent]
    BY <1>2, <1>3, <1>4 DEF Request
  <1>6. a \in Seq(Int)
    <2>1. n \in Int /\ OffsetOf(t) \in Int /\ EIO \in Int
      BY DEF OpsInv, TypeOK, OffsetOf, EIO
    <2> QED BY <2>1
  <1>7. sent \in Seq(Int) BY NoData, DataSeq, BytesInts DEF SentBy
  <1>8. v \in Int /\ v = -1 OBVIOUS
  <1>9. Request'.args = a BY <1>5
  <1> HIDE DEF a, sent, v
  <1>10. req'.rvalue = v /\ req'.args = a /\ req'.data = buffer BY <1>1
  <1>11. message' = fo_serialize([rvalue |-> v, args |-> a, data |-> sent]) BY <1>1
  <1>12. message' \in Seq(Int)
    <2>1. v \in Int BY <1>8
    <2> QED BY <1>6, <1>7, <1>11, <2>1, RoundTrip
  <1>13. TypeOK'
    <2>1. /\ ops \in SUBSET Type /\ dev \in [0 .. DevSize - 1 -> Byte]
          /\ pos \in 0 .. DevSize /\ ubuf \in Data /\ ret \in Int
      BY DEF OpsInv, TypeOK
    <2>2. /\ (ops \in SUBSET Type)' /\ (dev \in [0 .. DevSize - 1 -> Byte])'
          /\ (pos \in 0 .. DevSize)' /\ (ubuf \in Data)' /\ (ret \in Int)'
      BY <1>1, <2>1
    <2>3. call'.type \in Type \cup {"none"} /\ call'.arg \in Int /\ call'.bytes \in Data
      BY <1>2
    <2>4. req'.rvalue \in {-1, 0} /\ req'.args \in Seq(Int) /\ req'.data \in Seq(Byte)
      BY <1>6, <1>8, <1>10
    <2>5. did'.rv \in Int /\ did'.done \in BOOLEAN BY <1>1 DEF Nothing, EIO
    <2>6. ncalls' \in 0 .. MaxCalls
      <3>1. ncalls \in 0 .. MaxCalls /\ MaxCalls \in Nat BY SizeAssumption DEF OpsInv, TypeOK
      <3>2. ncalls < MaxCalls /\ ncalls' = ncalls + 1 BY <1>1
      <3> QED BY <3>1, <3>2
    <2>7. pc' \in {"idle", "exec", "reply", "return", "killed"} BY <1>1
    <2> QED BY <1>12, <2>2, <2>3, <2>4, <2>5, <2>6, <2>7 DEF TypeOK
  <1>14. RequestInv' BY <1>2, <1>3, <1>8, <1>9, <1>10 DEF RequestInv, sent
  <1>15. ExecInv' BY <1>1, <1>5, <1>11 DEF ExecInv, Nothing
  <1> QED BY <1>1, <1>13, <1>14, <1>15
          DEF OpsInv, ReplyInv, ReturnInv, SuccessIsTrue, FailureIsTrue, Returned

\* read lends a zeroed buffer, none of which is sent.
LEMMA ReadStep == \A n \in 0 .. Limit : OpsInv /\ ndfo_send_read(n) => OpsInv'
  <1> SUFFICES ASSUME NEW n \in 0 .. Limit, OpsInv, ndfo_send_read(n) PROVE OpsInv' OBVIOUS
  <1> DEFINE t == "read"
             none == << >>
  <1>1. /\ Call([type |-> t, arg |-> n, bytes |-> none], <<n, OffsetOf(t), EIO>>,
                Zeros(n), SentBy(t, none))
        /\ t \in {"read", "write"} => n < Limit
        /\ t # "compat_ioctl"
    BY DEF ndfo_send_read, SentBy, OffsetOf
  <1>2. t \in Type /\ t # "write" /\ n \in Nat /\ none \in Data BY NoData DEF Type
  <1>3. Zeros(n) \in Seq(Byte) /\ Len(Zeros(n)) = IF t = "read" THEN n ELSE Len(SentBy(t, none))
    BY ZerosShape
  <1> HIDE DEF t, none
  <1> QED BY <1>1, <1>2, <1>3, CallStep

\* write lends the caller's bytes, all of which are sent.
LEMMA WriteStep == \A bytes \in Data : OpsInv /\ ndfo_send_write(bytes) => OpsInv'
  <1> SUFFICES ASSUME NEW bytes \in Data, OpsInv, ndfo_send_write(bytes) PROVE OpsInv' OBVIOUS
  <1> DEFINE t == "write"
             n == Len(bytes)
  <1>1. /\ Call([type |-> t, arg |-> n, bytes |-> bytes], <<n, OffsetOf(t), EIO>>,
                bytes, SentBy(t, bytes))
        /\ t \in {"read", "write"} => n < Limit
        /\ t # "compat_ioctl"
    BY DEF ndfo_send_write, SentBy, OffsetOf
  <1>2. t \in Type /\ bytes \in Seq(Byte) /\ n \in Nat /\ (t = "write" => n = Len(bytes))
    BY DataSeq DEF Type
  <1>3. Len(bytes) = IF t = "read" THEN n ELSE Len(SentBy(t, bytes)) BY DEF SentBy
  <1> HIDE DEF t, n
  <1> QED BY <1>1, <1>2, <1>3, CallStep

\* llseek sends the position that is asked for and no data.
LEMMA LlseekStep == \A off \in 0 .. DevSize : OpsInv /\ ndfo_send_llseek(off) => OpsInv'
  <1> SUFFICES ASSUME NEW off \in 0 .. DevSize, OpsInv, ndfo_send_llseek(off) PROVE OpsInv'
    OBVIOUS
  <1> DEFINE t == "llseek"
             none == << >>
  <1>1. /\ Call([type |-> t, arg |-> off, bytes |-> none], <<off, OffsetOf(t), EIO>>,
                none, SentBy(t, none))
        /\ t \notin {"read", "write", "compat_ioctl"} /\ t # "write"
    BY DEF ndfo_send_llseek, SentBy, OffsetOf
  <1>2. t \in Type /\ off \in Nat /\ none \in Data /\ none \in Seq(Byte) BY NoData DEF Type
  <1>3. Len(none) = IF t = "read" THEN off ELSE Len(SentBy(t, none)) BY DEF SentBy
  <1> HIDE DEF t, none
  <1> QED BY <1>1, <1>2, <1>3, CallStep

\* The ioctls send no data either.
LEMMA IoctlStep == \A t \in Type : OpsInv /\ ndfo_send_ioctl(t) => OpsInv'
  <1> SUFFICES ASSUME NEW t \in Type, OpsInv, ndfo_send_ioctl(t) PROVE OpsInv' OBVIOUS
  <1> DEFINE n == 0
             none == << >>
  <1>1. t \notin {"read", "write"} BY DEF ndfo_send_ioctl
  <1>2. Call([type |-> t, arg |-> n, bytes |-> none], <<n, OffsetOf(t), EIO>>,
             none, SentBy(t, none))
    BY DEF ndfo_send_ioctl, SentBy, OffsetOf
  <1>3. n \in Nat /\ n = 0 /\ none \in Data /\ none \in Seq(Byte) BY NoData
  <1>4. Len(none) = IF t = "read" THEN n ELSE Len(SentBy(t, none)) BY <1>1 DEF SentBy
  <1> HIDE DEF n, none
  <1> QED BY <1>1, <1>2, <1>3, <1>4, CallStep

\* A call that is refused has no effect and says so.
LEMMA TooBigStep == \A t \in {"read", "write"} : OpsInv /\ TooBig(t) => OpsInv'
  <1> SUFFICES ASSUME NEW t \in {"read", "write"}, OpsInv, TooBig(t) PROVE OpsInv' OBVIOUS
  <1>1. << >> \in Data BY NoData
  <1>2. pc = "idle" /\ pc' = "idle" /\ ret' = -22 /\ did' = Nothing BY DEF TooBig, EINVAL
  <1>3. TypeOK'
    BY <1>1, <1>2 DEF TooBig, OpsInv, TypeOK, Type, Nothing, EIO
  <1> QED BY <1>2, <1>3 DEF OpsInv, RequestInv, ExecInv, ReplyInv, ReturnInv,
                            SuccessIsTrue, FailureIsTrue, Returned, Nothing

-----------------------------------------------------------------------------
(* The device is operated *)

\* The bytes of a read, in the zeroed buffer that was made for it.
LEMMA Filled ==
    \A n \in Nat : \A b \in Seq(Byte) :
        LET data == b \o SubSeq(ReadBuffer(n), Len(b) + 1, Len(ReadBuffer(n))) IN
        Len(b) <= n => data \in Seq(Byte) /\ Len(data) = n /\ SubSeq(data, 1, Len(b)) = b
  <1> SUFFICES ASSUME NEW n \in Nat, NEW b \in Seq(Byte), Len(b) <= n
               PROVE  LET data == b \o SubSeq(ReadBuffer(n), Len(b) + 1, Len(ReadBuffer(n)))
                      IN  data \in Seq(Byte) /\ Len(data) = n /\ SubSeq(data, 1, Len(b)) = b
    OBVIOUS
  <1> DEFINE z == ReadBuffer(n)
             rest == SubSeq(z, Len(b) + 1, Len(z))
             data == b \o rest
  <1>1. Len(b) \in Nat OBVIOUS
  <1>2. z \in Seq(Byte) /\ Len(z) = n BY ZerosShape DEF ReadBuffer
  <1> HIDE DEF z
  <1>3. rest \in Seq(Byte) /\ Len(rest) = n - Len(b)
    <2>1. \A i \in Len(b) + 1 .. Len(z) : z[i] \in Byte BY <1>1, <1>2
    <2>2. /\ rest \in Seq(Byte)
          /\ Len(rest) = IF Len(b) + 1 <= Len(z) THEN Len(z) - (Len(b) + 1) + 1 ELSE 0
      BY <1>1, <1>2, <2>1, SubSeqProperties
    <2> HIDE DEF rest
    <2> QED BY <1>1, <1>2, <2>2
  <1> HIDE DEF rest
  <1>4. /\ data \in Seq(Byte) /\ Len(data) = Len(b) + Len(rest)
        /\ \A i \in 1 .. Len(b) + Len(rest) :
              data[i] = IF i <= Len(b) THEN b[i] ELSE rest[i - Len(b)]
    BY <1>3, ConcatProperties
  <1> HIDE DEF data
  <1>5. Len(data) = n BY <1>1, <1>3, <1>4
  <1>6. SubSeq(data, 1, Len(b)) = b
    <2>1. \A i \in 1 .. Len(b) : data[i] \in Byte BY <1>1, <1>4, <1>5
    <2>2. /\ SubSeq(data, 1, Len(b)) \in Seq(Byte)
          /\ Len(SubSeq(data, 1, Len(b))) = Len(b)
          /\ \A i \in 1 .. Len(b) : SubSeq(data, 1, Len(b))[i] = data[i]
      BY <1>1, <2>1, SubSeqProperties
    <2>3. \A i \in 1 .. Len(b) : data[i] = b[i] BY <1>1, <1>3, <1>4
    <2> QED BY <2>2, <2>3, SeqEqual
  <1> QED BY <1>4, <1>5, <1>6 DEF data, rest, z

\* What an answer says is what was asked for and what was done.
Fits(rv, off, bytes, moved, data) ==
    /\ IF call.type = "read"
       THEN /\ off = pos /\ rv <= call.arg /\ (rv >= 0 => pos + rv <= DevSize)
            /\ moved = (IF rv > 0 THEN off + rv ELSE off)
            /\ Len(data) = call.arg /\ (rv >= 0 => SubSeq(data, 1, rv) = bytes)
       ELSE data = << >>
    /\ call.type = "write" /\ rv >= 0 => bytes = SubSeq(call.bytes, 1, rv)
    /\ call.type = "llseek" => off = call.arg

\* The device has done what it has done, and the answer says so.
LEMMA ExecutedStep ==
    ASSUME OpsInv, pc = "exec", call.type # "ioctl",
           NEW rv \in {ENXIO} \cup Nat, NEW off, NEW bytes,
           NEW moved \in 0 .. DevSize, NEW data \in Data,
           Executed(rv, off, bytes,
                    [rvalue |-> -1, args |-> <<call.arg, moved, rv>>, data |-> data]),
           Fits(rv, off, bytes, moved, data), dev' \in [0 .. DevSize - 1 -> Byte]
    PROVE  OpsInv'
  <1>1. /\ did' = [rv |-> rv, off |-> off, bytes |-> bytes, done |-> TRUE]
        /\ message' = Reply([rvalue |-> -1, args |-> <<call.arg, moved, rv>>, data |-> data])
        /\ pc' = "reply"
        /\ UNCHANGED <<ops, call, req, pos, ubuf, ret, ncalls>>
    BY DEF Executed
  <1> DEFINE a == <<call.arg, moved, rv>>
  <1>2. message' = fo_serialize([rvalue |-> 0, args |-> a, data |-> data])
    <2>1. message' = Reply([rvalue |-> -1, args |-> a, data |-> data]) BY <1>1
    <2> HIDE DEF a
    <2> QED BY <2>1 DEF Reply
  <1>3. did'.rv = rv /\ did'.off = off /\ did'.bytes = bytes /\ did'.done BY <1>1
  <1>4. rv \in Int /\ moved \in Int /\ call.arg \in Int BY DEF ENXIO, OpsInv, TypeOK
  <1>5. message' = fo_serialize(Answer(moved, data)')
    BY <1>1, <1>2, <1>3 DEF Answer
  <1>6. message' \in Seq(Int) BY <1>2, <1>4, AnswerLayout
  <1>7. TypeOK' BY <1>1, <1>3, <1>4, <1>6 DEF OpsInv, TypeOK
  <1>8. RequestInv'
    BY <1>1 DEF OpsInv, RequestInv, Request, Sent, SentBy, Offset, OffsetOf
  <1>9. Outcome' BY <1>1, <1>3 DEF Outcome, Fits
  <1>10. IF call'.type = "read" THEN moved = Moved' /\ Brought(data)' ELSE data = << >>
    BY <1>1, <1>3 DEF Fits, Moved, Brought
  <1>11. ReplyInv' BY <1>5, <1>9, <1>10 DEF ReplyInv
  <1> QED BY <1>1, <1>7, <1>8, <1>11
          DEF OpsInv, ExecInv, ReturnInv, SuccessIsTrue, FailureIsTrue, Returned

\* What the serving machine finds in the message.
LEMMA ServedIs ==
    ASSUME OpsInv, pc = "exec"
    PROVE  /\ Served = Request /\ Served.args[1] = call.arg /\ Served.args[2] = Offset
           /\ Served.data = Sent
           /\ \A args, data : [Served EXCEPT !.args = args, !.data = data]
                              = [rvalue |-> -1, args |-> args, data |-> data]
           /\ \A args : [Served EXCEPT !.args = args]
                        = [rvalue |-> -1, args |-> args, data |-> Sent]
  <1>1. Served = Request BY RequestLayout DEF OpsInv, ExecInv, Served
  <1> DEFINE a == <<call.arg, Offset, EIO>>
  <1>2. Served = [rvalue |-> -1, args |-> a, data |-> Sent] BY <1>1 DEF Request
  <1>3. a[1] = call.arg /\ a[2] = Offset OBVIOUS
  <1> HIDE DEF a
  <1>4. Served.args = a /\ Served.data = Sent BY <1>2
  <1>5. Served.args[1] = call.arg /\ Served.args[2] = Offset BY <1>3, <1>4
  <1>6. ASSUME NEW x, NEW y
        PROVE  [Served EXCEPT !.args = x, !.data = y]
               = [rvalue |-> -1, args |-> x, data |-> y]
    <2> DEFINE r == [rvalue |-> -1, args |-> x, data |-> Sent]
    <2>1. [Served EXCEPT !.args = x] = r BY <1>2
    <2>2. [r EXCEPT !.data = y] = [rvalue |-> -1, args |-> x, data |-> y] OBVIOUS
    <2> HIDE DEF r
    <2>3. [Served EXCEPT !.args = x, !.data = y] = [[Served EXCEPT !.args = x] EXCEPT !.data = y]
      OBVIOUS
    <2> QED BY <2>1, <2>2, <2>3
  <1>7. \A args : [Served EXCEPT !.args = args]
                  = [rvalue |-> -1, args |-> args, data |-> Sent]
    BY <1>2
  <1> QED BY <1>1, <1>4, <1>5, <1>6, <1>7

\* A read: some bytes of the device, or an error.
LEMMA RecvReadStep == OpsInv /\ ndfo_recv_read => OpsInv'
  <1> SUFFICES ASSUME OpsInv, ndfo_recv_read PROVE OpsInv' OBVIOUS
  <1> DEFINE n == call.arg
  <1>1. pc = "exec" /\ call.type = "read" BY DEF ndfo_recv_read, At
  <1>2. Served.args[1] = n /\ Served.args[2] = pos
    BY <1>1, ServedIs DEF Offset, OffsetOf
  <1>3. n \in Nat /\ n < Limit /\ pos \in 0 .. DevSize
    BY <1>1 DEF OpsInv, RequestInv, TypeOK
  <1> DEFINE bytes(rv) == [i \in 1 .. rv |-> dev[pos + i - 1]]
             data(rv) == bytes(rv) \o SubSeq(ReadBuffer(n), Len(bytes(rv)) + 1, Len(ReadBuffer(n)))
             moved(rv) == IF rv > 0 THEN pos + rv ELSE pos
  <1>4. PICK rv \in {ENXIO} \cup {k \in 0 .. n : pos + k <= DevSize} :
            Executed(rv, pos, bytes(rv),
                     [Served EXCEPT !.args = <<n, moved(rv), rv>>, !.data = data(rv)])
    BY <1>2 DEF ndfo_recv_read
  <1>5. rv \in {ENXIO} \cup Nat /\ rv <= n /\ (rv >= 0 => pos + rv <= DevSize)
    BY <1>3, <1>4 DEF ENXIO
  <1>6. moved(rv) \in 0 .. DevSize BY <1>3, <1>5 DEF ENXIO
  <1>7. /\ bytes(rv) \in Seq(Byte) /\ Len(bytes(rv)) <= n
        /\ rv >= 0 => Len(bytes(rv)) = rv
    <2>1. CASE rv = ENXIO
      <3>1. bytes(rv) = << >> BY <2>1 DEF ENXIO
      <3>2. ~(rv >= 0) BY <2>1 DEF ENXIO
      <3> HIDE DEF bytes
      <3> QED BY <1>3, <3>1, <3>2, EmptySeq
    <2>2. CASE rv \in Nat
      <3>1. \A i \in 1 .. rv : dev[pos + i - 1] \in Byte
        <4> SUFFICES ASSUME NEW i \in 1 .. rv PROVE dev[pos + i - 1] \in Byte OBVIOUS
        <4>1. pos + i - 1 \in 0 .. DevSize - 1 BY <1>3, <1>5, <2>2
        <4> QED BY <4>1 DEF OpsInv, TypeOK
      <3>2. bytes(rv) \in Seq(Byte) /\ Len(bytes(rv)) = rv BY <2>2, <3>1
      <3> HIDE DEF bytes
      <3> QED BY <1>5, <3>2
    <2> QED BY <1>5, <2>1, <2>2
  <1> HIDE DEF bytes
  <1>8. data(rv) \in Seq(Byte) /\ Len(data(rv)) = n /\ SubSeq(data(rv), 1, Len(bytes(rv))) = bytes(rv)
    BY <1>3, <1>7, Filled
  <1> HIDE DEF data
  <1>9. data(rv) \in Data BY <1>3, <1>8, DataSeq
  <1>10. Fits(rv, pos, bytes(rv), moved(rv), data(rv))
    BY <1>1, <1>5, <1>7, <1>8 DEF Fits
  <1>11. Executed(rv, pos, bytes(rv),
                  [rvalue |-> -1, args |-> <<call.arg, moved(rv), rv>>, data |-> data(rv)])
    <2> DEFINE a == <<n, moved(rv), rv>>
               d == data(rv)
    <2>1. Executed(rv, pos, bytes(rv), [Served EXCEPT !.args = a, !.data = d]) BY <1>4
    <2> HIDE DEF a, d
    <2>2. [Served EXCEPT !.args = a, !.data = d] = [rvalue |-> -1, args |-> a, data |-> d]
      BY <1>1, ServedIs
    <2>3. Executed(rv, pos, bytes(rv), [rvalue |-> -1, args |-> a, data |-> d])
      BY <2>1, <2>2
    <2> QED BY <2>3 DEF a, d
  <1>12. dev' \in [0 .. DevSize - 1 -> Byte] BY DEF ndfo_recv_read, OpsInv, TypeOK
  <1>13. call.type # "ioctl" BY <1>1
  <1> HIDE DEF moved
  <1> QED BY <1>1, <1>5, <1>6, <1>9, <1>10, <1>11, <1>12, <1>13, ExecutedStep

\* A write: the first bytes of the caller, or an error.
LEMMA RecvWriteStep == OpsInv /\ ndfo_recv_write => OpsInv'
  <1> SUFFICES ASSUME OpsInv, ndfo_recv_write PROVE OpsInv' OBVIOUS
  <1> DEFINE n == call.arg
  <1>1. pc = "exec" /\ call.type = "write" BY DEF ndfo_recv_write, At
  <1>2. Served.args[1] = n /\ Served.args[2] = pos /\ Served.data = call.bytes
    BY <1>1, ServedIs DEF Offset, OffsetOf, Sent, SentBy
  <1>3. n \in Nat /\ n < Limit /\ pos \in 0 .. DevSize /\ n = Len(call.bytes)
    BY <1>1 DEF OpsInv, RequestInv, TypeOK
  <1>4. call.bytes \in Seq(Byte) BY DataSeq DEF OpsInv, TypeOK
  <1> DEFINE bytes(rv) == [i \in 1 .. rv |-> call.bytes[i]]
             moved(rv) == IF rv > 0 THEN pos + rv ELSE pos
             none == << >>
  <1>5. PICK rv \in {ENXIO} \cup {k \in 0 .. n : pos + k <= DevSize} :
            /\ dev' = [i \in 0 .. DevSize - 1 |->
                          IF pos <= i /\ i < pos + rv THEN bytes(rv)[i - pos + 1] ELSE dev[i]]
            /\ Executed(rv, pos, bytes(rv),
                        [Served EXCEPT !.args = <<n, moved(rv), rv>>, !.data = none])
    BY <1>2 DEF ndfo_recv_write
  <1>6. rv \in {ENXIO} \cup Nat /\ rv <= n /\ (rv >= 0 => pos + rv <= DevSize)
    BY <1>3, <1>5 DEF ENXIO
  <1>7. moved(rv) \in 0 .. DevSize BY <1>3, <1>6 DEF ENXIO
  <1>8. dev' \in [0 .. DevSize - 1 -> Byte]
    <2> SUFFICES ASSUME NEW i \in 0 .. DevSize - 1
                 PROVE  (IF pos <= i /\ i < pos + rv THEN bytes(rv)[i - pos + 1] ELSE dev[i])
                            \in Byte
      BY <1>5
    <2>1. CASE pos <= i /\ i < pos + rv
      <3>1. rv \in Nat /\ i - pos + 1 \in 1 .. rv /\ i - pos + 1 \in 1 .. n
        BY <1>3, <1>6, <2>1 DEF ENXIO
      <3>2. bytes(rv)[i - pos + 1] = call.bytes[i - pos + 1] BY <3>1
      <3>3. call.bytes[i - pos + 1] \in Byte BY <1>3, <1>4, <3>1
      <3> QED BY <2>1, <3>2, <3>3
    <2>2. CASE ~(pos <= i /\ i < pos + rv) BY <2>2 DEF OpsInv, TypeOK
    <2> QED BY <2>1, <2>2
  <1>9. rv >= 0 => bytes(rv) = SubSeq(call.bytes, 1, rv)
    <2> SUFFICES ASSUME rv >= 0 PROVE bytes(rv) = SubSeq(call.bytes, 1, rv) OBVIOUS
    <2>1. rv \in Nat /\ \A i \in 1 .. rv : call.bytes[i] \in Byte
      BY <1>3, <1>4, <1>6 DEF ENXIO
    <2>2. bytes(rv) \in Seq(Byte) /\ Len(bytes(rv)) = rv /\ \A i \in 1 .. rv : bytes(rv)[i] = call.bytes[i]
      BY <2>1
    <2>3. /\ SubSeq(call.bytes, 1, rv) \in Seq(Byte) /\ Len(SubSeq(call.bytes, 1, rv)) = rv
          /\ \A i \in 1 .. rv : SubSeq(call.bytes, 1, rv)[i] = call.bytes[i]
      BY <2>1, SubSeqProperties
    <2> HIDE DEF bytes
    <2> QED BY <2>2, <2>3, SeqEqual
  <1> HIDE DEF bytes
  <1>10. Fits(rv, pos, bytes(rv), moved(rv), none) BY <1>1, <1>9 DEF Fits
  <1>11. Executed(rv, pos, bytes(rv),
                  [rvalue |-> -1, args |-> <<call.arg, moved(rv), rv>>, data |-> none])
    <2> DEFINE a == <<n, moved(rv), rv>>
               d == none
    <2>1. Executed(rv, pos, bytes(rv), [Served EXCEPT !.args = a, !.data = d]) BY <1>5
    <2> HIDE DEF a, d
    <2>2. [Served EXCEPT !.args = a, !.data = d] = [rvalue |-> -1, args |-> a, data |-> d]
      BY <1>1, ServedIs
    <2>3. Executed(rv, pos, bytes(rv), [rvalue |-> -1, args |-> a, data |-> d])
      BY <2>1, <2>2
    <2> QED BY <2>3 DEF a, d
  <1>12. none \in Data /\ call.type # "ioctl" BY <1>1, NoData
  <1> HIDE DEF moved, none
  <1> QED BY <1>1, <1>6, <1>7, <1>8, <1>10, <1>11, <1>12, ExecutedStep

\* A seek: the position that was asked for, or an error.
LEMMA RecvLlseekStep == OpsInv /\ ndfo_recv_llseek => OpsInv'
  <1> SUFFICES ASSUME OpsInv, ndfo_recv_llseek PROVE OpsInv' OBVIOUS
  <1> DEFINE n == call.arg
             none == << >>
             moved == 0
  <1>1. pc = "exec" /\ call.type = "llseek" BY DEF ndfo_recv_llseek, At
  <1>2. Served.args[1] = n /\ Sent = none BY <1>1, ServedIs DEF Sent, SentBy
  <1>3. n \in Nat BY <1>1 DEF OpsInv, RequestInv
  <1>4. PICK rv \in {ENXIO, n} : Executed(rv, n, none, [Served EXCEPT !.args = <<n, moved, rv>>])
    BY <1>2 DEF ndfo_recv_llseek
  <1>5. rv \in {ENXIO} \cup Nat BY <1>3, <1>4
  <1>6. Executed(rv, n, none, [rvalue |-> -1, args |-> <<call.arg, moved, rv>>, data |-> none])
    BY <1>1, <1>2, <1>4, ServedIs
  <1>7. Fits(rv, n, none, moved, none) BY <1>1 DEF Fits
  <1>8. dev' \in [0 .. DevSize - 1 -> Byte] BY DEF ndfo_recv_llseek, OpsInv, TypeOK
  <1>9. none \in Data /\ call.type # "ioctl" /\ moved \in 0 .. DevSize BY <1>1, NoData
  <1> HIDE DEF moved, none
  <1> QED BY <1>1, <1>5, <1>6, <1>7, <1>8, <1>9, ExecutedStep

\* compat_ioctl: success, or an error.
LEMMA RecvCompatStep == OpsInv /\ ndfo_recv_compat_ioctl => OpsInv'
  <1> SUFFICES ASSUME OpsInv, ndfo_recv_compat_ioctl PROVE OpsInv' OBVIOUS
  <1> DEFINE none == << >>
             moved == 0
  <1>1. pc = "exec" /\ call.type = "compat_ioctl" BY DEF ndfo_recv_compat_ioctl, At
  <1>2. Sent = none BY <1>1 DEF Sent, SentBy
  <1>3. call.arg = moved BY <1>1 DEF OpsInv, RequestInv
  <1>4. PICK rv \in {ENXIO, 0} :
            Executed(rv, moved, none, [Served EXCEPT !.args = <<moved, moved, rv>>])
    BY DEF ndfo_recv_compat_ioctl
  <1>5. rv \in {ENXIO} \cup Nat BY <1>4
  <1>6. Executed(rv, moved, none,
                 [rvalue |-> -1, args |-> <<call.arg, moved, rv>>, data |-> none])
    BY <1>1, <1>2, <1>3, <1>4, ServedIs
  <1>7. Fits(rv, moved, none, moved, none) BY <1>1 DEF Fits
  <1>8. dev' \in [0 .. DevSize - 1 -> Byte] BY DEF ndfo_recv_compat_ioctl, OpsInv, TypeOK
  <1>9. none \in Data /\ call.type # "ioctl" /\ moved \in 0 .. DevSize BY <1>1, NoData
  <1> HIDE DEF moved, none
  <1> QED BY <1>1, <1>5, <1>6, <1>7, <1>8, <1>9, ExecutedStep

\* The request comes back as it went: unlocked_ioctl, and llseek of a device
\* that has none.
LEMMA UntouchedStep ==
    ASSUME OpsInv, pc = "exec", pc' = "reply", did'.done => call.type = "ioctl",
           did'.rv \in Int, did'.done \in BOOLEAN,
           UNCHANGED <<ops, dev, call, req, message, pos, ubuf, ret, ncalls>>
    PROVE  OpsInv'
  <1>1. TypeOK' BY DEF OpsInv, TypeOK
  <1>2. RequestInv' BY DEF OpsInv, RequestInv, Request, Sent, SentBy, Offset, OffsetOf
  <1>3. message' = fo_serialize(Request')
    BY DEF OpsInv, ExecInv, Request, Sent, SentBy, Offset, OffsetOf
  <1>4. ReplyInv' BY <1>3 DEF ReplyInv, Untouched
  <1> QED BY <1>1, <1>2, <1>4
          DEF OpsInv, ExecInv, ReturnInv, SuccessIsTrue, FailureIsTrue, Returned

\* unlocked_ioctl operates the device and answers as if it had not.
LEMMA RecvIoctlStep == OpsInv /\ ndfo_recv_unlocked_ioctl => OpsInv'
  <1> SUFFICES ASSUME OpsInv, ndfo_recv_unlocked_ioctl PROVE OpsInv' OBVIOUS
  <1>1. PICK rv \in {ENXIO, 0} :
            did' = [rv |-> rv, off |-> 0, bytes |-> << >>, done |-> TRUE]
    BY DEF ndfo_recv_unlocked_ioctl
  <1>2. did'.rv \in Int /\ did'.done \in BOOLEAN BY <1>1 DEF ENXIO
  <1> QED BY <1>2, UntouchedStep DEF ndfo_recv_unlocked_ioctl, At

\* A device that has no such operation is not operated.
LEMMA NotImplementedStep == OpsInv /\ NotImplemented => OpsInv'
  <1> SUFFICES ASSUME OpsInv, NotImplemented PROVE OpsInv' OBVIOUS
  <1>1. CASE call.type = "llseek"
    <2>1. pc' = "reply" /\ ~did'.done /\ did'.rv \in Int /\ did'.done \in BOOLEAN
      BY <1>1 DEF NotImplemented, OpsInv, ExecInv, TypeOK
    <2> QED BY <2>1, UntouchedStep DEF NotImplemented
  <1>2. CASE call.type # "llseek"
    <2>1. pc' = "killed" BY <1>2 DEF NotImplemented
    <2>2. TypeOK' BY <2>1 DEF NotImplemented, OpsInv, TypeOK
    <2> QED BY <2>1, <2>2 DEF OpsInv, RequestInv, ExecInv, ReplyInv, ReturnInv,
                              SuccessIsTrue, FailureIsTrue, Returned
  <1> QED BY <1>1, <1>2

\* What a caller knows does not depend on what others write.
LEMMA OtherWriteStep ==
    \A i \in 0 .. DevSize - 1, b \in Byte : OpsInv /\ OtherWrite(i, b) => OpsInv'
  <1> SUFFICES ASSUME NEW i \in 0 .. DevSize - 1, NEW b \in Byte, OpsInv, OtherWrite(i, b)
               PROVE  OpsInv'
    OBVIOUS
  <1>1. dev' \in [0 .. DevSize - 1 -> Byte] BY DEF OtherWrite, OpsInv, TypeOK
  <1>2. UNCHANGED <<ops, pc, call, req, message, pos, ubuf, ret, did, ncalls>>
    BY DEF OtherWrite
  <1>3. TypeOK' BY <1>1, <1>2 DEF OpsInv, TypeOK
  <1>4. RequestInv'
    BY <1>2 DEF OpsInv, RequestInv, Request, Sent, SentBy, Offset, OffsetOf
  <1>5. ExecInv' BY <1>2 DEF OpsInv, ExecInv, Request, Sent, SentBy, Offset, OffsetOf
  <1>6. ReplyInv'
    BY <1>2 DEF OpsInv, ReplyInv, Request, Sent, SentBy, Offset, OffsetOf, Untouched,
                Outcome, Answer, Moved, Brought
  <1>7. ReturnInv'
    BY <1>2 DEF OpsInv, ReturnInv, Value, Untouched, Outcome, Moved, Brought
  <1>8. SuccessIsTrue' /\ FailureIsTrue'
    BY <1>2 DEF OpsInv, SuccessIsTrue, FailureIsTrue, Returned
  <1> QED BY <1>3, <1>4, <1>5, <1>6, <1>7, <1>8 DEF OpsInv

-----------------------------------------------------------------------------
(* The result reaches the caller *)

\* The caller finds in its own structures what the message says, and all that
\* it has lent is still there.
LEMMA CompleteStep == OpsInv /\ fo_complete => OpsInv'
  <1> SUFFICES ASSUME OpsInv, fo_complete PROVE OpsInv' OBVIOUS
  <1>1. /\ pc = "reply" /\ pc' = "return"
        /\ req' = fo_deserialize_toreq(req, message)
        /\ UNCHANGED <<ops, dev, call, message, pos, ubuf, ret, did, ncalls>>
    BY DEF fo_complete
  <1> DEFINE new == fo_deserialize(message)
  <1>2. /\ req'.rvalue = new.rvalue /\ req'.args = Over(req.args, new.args)
        /\ req'.data = Over(req.data, new.data)
    BY <1>1 DEF fo_deserialize_toreq
  <1>3. /\ Request.args \in Seq(Int) /\ Len(Request.args) = 3
        /\ Sent \in Seq(Byte)
        /\ message = fo_serialize(Request) => new = Request
    BY <1>1, RequestLayout DEF OpsInv
  <1>4. /\ req.args = Request.args /\ req.data \in Seq(Byte)
        /\ Len(req.data) = IF call.type = "read" THEN call.arg ELSE Len(Sent)
        /\ call.type \in Type /\ call.arg \in Nat
        /\ call.type \in {"read", "write"} => call.arg < Limit
    BY <1>1 DEF OpsInv, RequestInv, TypeOK
  <1> HIDE DEF new
  <1>5. CASE message = fo_serialize(Request) /\ Untouched
    <2>1. new.rvalue = -1 /\ new.args = Request.args /\ new.data = Sent
      BY <1>3, <1>5 DEF Request
    <2>2. req'.args = Request.args BY <1>2, <1>3, <1>4, <2>1, OverSame
    <2>3. req'.data \in Seq(Byte)
      <3>1. CASE call.type = "write"
        <4>1. Len(Sent) = Len(req.data) BY <1>4, <3>1
        <4> QED BY <1>2, <1>3, <1>4, <2>1, <4>1, OverSame
      <3>2. CASE call.type # "write"
        <4>1. Sent = << >> BY <3>2 DEF Sent, SentBy
        <4>2. Over(req.data, << >>) = req.data BY <1>4, OverNone
        <4> QED BY <1>2, <1>4, <2>1, <4>1, <4>2
      <3> QED BY <3>1, <3>2
    <2>4. Value' = EIO BY <2>2, <1>1 DEF Value, Request
    <2>5. TypeOK' BY <1>1, <1>2, <1>3, <2>1, <2>2, <2>3 DEF OpsInv, TypeOK
    <2>6. ReturnInv'
      BY <1>1, <1>2, <1>3, <1>4, <1>5, <2>1, <2>2, <2>4 DEF ReturnInv, Untouched
    <2> QED BY <1>1, <2>5, <2>6
            DEF OpsInv, RequestInv, ExecInv, ReplyInv, SuccessIsTrue, FailureIsTrue, Returned
  <1>6. ASSUME Outcome, NEW moved \in 0 .. DevSize, NEW data \in Data,
               message = fo_serialize(Answer(moved, data)),
               IF call.type = "read" THEN moved = Moved /\ Brought(data) ELSE data = << >>
        PROVE  OpsInv'
    <2> DEFINE a == <<call.arg, moved, did.rv>>
    <2>1. did.rv \in Int /\ moved \in Int /\ call.arg \in Int BY <1>4 DEF OpsInv, TypeOK
    <2>2. a \in Seq(Int) /\ Len(a) = 3 BY <2>1
    <2>3. a[2] = moved /\ a[3] = did.rv OBVIOUS
    <2>4. new = [rvalue |-> 0, args |-> a, data |-> data]
      BY <1>6, <2>1, AnswerLayout, SMTT(20) DEF new, Answer
    <2> HIDE DEF a
    <2>5. new.rvalue = 0 /\ new.args = a /\ new.data = data BY <2>4
    <2>6. req'.args = a BY <1>2, <1>3, <1>4, <2>2, <2>5, OverSame
    <2>7. req'.data \in Seq(Byte) /\ (call.type = "read" => req'.data = data)
      <3>1. CASE call.type = "read"
        <4>1. data \in Seq(Byte) /\ Len(data) = Len(req.data)
          BY <1>4, <1>6, <3>1, DataSeq DEF Brought
        <4> QED BY <1>2, <1>4, <2>5, <4>1, OverSame
      <3>2. CASE call.type # "read"
        <4>1. data = << >> BY <1>6, <3>2
        <4>2. Over(req.data, << >>) = req.data BY <1>4, OverNone
        <4> QED BY <1>2, <1>4, <2>5, <3>2, <4>1, <4>2
      <3> QED BY <3>1, <3>2
    <2>8. Value' = did.rv /\ req'.args[2] = moved /\ Len(req'.args) = 3
      BY <2>2, <2>3, <2>6 DEF Value
    <2>9. TypeOK' BY <1>1, <1>2, <2>2, <2>5, <2>6, <2>7 DEF OpsInv, TypeOK
    <2>10. Outcome' /\ (call.type = "read" => Moved' = moved /\ Brought(req.data)')
      BY <1>1, <1>6, <2>7 DEF Outcome, Moved, Brought
    <2>11. ReturnInv'
      BY <1>1, <1>2, <1>4, <2>5, <2>8, <2>10 DEF ReturnInv
    <2> QED BY <1>1, <2>9, <2>11
            DEF OpsInv, RequestInv, ExecInv, ReplyInv, SuccessIsTrue, FailureIsTrue, Returned
  <1> QED BY <1>1, <1>5, <1>6 DEF OpsInv, ReplyInv

\* What ndfo_send_* makes of what it finds there.
LEMMA ReturnStep == OpsInv /\ Return => OpsInv'
  <1> SUFFICES ASSUME OpsInv, Return PROVE OpsInv' OBVIOUS
  <1>1. /\ pc = "return" /\ pc' = "idle" /\ pos' = NewPos
        /\ ret' = IF call.type # "write" /\ req.rvalue < 0 THEN req.rvalue
                  ELSE IF call.type = "read" /\ Value < 0 THEN -1 ELSE Value
        /\ ubuf' = IF call.type = "read" /\ req.rvalue = 0 /\ Value >= 0
                   THEN SubSeq(req.data, 1, Value) ELSE << >>
        /\ req' = NoReq /\ message' = << >>
        /\ UNCHANGED <<ops, dev, call, did, ncalls>>
    BY DEF Return
  <1>2. did.rv \in Int /\ did.done \in BOOLEAN /\ pos \in 0 .. DevSize /\ req.data \in Seq(Byte)
    BY DEF OpsInv, TypeOK
  <1>3. CASE req.rvalue = -1 /\ Value = EIO /\ Untouched
    <2>1. pos' = pos /\ ubuf' = << >> /\ ret' \in Int /\ ret' < 0
      BY <1>1, <1>3 DEF NewPos, EIO
    <2>2. ubuf' \in Data BY <2>1, NoData
    <2>3. TypeOK' BY <1>1, <2>1, <2>2 DEF OpsInv, TypeOK, NoReq
    <2>4. FailureIsTrue' BY <1>1, <1>3 DEF FailureIsTrue, Untouched
    <2>5. SuccessIsTrue' BY <2>1 DEF SuccessIsTrue
    <2> QED BY <1>1, <2>3, <2>4, <2>5
            DEF OpsInv, RequestInv, ExecInv, ReplyInv, ReturnInv
  <1>4. CASE /\ req.rvalue = 0 /\ Value = did.rv /\ Outcome
             /\ call.type = "read" =>
                  call.arg < Limit /\ req.args[2] = Moved /\ Brought(req.data)
    <2>1. ret' = IF call.type = "read" /\ did.rv < 0 THEN -1 ELSE did.rv
      BY <1>1, <1>4
    <2>2. ret' \in Int /\ (ret' < 0 <=> did.rv < 0) /\ (ret' >= 0 => ret' = did.rv)
      BY <1>2, <2>1
    <2>3. ASSUME call.type = "read"
          PROVE  pos' \in 0 .. DevSize /\ (did.rv >= 0 => pos' = did.off + did.rv)
      BY <1>1, <1>2, <1>4, <2>3 DEF NewPos, Moved, Outcome
    <2>4. call.type # "read" => pos' = pos BY <1>1 DEF NewPos
    <2>5. call.type = "read" /\ did.rv >= 0 => ubuf' = did.bytes /\ ubuf' \in Data
      <3> SUFFICES ASSUME call.type = "read", did.rv >= 0
                   PROVE  ubuf' = did.bytes /\ ubuf' \in Data
        OBVIOUS
      <3>1. ubuf' = SubSeq(req.data, 1, did.rv) BY <1>1, <1>4
      <3>2. did.rv <= Len(req.data) /\ Len(req.data) < Limit /\ did.rv \in Nat
        BY <1>2, <1>4 DEF Outcome, Brought
      <3>3. \A i \in 1 .. did.rv : req.data[i] \in Byte BY <1>2, <3>2
      <3>4. SubSeq(req.data, 1, did.rv) \in Seq(Byte) /\ Len(SubSeq(req.data, 1, did.rv)) = did.rv
        BY <3>2, <3>3, SubSeqProperties
      <3>5. did.rv <= Limit BY <3>2
      <3> QED BY <1>4, <3>1, <3>4, <3>5, DataSeq DEF Brought
    <2>6. ~(call.type = "read" /\ did.rv >= 0) => ubuf' = << >> BY <1>1, <1>2, <1>4
    <2>7. ubuf' \in Data BY <2>5, <2>6, NoData
    <2>8. pos' \in 0 .. DevSize
      <3>1. CASE call.type = "read" BY <2>3, <3>1
      <3>2. CASE call.type # "read" BY <1>2, <2>4, <3>2
      <3> QED BY <3>1, <3>2
    <2>9. TypeOK' BY <1>1, <2>2, <2>7, <2>8 DEF OpsInv, TypeOK, NoReq
    <2>10. SuccessIsTrue'
      <3> SUFFICES ASSUME ret' >= 0
                   PROVE  /\ did.done /\ ret' = did.rv
                          /\ call.type = "write" => did.bytes = SubSeq(call.bytes, 1, ret')
                          /\ call.type = "read" => ubuf' = did.bytes /\ pos' = did.off + ret'
                          /\ call.type = "llseek" => did.off = call.arg
        BY <1>1 DEF SuccessIsTrue
      <3>1. ret' = did.rv /\ did.rv >= 0 BY <1>2, <2>2
      <3> QED BY <1>4, <2>3, <2>5, <3>1 DEF Outcome
    <2>11. FailureIsTrue' BY <1>1, <2>2 DEF FailureIsTrue
    <2> QED BY <1>1, <2>9, <2>10, <2>11
            DEF OpsInv, RequestInv, ExecInv, ReplyInv, ReturnInv
  <1> QED BY <1>1, <1>3, <1>4 DEF OpsInv, ReturnInv

\* Every operation keeps the invariant.
LEMMA OpsStep == OpsInv /\ [Next]_vars => OpsInv'
  <1> SUFFICES ASSUME OpsInv, [Next]_vars PROVE OpsInv' OBVIOUS
  <1>1. CASE \E n \in 0 .. Limit : ndfo_send_read(n) BY <1>1, ReadStep
  <1>2. CASE \E bytes \in Data : ndfo_send_write(bytes) BY <1>2, WriteStep
  <1>3. CASE \E off \in 0 .. DevSize : ndfo_send_llseek(off) BY <1>3, LlseekStep
  <1>4. CASE \E t \in Type : ndfo_send_ioctl(t) BY <1>4, IoctlStep
  <1>5. CASE \E t \in {"read", "write"} : TooBig(t) BY <1>5, TooBigStep
  <1>6. CASE ndfo_recv_read BY <1>6, RecvReadStep
  <1>7. CASE ndfo_recv_write BY <1>7, RecvWriteStep
  <1>8. CASE ndfo_recv_llseek BY <1>8, RecvLlseekStep
  <1>9. CASE ndfo_recv_compat_ioctl BY <1>9, RecvCompatStep
  <1>10. CASE ndfo_recv_unlocked_ioctl BY <1>10, RecvIoctlStep
  <1>11. CASE NotImplemented BY <1>11, NotImplementedStep
  <1>12. CASE \E i \in 0 .. DevSize - 1, b \in Byte : OtherWrite(i, b)
    BY <1>12, OtherWriteStep
  <1>13. CASE fo_complete BY <1>13, CompleteStep
  <1>14. CASE Return BY <1>14, ReturnStep
  <1>15. CASE UNCHANGED vars
    <2>1. UNCHANGED <<ops, dev, pc, call, req, message, pos, ubuf, ret, did, ncalls>>
      BY <1>15 DEF vars
    <2>2. TypeOK' BY <2>1 DEF OpsInv, TypeOK
    <2>3. RequestInv'
      BY <2>1 DEF OpsInv, RequestInv, Request, Sent, SentBy, Offset, OffsetOf
    <2>4. ExecInv' BY <2>1 DEF OpsInv, ExecInv, Request, Sent, SentBy, Offset, OffsetOf
    <2>5. ReplyInv'
      BY <2>1 DEF OpsInv, ReplyInv, Request, Sent, SentBy, Offset, OffsetOf, Untouched,
                  Outcome, Answer, Moved, Brought
    <2>6. ReturnInv'
      BY <2>1 DEF OpsInv, ReturnInv, Value, Untouched, Outcome, Moved, Brought
    <2>7. SuccessIsTrue' /\ FailureIsTrue'
      BY <2>1 DEF OpsInv, SuccessIsTrue, FailureIsTrue, Returned
    <2> QED BY <2>2, <2>3, <2>4, <2>5, <2>6, <2>7 DEF OpsInv
  <1> QED BY <1>1, <1>2, <1>3, <1>4, <1>5, <1>6, <1>7, <1>8, <1>9, <1>10, <1>11, <1>12,
             <1>13, <1>14, <1>15 DEF Next

-----------------------------------------------------------------------------
(* Theorems *)

\* Requests, messages and results stay what ndfo_send_* and ndfo_recv_* take
\* them for: in particular no position leaves the device.
THEOREM TypeCorrect == Spec => []TypeOK
  <1>1. OpsInv => TypeOK BY DEF OpsInv
  <1> QED BY OpsInit, OpsStep, <1>1, PTL DEF Spec

\* A call that ndfo_send_* reports a success of was carried out, with the
\* arguments of the caller and the result that it is told.
THEOREM SuccessesAreTrue == Spec => []SuccessIsTrue
  <1>1. OpsInv => SuccessIsTrue BY DEF OpsInv
  <1> QED BY OpsInit, OpsStep, <1>1, PTL DEF Spec

\* A call that ndfo_send_* reports a failure of was not carried out by the
\* device, or not with success, unless it is an unlocked_ioctl.
THEOREM FailuresAreTrue == Spec => []FailureIsTrue
  <1>1. OpsInv => FailureIsTrue BY DEF OpsInv
  <1> QED BY OpsInit, OpsStep, <1>1, PTL DEF Spec

\* fo_deserialize_toreq copies no more than the caller's structures hold.
THEOREM ResultsFit == Spec => []ResultFits
  <1>1. OpsInv => ResultFits
    <2> SUFFICES ASSUME OpsInv, pc = "reply"
                 PROVE  message[3] <= Len(req.args) /\ message[4] <= Len(req.data)
      BY DEF ResultFits
    <2>1. /\ req.args = Request.args /\ req.data \in Seq(Byte) /\ call.arg \in Nat
          /\ Len(req.data) = IF call.type = "read" THEN call.arg ELSE Len(Sent)
      BY DEF OpsInv, RequestInv, TypeOK
    <2>2. /\ Len(Request.args) = 3 /\ Sent \in Seq(Byte)
          /\ message = fo_serialize(Request) => message[3] = 3 /\ message[4] = Len(Sent)
      BY RequestLayout DEF OpsInv
    <2>3. CASE message = fo_serialize(Request)
      <3>1. CASE call.type = "read"
        <4>1. Sent = << >> BY <3>1 DEF Sent, SentBy
        <4> QED BY <2>1, <2>2, <2>3, <3>1, <4>1
      <3>2. CASE call.type # "read" BY <2>1, <2>2, <2>3, <3>2
      <3> QED BY <3>1, <3>2
    <2>4. ASSUME NEW moved \in 0 .. DevSize, NEW data \in Data,
                 message = fo_serialize(Answer(moved, data)),
                 IF call.type = "read" THEN moved = Moved /\ Brought(data) ELSE data = << >>
          PROVE  message[3] <= Len(req.args) /\ message[4] <= Len(req.data)
      <3>1. did.rv \in Int /\ moved \in Int /\ call.arg \in Int BY <2>1 DEF OpsInv, TypeOK
      <3>2. message[3] = 3 /\ message[4] = Len(data) BY <2>4, <3>1, AnswerLayout DEF Answer
      <3>3. Len(data) <= Len(req.data) BY <2>1, <2>2, <2>4 DEF Brought
      <3> QED BY <2>1, <2>2, <3>2, <3>3
    <2> QED BY <2>3, <2>4 DEF OpsInv, ReplyInv
  <1> QED BY OpsInit, OpsStep, <1>1, PTL DEF Spec

\* Only the end of a read moves the file's position, and to just behind the
\* bytes that the device gave: ndfo_send_read sets it, all others leave it.
THEOREM PositionMoves == Spec => OnlyReadsMove
  <1>1. OpsInv /\ [Next]_vars =>
            [pos' # pos => call.type = "read" /\ did.done /\ pos' = did.off + did.rv]_vars
    <2> SUFFICES ASSUME OpsInv, Next, pos' # pos
                 PROVE  call.type = "read" /\ did.done /\ pos' = did.off + did.rv
      BY DEF vars
    <2>1. Return
      BY DEF Next, ndfo_send_read, ndfo_send_write, ndfo_send_llseek, ndfo_send_ioctl, Call,
             TooBig, ndfo_recv_read, ndfo_recv_write, ndfo_recv_llseek,
             ndfo_recv_compat_ioctl, ndfo_recv_unlocked_ioctl, Executed, NotImplemented,
             OtherWrite, fo_complete
    <2>2. call.type = "read" /\ req.rvalue = 0 /\ pos' = req.args[2]
      BY <2>1 DEF Return, NewPos
    <2>3. Outcome /\ pos' = Moved BY <2>1, <2>2 DEF OpsInv, ReturnInv, Return
    <2>4. did.rv \in Int /\ did.off = pos /\ pos \in Int
      BY <2>2, <2>3 DEF Outcome, OpsInv, TypeOK
    <2> QED BY <2>2, <2>3, <2>4 DEF Outcome, Moved
  <1> QED BY OpsInit, OpsStep, <1>1, PTL DEF Spec, OnlyReadsMove
=============================================================================
