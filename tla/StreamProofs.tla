---------------------------- MODULE StreamProofs ----------------------------
(***************************************************************************)
(* Theorems about Stream, for any number and size of messages.             *)
(***************************************************************************)
EXTENDS Stream, SequenceTheorems, TLAPS

USE SizeAssumption

Unit == Byte \cup {Garbage}

\* Where recvall is: it asks for the whole part at first, and after that for
\* as many bytes as it has, which are fewer than it was called for.
LoopInv ==
    rx.part # "broken" =>
        \/ rx.buf = << >> /\ rx.len = rx.want
        \/ 0 < Len(rx.buf) /\ rx.len = Len(rx.buf)

\* sendall runs for a message that was handed to conn_send.
TxInv == tx.on => nsent # 0

StreamInv == TypeOK /\ LoopInv /\ TxInv /\ OverreadBound

\* A part that is to be read starts with nothing read.
LEMMA PartShape ==
    ASSUME NEW n \in Nat \ {0}, NEW m \in {0} \cup Message, NEW w \in {"header", "payload"}
    PROVE  LET r == Part(w, m, n) IN
           /\ r \in [part : {"header", "payload", "broken"}, msg : {0} \cup Message,
                     want : Nat, len : Nat, buf : Seq(Unit)]
           /\ Len(r.buf) = 0 /\ r.want = n /\ r.buf = << >> /\ r.len = r.want
  BY DEF Part

\* The sizes of a message are numbers within their bounds.
LEMMA SizeType ==
    ASSUME TypeOK, NEW m \in Message
    PROVE  /\ size[m] \in Nat \ {0} /\ Total(m) \in Nat /\ Total(m) = HeaderSize + size[m]
           /\ Total(m) <= HeaderSize + MaxSize /\ 1 <= Total(m)
  <1>1. size[m] \in 1 .. MaxSize BY DEF TypeOK
  <1> QED BY <1>1, SizeAssumption DEF Total

\* The message that is being sent, and the next one, are messages.
LEMMA SentType ==
    ASSUME TypeOK
    PROVE  /\ nsent \in 0 .. Messages /\ nsent \in Nat
           /\ nsent # 0 => nsent \in Message
           /\ nsent < Messages => nsent + 1 \in Message
  <1>1. nsent \in 0 .. Messages BY DEF TypeOK
  <1> QED BY <1>1, SizeAssumption DEF Message

\* What is put on the stream consists of bytes of the message and garbage.
LEMMA BytesType ==
    ASSUME TypeOK, NEW m \in Message, NEW i \in Nat \ {0}, NEW j \in Nat, i <= j + 1
    PROVE  Bytes(m, i, j) \in Seq(Unit) /\ Len(Bytes(m, i, j)) = j - i + 1
  <1>1. Total(m) \in Nat /\ Total(m) <= HeaderSize + MaxSize BY SizeType
  <1>2. \A k \in 1 .. j - i + 1 :
            (IF i + k - 1 <= Total(m) THEN <<m, i + k - 1>> ELSE Garbage) \in Unit
    BY <1>1 DEF Unit, Byte
  <1>3. j - i + 1 \in Nat OBVIOUS
  <1> QED BY <1>2, <1>3 DEF Bytes

\* A part that was given up for lost is read no more.
LEMMA BrokenShape ==
    /\ Broken \in [part : {"header", "payload", "broken"}, msg : {0} \cup Message,
                   want : Nat, len : Nat, buf : Seq(Unit)]
    /\ Broken.part = "broken"
  BY DEF Broken, Part

\* A new connection: nothing is sent and a header is asked for.
LEMMA StreamInit == Init => StreamInv
  <1> SUFFICES ASSUME Init PROVE StreamInv OBVIOUS
  <1>1. /\ rx \in [part : {"header", "payload", "broken"}, msg : {0} \cup Message,
                   want : Nat, len : Nat, buf : Seq(Unit)]
        /\ Len(rx.buf) = 0 /\ rx.want = HeaderSize /\ rx.buf = << >> /\ rx.len = rx.want
    BY PartShape DEF Init, Header
  <1>2. TypeOK BY <1>1 DEF Init, TypeOK, Idle, Message, Unit
  <1> QED BY <1>1, <1>2 DEF StreamInv, LoopInv, TxInv, OverreadBound, Init, Idle

\* conn_send starts sendall with the whole message.
LEMMA ConnSendStep == StreamInv /\ ConnSend => StreamInv'
  <1> SUFFICES ASSUME StreamInv, ConnSend PROVE StreamInv' OBVIOUS
  <1> USE DEF StreamInv
  <1>1. nsent + 1 \in Message BY SentType DEF ConnSend
  <1>2. Total(nsent + 1) \in Nat
    <2> DEFINE m == nsent + 1
    <2>1. m \in Message BY <1>1
    <2> HIDE DEF m
    <2>2. Total(m) \in Nat BY <2>1, SizeType
    <2> QED BY <2>2 DEF m
  <1>3. put' \in Seq(Message) BY <1>1 DEF ConnSend, TypeOK
  <1>4. tx' \in [on : BOOLEAN, bytes : Nat, len : Nat] BY <1>2 DEF ConnSend
  <1>5. calm' \in BOOLEAN BY Zenon DEF ConnSend, TypeOK
  <1>6. TypeOK'
    <2>1. nsent' \in 0 .. Messages BY <1>1, SizeAssumption DEF ConnSend, Message
    <2>2. UNCHANGED <<size, wire, rx, open, last, got>> BY DEF ConnSend
    <2> QED BY <1>3, <1>4, <1>5, <2>1, <2>2 DEF TypeOK
  <1>7. TxInv' BY DEF ConnSend, TxInv, TypeOK
  <1> QED BY <1>6, <1>7 DEF ConnSend, LoopInv, OverreadBound

\* One sendmsg: the receiver is not disturbed.
LEMMA SendmsgStep == StreamInv /\ Sendmsg => StreamInv'
  <1> SUFFICES ASSUME StreamInv, Sendmsg PROVE StreamInv' OBVIOUS
  <1> USE DEF StreamInv
  <1>1. PICK n \in 1 .. tx.len :
            LET bytes == tx.bytes + n IN
            /\ tx.on
            /\ wire' = wire \o Bytes(nsent, tx.bytes + 1, bytes)
            /\ tx' = IF bytes < Total(nsent)
                     THEN [tx EXCEPT !.bytes = bytes, !.len = NextLen(bytes, Total(nsent))]
                     ELSE Idle
            /\ calm' = (calm /\ n = Total(nsent))
            /\ UNCHANGED <<size, rx, nsent, open, last, put, got>>
    BY DEF Sendmsg
  <1>2. nsent \in Message /\ tx.bytes \in Nat /\ n \in Nat
    <2>1. nsent \in Message BY <1>1, SentType DEF TxInv
    <2>2. tx.bytes \in Nat /\ tx.len \in Nat BY DEF TypeOK
    <2> QED BY <2>1, <2>2
  <1>3. wire' \in Seq(Unit)
    <2> DEFINE i == tx.bytes + 1
               j == tx.bytes + n
    <2>0. i \in Nat \ {0} /\ j \in Nat /\ i <= j + 1 BY <1>2
    <2> HIDE DEF i, j
    <2>a. Bytes(nsent, i, j) \in Seq(Unit) BY <1>2, <2>0, BytesType
    <2>1. Bytes(nsent, tx.bytes + 1, tx.bytes + n) \in Seq(Unit) BY <2>a DEF i, j
    <2>2. wire \in Seq(Unit) BY DEF TypeOK, Unit
    <2> QED BY <1>1, <2>1, <2>2, ConcatProperties
  <1>4. tx' \in [on : BOOLEAN, bytes : Nat, len : Nat]
    <2> DEFINE b == tx.bytes + n
    <2>1. tx' = [tx EXCEPT !.bytes = b, !.len = b] \/ tx' = Idle BY <1>1 DEF NextLen
    <2>2. tx \in [on : BOOLEAN, bytes : Nat, len : Nat] BY DEF TypeOK
    <2>3. b \in Nat BY <1>2
    <2> HIDE DEF b
    <2>4. [tx EXCEPT !.bytes = b, !.len = b] \in [on : BOOLEAN, bytes : Nat, len : Nat]
      BY <2>2, <2>3
    <2>5. Idle \in [on : BOOLEAN, bytes : Nat, len : Nat] BY DEF Idle
    <2> QED BY <2>1, <2>4, <2>5
  <1>5. calm' \in BOOLEAN BY <1>1
  <1>6. TypeOK' BY <1>1, <1>3, <1>4, <1>5 DEF TypeOK, Unit
  <1> QED BY <1>1, <1>2, <1>6 DEF LoopInv, OverreadBound, TxInv, Message

\* One recvmsg of recvall, and what conn_recv does when the part is complete.
LEMMA RecvmsgStep == StreamInv /\ Recvmsg => StreamInv'
  <1> SUFFICES ASSUME StreamInv, Recvmsg PROVE StreamInv' OBVIOUS
  <1> USE DEF StreamInv
  <1>1. PICK n \in 1 .. rx.len :
            LET buf == Place(rx.buf, SubSeq(wire, 1, n)) IN
            /\ rx.part # "broken" /\ n <= Len(wire)
            /\ wire' = SubSeq(wire, n + 1, Len(wire))
            /\ calm' = (calm /\ (rx.part = "header" => n = HeaderSize))
            /\ IF ~Done(buf)
               THEN /\ rx' = [rx EXCEPT !.buf = buf, !.len = NextLen(Len(buf), rx.want)]
                    /\ UNCHANGED <<last, got>>
               ELSE /\ last' = [want |-> rx.want, bytes |-> Len(buf)]
                    /\ \/ IF rx.part = "header" THEN HeaderDone(buf) ELSE PayloadDone(buf)
                       \/ Len(buf) > rx.want /\ rx' = Broken /\ UNCHANGED got
            /\ UNCHANGED <<size, tx, nsent, open, put>>
    BY DEF Recvmsg
  <1> DEFINE buf == Place(rx.buf, SubSeq(wire, 1, n))
             Rx == [part : {"header", "payload", "broken"}, msg : {0} \cup Message,
                    want : Nat, len : Nat, buf : Seq(Unit)]
  <1>2. wire \in Seq(Unit) /\ rx \in Rx /\ n \in Nat BY DEF TypeOK, Unit
  <1>3. SubSeq(wire, 1, n) \in Seq(Unit) /\ Len(SubSeq(wire, 1, n)) = n
    <2>1. n \in 1 .. Len(wire) BY <1>1
    <2>2. \A i \in 1 .. n : wire[i] \in Unit BY <1>2, <2>1
    <2>3. 1 \in Int /\ n \in Int /\ 1 <= n + 1 /\ n - 1 + 1 = n BY <2>1
    <2> QED BY ONLY <2>1, <2>2, <2>3, SubSeqProperties
  <1>4. buf \in Seq(Unit) /\ Len(buf) = Len(rx.buf) + n
    BY <1>2, <1>3, ConcatProperties DEF Place
  <1>5. wire' \in Seq(Unit)
    <2>1. \A i \in n + 1 .. Len(wire) : wire[i] \in Unit BY <1>2
    <2>2. n + 1 \in Int /\ Len(wire) \in Int BY <1>2
    <2> QED BY <1>1, <2>1, <2>2, SubSeqProperties
  <1>6. calm' \in BOOLEAN BY <1>1
  <1>7. /\ Len(rx.buf) \in Nat /\ Len(rx.buf) < rx.want /\ rx.want \in Nat /\ n <= rx.len
        /\ \/ Len(rx.buf) = 0 /\ rx.len = rx.want
           \/ 0 < Len(rx.buf) /\ rx.len = Len(rx.buf)
    BY <1>1, <1>2 DEF TypeOK, LoopInv
  <1> HIDE DEF buf
  <1>8. CASE ~Done(buf)
    <2>1. rx' = [rx EXCEPT !.buf = buf, !.len = Len(buf)] /\ UNCHANGED <<last, got>>
      BY <1>1, <1>8 DEF NextLen, buf
    <2>2. Len(buf) \in Nat /\ 0 < Len(buf) /\ Len(buf) < rx.want
      BY <1>2, <1>4, <1>7, <1>8 DEF Done
    <2>3. rx' \in Rx BY <1>2, <1>4, <2>1, <2>2
    <2>4. rx'.buf = buf /\ rx'.len = Len(buf) /\ rx'.want = rx.want BY <1>2, <2>1
    <2>5. TypeOK' BY <1>1, <1>5, <1>6, <2>1, <2>2, <2>3, <2>4 DEF TypeOK, Unit
    <2> QED BY <1>1, <2>1, <2>2, <2>4, <2>5 DEF LoopInv, TxInv, OverreadBound
  <1>9. CASE Done(buf)
    <2>1. last' = [want |-> rx.want, bytes |-> Len(buf)] BY <1>1, <1>9 DEF buf
    <2>2. Len(buf) \in Nat /\ rx.want <= Len(buf)
      BY <1>4, <1>9, <1>2 DEF Done
    <2>3. OverreadBound' /\ last' \in [want : Nat, bytes : Nat]
      <3>1. Len(buf) <= rx.want \/ Len(buf) <= 2 * (rx.want - 1) BY <1>4, <1>7, <1>2
      <3> QED BY <1>7, <2>1, <2>2, <3>1 DEF OverreadBound
    <2>4. /\ rx' \in Rx /\ got' \in Seq({0} \cup Message)
          /\ rx'.part # "broken" => rx'.buf = << >> /\ rx'.len = rx'.want /\ 0 < rx'.want
      <3>1. CASE rx.part = "header" /\ HeaderDone(buf)
        <4>1. CASE HeaderOf(buf) = {}
          BY <3>1, <4>1, BrokenShape DEF HeaderDone, TypeOK
        <4>2. CASE HeaderOf(buf) # {}
          <5>1. PICK m \in HeaderOf(buf) : rx' = Part("payload", m, size[m])
            BY <3>1, <4>2 DEF HeaderDone
          <5>2. m \in Message /\ size[m] \in Nat \ {0} BY DEF HeaderOf, TypeOK
          <5>3. got' \in Seq({0} \cup Message) BY <3>1 DEF HeaderDone, TypeOK
          <5> DEFINE k == size[m]
          <5> HIDE DEF k
          <5>4. k \in Nat \ {0} BY <5>2 DEF k
          <5>5. /\ Part("payload", m, k) \in Rx
                /\ Part("payload", m, k).buf = << >>
                /\ Part("payload", m, k).len = Part("payload", m, k).want
                /\ 0 < Part("payload", m, k).want
            BY <5>2, <5>4 DEF Part
          <5> QED BY <5>1, <5>3, <5>5 DEF k
        <4> QED BY <4>1, <4>2
      <3>2. CASE rx.part # "header" /\ PayloadDone(buf)
        <4>1. got' \in Seq({0} \cup Message) BY <1>2, <3>2 DEF PayloadDone, TypeOK
        <4>2. 0 \in {0} \cup Message /\ HeaderSize \in Nat \ {0} OBVIOUS
        <4> QED BY <3>2, <4>1, <4>2, PartShape DEF PayloadDone, Header
      <3>3. CASE rx' = Broken /\ UNCHANGED got BY <3>3, BrokenShape DEF TypeOK
      <3> QED BY <1>1, <1>9, <3>1, <3>2, <3>3 DEF buf
    <2>5. rx'.part # "broken" => Len(rx'.buf) < rx'.want BY <2>4
    <2>6. TypeOK' BY <1>1, <1>5, <1>6, <2>3, <2>4, <2>5 DEF TypeOK, Unit
    <2> QED BY <1>1, <2>3, <2>4, <2>6 DEF LoopInv, TxInv
  <1> QED BY <1>8, <1>9

\* Every step of the two loops, and the end of either, keeps the invariant.
LEMMA StreamStep == StreamInv /\ [Next]_vars => StreamInv'
  <1> SUFFICES ASSUME StreamInv, [Next]_vars PROVE StreamInv' OBVIOUS
  <1>1. CASE ConnSend BY <1>1, ConnSendStep
  <1>2. CASE Sendmsg BY <1>2, SendmsgStep
  <1>3. CASE Close
    BY <1>3 DEF Close, StreamInv, TypeOK, LoopInv, TxInv, OverreadBound, Idle
  <1>4. CASE Recvmsg BY <1>4, RecvmsgStep
  <1>5. CASE RecvEof
    BY <1>5, BrokenShape DEF RecvEof, StreamInv, TypeOK, LoopInv, TxInv, OverreadBound, Unit
  <1>6. CASE UNCHANGED vars
    BY <1>6 DEF vars, StreamInv, TypeOK, LoopInv, TxInv, OverreadBound
  <1> QED BY <1>1, <1>2, <1>3, <1>4, <1>5, <1>6 DEF Next

\* recvall returns with at least what it was asked for and with less than
\* twice as much, for all sizes of headers and payloads and however the
\* stream is cut: what conn_recv writes behind a buffer of n bytes is n - 2
\* bytes at most.
THEOREM OverreadsBounded == Spec => []OverreadBound
  <1>1. StreamInv => OverreadBound BY DEF StreamInv
  <1> QED BY StreamInit, StreamStep, <1>1, PTL DEF Spec

\* sendall and recvall keep their counters and buffers in range, and recvall
\* never asks for more once it has enough.
THEOREM StreamTyped == Spec => []TypeOK
  <1>1. StreamInv => TypeOK BY DEF StreamInv
  <1> QED BY StreamInit, StreamStep, <1>1, PTL DEF Spec

-----------------------------------------------------------------------------
(* While the stream is calm it is a channel of whole messages *)

\* No part of a message has been received.
Waiting == rx \in {Header, Broken}

\* The message that was sent last is where it should be, byte by byte: all of
\* it received, or not yet sent, or on the stream (unless the sender was
\* closed before), or its payload half received.
LastSent ==
    \/ Len(got) = nsent /\ ~tx.on /\ wire = << >> /\ Waiting
    \/ /\ Len(got) + 1 = nsent /\ wire = << >> /\ Waiting
       /\ tx.on => tx.bytes = 0 /\ tx.len = Total(nsent)
    \/ Len(got) + 1 = nsent /\ ~tx.on /\ wire = Bytes(nsent, 1, Total(nsent)) /\ Waiting
    \/ /\ Len(got) + 1 = nsent /\ ~tx.on
       /\ rx.part = "payload" /\ rx.msg = nsent /\ rx.want = size[nsent]
       /\ rx.buf = Bytes(nsent, HeaderSize + 1, HeaderSize + Len(rx.buf))
       /\ wire = Bytes(nsent, HeaderSize + 1 + Len(rx.buf), Total(nsent))

\* Messages are sent and received in order, the last one perhaps not yet.
CalmInv ==
    calm => /\ Len(put) = nsent /\ \A i \in 1 .. Len(put) : put[i] = i
            /\ \A i \in 1 .. Len(got) : got[i] = i
            /\ LastSent

\* The bytes of a message, one by one.
LEMMA BytesAt ==
    ASSUME TypeOK, NEW m \in Message, NEW i \in Nat \ {0}, NEW j \in Nat, i <= j + 1
    PROVE  \A k \in 1 .. j - i + 1 :
              Bytes(m, i, j)[k] = IF i + k - 1 <= Total(m) THEN <<m, i + k - 1>> ELSE Garbage
  BY DEF Bytes

\* The bytes of a message come in pieces of it.
LEMMA BytesCut ==
    TypeOK => \A m \in Message, i \in Nat \ {0}, j \in Nat, n \in Nat :
        i + n <= j + 1 =>
            /\ SubSeq(Bytes(m, i, j), 1, n) = Bytes(m, i, i + n - 1)
            /\ SubSeq(Bytes(m, i, j), n + 1, Len(Bytes(m, i, j))) = Bytes(m, i + n, j)
  <1> SUFFICES ASSUME TypeOK, NEW m \in Message, NEW i \in Nat \ {0}, NEW j \in Nat,
                      NEW n \in Nat, i + n <= j + 1
               PROVE  /\ SubSeq(Bytes(m, i, j), 1, n) = Bytes(m, i, i + n - 1)
                      /\ SubSeq(Bytes(m, i, j), n + 1, Len(Bytes(m, i, j))) = Bytes(m, i + n, j)
    OBVIOUS
  <1> DEFINE b == Bytes(m, i, j)
             l == i + n - 1
             k == i + n
  <1>1. l \in Nat /\ k \in Nat \ {0} /\ i <= l + 1 /\ k <= j + 1 /\ i <= j + 1 OBVIOUS
  <1>2. /\ b \in Seq(Unit) /\ Len(b) = j - i + 1
        /\ \A x \in 1 .. j - i + 1 :
              b[x] = IF i + x - 1 <= Total(m) THEN <<m, i + x - 1>> ELSE Garbage
    BY <1>1, BytesType, BytesAt
  <1>3. /\ Bytes(m, i, l) \in Seq(Unit) /\ Len(Bytes(m, i, l)) = l - i + 1
        /\ \A x \in 1 .. l - i + 1 :
              Bytes(m, i, l)[x] = IF i + x - 1 <= Total(m) THEN <<m, i + x - 1>> ELSE Garbage
    <2> HIDE DEF l
    <2> QED BY <1>1, BytesType, BytesAt
  <1>4. /\ Bytes(m, k, j) \in Seq(Unit) /\ Len(Bytes(m, k, j)) = j - k + 1
        /\ \A x \in 1 .. j - k + 1 :
              Bytes(m, k, j)[x] = IF k + x - 1 <= Total(m) THEN <<m, k + x - 1>> ELSE Garbage
    <2> HIDE DEF k
    <2> QED BY <1>1, BytesType, BytesAt
  <1> HIDE DEF b
  <1>5. SubSeq(b, 1, n) = Bytes(m, i, l)
    <2>1. \A x \in 1 .. n : b[x] \in Unit BY <1>2
    <2>2. /\ SubSeq(b, 1, n) \in Seq(Unit) /\ Len(SubSeq(b, 1, n)) = n
          /\ \A x \in 1 .. n : SubSeq(b, 1, n)[x] = b[x]
      BY <2>1, SubSeqProperties
    <2>3. Len(Bytes(m, i, l)) = n BY <1>3
    <2>4. ASSUME NEW x \in 1 .. n PROVE b[x] = Bytes(m, i, l)[x]
      <3>1. x \in 1 .. j - i + 1 /\ x \in 1 .. l - i + 1 OBVIOUS
      <3> HIDE DEF l
      <3> QED BY <1>2, <1>3, <3>1
    <2> HIDE DEF l
    <2> QED BY <1>3, <2>2, <2>3, <2>4, SeqEqual
  <1>6. SubSeq(b, n + 1, Len(b)) = Bytes(m, k, j)
    <2> DEFINE r == SubSeq(b, n + 1, Len(b))
    <2>1. \A x \in n + 1 .. Len(b) : b[x] \in Unit BY <1>2
    <2>2. /\ r \in Seq(Unit) /\ Len(r) = IF n + 1 <= Len(b) THEN Len(b) - (n + 1) + 1 ELSE 0
          /\ \A x \in 1 .. Len(b) - (n + 1) + 1 : r[x] = b[n + 1 + x - 1]
      BY <1>2, <2>1, SubSeqProperties
    <2> HIDE DEF r
    <2>3. Len(r) = j - k + 1 /\ Len(Bytes(m, k, j)) = j - k + 1 BY <1>2, <1>4, <2>2
    <2>4. ASSUME NEW x \in 1 .. j - k + 1 PROVE r[x] = Bytes(m, k, j)[x]
      <3>1. x \in 1 .. Len(b) - (n + 1) + 1 /\ n + x \in 1 .. j - i + 1 BY <1>2
      <3>2. r[x] = b[n + x] BY <2>2, <3>1
      <3>3. i + (n + x) - 1 = k + x - 1 OBVIOUS
      <3>4. b[n + x] = IF k + x - 1 <= Total(m) THEN <<m, k + x - 1>> ELSE Garbage
        BY <1>2, <3>1, <3>3
      <3> QED BY <1>4, <3>2, <3>4
    <2> HIDE DEF k
    <2>5. r = Bytes(m, k, j) BY <1>4, <2>2, <2>3, <2>4, SeqEqual
    <2> QED BY <2>5 DEF r
  <1> QED BY <1>5, <1>6 DEF b, l, k

\* Pieces that follow each other make one.
LEMMA BytesJoin ==
    ASSUME TypeOK, NEW m \in Message, NEW i \in Nat \ {0}, NEW k \in Nat, NEW j \in Nat,
           i <= k + 1, k <= j
    PROVE  Bytes(m, i, k) \o Bytes(m, k + 1, j) = Bytes(m, i, j)
  <1> DEFINE a == Bytes(m, i, k)
             b == Bytes(m, k + 1, j)
             c == Bytes(m, i, j)
  <1>1. /\ a \in Seq(Unit) /\ Len(a) = k - i + 1
        /\ \A x \in 1 .. k - i + 1 :
              a[x] = IF i + x - 1 <= Total(m) THEN <<m, i + x - 1>> ELSE Garbage
    BY BytesType, BytesAt
  <1>2. /\ b \in Seq(Unit) /\ Len(b) = j - k
        /\ \A x \in 1 .. j - k :
              b[x] = IF k + x <= Total(m) THEN <<m, k + x>> ELSE Garbage
    <2> DEFINE h == k + 1
    <2>1. h \in Nat \ {0} /\ h <= j + 1 OBVIOUS
    <2>2. /\ Bytes(m, h, j) \in Seq(Unit) /\ Len(Bytes(m, h, j)) = j - h + 1
          /\ \A x \in 1 .. j - h + 1 :
                Bytes(m, h, j)[x] = IF h + x - 1 <= Total(m) THEN <<m, h + x - 1>> ELSE Garbage
      <3> HIDE DEF h
      <3> QED BY <2>1, BytesType, BytesAt
    <2>3. j - h + 1 = j - k /\ \A x \in Int : h + x - 1 = k + x OBVIOUS
    <2> QED BY <2>2, <2>3
  <1>3. /\ c \in Seq(Unit) /\ Len(c) = j - i + 1
        /\ \A x \in 1 .. j - i + 1 :
              c[x] = IF i + x - 1 <= Total(m) THEN <<m, i + x - 1>> ELSE Garbage
    <2>1. i <= j + 1 OBVIOUS
    <2> QED BY <2>1, BytesType, BytesAt
  <1> HIDE DEF a, b, c
  <1>4. /\ a \o b \in Seq(Unit) /\ Len(a \o b) = Len(a) + Len(b)
        /\ \A x \in 1 .. Len(a) + Len(b) :
              (a \o b)[x] = IF x <= Len(a) THEN a[x] ELSE b[x - Len(a)]
    BY <1>1, <1>2, ConcatProperties
  <1>5. Len(a \o b) = Len(c) BY <1>1, <1>2, <1>3, <1>4
  <1>6. ASSUME NEW x \in 1 .. Len(c) PROVE (a \o b)[x] = c[x]
    <2>1. x \in 1 .. Len(a) + Len(b) /\ x \in 1 .. j - i + 1 BY <1>1, <1>2, <1>3
    <2>2. CASE x <= Len(a)
      <3>1. x \in 1 .. k - i + 1 BY <1>1, <2>1, <2>2
      <3> QED BY <1>1, <1>3, <1>4, <2>1, <2>2, <3>1
    <2>3. CASE ~(x <= Len(a))
      <3> DEFINE y == x - Len(a)
      <3>1. y \in 1 .. j - k /\ k + y = i + x - 1 BY <1>1, <1>2, <2>1, <2>3
      <3>2. (a \o b)[x] = b[y] BY <1>4, <2>1, <2>3
      <3> HIDE DEF y
      <3>3. b[y] = IF i + x - 1 <= Total(m) THEN <<m, i + x - 1>> ELSE Garbage
        BY <1>2, <3>1
      <3> QED BY <1>3, <2>1, <3>2, <3>3
    <2> QED BY <2>2, <2>3
  <1>7. a \o b = c BY <1>3, <1>4, <1>5, <1>6, SeqEqual
  <1> QED BY <1>7 DEF a, b, c

\* Nothing is left of a message behind its end.
LEMMA BytesNone ==
    ASSUME TypeOK, NEW m \in Message, NEW i \in Nat \ {0}, NEW j \in Nat, i = j + 1
    PROVE  Bytes(m, i, j) = << >>
  <1>1. Bytes(m, i, j) \in Seq(Unit) /\ Len(Bytes(m, i, j)) = j - i + 1 BY BytesType
  <1>2. Len(Bytes(m, i, j)) = 0 BY <1>1
  <1> QED BY <1>1, <1>2, EmptySeq

\* A header is the header of one message.
LEMMA HeaderTells ==
    ASSUME TypeOK, NEW m \in Message, NEW l \in Message,
           Bytes(l, 1, HeaderSize) = Bytes(m, 1, HeaderSize)
    PROVE  l = m
  <1> DEFINE one == 1
  <1>1. one \in Nat \ {0} /\ one <= HeaderSize + 1 /\ HeaderSize \in Nat OBVIOUS
  <1> HIDE DEF one
  <1>2. ASSUME NEW x \in Message PROVE Bytes(x, one, HeaderSize)[1] = <<x, 1>>
    <2>1. 1 \in 1 .. HeaderSize - one + 1 BY DEF one
    <2>2. one + 1 - 1 = 1 /\ 1 <= Total(x) BY SizeType DEF one
    <2>3. Bytes(x, one, HeaderSize)[1]
          = IF one + 1 - 1 <= Total(x) THEN <<x, one + 1 - 1>> ELSE Garbage
      BY <1>1, <2>1, BytesAt
    <2> QED BY <2>2, <2>3
  <1>3. <<l, 1>> = <<m, 1>> BY <1>2 DEF one
  <1> QED BY <1>3

\* No message was sent: there is nothing on a new connection.
LEMMA CalmInit == Init => CalmInv
  BY DEF Init, CalmInv, LastSent, Waiting, Idle

\* A message is sent while the one before it has been received.
LEMMA CalmSend == StreamInv /\ CalmInv /\ ConnSend => CalmInv'
  <1> SUFFICES ASSUME StreamInv, CalmInv, ConnSend, calm' PROVE CalmInv' BY DEF CalmInv
  <1>1. /\ ~tx.on /\ nsent' = nsent + 1
        /\ tx' = [on |-> TRUE, bytes |-> 0, len |-> Total(nsent + 1)]
        /\ calm /\ Len(got) = nsent /\ put' = Append(put, nsent + 1)
        /\ UNCHANGED <<size, wire, rx, open, last, got>>
    BY Zenon DEF ConnSend
  <1>2. put \in Seq(Message) /\ nsent \in Nat /\ Len(got) \in Nat BY DEF StreamInv, TypeOK
  <1>3. wire = << >> /\ Waiting
    <2>1. LastSent BY <1>1 DEF CalmInv
    <2>2. Len(got) + 1 # nsent BY <1>1, <1>2
    <2> QED BY <2>1, <2>2, Zenon DEF LastSent
  <1>4. tx'.bytes = 0 /\ tx'.len = Total(nsent)' BY <1>1 DEF Total
  <1>5. LastSent' BY <1>1, <1>2, <1>3, <1>4 DEF LastSent, Waiting
  <1>6. Len(put') = nsent' /\ \A i \in 1 .. Len(put') : put'[i] = i
    BY <1>1, <1>2 DEF CalmInv
  <1>7. \A i \in 1 .. Len(got') : got'[i] = i BY <1>1 DEF CalmInv
  <1> QED BY <1>5, <1>6, <1>7 DEF CalmInv

\* It is put on the stream as a whole.
LEMMA CalmSendmsg == StreamInv /\ CalmInv /\ Sendmsg => CalmInv'
  <1> SUFFICES ASSUME StreamInv, CalmInv, Sendmsg, calm' PROVE CalmInv' BY DEF CalmInv
  <1>1. PICK n \in 1 .. tx.len :
            /\ tx.on
            /\ wire' = wire \o Bytes(nsent, tx.bytes + 1, tx.bytes + n)
            /\ tx' = IF tx.bytes + n < Total(nsent)
                     THEN [tx EXCEPT !.bytes = tx.bytes + n,
                                     !.len = NextLen(tx.bytes + n, Total(nsent))]
                     ELSE Idle
            /\ calm' = (calm /\ n = Total(nsent))
            /\ UNCHANGED <<size, rx, nsent, open, last, put, got>>
    BY DEF Sendmsg
  <1>2. calm /\ n = Total(nsent) BY <1>1
  <1>3. Len(got) + 1 = nsent /\ wire = << >> /\ Waiting /\ tx.bytes = 0
    BY <1>1, <1>2 DEF CalmInv, LastSent
  <1>4. nsent \in Message /\ Total(nsent) \in Nat /\ got \in Seq({0} \cup Message)
    <2>1. TypeOK /\ TxInv BY DEF StreamInv
    <2>2. nsent \in Message BY <1>1, <2>1, SentType DEF TxInv
    <2>3. Total(nsent) \in Nat BY <2>1, <2>2, SizeType
    <2> QED BY <2>1, <2>2, <2>3 DEF TypeOK
  <1>5. wire' = Bytes(nsent, 1, Total(nsent))
    <2> DEFINE b == Bytes(nsent, 1, Total(nsent))
    <2>1. wire' = << >> \o b
      <3>1. tx.bytes + 1 = 1 /\ tx.bytes + n = Total(nsent) BY <1>2, <1>3, <1>4
      <3> QED BY <1>1, <1>3, <3>1
    <2>2. b \in Seq(Unit)
      <3> DEFINE one == 1
      <3>1. one \in Nat \ {0} /\ one <= Total(nsent) + 1 BY <1>4
      <3> HIDE DEF one
      <3>2. Bytes(nsent, one, Total(nsent)) \in Seq(Unit)
        BY <1>4, <3>1, BytesType DEF StreamInv
      <3> QED BY <3>2 DEF one
    <2> HIDE DEF b
    <2>3. << >> \o b = b BY <2>2, ConcatEmptySeq
    <2> QED BY <2>1, <2>3 DEF b
  <1>6. ~tx'.on
    <2>1. ~(tx.bytes + n < Total(nsent)) BY <1>2, <1>3, <1>4
    <2> QED BY <1>1, <2>1 DEF Idle
  <1>7. LastSent' BY <1>1, <1>3, <1>5, <1>6 DEF LastSent, Waiting, Total, Bytes
  <1> QED BY <1>1, <1>2, <1>7 DEF CalmInv

\* The sender ends: what has not been put on the stream is never sent.
LEMMA CalmClose == StreamInv /\ CalmInv /\ Close => CalmInv'
  <1> SUFFICES ASSUME StreamInv, CalmInv, Close, calm' PROVE CalmInv' BY DEF CalmInv
  <1>1. /\ ~tx'.on /\ calm
        /\ UNCHANGED <<size, wire, rx, nsent, last, calm, put, got>>
    BY DEF Close, Idle
  <1>2. LastSent' BY <1>1 DEF CalmInv, LastSent, Waiting, Total, Bytes
  <1> QED BY <1>1, <1>2 DEF CalmInv

\* The end of the stream is not reached within a message.
LEMMA CalmEof == StreamInv /\ CalmInv /\ RecvEof => CalmInv'
  <1> SUFFICES ASSUME StreamInv, CalmInv, RecvEof, calm' PROVE CalmInv' BY DEF CalmInv
  <1>1. /\ rx.part # "broken" /\ wire = << >> /\ rx' = Broken /\ calm
        /\ UNCHANGED <<size, tx, wire, nsent, open, last, put, got>>
    BY DEF RecvEof
  <1>2. /\ got \in Seq({0} \cup Message) /\ nsent \in 0 .. Messages
        /\ rx.buf \in Seq(Unit) /\ Len(rx.buf) < rx.want /\ rx.want \in Nat
    BY <1>1 DEF StreamInv, TypeOK, Unit
  <1>3. Len(got) + 1 = nsent => nsent \in Message /\ Total(nsent) \in Nat /\ size[nsent] \in Nat
    <2> SUFFICES ASSUME Len(got) + 1 = nsent
                 PROVE  nsent \in Message /\ Total(nsent) \in Nat /\ size[nsent] \in Nat
        OBVIOUS
    <2>1. TypeOK BY DEF StreamInv
    <2>2. Len(got) \in Nat BY <1>2
    <2>3. nsent \in Message BY <2>1, <2>2, SentType
    <2> QED BY <2>1, <2>3, SizeType
  <1>4. ASSUME Len(got) + 1 = nsent, rx.want = size[nsent]
        PROVE  wire # Bytes(nsent, HeaderSize + 1 + Len(rx.buf), Total(nsent))
    <2> DEFINE n == Len(rx.buf)
               t == Total(nsent)
               i == HeaderSize + 1 + n
               b == Bytes(nsent, i, t)
    <2>1. n \in Nat /\ n < size[nsent] /\ t = HeaderSize + size[nsent] /\ size[nsent] \in Nat
      BY <1>2, <1>3, <1>4 DEF Total
    <2> HIDE DEF n, t
    <2>2. i \in Nat \ {0} /\ t \in Nat /\ i <= t + 1 /\ t - i + 1 > 0 BY <2>1
    <2> HIDE DEF i
    <2>3. Len(b) = t - i + 1 BY <1>3, <1>4, <2>2, BytesType DEF StreamInv
    <2> HIDE DEF b
    <2>4. b # << >> BY <2>2, <2>3
    <2> QED BY <1>1, <2>4 DEF b, i, t, n
  <1>5. \/ Len(got) = nsent /\ ~tx.on
        \/ Len(got) + 1 = nsent /\ (tx.on => tx.bytes = 0 /\ tx.len = Total(nsent))
    BY <1>1, <1>4 DEF CalmInv, LastSent
  <1>6. LastSent' BY <1>1, <1>5 DEF LastSent, Waiting, Total
  <1> QED BY <1>1, <1>6 DEF CalmInv

\* It is received as a whole: a header in one piece, and a payload in any.
\* What is received is what was sent next.
LEMMA CalmRecvmsg ==
    StreamInv /\ CalmInv /\ Recvmsg => CalmInv' /\ (got' = got \/ Exact!ChReceive)
  <1> SUFFICES ASSUME StreamInv, CalmInv, Recvmsg
               PROVE  CalmInv' /\ (got' = got \/ Exact!ChReceive)
    OBVIOUS
  <1>1. PICK n \in 1 .. rx.len :
            LET buf == Place(rx.buf, SubSeq(wire, 1, n)) IN
            /\ rx.part # "broken" /\ n <= Len(wire)
            /\ wire' = SubSeq(wire, n + 1, Len(wire))
            /\ calm' = (calm /\ (rx.part = "header" => n = HeaderSize))
            /\ IF ~Done(buf)
               THEN /\ rx' = [rx EXCEPT !.buf = buf, !.len = NextLen(Len(buf), rx.want)]
                    /\ UNCHANGED <<last, got>>
               ELSE /\ last' = [want |-> rx.want, bytes |-> Len(buf)]
                    /\ \/ IF rx.part = "header" THEN HeaderDone(buf) ELSE PayloadDone(buf)
                       \/ Len(buf) > rx.want /\ rx' = Broken /\ UNCHANGED got
            /\ UNCHANGED <<size, tx, nsent, open, put>>
    BY DEF Recvmsg
  <1> DEFINE buf == Place(rx.buf, SubSeq(wire, 1, n))
  <1>2. got' = got \/ (rx.part # "header" /\ calm)
    BY <1>1 DEF HeaderDone, PayloadDone
  <1>3. CASE ~calm BY <1>1, <1>2, <1>3 DEF CalmInv
  <1>4. CASE rx.part = "header" /\ n # HeaderSize
    BY <1>1, <1>2, <1>4 DEF CalmInv
  <1>5. ASSUME calm, rx.part = "header" => n = HeaderSize
        PROVE  CalmInv' /\ (got' = got \/ Exact!ChReceive)
    <2> DEFINE m == nsent
               t == Total(nsent)
    <2>1. /\ got \in Seq({0} \cup Message) /\ put \in Seq(Message) /\ nsent \in 0 .. Messages
          /\ rx.buf \in Seq(Unit) /\ Len(rx.buf) \in Nat /\ Len(rx.buf) < rx.want
          /\ n \in Nat \ {0} /\ Len(wire) \in Nat
      <3>1. TypeOK BY DEF StreamInv
      <3>2. rx.buf \in Seq(Unit) /\ rx.want \in Nat /\ wire \in Seq(Unit)
        BY ONLY <3>1 DEF TypeOK, Unit
      <3>3. got \in Seq({0} \cup Message) /\ put \in Seq(Message) /\ nsent \in 0 .. Messages
        BY ONLY <3>1 DEF TypeOK
      <3>4. Len(rx.buf) < rx.want BY ONLY <1>1, <3>1 DEF TypeOK
      <3>5. Len(wire) \in Nat /\ Len(rx.buf) \in Nat BY <3>2
      <3> QED BY <1>1, <3>2, <3>3, <3>4, <3>5
    <2>2. calm' BY <1>1, <1>5
    <2>3. /\ Len(put) = nsent /\ \A i \in 1 .. Len(put) : put[i] = i
          /\ \A i \in 1 .. Len(got) : got[i] = i
          /\ LastSent
      BY <1>5 DEF CalmInv
    <2>4. wire # << >> BY <1>1, <2>1
    <2>5. Len(got) + 1 = nsent /\ ~tx.on BY <2>3, <2>4 DEF LastSent
    <2>6. m \in Message /\ t \in Nat /\ size[m] \in Nat \ {0} /\ t = HeaderSize + size[m]
      <3>1. TypeOK BY DEF StreamInv
      <3>2. Len(got) \in Nat BY <2>1
      <3>3. m \in Message BY <2>5, <3>1, <3>2, SentType
      <3> HIDE DEF m
      <3>4. size[m] \in Nat \ {0} /\ Total(m) \in Nat /\ Total(m) = HeaderSize + size[m]
        BY ONLY <3>1, <3>3, SizeType
      <3> QED BY <3>3, <3>4 DEF m
    <2>7. TypeOK BY DEF StreamInv
    <2>8. UNCHANGED <<size, tx, nsent, put>> /\ Total(nsent)' = t
          /\ \A i, j : Bytes(nsent, i, j)' = Bytes(m, i, j)
      BY <1>1 DEF Total, Bytes
    <2> HIDE DEF m, t
    <2>9. CASE rx.part = "header"
      <3> DEFINE one == 1
                 h == HeaderSize
      <3>1. h \in Nat \ {0} /\ n = h /\ one \in Nat \ {0} /\ one <= t + 1
            /\ one + h <= t + 1 /\ one + h <= h + 1 /\ one + h - 1 = h
            /\ one = 1 /\ h = HeaderSize
        BY <1>5, <2>6, <2>9
      <3> HIDE DEF one, h
      <3>2. rx = Header /\ rx.buf = << >> /\ rx.want = HeaderSize
        <4>1. Waiting BY <2>3, <2>9, Zenon DEF LastSent
        <4>2. Broken.part # "header" BY DEF Broken, Part
        <4>3. rx = Header BY <2>9, <4>1, <4>2 DEF Waiting
        <4> QED BY <4>3 DEF Header, Part
      <3>3. wire = Bytes(m, one, t)
        BY <2>3, <2>4, <2>9, <3>1 DEF LastSent, m, t
      <3>4. /\ SubSeq(wire, 1, h) = Bytes(m, one, h)
            /\ SubSeq(wire, h + 1, Len(wire)) = Bytes(m, one + h, t)
        <4>1. m \in Message /\ t \in Nat /\ one \in Nat \ {0} /\ n \in Nat /\ one + n <= t + 1
          BY <2>6, <3>1
        <4>2. SubSeq(Bytes(m, one, t), 1, n) = Bytes(m, one, one + n - 1)
          BY ONLY <2>7, <4>1, BytesCut
        <4>3. SubSeq(Bytes(m, one, t), n + 1, Len(Bytes(m, one, t))) = Bytes(m, one + n, t)
          BY ONLY <2>7, <4>1, BytesCut, Zenon
        <4> QED BY <3>1, <3>3, <4>2, <4>3
      <3>5. Bytes(m, one, h) \in Seq(Unit) /\ Len(Bytes(m, one, h)) = h
        <4>1. one <= h + 1 /\ h \in Nat /\ h - one + 1 = h BY <3>1
        <4> QED BY <2>6, <2>7, <3>1, <4>1, BytesType
      <3>6. buf = Bytes(m, one, h)
        <4>1. SubSeq(wire, 1, n) = Bytes(m, one, h) BY <3>1, <3>4
        <4>2. << >> \o Bytes(m, one, h) = Bytes(m, one, h) BY <3>5, ConcatEmptySeq
        <4> QED BY <3>2, <4>1, <4>2 DEF Place
      <3> HIDE DEF buf
      <3>7. Len(buf) = HeaderSize /\ Done(buf) /\ ~(Len(buf) > rx.want)
        BY <3>1, <3>2, <3>5, <3>6 DEF Done
      <3>8. wire' = Bytes(m, one + h, t) BY <1>1, <3>1, <3>4
      <3>9. HeaderDone(buf) BY <1>1, <2>9, <3>7 DEF buf
      <3>10. HeaderOf(buf) = {m}
        <4>1. SubSeq(buf, 1, HeaderSize) = Bytes(m, 1, HeaderSize)
          <5>1. h \in Nat BY <3>1
          <5>2. SubSeq(Bytes(m, one, h), 1, h) = Bytes(m, one, one + h - 1)
            BY <2>6, <2>7, <3>1, <5>1, BytesCut
          <5> QED BY <3>1, <3>6, <5>2
        <4>2. \A l \in Message : Bytes(l, 1, HeaderSize) = Bytes(m, 1, HeaderSize) => l = m
          BY <2>6, <2>7, HeaderTells
        <4>3. \A l \in Message :
                 SubSeq(buf, 1, HeaderSize) = Bytes(l, 1, HeaderSize) <=> l = m
          BY <4>1, <4>2
        <4> QED BY <2>6, <4>3 DEF HeaderOf
      <3>11. rx' = Part("payload", m, size[m]) /\ got' = got
        BY <3>9, <3>10 DEF HeaderDone
      <3>12. /\ rx'.part = "payload" /\ rx'.msg = m /\ rx'.want = size[m]
             /\ rx'.buf = << >> /\ Len(rx'.buf) = 0
        BY <3>11 DEF Part
      <3>13. Bytes(m, HeaderSize + 1, HeaderSize + Len(rx'.buf)) = << >>
        <4> DEFINE i == HeaderSize + 1
        <4>1. i \in Nat \ {0} /\ i = h + 1 /\ h \in Nat /\ HeaderSize + Len(rx'.buf) = h
          BY <3>1, <3>12
        <4> HIDE DEF i
        <4>2. Bytes(m, i, h) = << >> BY <2>6, <2>7, <4>1, BytesNone
        <4> QED BY <4>1, <4>2 DEF i
      <3>14. wire' = Bytes(m, HeaderSize + 1 + Len(rx'.buf), t)
        <4>1. HeaderSize + 1 + Len(rx'.buf) = one + h BY <3>1, <3>12
        <4> QED BY <3>8, <4>1
      <3>15. LastSent'
        <4>1. /\ Len(got') + 1 = nsent' /\ ~tx'.on /\ rx'.part = "payload" /\ rx'.msg = nsent'
              /\ rx'.want = size'[nsent']
          BY <2>5, <2>8, <3>11, <3>12 DEF m
        <4>2. rx'.buf = Bytes(nsent, HeaderSize + 1, HeaderSize + Len(rx.buf))'
          BY <2>8, <3>12, <3>13 DEF Bytes, Total, m
        <4>3. wire' = Bytes(nsent, HeaderSize + 1 + Len(rx.buf), Total(nsent))'
          BY <2>8, <3>14 DEF Bytes, Total, m
        <4> QED BY <4>1, <4>2, <4>3 DEF LastSent
      <3> QED BY <2>3, <2>8, <3>11, <3>15 DEF CalmInv
    <2>10. CASE rx.part = "payload"
      <3> DEFINE k == Len(rx.buf)
                 f == HeaderSize + 1
                 g == HeaderSize + k
                 e == HeaderSize + k + n
      <3>1. ~Waiting BY <2>10 DEF Waiting, Header, Broken, Part
      <3>2. /\ rx.msg = m /\ rx.want = size[m]
            /\ rx.buf = Bytes(m, f, g)
            /\ wire = Bytes(m, HeaderSize + 1 + Len(rx.buf), t)
        BY <2>3, <3>1, Zenon DEF LastSent, m, t
      <3>3. k \in Nat /\ k < size[m] BY <2>1, <3>2
      <3> HIDE DEF k
      <3>4. wire = Bytes(m, g + 1, t)
        <4>1. HeaderSize + 1 + k = g + 1 BY <3>3
        <4> QED BY <3>2, <4>1 DEF k
      <3>5. Len(wire) = size[m] - k
        <4> DEFINE i == g + 1
        <4>1. i \in Nat \ {0} /\ i <= t + 1 /\ t - i + 1 = size[m] - k BY <2>6, <3>3
        <4> HIDE DEF i
        <4>2. Len(Bytes(m, i, t)) = t - i + 1 BY <2>6, <2>7, <4>1, BytesType
        <4> QED BY <3>4, <4>1, <4>2 DEF i
      <3>6. /\ f \in Nat \ {0} /\ g \in Nat /\ e \in Nat /\ f <= g + 1 /\ g <= e /\ e <= t
            /\ g + n = e /\ e - f + 1 = k + n /\ k + n <= size[m] /\ f <= e + 1
        <4>1. n <= size[m] - k /\ n \in Nat \ {0} BY <1>1, <2>1, <3>5
        <4> QED BY <2>6, <3>3, <4>1
      <3>7. /\ SubSeq(wire, 1, n) = Bytes(m, g + 1, e)
            /\ SubSeq(wire, n + 1, Len(wire)) = Bytes(m, e + 1, t)
        <4> DEFINE i == g + 1
        <4> HIDE DEF e, g
        <4>1. /\ i \in Nat \ {0} /\ n \in Nat /\ i + n <= t + 1 /\ i + n - 1 = e /\ i + n = e + 1
          BY <2>1, <2>6, <3>6
        <4>2. wire = Bytes(m, i, t) BY <3>4
        <4> HIDE DEF i
        <4>3. m \in Message /\ t \in Nat /\ i \in Nat \ {0} /\ n \in Nat /\ i + n <= t + 1
          BY <2>6, <4>1
        <4>4. /\ SubSeq(Bytes(m, i, t), 1, n) = Bytes(m, i, i + n - 1)
              /\ SubSeq(Bytes(m, i, t), n + 1, Len(Bytes(m, i, t))) = Bytes(m, i + n, t)
          BY ONLY <2>7, <4>3, BytesCut, Zenon
        <4> QED BY <4>1, <4>2, <4>4 DEF i
      <3> HIDE DEF f, g, e
      <3>8. buf = Bytes(m, f, e)
        <4>1. Bytes(m, f, g) \o Bytes(m, g + 1, e) = Bytes(m, f, e)
          <5>1. m \in Message /\ f \in Nat \ {0} /\ g \in Nat /\ e \in Nat BY <2>6, <3>6
          <5>2. f <= g + 1 /\ g <= e BY <3>6
          <5> QED BY ONLY <2>7, <5>1, <5>2, BytesJoin, Zenon
        <4> QED BY <3>2, <3>7, <4>1 DEF Place
      <3>9. buf \in Seq(Unit) /\ Len(buf) = k + n
        <4>1. Bytes(m, f, e) \in Seq(Unit) /\ Len(Bytes(m, f, e)) = e - f + 1
          BY <2>6, <2>7, <3>6, BytesType
        <4> QED BY <3>6, <3>8, <4>1
      <3>10. wire' = Bytes(m, e + 1, t) BY <1>1, <3>7
      <3> HIDE DEF buf
      <3>11. CASE ~Done(buf)
        <4>1. rx' = [rx EXCEPT !.buf = buf, !.len = Len(buf)] /\ got' = got
          BY <1>1, <3>11 DEF NextLen, buf
        <4>2. /\ rx'.part = "payload" /\ rx'.msg = m /\ rx'.want = size[m]
              /\ rx'.buf = buf /\ Len(rx'.buf) = k + n
          BY <2>7, <2>10, <3>2, <3>9, <4>1 DEF TypeOK
        <4>3. HeaderSize + Len(rx'.buf) = e /\ HeaderSize + 1 + Len(rx'.buf) = e + 1
          BY <2>1, <3>3, <4>2 DEF e
        <4>4. /\ Len(got') + 1 = nsent' /\ ~tx'.on /\ rx'.part = "payload" /\ rx'.msg = nsent'
              /\ rx'.want = size'[nsent']
          BY <2>5, <2>8, <4>1, <4>2 DEF m
        <4>5. rx'.buf = Bytes(m, HeaderSize + 1, HeaderSize + Len(rx'.buf))
          BY <3>8, <4>2, <4>3 DEF f
        <4>6. wire' = Bytes(m, HeaderSize + 1 + Len(rx'.buf), t) BY <3>10, <4>3
        <4>7. rx'.buf = Bytes(nsent, HeaderSize + 1, HeaderSize + Len(rx.buf))'
          BY <2>8, <4>5 DEF Bytes, Total, m
        <4>8. wire' = Bytes(nsent, HeaderSize + 1 + Len(rx.buf), Total(nsent))'
          BY <2>8, <4>6 DEF Bytes, Total, m
        <4>9. LastSent' BY <4>4, <4>7, <4>8 DEF LastSent
        <4> QED BY <2>3, <2>8, <4>1, <4>9 DEF CalmInv
      <3>12. CASE Done(buf)
        <4>1. k + n = size[m] /\ ~(Len(buf) > rx.want)
          <5>1. Len(buf) >= size[m] BY <3>2, <3>12 DEF Done
          <5>2. k + n <= size[m] /\ Len(buf) = k + n /\ rx.want = size[m] BY <3>2, <3>6, <3>9
          <5>3. k + n \in Int /\ size[m] \in Int BY <2>1, <2>6, <3>3
          <5> QED BY ONLY <5>1, <5>2, <5>3
        <4>2. PayloadDone(buf) BY <1>1, <2>10, <3>12, <4>1 DEF buf
        <4>3. e = t BY <2>1, <2>6, <3>3, <4>1 DEF e
        <4>4. PayloadOf(rx.msg, buf)
          <5>1. f + size[m] <= t + 1 /\ f + size[m] - 1 = t /\ size[m] \in Nat /\ t = Total(m)
            BY <2>6 DEF f, t, m
          <5> DEFINE s == size[m]
          <5>2. s \in Nat /\ f + s <= t + 1 /\ f + s - 1 = t BY <5>1
          <5> HIDE DEF s
          <5>3. SubSeq(Bytes(m, f, t), 1, s) = Bytes(m, f, f + s - 1)
            BY <2>6, <2>7, <3>6, <5>2, BytesCut
          <5>4. SubSeq(buf, 1, s) = Bytes(m, f, t) BY <3>8, <4>3, <5>2, <5>3
          <5> QED BY <3>2, <5>1, <5>4 DEF PayloadOf, f, s
        <4>5. rx' = Header /\ got' = Append(got, m)
          BY <1>5, <3>2, <4>2, <4>4 DEF PayloadDone
        <4>6. wire' = << >>
          <5> DEFINE i == e + 1
          <5>1. i \in Nat \ {0} /\ i = t + 1 BY <2>6, <3>6, <4>3
          <5> HIDE DEF i
          <5>2. Bytes(m, i, t) = << >> BY <2>6, <2>7, <5>1, BytesNone
          <5> QED BY <3>10, <5>2 DEF i
        <4>7. /\ Len(got') = nsent' /\ \A i \in 1 .. Len(got') : got'[i] = i
          BY <2>1, <2>3, <2>5, <2>6, <2>8, <4>5 DEF m
        <4>8. LastSent' BY <2>5, <2>8, <4>5, <4>6, <4>7 DEF LastSent, Waiting, Header, Part
        <4>9. Exact!ChReceive
          <5>1. Len(got) + 1 \in 1 .. Len(put) /\ Len(got) < Len(put) /\ Len(got) + 1 = m
            BY <2>1, <2>3, <2>5 DEF m
          <5>2. put[Len(got) + 1] = m BY <2>3, <5>1
          <5> QED BY <2>8, <4>5, <5>1, <5>2 DEF Exact!ChReceive
        <4> QED BY <2>3, <2>8, <4>7, <4>8, <4>9 DEF CalmInv
      <3> QED BY <3>11, <3>12
    <2> QED BY <1>1, <2>9, <2>10 DEF StreamInv, TypeOK
  <1> QED BY <1>3, <1>4, <1>5

\* Every step keeps the last message where it should be, and is a step of the
\* channel or none.
LEMMA CalmStep ==
    StreamInv /\ CalmInv /\ [Next]_vars =>
        CalmInv' /\ [Exact!ChSend \/ Exact!ChReceive]_(Exact!chvars)
  <1> SUFFICES ASSUME StreamInv, CalmInv, [Next]_vars
               PROVE  CalmInv' /\ [Exact!ChSend \/ Exact!ChReceive]_(Exact!chvars)
    OBVIOUS
  <1>1. CASE ConnSend
    <2>1. nsent + 1 \in Message BY <1>1 DEF ConnSend, StreamInv, TypeOK, Message
    <2>2. (put' = put \/ put' = Append(put, nsent + 1)) /\ UNCHANGED got
      BY <1>1 DEF ConnSend
    <2> QED BY <1>1, <2>1, <2>2, CalmSend DEF Exact!ChSend, Exact!chvars
  <1>2. CASE Sendmsg BY <1>2, CalmSendmsg DEF Sendmsg, Exact!chvars
  <1>3. CASE Close BY <1>3, CalmClose DEF Close, Exact!chvars
  <1>4. CASE Recvmsg
    <2>1. CalmInv' /\ (got' = got \/ Exact!ChReceive) BY <1>4, CalmRecvmsg
    <2>2. put' = put BY <1>4 DEF Recvmsg
    <2> QED BY <2>1, <2>2 DEF Exact!chvars
  <1>5. CASE RecvEof BY <1>5, CalmEof DEF RecvEof, Exact!chvars
  <1>6. CASE UNCHANGED vars
    <2>1. UNCHANGED <<put, got>> BY <1>6 DEF vars
    <2>2. CalmInv'
      BY <1>6 DEF vars, CalmInv, LastSent, Waiting, Header, Broken, Part, Bytes, Total
    <2> QED BY <2>1, <2>2 DEF Exact!chvars
  <1> QED BY <1>1, <1>2, <1>3, <1>4, <1>5, <1>6 DEF Next

\* As long as one message is on the stream at a time, headers arrive in one
\* piece and no signal cuts a send short, conn_send and conn_recv are a
\* channel of whole messages, however the payloads are cut.
THEOREM StreamImplements == Spec => ImplementsChannel
  <1>1. Init => Exact!ChInit BY DEF Init, Exact!ChInit
  <1> QED BY StreamInit, StreamStep, CalmInit, CalmStep, <1>1, PTL
          DEF Spec, ImplementsChannel, Exact!ChSpec
=============================================================================
