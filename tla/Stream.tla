------------------------------- MODULE Stream -------------------------------
(***************************************************************************)
(* One direction of the TCP connection: conn_send and conn_recv, which put *)
(* messages of a header and a payload on a stream of bytes and take them   *)
(* off it, through sendall and recvall, which repeat sendmsg and recvmsg   *)
(* until everything has been moved.                                        *)
(*                                                                         *)
(* After a call that moved less than it was asked to, both loops set       *)
(* iov_len to the bytes moved so far, where the bytes still missing are    *)
(* meant.  The next call may move too much: recvall then takes bytes of    *)
(* what follows and writes behind its buffer, sendall sends bytes from     *)
(* behind its own.                                                         *)
(***************************************************************************)
EXTENDS Integers, Sequences

CONSTANTS
    Messages,   \* bound: how many messages are sent
    HeaderSize, \* sizeof(struct netdev_header), in bytes of the model
    MaxSize     \* bound on the size of a payload

ASSUME SizeAssumption ==
    Messages \in Nat /\ HeaderSize \in Nat \ {0} /\ MaxSize \in Nat \ {0}

Message == 1 .. Messages

\* A byte is known by its message and its place in it.
Byte == Message \X (1 .. HeaderSize + MaxSize)
Garbage == <<0, 0>>

VARIABLES
    size,       \* ndhead->size of every message
    tx,         \* sendall: bytes moved and iov_len, or idle
    wire,       \* bytes sent and not received
    rx,         \* recvall: which part is read, its size, iov_len, bytes read
    nsent,      \* messages handed to conn_send
    open,       \* the sender has not closed the connection
    last,       \* auxiliary: the last recvall that returned
    calm,       \* auxiliary: no send was cut short, no header was split, and
                \* no message sent before the one before it was received
    put, got    \* auxiliary: messages sent and received while calm

vars == <<size, tx, wire, rx, nsent, open, last, calm, put, got>>

Idle == [on |-> FALSE, bytes |-> 0, len |-> 0]

\* What recvall starts with: the whole part is asked for.
Part(what, m, n) == [part |-> what, msg |-> m, want |-> n, len |-> n, buf |-> << >>]
Header == Part("header", 0, HeaderSize)
Broken == Part("broken", 0, 0)

TypeOK ==
    /\ size \in [Message -> 1 .. MaxSize]
    /\ tx \in [on : BOOLEAN, bytes : Nat, len : Nat]
    /\ wire \in Seq(Byte \cup {Garbage})
    /\ rx \in [part : {"header", "payload", "broken"}, msg : {0} \cup Message,
               want : Nat, len : Nat, buf : Seq(Byte \cup {Garbage})]
    /\ rx.part # "broken" => Len(rx.buf) < rx.want
    /\ nsent \in 0 .. Messages
    /\ open \in BOOLEAN
    /\ last \in [want : Nat, bytes : Nat]
    /\ calm \in BOOLEAN
    /\ put \in Seq(Message) /\ got \in Seq({0} \cup Message)

Init ==
    /\ size \in [Message -> 1 .. MaxSize]
    /\ tx = Idle
    /\ wire = << >>
    /\ rx = Header
    /\ nsent = 0
    /\ open = TRUE
    /\ last = [want |-> 0, bytes |-> 0]
    /\ calm = TRUE
    /\ put = << >> /\ got = << >>

-----------------------------------------------------------------------------
(* conn_send and sendall *)

Total(m) == HeaderSize + size[m]

\* The bytes from i to j of the buffer that holds message m, or behind it.
Bytes(m, i, j) ==
    [k \in 1 .. j - i + 1 |-> IF i + k - 1 <= Total(m) THEN <<m, i + k - 1>> ELSE Garbage]

NextLenSame(bytes, want) == want        \* mutant: iov_len is left as it is

\* iov_len after bytes were moved, in both loops
NextLen(bytes, want) == bytes

ConnSend ==
    LET whole == Len(got) = nsent IN
    /\ ~tx.on /\ open /\ nsent < Messages
    /\ nsent' = nsent + 1
    /\ tx' = [on |-> TRUE, bytes |-> 0, len |-> Total(nsent + 1)]
    /\ calm' = (calm /\ whole)
    /\ put' = IF calm /\ whole THEN Append(put, nsent + 1) ELSE put
    /\ UNCHANGED <<size, wire, rx, open, last, got>>

\* sendmsg moves all it was asked to, or less when a signal interrupts it
Sendmsg ==
    \E n \in 1 .. tx.len :
        LET bytes == tx.bytes + n IN
        /\ tx.on
        /\ wire' = wire \o Bytes(nsent, tx.bytes + 1, bytes)
        /\ tx' = IF bytes < Total(nsent)
                 THEN [tx EXCEPT !.bytes = bytes, !.len = NextLen(bytes, Total(nsent))]
                 ELSE Idle
        /\ calm' = (calm /\ n = Total(nsent))
        /\ UNCHANGED <<size, rx, nsent, open, last, put, got>>

\* the sender ends, between messages or within one
Close ==
    /\ open
    /\ open' = FALSE
    /\ tx' = Idle
    /\ UNCHANGED <<size, wire, rx, nsent, last, calm, put, got>>

-----------------------------------------------------------------------------
(* conn_recv and recvall *)

\* The messages that the first bytes of the buffer are the header of.
HeaderOf(buf) == {m \in Message : SubSeq(buf, 1, HeaderSize) = Bytes(m, 1, HeaderSize)}
PayloadOf(m, buf) == SubSeq(buf, 1, size[m]) = Bytes(m, HeaderSize + 1, Total(m))

\* A header that is none has some size or other: nothing is said from then on.
HeaderDone(buf) ==
    /\ IF HeaderOf(buf) = {} THEN rx' = Broken
       ELSE \E m \in HeaderOf(buf) : rx' = Part("payload", m, size[m])
    /\ UNCHANGED got

PayloadDone(buf) ==
    /\ rx' = Header
    /\ got' = IF calm THEN Append(got, IF PayloadOf(rx.msg, buf) THEN rx.msg ELSE 0)
              ELSE got

DoneMore(buf) == Len(buf) > rx.want     \* mutant: bytes <= size

\* bytes < size ends the loop
Done(buf) == Len(buf) >= rx.want

\* mutant: iov_base is not moved on
PlaceFirst(buf, piece) ==
    [k \in 1 .. Len(buf) + Len(piece) |->
        IF k <= Len(piece) THEN piece[k] ELSE IF k <= Len(buf) THEN buf[k] ELSE Garbage]

\* iov_base is moved on by what was read
Place(buf, piece) == buf \o piece

\* recvmsg moves any part of what has arrived, up to iov_len.  Bytes that go
\* behind the buffer may break the program.
Recvmsg ==
    \E n \in 1 .. rx.len :
        LET buf == Place(rx.buf, SubSeq(wire, 1, n)) IN
        /\ rx.part # "broken" /\ n <= Len(wire)
        /\ wire' = SubSeq(wire, n + 1, Len(wire))
        /\ calm' = (calm /\ (rx.part = "header" => n = HeaderSize))
        /\ IF ~Done(buf)
           THEN /\ rx' = [rx EXCEPT !.buf = buf, !.len = NextLen(Len(buf), rx.want)]
                /\ UNCHANGED <<last, got>>
           ELSE /\ last' = [want |-> rx.want, bytes |-> Len(buf)]
                /\ \/ IF rx.part = "header" THEN HeaderDone(buf) ELSE PayloadDone(buf)
                   \/ Len(buf) > rx.want /\ rx' = Broken /\ UNCHANGED got
        /\ UNCHANGED <<size, tx, nsent, open, put>>

\* recvmsg returns 0 at the end of the stream: conn_recv returns NULL
RecvEof ==
    /\ rx.part # "broken" /\ wire = << >> /\ ~open
    /\ rx' = Broken
    /\ UNCHANGED <<size, tx, wire, nsent, open, last, calm, put, got>>

-----------------------------------------------------------------------------
Next == ConnSend \/ Sendmsg \/ Close \/ Recvmsg \/ RecvEof

Spec == Init /\ [][Next]_vars

\* A loop that can go on does; nobody has to send or to close.
FairSpec == Spec /\ WF_vars(Sendmsg) /\ WF_vars(Recvmsg)

-----------------------------------------------------------------------------
(* Properties *)

\* recvall never returns with fewer bytes than asked for, and with less than
\* twice as many: what goes behind a buffer of n bytes is n - 2 at most.
OverreadBound ==
    last.want <= last.bytes /\ (last.bytes <= last.want \/ last.bytes <= 2 * (last.want - 1))

\* Payloads may come in any number of pieces: as long as one message is on
\* the stream at a time, headers arrive in one piece and no signal cuts a
\* send short, the stream is a channel of whole messages.
Exact == INSTANCE Channel WITH sent <- put, received <- got, Message <- Message
ImplementsChannel == Exact!ChSpec

\* Under the same conditions a message that was sent is received, unless the
\* connection is closed.
MessagesArrive == \A m \in Message : nsent = m ~> Len(got) >= m \/ ~calm \/ ~open
=============================================================================
