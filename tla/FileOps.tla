------------------------------- MODULE FileOps ------------------------------
(***************************************************************************)
(* What becomes of one file operation's data: ndfo_send_* packs arguments  *)
(* into a fo_req, fo_serialize lays it out as a message, fo_deserialize    *)
(* takes it apart on the serving machine, ndfo_recv_* operates the device, *)
(* and the result comes back the same way into the caller's own structures *)
(* through fo_deserialize_toreq.                                           *)
(*                                                                         *)
(* One file, one call at a time; others may write to the device meanwhile. *)
(* How messages travel is the subject of FoComm and Proxy.  A field of a   *)
(* message is one element of a sequence, a byte of data is another.        *)
(***************************************************************************)
EXTENDS Integers, Sequences

CONSTANTS
    Byte,       \* values of a byte
    DevSize,    \* bytes of the served device
    Limit,      \* NETDEV_MESSAGE_LIMIT
    MaxCalls    \* bound: how many calls are made

ASSUME SizeAssumption == DevSize \in Nat /\ Limit \in Nat /\ MaxCalls \in Nat
ASSUME ByteAssumption == 0 \in Byte /\ Byte \subseteq Int

EIO == -5
EINVAL == -22
ENXIO == -6                 \* any error of the device's own

Type == {"llseek", "read", "write", "ioctl", "compat_ioctl"}

VARIABLES
    ops,        \* the operations that the served device implements
    dev,        \* its contents
    pc,         \* where the call is
    call,       \* its type, its size or argument, its bytes
    req,        \* the caller's fo_req
    message,    \* the payload of the netlink message, in either direction
    pos,        \* the position of the caller's file
    ubuf,       \* what a read has put into the caller's buffer
    ret,        \* what the call returned
    did,        \* auxiliary: what the device was made to do for the call
    ncalls      \* auxiliary: number of calls

vars == <<ops, dev, pc, call, req, message, pos, ubuf, ret, did, ncalls>>

Data == UNION {[1 .. n -> Byte] : n \in 0 .. Limit}
NoCall == [type |-> "none", arg |-> 0, bytes |-> << >>]
Nothing == [rv |-> EIO, off |-> 0, bytes |-> << >>, done |-> FALSE]
NoReq == [rvalue |-> -1, args |-> << >>, data |-> << >>]

TypeOK ==
    /\ ops \in SUBSET Type
    /\ dev \in [0 .. DevSize - 1 -> Byte]
    /\ pc \in {"idle", "exec", "reply", "return", "killed"}
    /\ call.type \in Type \cup {"none"} /\ call.arg \in Int /\ call.bytes \in Data
    /\ req.rvalue \in {-1, 0} /\ req.args \in Seq(Int) /\ req.data \in Seq(Byte)
    /\ message \in Seq(Int)
    /\ pos \in 0 .. DevSize
    /\ ubuf \in Data
    /\ ret \in Int
    /\ did.rv \in Int /\ did.done \in BOOLEAN
    /\ ncalls \in 0 .. MaxCalls

Init ==
    /\ ops \in {Type} \cup {Type \ {t} : t \in Type}
    /\ dev = [i \in 0 .. DevSize - 1 |-> 0]
    /\ pc = "idle"
    /\ call = NoCall /\ req = NoReq /\ message = << >>
    /\ pos = 0
    /\ ubuf = << >>
    /\ ret = 0
    /\ did = Nothing
    /\ ncalls = 0

-----------------------------------------------------------------------------
(* The layout of a message.  The access id, which has to be first, is 1.    *)

Zeros(n) == [i \in 1 .. n |-> 0]

fo_serialize(r) == <<1, r.rvalue, Len(r.args), Len(r.data)>> \o r.args \o r.data

SwappedBlocks(m) ==         \* mutant: data is looked for before the arguments
    [rvalue |-> m[2],
     args |-> SubSeq(m, 5 + m[4], 4 + m[4] + m[3]),
     data |-> SubSeq(m, 5, 4 + m[4])]

fo_deserialize(m) ==
    [rvalue |-> m[2],
     args |-> SubSeq(m, 5, 4 + m[3]),
     data |-> SubSeq(m, 5 + m[3], 4 + m[3] + m[4])]

\* Copies into what the caller has: a shorter block leaves the rest as it was.
Over(old, new) == [i \in 1 .. Len(old) |-> IF i <= Len(new) THEN new[i] ELSE old[i]]
fo_deserialize_toreq(r, m) ==
    LET new == fo_deserialize(m) IN
    [rvalue |-> new.rvalue, args |-> Over(r.args, new.args), data |-> Over(r.data, new.data)]

-----------------------------------------------------------------------------
(* ndfo_send_*: the call is made *)

\* The request names data only if the caller sends some: a read lends a
\* buffer of the size it asks for, but sends none of it.
Call(c, args, buffer, sent) ==
    /\ pc = "idle" /\ ncalls < MaxCalls
    /\ ncalls' = ncalls + 1
    /\ call' = c
    /\ did' = Nothing
    /\ req' = [rvalue |-> -1, args |-> args, data |-> buffer]
    /\ message' = fo_serialize([req' EXCEPT !.data = sent])
    /\ pc' = "exec"
    /\ UNCHANGED <<ops, dev, pos, ubuf, ret>>

ndfo_send_read(n) ==
    /\ n < Limit
    /\ Call([type |-> "read", arg |-> n, bytes |-> << >>], <<n, pos, EIO>>, Zeros(n), << >>)

ndfo_send_write(bytes) ==
    LET n == Len(bytes) IN
    /\ n < Limit
    /\ Call([type |-> "write", arg |-> n, bytes |-> bytes], <<n, pos, EIO>>, bytes, bytes)

ndfo_send_llseek(off) ==
    Call([type |-> "llseek", arg |-> off, bytes |-> << >>], <<off, 0, EIO>>, << >>, << >>)

ndfo_send_ioctl(t) ==
    /\ t \in {"ioctl", "compat_ioctl"}
    /\ Call([type |-> t, arg |-> 0, bytes |-> << >>], <<0, 0, EIO>>, << >>, << >>)

\* A buffer that does not fit a message is refused at once.
TooBig(t) ==
    /\ pc = "idle" /\ ncalls < MaxCalls
    /\ ncalls' = ncalls + 1
    /\ call' = [type |-> t, arg |-> Limit, bytes |-> << >>]
    /\ did' = Nothing
    /\ ret' = EINVAL
    /\ UNCHANGED <<ops, dev, pc, req, message, pos, ubuf>>

-----------------------------------------------------------------------------
(* fo_execute: ndfo_recv_*.  The device does as much as it likes of what it *)
(* is asked for, or reports an error; args are <<size, offset, rvalue>>.    *)

Served == fo_deserialize(message)

ReplyUntouched(r) == message        \* mutant: rvalue stays -1

\* the result of an operation that returned 0
Reply(r) == fo_serialize([r EXCEPT !.rvalue = 0])

Executed(rv, off, bytes, r) ==
    /\ did' = [rv |-> rv, off |-> off, bytes |-> bytes, done |-> TRUE]
    /\ message' = Reply(r)
    /\ pc' = "reply"
    /\ UNCHANGED <<ops, call, req, pos, ubuf, ret, ncalls>>

At(op) == pc = "exec" /\ call.type = op /\ op \in ops

ReadBufferMore(n) == Zeros(n + 1)   \* mutant: room for one more byte is sent

\* kzalloc(args->size), all of which is sent back
ReadBuffer(n) == Zeros(n)

ndfo_recv_read ==
    LET n == Served.args[1]
        off == Served.args[2]
    IN  /\ At("read")
        /\ \E rv \in {ENXIO} \cup {k \in 0 .. n : off + k <= DevSize} :
            LET bytes == [i \in 1 .. rv |-> dev[off + i - 1]]
                data == bytes \o SubSeq(ReadBuffer(n), Len(bytes) + 1, Len(ReadBuffer(n)))
                moved == IF rv > 0 THEN off + rv ELSE off
            IN  Executed(rv, off, bytes, [Served EXCEPT !.args = <<n, moved, rv>>, !.data = data])
        /\ UNCHANGED dev

\* The written data is not sent back.
ndfo_recv_write ==
    LET n == Served.args[1]
        off == Served.args[2]
    IN  /\ At("write")
        /\ \E rv \in {ENXIO} \cup {k \in 0 .. n : off + k <= DevSize} :
            LET moved == IF rv > 0 THEN off + rv ELSE off
                bytes == [i \in 1 .. rv |-> Served.data[i]]
            IN  /\ dev' = [i \in 0 .. DevSize - 1 |->
                              IF off <= i /\ i < off + rv THEN bytes[i - off + 1] ELSE dev[i]]
                /\ Executed(rv, off, bytes,
                            [Served EXCEPT !.args = <<n, moved, rv>>, !.data = << >>])

\* The position that moves is the one of the file on the serving machine,
\* which no other operation uses.
ndfo_recv_llseek ==
    LET off == Served.args[1] IN
    /\ At("llseek")
    /\ \E rv \in {ENXIO, off} :
        Executed(rv, off, << >>, [Served EXCEPT !.args = <<off, 0, rv>>])
    /\ UNCHANGED dev

ndfo_recv_compat_ioctl ==
    /\ At("compat_ioctl")
    /\ \E rv \in {ENXIO, 0} : Executed(rv, 0, << >>, [Served EXCEPT !.args = <<0, 0, rv>>])
    /\ UNCHANGED dev

\* The device is operated, and a failure returned whatever it did: the
\* request goes back untouched.
ndfo_recv_unlocked_ioctl ==
    /\ At("ioctl")
    /\ \E rv \in {ENXIO, 0} : did' = [rv |-> rv, off |-> 0, bytes |-> << >>, done |-> TRUE]
    /\ pc' = "reply"
    /\ UNCHANGED <<ops, dev, call, req, message, pos, ubuf, ret, ncalls>>

\* Only llseek looks whether the device has the operation; the others call
\* NULL, which kills the thread, and no result is ever sent.
NotImplemented ==
    /\ pc = "exec" /\ call.type \notin ops
    /\ pc' = IF call.type = "llseek" THEN "reply" ELSE "killed"
    /\ UNCHANGED <<ops, dev, call, req, message, pos, ubuf, ret, did, ncalls>>

\* Somebody else writes to the device.
OtherWrite(i, b) ==
    /\ dev[i] # b
    /\ dev' = [dev EXCEPT ![i] = b]
    /\ UNCHANGED <<ops, pc, call, req, message, pos, ubuf, ret, did, ncalls>>

-----------------------------------------------------------------------------
(* The result reaches the caller: fo_complete, and the end of ndfo_send_*.  *)

fo_complete ==
    /\ pc = "reply"
    /\ req' = fo_deserialize_toreq(req, message)
    /\ pc' = "return"
    /\ UNCHANGED <<ops, dev, call, message, pos, ubuf, ret, did, ncalls>>

Value == req.args[3]        \* args.rvalue

NewPosSize ==               \* mutant: moved by what was asked for
    IF call.type = "read" /\ req.rvalue = 0 THEN pos + call.arg ELSE pos

\* Only a read moves the position: a write sets *offset before it has sent
\* anything, and llseek does not touch the file at all.
NewPos == IF call.type = "read" /\ req.rvalue = 0 THEN req.args[2] ELSE pos

\* rvalue is tested before args.rvalue, except in a write, where it has no
\* sign.  A read hands a negative args.rvalue to copy_to_user as a length,
\* which fails.
Return ==
    /\ pc = "return"
    /\ pc' = "idle"
    /\ ret' = IF call.type # "write" /\ req.rvalue < 0 THEN req.rvalue
              ELSE IF call.type = "read" /\ Value < 0 THEN -1 ELSE Value
    /\ pos' = NewPos
    /\ ubuf' = IF call.type = "read" /\ req.rvalue = 0 /\ Value >= 0
               THEN SubSeq(req.data, 1, Value) ELSE << >>
    /\ req' = NoReq /\ message' = << >>
    /\ UNCHANGED <<ops, dev, call, did, ncalls>>

-----------------------------------------------------------------------------
Next ==
    \/ \E n \in 0 .. Limit : ndfo_send_read(n)
    \/ \E bytes \in Data : ndfo_send_write(bytes)
    \/ \E off \in 0 .. DevSize : ndfo_send_llseek(off)
    \/ \E t \in Type : ndfo_send_ioctl(t)
    \/ \E t \in {"read", "write"} : TooBig(t)
    \/ ndfo_recv_read \/ ndfo_recv_write \/ ndfo_recv_llseek
    \/ ndfo_recv_compat_ioctl \/ ndfo_recv_unlocked_ioctl \/ NotImplemented
    \/ \E i \in 0 .. DevSize - 1, b \in Byte : OtherWrite(i, b)
    \/ fo_complete \/ Return

Spec == Init /\ [][Next]_vars

-----------------------------------------------------------------------------
(* Properties *)

Returned == pc = "idle" /\ call.type # "none"

\* A call that reports success tells the truth: the device was operated with
\* the caller's own arguments, the value is the device's, a write has put the
\* caller's first bytes there, a read has brought the bytes that the device
\* gave and moved the position past them.
SuccessIsTrue ==
    Returned /\ ret >= 0 =>
        /\ did.done /\ ret = did.rv
        /\ call.type = "write" => did.bytes = SubSeq(call.bytes, 1, ret)
        /\ call.type = "read" => ubuf = did.bytes /\ pos = did.off + ret
        /\ call.type = "llseek" => did.off = call.arg

\* A call that reports a failure has not changed or moved anything, except
\* for unlocked_ioctl, which always reports one.
FailureIsTrue ==
    Returned /\ ret < 0 /\ call.type # "ioctl" => ~did.done \/ did.rv < 0

\* The result fits the structures that the caller has lent: what
\* fo_deserialize_toreq copies is not longer than they are.
ResultFits ==
    pc = "reply" => message[3] <= Len(req.args) /\ message[4] <= Len(req.data)

\* Reads continue where the last one ended, whatever writes, seeks and failed
\* calls come between: nothing else moves the position.
OnlyReadsMove ==
    [][pos' # pos => call.type = "read" /\ did.done /\ pos' = did.off + did.rv]_vars
=============================================================================
