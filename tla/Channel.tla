------------------------------ MODULE Channel -------------------------------
(***************************************************************************)
(* What conn_send and conn_recv promise together, and what Proxy and       *)
(* Handshake take for granted: a channel of whole messages, each received  *)
(* once, in the order in which they were sent, with its own contents.      *)
(***************************************************************************)
EXTENDS Naturals, Sequences

CONSTANT Message

VARIABLES
    sent,       \* the messages that were sent
    received    \* the messages that were received

chvars == <<sent, received>>

ChInit == sent = << >> /\ received = << >>

ChSend ==
    /\ \E m \in Message : sent' = Append(sent, m)
    /\ UNCHANGED received

ChReceive ==
    /\ Len(received) < Len(sent)
    /\ received' = Append(received, sent[Len(received) + 1])
    /\ UNCHANGED sent

ChSpec == ChInit /\ [][ChSend \/ ChReceive]_chvars
=============================================================================
