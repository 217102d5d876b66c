---------------------------- MODULE MessageQueue ----------------------------
(***************************************************************************)
(* What the sending side of a stream promises to its users: every message  *)
(* handed to stream_queue_writing_socket reaches the other end exactly     *)
(* once, complete, and in the order in which it was handed over.           *)
(***************************************************************************)
EXTENDS Naturals, Sequences

CONSTANT Msgs

VARIABLES sent,     \* messages handed over, in order
          received  \* messages the other end has been given, in order

Init ==
    /\ sent = <<>>
    /\ received = <<>>

\* A user hands over one more message.
Push(m) ==
    /\ sent' = Append(sent, m)
    /\ UNCHANGED received

\* The last byte of the oldest outstanding message is written.
Deliver ==
    /\ Len(received) < Len(sent)
    /\ received' = Append(received, sent[Len(received) + 1])
    /\ UNCHANGED sent

Next == Deliver \/ \E m \in Msgs : Push(m)

Spec == Init /\ [][Next]_<<sent, received>>
=============================================================================
