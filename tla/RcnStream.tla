------------------------------ MODULE RcnStream ------------------------------
(***************************************************************************)
(* One epoll_stream of rcn over a connected stream socket (fd types        *)
(* FD_PEER and FD_RELAY), down to the single byte: rcn_stream.c together   *)
(* with the two calls of the event loop that drive it, dispatch_epoll      *)
(* (stream_stream, one read or write per wake-up) and resolve_fd_streams   *)
(* (collect, handle, reset).  Between the two any handler of the daemon    *)
(* may queue a message on this stream.                                     *)
(*                                                                         *)
(* A byte is a pair of the message it belongs to (its index in the order   *)
(* of sending) and its position in that message, so that a byte that is    *)
(* read or written out of place is told from one in place.                 *)
(***************************************************************************)
EXTENDS Naturals, Sequences

CONSTANTS Msgs,        \* messages that travel over the stream, either way
          HeaderLen,   \* sizeof(struct stream_header)
          BodyLen,     \* header.size of each message, 0 for a bare header
          MaxSent,     \* bound on the messages queued for writing
          MaxOffered   \* bound on the messages the other end sends

ASSUME HeaderLenAssumption == HeaderLen \in Nat \ {0}
ASSUME BodyLenAssumption   == BodyLen \in [Msgs -> Nat]
ASSUME BoundAssumption     == MaxSent \in Nat /\ MaxOffered \in Nat

VARIABLES
    queue,      \* stream->queue: items waiting to be written
    fallback,   \* stream->fallback: the item used while the queue is empty
    next,       \* stream->next: "queue" for queue[0], else "fallback"
    interest,   \* the event mask registered with epoll
    phase,      \* where the event loop is with this stream
    sent,       \* messages given to stream_queue_writing_socket so far
    wire,       \* bytes written to the socket so far
    offered,    \* messages the other end has sent so far
    inbox,      \* bytes that have arrived and are not read yet
    peerOpen,   \* the other end has not closed
    handled,    \* messages passed to p_handler or r_handler, in order
    overlap     \* a write was queued while a read was under way

outVars == <<queue, sent, wire>>
inVars  == <<offered, inbox, peerOpen, handled>>
vars    == <<queue, fallback, next, interest, phase, sent, wire, offered,
             inbox, peerOpen, handled, overlap>>

-----------------------------------------------------------------------------
(* Stream items (struct stream_item). *)

States == {"HEADER", "BODY", "COMPLETE", "CLOSED"}
Items  == [op : {"READING", "WRITING"}, state : States, streamed : Nat, id : Nat]

FreshItem(op, id) == [op |-> op, state |-> "HEADER", streamed |-> 0, id |-> id]

\* stream_set_default: the fallback becomes a new read
Cleared(item) == [item EXCEPT !.op = "READING", !.state = "HEADER", !.streamed = 0]

SizeTotal(item, size) == IF item.state = "BODY" THEN size ELSE HeaderLen

\* offset in its message of the next byte of the item
Offset(item) == (IF item.state = "BODY" THEN HeaderLen ELSE 0) + item.streamed

\* faults: a short read or write taken for a complete one; a count of the bytes
\* that remain that starts at zero
ShortIoCompletes(item, k, size) ==
    [item EXCEPT !.streamed = 0,
                 !.state = IF item.state = "BODY" \/ size = 0 THEN "COMPLETE" ELSE "BODY"]
CountsDown(item, k, size) == [item EXCEPT !.streamed = @ - k]

\* the item after k more bytes of it went through the socket
Streamed(item, k, size) ==
    IF item.streamed + k < SizeTotal(item, size)
    THEN [item EXCEPT !.streamed = @ + k]
    ELSE [item EXCEPT !.streamed = 0,
                      !.state = IF item.state = "BODY" \/ size = 0
                                THEN "COMPLETE" ELSE "BODY"]

Bytes == [id : Nat, pos : Nat]
Run(id, from, k) == [j \in 1..k |-> [id |-> id, pos |-> from + j]]
Whole(id, m)     == Run(id, 0, HeaderLen + BodyLen[m])

NextItem == IF next = "queue" THEN queue[1] ELSE fallback

\* e_epoll_sync_stream
Mask(item) == IF item.op = "WRITING" THEN "EPOLLOUT" ELSE "EPOLLIN"

\* a read of the fallback has consumed bytes that its handler has not seen
ReadUnderWay ==
    /\ fallback.op = "READING"
    /\ fallback.state # "HEADER" \/ fallback.streamed > 0

-----------------------------------------------------------------------------
Init ==
    /\ queue = <<>>
    /\ fallback = FreshItem("READING", 0)
    /\ next = "fallback"
    /\ interest = "EPOLLIN"
    /\ phase = "waiting"
    /\ sent = <<>> /\ wire = <<>>
    /\ offered = <<>> /\ inbox = <<>> /\ peerOpen = TRUE /\ handled = <<>>
    /\ overlap = FALSE

Live == phase \in {"waiting", "streamed"}

\* faults: a message queued behind another is dropped; the mask is not synced
DropsSecond(m) ==
    /\ Live /\ Len(sent) < MaxSent
    /\ sent' = Append(sent, m)
    /\ queue' = IF queue = <<>> THEN <<FreshItem("WRITING", Len(sent) + 1)>> ELSE queue
    /\ next' = "queue"
    /\ interest' = "EPOLLOUT"
    /\ overlap' = (overlap \/ ReadUnderWay)
    /\ UNCHANGED <<fallback, phase, wire, inVars>>

ForgetsMask(m) ==
    /\ Live /\ Len(sent) < MaxSent
    /\ sent' = Append(sent, m)
    /\ queue' = Append(queue, FreshItem("WRITING", Len(sent) + 1))
    /\ next' = "queue"
    /\ overlap' = (overlap \/ ReadUnderWay)
    /\ UNCHANGED <<interest, fallback, phase, wire, inVars>>

\* stream_queue_writing_socket, called by any handler of the daemon: before
\* the stream's turn, or between its dispatch and its turn to be resolved.
QueueWriting(m) ==
    /\ Live /\ Len(sent) < MaxSent
    /\ sent' = Append(sent, m)
    /\ queue' = Append(queue, FreshItem("WRITING", Len(sent) + 1))
    /\ next' = "queue"
    /\ interest' = Mask(queue'[1])
    /\ overlap' = (overlap \/ ReadUnderWay)
    /\ UNCHANGED <<fallback, phase, wire, inVars>>

\* dispatch_epoll on EPOLLOUT: write() takes k of the item's bytes
StreamWrite ==
    /\ phase = "waiting" /\ interest = "EPOLLOUT" /\ NextItem.state # "COMPLETE"
    /\ LET item == queue[1]
           size == BodyLen[sent[item.id]]
       IN  \E k \in 1..(SizeTotal(item, size) - item.streamed) :
              /\ wire' = wire \o Run(item.id, Offset(item), k)
              /\ queue' = [queue EXCEPT ![1] = Streamed(item, k, size)]
    /\ phase' = "streamed"
    /\ UNCHANGED <<fallback, next, interest, sent, inVars, overlap>>

\* the bytes that have arrived continue the item the fallback is reading
Aligned ==
    /\ inbox[1].pos = Offset(fallback) + 1
    /\ inbox[1].pos > 1 => inbox[1].id = fallback.id

\* dispatch_epoll on EPOLLIN: read() returns k bytes of what has arrived
StreamRead ==
    /\ phase = "waiting" /\ interest = "EPOLLIN" /\ NextItem.state # "COMPLETE"
    /\ inbox # <<>> /\ Aligned
    /\ LET id   == inbox[1].id
           size == BodyLen[offered[id]]
       IN  \E k \in 1..Len(inbox) :
              /\ k <= SizeTotal(fallback, size) - fallback.streamed
              /\ fallback' = [Streamed(fallback, k, size) EXCEPT !.id = id]
              /\ inbox' = SubSeq(inbox, k + 1, Len(inbox))
    /\ phase' = "streamed"
    /\ UNCHANGED <<outVars, next, interest, offered, peerOpen, handled, overlap>>

\* read() returns bytes that are taken for a header, or a body, they are not:
\* what follows depends on their values and is not modelled
StreamReadGarbled ==
    /\ phase = "waiting" /\ interest = "EPOLLIN" /\ NextItem.state # "COMPLETE"
    /\ inbox # <<>> /\ ~Aligned
    /\ phase' = "garbled"
    /\ UNCHANGED <<outVars, fallback, next, interest, inVars, overlap>>

\* read() returns 0: the other end closed and every byte was read
StreamEof ==
    /\ phase = "waiting" /\ interest = "EPOLLIN" /\ NextItem.state # "COMPLETE"
    /\ ~peerOpen /\ inbox = <<>>
    /\ fallback' = [fallback EXCEPT !.state = "CLOSED"]
    /\ phase' = "streamed"
    /\ UNCHANGED <<outVars, next, interest, inVars, overlap>>

\* read() or write() fails (ECONNRESET, EPIPE), or the CHECK at the head of
\* stream_stream fires: stream_stream returns -1 and the daemon gives up.
StreamFails ==
    /\ phase = "waiting"
    /\ ~peerOpen \/ NextItem.state = "COMPLETE"
    /\ phase' = "failed"
    /\ UNCHANGED <<outVars, fallback, next, interest, inVars, overlap>>

-----------------------------------------------------------------------------
(* resolve_fd_streams *)

\* the stream's item is neither closed nor complete: look again after the
\* next wake-up
ResolveIncomplete ==
    /\ phase = "streamed" /\ NextItem.state \in {"HEADER", "BODY"}
    /\ phase' = "waiting"
    /\ UNCHANGED <<outVars, fallback, next, interest, inVars, overlap>>

\* fault: the end of the connection is taken for a message to be continued
IgnoresClose ==
    /\ phase = "streamed" /\ NextItem.state = "CLOSED"
    /\ phase' = "waiting"
    /\ UNCHANGED <<outVars, fallback, next, interest, inVars, overlap>>

\* e_epoll_close_remove
ResolveClosed ==
    /\ phase = "streamed" /\ NextItem.state = "CLOSED"
    /\ phase' = "closed"
    /\ UNCHANGED <<outVars, fallback, next, interest, inVars, overlap>>

\* faults: the mask stays as it was; the fallback is handled with the write
StaysArmed ==
    /\ phase = "streamed" /\ next = "queue" /\ queue[1].state = "COMPLETE"
    /\ fallback' = Cleared(queue[1])
    /\ queue' = Tail(queue)
    /\ next' = IF queue' = <<>> THEN "fallback" ELSE "queue"
    /\ phase' = "waiting"
    /\ UNCHANGED <<interest, sent, wire, inVars, overlap>>

HandlesFallback ==
    /\ phase = "streamed" /\ next = "queue" /\ queue[1].state = "COMPLETE"
    /\ handled' = Append(handled, fallback.id)
    /\ queue' = Tail(queue)
    /\ next' = IF queue' = <<>> THEN "fallback" ELSE "queue"
    /\ interest' = IF queue' = <<>> THEN "EPOLLIN" ELSE "EPOLLOUT"
    /\ phase' = "waiting"
    /\ UNCHANGED <<fallback, sent, wire, offered, inbox, peerOpen, overlap>>

\* stream_collect pops the written item into the fallback, whatever is there,
\* and e_epoll_reset_stream turns it into a new read
ResolveWritten ==
    /\ phase = "streamed" /\ next = "queue" /\ queue[1].state = "COMPLETE"
    /\ fallback' = Cleared(queue[1])
    /\ queue' = Tail(queue)
    /\ next' = IF queue' = <<>> THEN "fallback" ELSE "queue"
    /\ interest' = IF queue' = <<>> THEN Mask(fallback') ELSE Mask(queue'[1])
    /\ phase' = "waiting"
    /\ UNCHANGED <<sent, wire, inVars, overlap>>

\* fault: the item is not reset after its handler
ForgetsReset ==
    /\ phase = "streamed" /\ next = "fallback" /\ fallback.state = "COMPLETE"
    /\ handled' = Append(handled, fallback.id)
    /\ phase' = "waiting"
    /\ UNCHANGED <<outVars, fallback, interest, next, offered, inbox, peerOpen, overlap>>

\* the message read into the fallback is handled, then the fallback is reset;
\* an answer the handler queues here is the QueueWriting that follows
ResolveRead ==
    /\ phase = "streamed" /\ next = "fallback" /\ fallback.state = "COMPLETE"
    /\ handled' = Append(handled, fallback.id)
    /\ fallback' = Cleared(fallback)
    /\ interest' = Mask(fallback')
    /\ phase' = "waiting"
    /\ UNCHANGED <<outVars, next, offered, inbox, peerOpen, overlap>>

Resolve == ResolveIncomplete \/ ResolveClosed \/ ResolveWritten \/ ResolveRead

-----------------------------------------------------------------------------
(* The other end: it sends whole messages, and may close. *)

PeerSends(m) ==
    /\ peerOpen /\ Len(offered) < MaxOffered
    /\ offered' = Append(offered, m)
    /\ inbox' = inbox \o Whole(Len(offered) + 1, m)
    /\ UNCHANGED <<outVars, fallback, next, interest, phase, peerOpen, handled, overlap>>

PeerCloses ==
    /\ peerOpen
    /\ peerOpen' = FALSE
    /\ UNCHANGED <<outVars, fallback, next, interest, phase, offered, inbox, handled, overlap>>

-----------------------------------------------------------------------------
Next ==
    \/ \E m \in Msgs : QueueWriting(m) \/ PeerSends(m)
    \/ StreamWrite \/ StreamRead \/ StreamReadGarbled \/ StreamEof \/ StreamFails
    \/ Resolve
    \/ PeerCloses

\* The event loop never stops while the stream is open (WF on its steps); the
\* other end keeps draining the socket, so a pending write gets its turn.
Fairness ==
    /\ WF_vars(StreamWrite)
    /\ WF_vars(StreamRead \/ StreamReadGarbled)
    /\ WF_vars(StreamEof)
    /\ WF_vars(Resolve)

Spec     == Init /\ [][Next]_vars
FairSpec == Spec /\ Fairness

-----------------------------------------------------------------------------
(* Properties *)

TypeOK ==
    /\ queue \in Seq(Items) /\ fallback \in Items
    /\ next \in {"queue", "fallback"} /\ interest \in {"EPOLLIN", "EPOLLOUT"}
    /\ phase \in {"waiting", "streamed", "closed", "failed", "garbled"}
    /\ sent \in Seq(Msgs) /\ wire \in Seq(Bytes)
    /\ offered \in Seq(Msgs) /\ inbox \in Seq(Bytes)
    /\ peerOpen \in BOOLEAN /\ handled \in Seq(Nat) /\ overlap \in BOOLEAN

TotalLen(id) == HeaderLen + BodyLen[sent[id]]

\* b is the byte that must come after a
Follows(a, b) == b = IF a.pos < TotalLen(a.id)
                     THEN [id |-> a.id, pos |-> a.pos + 1]
                     ELSE [id |-> a.id + 1, pos |-> 1]

\* What is on the wire is the messages in the order in which they were queued,
\* header then body, no byte missing, repeated or interleaved with another
\* message, however the kernel cuts the writes and whatever is queued meanwhile.
WriteFraming ==
    \A i \in 1..Len(wire) :
        /\ wire[i].id \in 1..Len(sent)
        /\ IF i = 1 THEN wire[i] = [id |-> 1, pos |-> 1]
                    ELSE Follows(wire[i - 1], wire[i])

\* The stream waits for EPOLLOUT exactly when something is queued: a message
\* queued at any moment is not forgotten, and an idle stream does not spin.
ArmedForQueue ==
    /\ next = "queue" <=> queue # <<>>
    /\ interest = "EPOLLOUT" <=> queue # <<>>

\* The assertion at the head of stream_stream: no item is streamed again once
\* it is complete, although handlers move `next` between dispatch and resolve.
NeverRestreamed == phase = "waiting" => NextItem.state # "COMPLETE"

\* Messages are handled in the order of sending, none of them twice.
HandledInOrder ==
    \A i, j \in 1..Len(handled) : i < j => handled[i] < handled[j]

\* As long as nothing is queued while a read is under way, every message is
\* handled and none is misread.  (Without that condition reads are lost: the
\* collected write overwrites the read in the fallback.)
ReadsExactUnlessOverlapped ==
    ~overlap => /\ phase # "garbled"
                /\ \A i \in 1..Len(handled) : handled[i] = i

\* messages whose last byte is on the wire
WrittenCount ==
    IF wire = <<>> THEN 0
    ELSE LET b == wire[Len(wire)]
         IN  IF b.pos = TotalLen(b.id) THEN b.id ELSE b.id - 1

\* The stream implements an exactly-once, in-order queue of messages.
Queue == INSTANCE MessageQueue WITH received <- SubSeq(sent, 1, WrittenCount)
ImplementsQueue == Queue!Spec

\* Every queued message gets written while the stream stays open: no wake-up
\* is lost between the calls that queue and the calls that resolve.
QueuedIsWritten ==
    \A n \in 1..MaxSent : Len(sent) >= n ~> (WrittenCount >= n \/ ~Live)

\* Whatever arrives is read off the socket in the end, and the end of the
\* connection is noticed, once the daemon stops writing to this stream.
ArrivedIsRead == <>[](inbox = <<>> \/ ~Live) /\ (~peerOpen ~> ~Live)
=============================================================================
