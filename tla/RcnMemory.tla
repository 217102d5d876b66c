------------------------------ MODULE RcnMemory ------------------------------
(***************************************************************************)
(* The memory behind the streams of a daemon: the objects of rcn_stream.c  *)
(* and rcn_epoll.c with their arrays, pointers and buffers.                *)
(*                                                                         *)
(* A stream has a write queue, which is an array, a fallback item and the  *)
(* pointer `next` to one of them: to the fallback, or into the memory      *)
(* block of the queue, which moves when the queue grows.  An item owns the *)
(* buffer of its message.  A device item has an input event where a socket *)
(* item has its buffer (they share a union): what is no NULL there is      *)
(* freed by stream_close, event or not.                                    *)
(*                                                                         *)
(* Actions are calls of those functions, in the orders in which the event  *)
(* loop and its handlers make them.  RcnStream has what is written and     *)
(* read, RcnDaemon who does it; here is only where it lies.                *)
(***************************************************************************)
EXTENDS RcnUtil, FiniteSets

CONSTANTS
    Sockets,     \* relay and peer streams
    Captured,    \* evdev streams
    Virtual,     \* uinput streams
    Buffers,     \* what calloc may return for a message
    Events,      \* input events that are not all zero
    Blocks,      \* what realloc may return for an array
    NewBlock,    \* what calloc returns for one
    Capacity,    \* RCN_STD_CAPACITY
    MaxQueued,   \* bound on the length of a queue
    Null         \* NULL; as an event, the SYN_REPORT, which is all zero

Streams == Sockets \cup Captured \cup Virtual

ASSUME StreamsAssumption  == Sockets \cap (Captured \cup Virtual) = {}
ASSUME CapacityAssumption == Capacity \in Nat \ {0} /\ MaxQueued \in Nat
ASSUME NullAssumption     == Null \notin Buffers \cup Events
ASSUME BlocksAssumption   == NewBlock \in Blocks

VARIABLES
    registry,   \* ep_ctx->stream_ptrs
    queue,      \* by stream, stream->queue.data_array
    empty,      \* streams with queue.is_empty set
    next,       \* stream->next: Fallback, or the block and cell it points to
    fallback,   \* stream->fallback
    handled,    \* the stream whose handler runs, Startup or Nobody
    heap,       \* buffers that are allocated
    lost,       \* of those, the ones that nothing points to any more
    owed        \* by stream, the messages queued and not written, oldest first

vars == <<registry, queue, empty, next, fallback, handled, heap, lost, owed>>

Fallback == [block |-> Null, cell |-> 0]
Startup  == "startup"   \* d_init, which queues what it announces
Nobody   == "nobody"

Opened    == DOMAIN queue
Front(q)  == [block |-> q.block, cell |-> 1]   \* u_queue_peek

Init ==
    /\ registry = NewArray(Capacity, NewBlock)
    /\ queue = <<>> /\ empty = {} /\ next = <<>> /\ fallback = <<>>
    /\ handled = Startup
    /\ heap = {} /\ lost = {} /\ owed = <<>>

-----------------------------------------------------------------------------
Put(f, s, v)  == [x \in DOMAIN f \cup {s} |-> IF x = s THEN v ELSE f[x]]
Without(f, s) == [x \in DOMAIN f \ {s} |-> f[x]]

\* stream_init and its registration
Open(s) ==
    /\ s \in Streams \ Opened
    /\ \/ s \in Sockets /\ handled \in {Startup, Nobody}   \* accept, or connect
       \/ s \in Captured /\ handled = Startup
       \/ s \in Virtual /\ handled \in Sockets             \* handler_dev_crt
    /\ queue' = Put(queue, s, NewArray(Capacity, NewBlock))
    /\ registry' = Added(registry, s, registry.block)   \* nothing points into it
    /\ empty' = empty \cup {s}
    /\ next' = Put(next, s, Fallback)
    /\ fallback' = Put(fallback, s, Null)
    /\ owed' = Put(owed, s, <<>>)
    /\ UNCHANGED <<handled, heap, lost>>

\* the daemon is started: the event loop begins
Loop ==
    /\ handled = Startup /\ handled' = Nobody
    /\ UNCHANGED <<registry, queue, empty, next, fallback, heap, lost, owed>>

\* fault: next is only set on the first message
PointsOnce(s, q) == IF s \in empty THEN Front(q) ELSE next[s]

\* u_queue_peek after u_queue_push
Peeked(s, q) == Front(q)

\* stream_queue_writing, by a handler or at the start
QueueItem(s, x) ==
    /\ \E b \in Blocks :
          LET q == Added(queue[s], x, b)
          IN  /\ queue' = [queue EXCEPT ![s] = q]
              /\ next' = [next EXCEPT ![s] = Peeked(s, q)]
    /\ empty' = empty \ {s}
    /\ owed' = [owed EXCEPT ![s] = Append(@, x)]
    /\ UNCHANGED <<registry, fallback, handled, lost>>

MayQueue(s) ==
    handled \in {Startup} \cup Sockets \cup Captured /\ s \in Opened /\ Len(queue[s].cells) < MaxQueued

QueueSocket(s) ==
    /\ MayQueue(s) /\ s \in Sockets
    /\ \E x \in Buffers \ heap : QueueItem(s, x) /\ heap' = heap \cup {x}

QueueDevice(s) ==
    /\ MayQueue(s) /\ s \in Virtual /\ handled \in Sockets
    /\ \E x \in Events \cup {Null} : QueueItem(s, x)
    /\ UNCHANGED heap

-----------------------------------------------------------------------------
(* stream_stream, on the item next points to, and stream_collect of what    *)
(* is complete, before its handler and e_epoll_reset_stream after it        *)

\* the body of a message begins: a buffer for it
ReadBody(s) ==
    /\ handled = Nobody /\ s \in Opened \cap Sockets
    /\ next[s] = Fallback /\ fallback[s] = Null
    /\ \E x \in Buffers \ heap : /\ fallback' = [fallback EXCEPT ![s] = x]
                                 /\ heap' = heap \cup {x}
    /\ UNCHANGED <<registry, queue, empty, next, handled, lost, owed>>

\* fault: the buffer that was written is not freed
NeverFreed(s, x) == {}

\* stream_set_default frees the buffer of a socket stream's fallback
FreedByReset(s, x) == IF s \in Sockets THEN {x} ELSE {}

\* stream_collect: next after the pop
AfterPop(s, q) == IF q.cells = <<>> THEN Fallback ELSE Front(q)

\* the first item was written: it is popped into the fallback, over what lies
\* there, and the stream is reset
CollectWritten(s) ==
    /\ handled = Nobody /\ s \in Opened \ empty
    /\ LET x == queue[s].cells[1]
           q == RemovedAt(queue[s], 1)
       IN  /\ queue' = [queue EXCEPT ![s] = q]
           /\ empty' = IF q.cells = <<>> THEN empty \cup {s} ELSE empty
           /\ next' = [next EXCEPT ![s] = AfterPop(s, q)]
           /\ fallback' = [fallback EXCEPT ![s] = IF s \in Sockets THEN Null ELSE x]
           /\ heap' = heap \ FreedByReset(s, x)
           /\ lost' = IF s \in Sockets THEN lost \cup ({fallback[s]} \ {Null}) ELSE lost
    /\ owed' = [owed EXCEPT ![s] = Tail(@)]
    /\ UNCHANGED <<registry, handled>>

\* the fallback itself is complete: a message or an event was read, or a uinput
\* stream has written its last event once more.  Its handler runs.
CollectRead(s) ==
    /\ handled = Nobody /\ s \in Opened \cap empty /\ next[s] = Fallback
    /\ \E x \in IF s \in Captured THEN Events \cup {Null} ELSE {fallback[s]} :
          fallback' = [fallback EXCEPT ![s] = x]
    /\ handled' = s
    /\ UNCHANGED <<registry, queue, empty, next, heap, lost, owed>>

\* the handler returns
Reset ==
    /\ handled \in Opened
    /\ fallback' = [fallback EXCEPT ![handled] = IF handled \in Sockets THEN Null ELSE @]
    /\ heap' = heap \ FreedByReset(handled, fallback[handled])
    /\ handled' = Nobody
    /\ UNCHANGED <<registry, queue, empty, next, lost, owed>>

-----------------------------------------------------------------------------
(* e_epoll_close_remove_simple: at the end of the file, or by the handler  *)
(* of another stream                                                       *)

Pointers(s) == ({queue[s].cells[i] : i \in DOMAIN queue[s].cells}
                   \cup {fallback[s]}) \ {Null}

\* with an event among the pointers, free() ends the daemon instead
Close(s) ==
    /\ s \in Opened /\ Pointers(s) \cap Events = {}
    /\ \/ handled = Nobody /\ s \notin Virtual
       \/ handled \in Sockets /\ s \in Virtual              \* handler_stop
    /\ \E i \in DOMAIN registry.cells : /\ IsIndexOf(registry, s, i)
                                     /\ registry' = RemovedAt(registry, i)
    /\ heap' = heap \ Pointers(s)
    /\ queue' = Without(queue, s) /\ next' = Without(next, s)
    /\ fallback' = Without(fallback, s) /\ owed' = Without(owed, s)
    /\ empty' = empty \ {s}
    /\ UNCHANGED <<handled, lost>>

-----------------------------------------------------------------------------
Next ==
    \/ Loop \/ Reset
    \/ \E s \in Streams :
          \/ Open(s) \/ Close(s) \/ QueueSocket(s) \/ QueueDevice(s)
          \/ ReadBody(s) \/ CollectWritten(s) \/ CollectRead(s)

Spec == Init /\ [][Next]_vars

-----------------------------------------------------------------------------
(* Properties *)

\* what the items of a stream hold
Messages(s) == IF s \in Sockets THEN Buffers ELSE Events \cup {Null}
Values      == Buffers \cup Events \cup {Null}

\* arrays over S that keep to their memory
Arrays(S) ==
    {a \in [cells : Seq(S), capacity : Nat \ {0}, block : Blocks] : Len(a.cells) <= a.capacity}

TypeOK ==
    /\ registry \in Arrays(Streams)
    /\ Opened \subseteq Streams /\ empty \subseteq Opened
    /\ queue \in [Opened -> Arrays(Values)]
    /\ \A s \in Opened : /\ queue[s] \in Arrays(Messages(s))
                         /\ fallback[s] \in Messages(s) \cup {Null}
    /\ next \in [Opened -> [block : Blocks \cup {Null}, cell : {0, 1}]]
    /\ fallback \in [Opened -> Values]
    /\ owed \in [Opened -> Seq(Values)]
    /\ handled \in Streams \cup {Startup, Nobody}
    /\ heap \subseteq Buffers /\ lost \subseteq Buffers

\* next points to the first item of the queue, in the block where the queue lies
\* now, or, if nothing is queued, to the fallback: never into a block that
\* realloc has freed, never to an item that is not the next to go.
NextCurrent ==
    \A s \in Opened : /\ s \in empty <=> queue[s].cells = <<>>
                      /\ next[s] = IF s \in empty THEN Fallback ELSE Front(queue[s])

\* Through growth, moves and removals a queue holds what was queued and not yet
\* written, in that order.
QueueIsFifo ==
    \A s \in Opened : queue[s].cells = owed[s]

\* The registry lists the streams that are open, each once: what the event loop
\* sizes its batch by and what the end closes.
RegistryExact ==
    /\ \A s \in Opened : \E i \in DOMAIN registry.cells : registry.cells[i] = s
    /\ \A i \in DOMAIN registry.cells : registry.cells[i] \in Opened
    /\ \A i, j \in DOMAIN registry.cells : registry.cells[i] = registry.cells[j] => i = j

\* what the items of a stream hold: the cells in use, and the fallback as cell 0
Items(s)   == 0..Len(queue[s].cells)
Item(s, i) == IF i = 0 THEN fallback[s] ELSE queue[s].cells[i]

\* Every buffer that is allocated belongs to one item of a socket stream, which
\* alone will free it, unless it was lost: a written item was collected over it.
BuffersOwned ==
    LET Owners == Sockets \cap Opened
    IN  /\ \A s, t \in Owners : \A i \in Items(s), j \in Items(t) :
              Item(s, i) = Item(t, j) /\ Item(s, i) # Null => s = t /\ i = j
        /\ \A s \in Owners : \A i \in Items(s) : Item(s, i) \in (heap \ lost) \cup {Null}
        /\ \A b \in heap \ lost : \E s \in Owners : \E i \in Items(s) : Item(s, i) = b
        /\ lost \subseteq heap
=============================================================================
