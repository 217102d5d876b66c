--------------------------- MODULE RcnMemoryProofs ---------------------------
(***************************************************************************)
(* Theorems about RcnMemory, for any streams, messages, capacity and moves *)
(* of memory: first what adding and removing do to an array of rcn_util.c, *)
(* then what the queues and the registry hold and who owns each buffer.    *)
(***************************************************************************)
EXTENDS RcnMemory, SequenceTheorems, TLAPS

\* An added element comes last, and the array keeps to its memory.
LEMMA AddedLemma ==
    ASSUME NEW S, NEW a \in Arrays(S), NEW x \in S, NEW b \in Blocks
    PROVE  /\ Added(a, x, b) \in Arrays(S)
           /\ Added(a, x, b).cells = Append(a.cells, x)
<1> DEFINE g == IF Full(a) THEN Resized(a, a.capacity, b) ELSE a
<1>1. /\ a.cells \in Seq(S) /\ a.capacity \in Nat \ {0} /\ a.block \in Blocks
      /\ Len(a.cells) <= a.capacity /\ Len(a.cells) \in Nat
      /\ a = [cells |-> a.cells, capacity |-> a.capacity, block |-> a.block]
  BY LenProperties DEF Arrays
<1>2. /\ g.cells = a.cells /\ g.capacity \in Nat \ {0} /\ g.block \in Blocks
      /\ Len(a.cells) < g.capacity
      /\ g = [cells |-> g.cells, capacity |-> g.capacity, block |-> g.block]
  <2>1. CASE Full(a)
    <3>1. g = [cells |-> a.cells, capacity |-> a.capacity + a.capacity, block |-> b]
      BY <1>1, <2>1 DEF Resized
    <3> QED
      BY <1>1, <2>1, <3>1 DEF Full
  <2>2. CASE ~Full(a)
    BY <1>1, <2>2 DEF Full
  <2> QED
    BY <2>1, <2>2
<1>3. Added(a, x, b) = [g EXCEPT !.cells = Append(@, x)]
  BY DEF Added
<1> HIDE DEF g
<1>4. Added(a, x, b) = [cells |-> Append(a.cells, x), capacity |-> g.capacity, block |-> g.block]
  BY <1>2, <1>3
<1>5. Append(a.cells, x) \in Seq(S) /\ Len(Append(a.cells, x)) = Len(a.cells) + 1
  BY <1>1, AppendProperties
<1> QED
  BY <1>1, <1>2, <1>4, <1>5 DEF Arrays

\* What lay behind the removed element moves one cell to the front.
LEMMA RemovedLemma ==
    ASSUME NEW S, NEW a \in Arrays(S), NEW i \in DOMAIN a.cells
    PROVE  /\ RemovedAt(a, i) \in Arrays(S)
           /\ Len(RemovedAt(a, i).cells) = Len(a.cells) - 1
           /\ \A j \in 1..(Len(a.cells) - 1) :
                 RemovedAt(a, i).cells[j] = a.cells[IF j < i THEN j ELSE j + 1]
<1> DEFINE c == a.cells
           n == Len(a.cells)
           m == MemMove(c, i, i + 1, n - i)
           r == SubSeq(m, 1, n - 1)
<1>1. /\ c \in Seq(S) /\ n \in Nat /\ DOMAIN c = 1..n /\ i \in 1..n
      /\ a.capacity \in Nat \ {0} /\ a.block \in Blocks /\ n <= a.capacity
      /\ a = [cells |-> c, capacity |-> a.capacity, block |-> a.block]
      /\ \A j \in 1..n : c[j] \in S
  BY LenProperties, ElementOfSeq DEF Arrays
<1>2. \A j \in 1..(n - 1) : m[j] = c[IF j < i THEN j ELSE j + 1]
  BY <1>1 DEF MemMove
<1>3. \A j \in 1..(n - 1) : m[j] \in S
  BY <1>1, <1>2
<1>4. RemovedAt(a, i) = [a EXCEPT !.cells = r]
  BY DEF RemovedAt
<1> HIDE DEF m, c, n
<1>5. /\ r \in Seq(S) /\ Len(r) = n - 1
      /\ \A j \in 1..(n - 1) : r[j] = m[j]
  BY <1>1, <1>3, SubSeqProperties
<1>6. Len(a.cells) = n /\ a.cells = c
  BY DEF n, c
<1> HIDE DEF r
<1> QED
  <2>1. RemovedAt(a, i) = [cells |-> r, capacity |-> a.capacity, block |-> a.block]
    BY <1>1, <1>4
  <2> QED
    BY <1>1, <1>2, <1>5, <1>6, <2>1 DEF Arrays

\* The front is removed: the tail stays.
LEMMA PoppedLemma ==
    ASSUME NEW S, NEW a \in Arrays(S), a.cells # <<>>
    PROVE  /\ RemovedAt(a, 1) \in Arrays(S)
           /\ RemovedAt(a, 1).cells = Tail(a.cells)
           /\ a.cells[1] \in S
<1>1. /\ a.cells \in Seq(S) /\ Len(a.cells) \in Nat \ {0} /\ 1 \in DOMAIN a.cells
      /\ a.cells[1] \in S
  BY LenProperties, EmptySeq, ElementOfSeq DEF Arrays
<1>2. /\ RemovedAt(a, 1) \in Arrays(S) /\ Len(RemovedAt(a, 1).cells) = Len(a.cells) - 1
      /\ \A j \in 1..(Len(a.cells) - 1) : RemovedAt(a, 1).cells[j] = a.cells[j + 1]
  BY <1>1, RemovedLemma
<1>3. /\ Tail(a.cells) \in Seq(S) /\ Len(Tail(a.cells)) = Len(a.cells) - 1
      /\ \A j \in 1..(Len(a.cells) - 1) : Tail(a.cells)[j] = a.cells[j + 1]
  BY <1>1, HeadTailProperties
<1>4. RemovedAt(a, 1).cells \in Seq(S)
  BY <1>2 DEF Arrays
<1>5. RemovedAt(a, 1).cells = Tail(a.cells)
  <2> DEFINE s == RemovedAt(a, 1).cells
             t == Tail(a.cells)
  <2>1. /\ s \in Seq(S) /\ t \in Seq(S) /\ Len(s) = Len(t)
        /\ \A j \in 1..Len(s) : s[j] = t[j]
    BY <1>2, <1>3, <1>4
  <2> HIDE DEF s, t
  <2>2. s = t
    BY <2>1, SeqEqual
  <2> QED
    BY <2>2 DEF s, t
<1> QED
  BY <1>1, <1>2, <1>5

\* A new array is empty.
LEMMA NewLemma ==
    ASSUME NEW S
    PROVE  NewArray(Capacity, NewBlock) \in Arrays(S) /\ NewArray(Capacity, NewBlock).cells = <<>>
<1>1. <<>> \in Seq(S) /\ Len(<<>>) = 0
  BY EmptySeq
<1>2. NewArray(Capacity, NewBlock) =
         [cells |-> <<>>, capacity |-> Capacity, block |-> NewBlock]
  BY DEF NewArray
<1> QED
  BY <1>1, <1>2, CapacityAssumption, BlocksAssumption DEF Arrays

-----------------------------------------------------------------------------
\* What a stream holds is a value, and can be told from what another holds.
LEMMA MessagesType == \A s : Messages(s) \cup {Null} \subseteq Values
  BY DEF Messages, Values

\* a stream is opened
LEMMA PutType ==
    ASSUME NEW f, NEW s, NEW v
    PROVE  /\ DOMAIN Put(f, s, v) = DOMAIN f \cup {s}
           /\ Put(f, s, v)[s] = v
           /\ \A x \in DOMAIN f \ {s} : Put(f, s, v)[x] = f[x]
           /\ \A T : f \in [DOMAIN f -> T] /\ v \in T => Put(f, s, v) \in [DOMAIN f \cup {s} -> T]
  BY DEF Put

\* a stream is closed
LEMMA WithoutType ==
    ASSUME NEW f, NEW s
    PROVE  /\ DOMAIN Without(f, s) = DOMAIN f \ {s}
           /\ \A x \in DOMAIN f \ {s} : Without(f, s)[x] = f[x]
           /\ \A T : f \in [DOMAIN f -> T] => Without(f, s) \in [DOMAIN f \ {s} -> T]
  BY DEF Without

\* A message is queued behind the others, and next points to the first.
LEMMA QueueItemLemma ==
    ASSUME TypeOK, NEW s \in Opened, NEW x \in Messages(s), QueueItem(s, x)
    PROVE  \E q \in Arrays(Messages(s)) :
              /\ q.cells = Append(queue[s].cells, x)
              /\ queue' = [queue EXCEPT ![s] = q]
              /\ next' = [next EXCEPT ![s] = Front(q)]
              /\ q.block \in Blocks
<1>1. PICK b \in Blocks : /\ queue' = [queue EXCEPT ![s] = Added(queue[s], x, b)]
                          /\ next' = [next EXCEPT ![s] = Front(Added(queue[s], x, b))]
  BY DEF QueueItem, Peeked
<1>2. queue[s] \in Arrays(Messages(s))
  BY DEF TypeOK
<1>3. /\ Added(queue[s], x, b) \in Arrays(Messages(s))
      /\ Added(queue[s], x, b).cells = Append(queue[s].cells, x)
  BY <1>2, AddedLemma
<1>4. Added(queue[s], x, b).block \in Blocks
  BY <1>3 DEF Arrays
<1> QED
  BY <1>1, <1>3, <1>4

\* queueing keeps the types
LEMMA QueueItemType ==
    ASSUME TypeOK, NEW s \in Opened, NEW x \in Messages(s), QueueItem(s, x),
           heap' \in SUBSET Buffers
    PROVE  TypeOK'
<1>1. PICK q \in Arrays(Messages(s)) :
              /\ q.cells = Append(queue[s].cells, x)
              /\ queue' = [queue EXCEPT ![s] = q]
              /\ next' = [next EXCEPT ![s] = Front(q)]
              /\ q.block \in Blocks
  BY QueueItemLemma
<1>2. q \in Arrays(Values) /\ x \in Values
  BY MessagesType, SeqMonotonic DEF Arrays
<1>3. Front(q) \in [block : Blocks \cup {Null}, cell : {0, 1}]
  BY <1>1 DEF Front
<1>4. Append(owed[s], x) \in Seq(Values)
  BY <1>2, AppendProperties DEF TypeOK
<1>5. Opened' = Opened
  BY <1>1 DEF Opened
<1>6. queue' \in [Opened -> Arrays(Values)]
  BY <1>1, <1>2 DEF TypeOK
<1>7. \A y \in Opened : queue'[y] \in Arrays(Messages(y))
  BY <1>1 DEF TypeOK
<1>8. next' \in [Opened -> [block : Blocks \cup {Null}, cell : {0, 1}]]
  BY <1>1, <1>3 DEF TypeOK
<1>9. owed' \in [Opened -> Seq(Values)] /\ empty' \subseteq Opened
  BY <1>4 DEF QueueItem, TypeOK
<1>10. UNCHANGED <<registry, fallback, handled, lost>>
  BY DEF QueueItem
<1> QED
  BY <1>5, <1>6, <1>7, <1>8, <1>9, <1>10 DEF TypeOK

\* opening keeps the types
LEMMA OpenType == ASSUME TypeOK, NEW s \in Streams, Open(s) PROVE TypeOK'
<1>1. /\ s \in Streams \ Opened
      /\ queue' = Put(queue, s, NewArray(Capacity, NewBlock))
      /\ registry' = Added(registry, s, registry.block)
      /\ empty' = empty \cup {s} /\ next' = Put(next, s, Fallback)
      /\ fallback' = Put(fallback, s, Null) /\ owed' = Put(owed, s, <<>>)
      /\ UNCHANGED <<handled, heap, lost>>
  BY DEF Open
<1>2. Opened' = Opened \cup {s}
  BY <1>1, PutType DEF Opened
<1>3. registry' \in Arrays(Streams)
  BY <1>1, AddedLemma DEF TypeOK, Arrays
<1>4. queue' \in [Opened' -> Arrays(Values)]
  BY <1>1, <1>2, PutType, NewLemma DEF TypeOK, Opened
<1>5. \A y \in Opened' : /\ queue'[y] \in Arrays(Messages(y))
                         /\ fallback'[y] \in Messages(y) \cup {Null}
  <2>1. /\ DOMAIN queue = Opened /\ DOMAIN fallback = Opened
        /\ \A y \in Opened : /\ queue[y] \in Arrays(Messages(y))
                             /\ fallback[y] \in Messages(y) \cup {Null}
    BY DEF TypeOK, Opened
  <2>2. \A y \in Opened : queue'[y] = queue[y] /\ fallback'[y] = fallback[y]
    BY <1>1, <2>1 DEF Put
  <2>3. queue'[s] \in Arrays(Messages(s)) /\ fallback'[s] = Null
    BY <1>1, NewLemma DEF Put
  <2> QED
    BY <1>2, <2>1, <2>2, <2>3
<1>6. next' \in [Opened' -> [block : Blocks \cup {Null}, cell : {0, 1}]]
  <2>1. Fallback \in [block : Blocks \cup {Null}, cell : {0, 1}]
    BY DEF Fallback
  <2> QED
    BY <1>1, <1>2, <2>1, PutType DEF TypeOK
<1>7. fallback' \in [Opened' -> Values]
  BY <1>1, <1>2, PutType DEF TypeOK, Values
<1>8. owed' \in [Opened' -> Seq(Values)]
  <2>1. <<>> \in Seq(Values)
    BY EmptySeq
  <2> QED
    BY <1>1, <1>2, <2>1, PutType DEF TypeOK
<1> QED
  BY <1>1, <1>2, <1>3, <1>4, <1>5, <1>6, <1>7, <1>8 DEF TypeOK

\* closing keeps the types
LEMMA CloseType == ASSUME TypeOK, NEW s \in Streams, Close(s) PROVE TypeOK'
<1>1. /\ s \in Opened
      /\ \E i \in DOMAIN registry.cells : registry' = RemovedAt(registry, i)
      /\ heap' = heap \ Pointers(s)
      /\ queue' = Without(queue, s) /\ next' = Without(next, s)
      /\ fallback' = Without(fallback, s) /\ owed' = Without(owed, s)
      /\ empty' = empty \ {s} /\ UNCHANGED <<handled, lost>>
  BY DEF Close
<1>2. Opened' = Opened \ {s}
  BY <1>1, WithoutType DEF Opened
<1>3. registry' \in Arrays(Streams)
  BY <1>1, RemovedLemma DEF TypeOK
<1>4. /\ queue' \in [Opened' -> Arrays(Values)]
      /\ next' \in [Opened' -> [block : Blocks \cup {Null}, cell : {0, 1}]]
      /\ fallback' \in [Opened' -> Values]
      /\ owed' \in [Opened' -> Seq(Values)]
  BY <1>1, <1>2, WithoutType DEF TypeOK
<1>5. \A y \in Opened' : /\ queue'[y] \in Arrays(Messages(y))
                         /\ fallback'[y] \in Messages(y) \cup {Null}
  <2>1. /\ DOMAIN queue = Opened /\ DOMAIN fallback = Opened
        /\ \A y \in Opened : /\ queue[y] \in Arrays(Messages(y))
                             /\ fallback[y] \in Messages(y) \cup {Null}
    BY DEF TypeOK, Opened
  <2>2. \A y \in Opened \ {s} : queue'[y] = queue[y] /\ fallback'[y] = fallback[y]
    BY <1>1, <2>1, WithoutType
  <2> QED
    BY <1>2, <2>1, <2>2
<1> QED
  BY <1>1, <1>2, <1>3, <1>4, <1>5 DEF TypeOK

\* The first item has gone, and what was behind it is first.
LEMMA CollectWrittenLemma ==
    ASSUME TypeOK, NextCurrent, NEW s \in Streams, CollectWritten(s)
    PROVE  /\ s \in Opened \ empty /\ queue[s].cells # <<>>
           /\ queue[s].cells[1] \in Messages(s)
           /\ \E q \in Arrays(Messages(s)) :
                 /\ q = RemovedAt(queue[s], 1)
                 /\ q.cells = Tail(queue[s].cells) /\ q.block \in Blocks
                 /\ queue' = [queue EXCEPT ![s] = q]
                 /\ empty' = IF q.cells = <<>> THEN empty \cup {s} ELSE empty
                 /\ next' = [next EXCEPT ![s] = IF q.cells = <<>> THEN Fallback ELSE Front(q)]
                 /\ fallback' = [fallback EXCEPT ![s] = IF s \in Sockets THEN Null
                                                        ELSE queue[s].cells[1]]
<1>1. s \in Opened \ empty /\ queue[s].cells # <<>> /\ queue[s] \in Arrays(Messages(s))
  BY DEF CollectWritten, NextCurrent, TypeOK
<1>2. /\ RemovedAt(queue[s], 1) \in Arrays(Messages(s))
      /\ RemovedAt(queue[s], 1).cells = Tail(queue[s].cells)
      /\ queue[s].cells[1] \in Messages(s)
  BY <1>1, PoppedLemma
<1>3. RemovedAt(queue[s], 1).block \in Blocks
  BY <1>2 DEF Arrays
<1> QED
  BY <1>1, <1>2, <1>3 DEF CollectWritten, AfterPop

\* collecting a written item keeps the types
LEMMA CollectWrittenType ==
    ASSUME TypeOK, NextCurrent, QueueIsFifo, NEW s \in Streams, CollectWritten(s)
    PROVE  TypeOK'
<1>1. PICK q \in Arrays(Messages(s)) :
         /\ q.block \in Blocks
         /\ queue' = [queue EXCEPT ![s] = q]
         /\ empty' = IF q.cells = <<>> THEN empty \cup {s} ELSE empty
         /\ next' = [next EXCEPT ![s] = IF q.cells = <<>> THEN Fallback ELSE Front(q)]
         /\ fallback' = [fallback EXCEPT ![s] = IF s \in Sockets THEN Null
                                                ELSE queue[s].cells[1]]
  BY CollectWrittenLemma
<1>2. s \in Opened /\ queue[s].cells # <<>> /\ queue[s].cells[1] \in Messages(s) \cap Values
  BY CollectWrittenLemma, MessagesType
<1>3. q \in Arrays(Values)
  BY MessagesType, SeqMonotonic DEF Arrays
<1>4. Opened' = Opened
  BY <1>1 DEF Opened
<1>5. /\ queue' \in [Opened -> Arrays(Values)]
      /\ \A y \in Opened : queue'[y] \in Arrays(Messages(y))
  BY <1>1, <1>3 DEF TypeOK
<1>6. next' \in [Opened -> [block : Blocks \cup {Null}, cell : {0, 1}]]
  <2>1. {Fallback, Front(q)} \subseteq [block : Blocks \cup {Null}, cell : {0, 1}]
    BY <1>1 DEF Fallback, Front
  <2> QED
    BY <1>1, <2>1 DEF TypeOK
<1>7. /\ fallback' \in [Opened -> Values]
      /\ \A y \in Opened : fallback'[y] \in Messages(y) \cup {Null}
  BY <1>1, <1>2 DEF TypeOK, Values
<1>8. owed' \in [Opened -> Seq(Values)]
  <2>1. owed[s] \in Seq(Values) /\ owed[s] # <<>>
    BY <1>2 DEF TypeOK, QueueIsFifo
  <2>2. Tail(owed[s]) \in Seq(Values)
    BY <2>1, HeadTailProperties
  <2> QED
    BY <2>2 DEF CollectWritten, TypeOK
<1>9. heap' \subseteq Buffers /\ lost' \subseteq Buffers
  <2>1. s \in Sockets => {fallback[s]} \ {Null} \subseteq Buffers
    BY <1>2 DEF TypeOK, Messages
  <2> QED
    BY <2>1 DEF CollectWritten, TypeOK
<1>10. empty' \subseteq Opened /\ UNCHANGED <<registry, handled>>
  BY <1>1, <1>2 DEF CollectWritten, TypeOK
<1> QED
  BY <1>4, <1>5, <1>6, <1>7, <1>8, <1>9, <1>10 DEF TypeOK

\* What is queued is a message of the stream, in a buffer of its own.
LEMMA QueuesMessage ==
    ASSUME TypeOK, NEW s \in Streams, QueueSocket(s) \/ QueueDevice(s)
    PROVE  /\ s \in Opened /\ Len(queue[s].cells) < MaxQueued
           /\ \E x \in Messages(s) :
                 /\ QueueItem(s, x)
                 /\ IF s \in Sockets THEN x \notin heap /\ heap' = heap \cup {x} ELSE heap' = heap
                 /\ heap' \subseteq Buffers
<1>1. CASE QueueSocket(s)
  BY <1>1 DEF QueueSocket, MayQueue, Messages, TypeOK
<1>2. CASE QueueDevice(s)
  BY <1>2, StreamsAssumption DEF QueueDevice, MayQueue, Messages, TypeOK
<1> QED
  BY <1>1, <1>2

\* Every action, one by one.
LEMMA StepCases ==
    ASSUME Next, NEW G, Loop => G, Reset => G,
           \A s \in Streams :
              /\ Open(s) => G
              /\ Close(s) => G
              /\ QueueSocket(s) \/ QueueDevice(s) => G
              /\ ReadBody(s) => G
              /\ CollectWritten(s) => G
              /\ CollectRead(s) => G
    PROVE  G
  BY DEF Next

\* Every action keeps the types; a written item is in the queue by NextCurrent.
LEMMA TypeStep == ASSUME TypeOK, NextCurrent, QueueIsFifo, Next PROVE TypeOK'
<1>1. Loop => TypeOK'
  BY DEF Loop, TypeOK, Opened
<1>2. ASSUME Reset PROVE TypeOK'
  <2>1. /\ handled \in Opened /\ handled' = Nobody /\ Opened' = Opened
        /\ UNCHANGED <<registry, queue, empty, next, lost, owed>>
        /\ heap' \subseteq heap
    BY <1>2 DEF Reset, Opened
  <2>2. fallback' \in [Opened -> Values] /\ \A s \in Opened : fallback'[s] \in {fallback[s], Null}
    BY <1>2 DEF Reset, TypeOK, Values
  <2> QED
    BY <2>1, <2>2 DEF TypeOK
<1>3. ASSUME NEW s \in Streams, QueueSocket(s) \/ QueueDevice(s) PROVE TypeOK'
  BY <1>3, QueuesMessage, QueueItemType
<1>4. ASSUME NEW s \in Streams, ReadBody(s) PROVE TypeOK'
  <2>1. PICK x \in Buffers \ heap : fallback' = [fallback EXCEPT ![s] = x] /\ heap' = heap \cup {x}
    BY <1>4 DEF ReadBody
  <2>2. /\ s \in Opened \cap Sockets /\ Opened' = Opened
        /\ UNCHANGED <<registry, queue, empty, next, handled, lost, owed>>
    BY <1>4 DEF ReadBody, Opened
  <2>3. /\ fallback' \in [Opened -> Values] /\ fallback'[s] = x
        /\ \A y \in Opened \ {s} : fallback'[y] = fallback[y]
    BY <2>1, <2>2 DEF TypeOK, Values
  <2> QED
    BY <2>1, <2>2, <2>3 DEF TypeOK, Messages
<1>5. ASSUME NEW s \in Streams, CollectRead(s) PROVE TypeOK'
  <2>1. PICK x \in IF s \in Captured THEN Events \cup {Null} ELSE {fallback[s]} :
           fallback' = [fallback EXCEPT ![s] = x]
    BY <1>5 DEF CollectRead
  <2>2. s \in Opened /\ x \in Messages(s) \cup {Null} /\ x \in Values
    BY <1>5, <2>1, StreamsAssumption DEF CollectRead, TypeOK, Messages, Values
  <2> QED
    BY <1>5, <2>1, <2>2 DEF CollectRead, TypeOK, Opened
<1> QED
  BY <1>1, <1>2, <1>3, <1>4, <1>5, OpenType, CloseType, CollectWrittenType, StepCases

-----------------------------------------------------------------------------
\* Every action leaves next where it belongs.
LEMMA NextCurrentStep == ASSUME TypeOK, NextCurrent, Next PROVE NextCurrent'
<1>1. Loop \/ Reset => NextCurrent'
  BY DEF Loop, Reset, NextCurrent, Opened
<1>2. ASSUME NEW s \in Streams, Open(s) PROVE NextCurrent'
  <2>1. /\ s \in Streams \ Opened
        /\ queue' = Put(queue, s, NewArray(Capacity, NewBlock))
        /\ empty' = empty \cup {s} /\ next' = Put(next, s, Fallback)
        /\ DOMAIN queue = Opened /\ DOMAIN next = Opened
    BY <1>2 DEF Open, TypeOK, Opened
  <2>2. Opened' = Opened \cup {s}
    BY <2>1 DEF Opened, Put
  <2>3. \A y \in Opened : queue'[y] = queue[y] /\ next'[y] = next[y] /\ (y \in empty' <=> y \in empty)
    BY <2>1 DEF Put
  <2>4. queue'[s].cells = <<>> /\ next'[s] = Fallback /\ s \in empty'
    BY <2>1 DEF Put, NewArray
  <2> QED
    BY <2>2, <2>3, <2>4 DEF NextCurrent
<1>3. ASSUME NEW s \in Streams, Close(s) PROVE NextCurrent'
  <2>1. /\ queue' = Without(queue, s) /\ next' = Without(next, s) /\ empty' = empty \ {s}
        /\ DOMAIN queue = Opened /\ DOMAIN next = Opened
    BY <1>3 DEF Close, TypeOK, Opened
  <2>2. Opened' = Opened \ {s}
    BY <2>1 DEF Opened, Without
  <2>3. \A y \in Opened \ {s} :
           queue'[y] = queue[y] /\ next'[y] = next[y] /\ (y \in empty' <=> y \in empty)
    BY <2>1 DEF Without
  <2> QED
    BY <2>2, <2>3 DEF NextCurrent
<1>4. ASSUME NEW s \in Streams, QueueSocket(s) \/ QueueDevice(s) PROVE NextCurrent'
  <2>1. PICK x \in Messages(s) : QueueItem(s, x)
    BY <1>4, QueuesMessage
  <2>2. s \in Opened /\ empty' = empty \ {s}
    BY <1>4, <2>1, QueuesMessage DEF QueueItem
  <2>3. PICK q \in Arrays(Messages(s)) :
           /\ q.cells = Append(queue[s].cells, x)
           /\ queue' = [queue EXCEPT ![s] = q] /\ next' = [next EXCEPT ![s] = Front(q)]
    BY <2>1, <2>2, QueueItemLemma
  <2>4. q.cells # <<>>
    <3>1. queue[s].cells \in Seq(Messages(s))
      BY <2>2 DEF TypeOK, Arrays
    <3> QED
      BY <2>3, <3>1, AppendProperties
  <2> QED
    BY <2>2, <2>3, <2>4 DEF NextCurrent, TypeOK, Opened
<1>5. ASSUME NEW s \in Streams, ReadBody(s) \/ CollectRead(s) PROVE NextCurrent'
  BY <1>5 DEF ReadBody, CollectRead, NextCurrent, Opened
<1>6. ASSUME NEW s \in Streams, CollectWritten(s) PROVE NextCurrent'
  BY <1>6, CollectWrittenLemma DEF NextCurrent, TypeOK, Opened
<1> QED
  BY <1>1, <1>2, <1>3, <1>4, <1>5, <1>6, StepCases

\* Every action keeps the queues in order.
LEMMA QueueIsFifoStep == ASSUME TypeOK, NextCurrent, QueueIsFifo, Next PROVE QueueIsFifo'
<1>1. Loop \/ Reset => QueueIsFifo'
  BY DEF Loop, Reset, QueueIsFifo, Opened
<1>2. ASSUME NEW s \in Streams, Open(s) PROVE QueueIsFifo'
  BY <1>2 DEF Open, QueueIsFifo, TypeOK, Opened, Put, NewArray
<1>3. ASSUME NEW s \in Streams, Close(s) PROVE QueueIsFifo'
  BY <1>3 DEF Close, QueueIsFifo, TypeOK, Opened, Without
<1>4. ASSUME NEW s \in Streams, QueueSocket(s) \/ QueueDevice(s) PROVE QueueIsFifo'
  <2>1. PICK x \in Messages(s) : QueueItem(s, x)
    BY <1>4, QueuesMessage
  <2>2. s \in Opened /\ owed' = [owed EXCEPT ![s] = Append(@, x)]
    BY <1>4, <2>1, QueuesMessage DEF QueueItem
  <2>3. PICK q : q.cells = Append(queue[s].cells, x) /\ queue' = [queue EXCEPT ![s] = q]
    BY <2>1, <2>2, QueueItemLemma
  <2> QED
    BY <2>2, <2>3 DEF QueueIsFifo, TypeOK, Opened
<1>5. ASSUME NEW s \in Streams, ReadBody(s) \/ CollectRead(s) PROVE QueueIsFifo'
  BY <1>5 DEF ReadBody, CollectRead, QueueIsFifo, Opened
<1>6. ASSUME NEW s \in Streams, CollectWritten(s) PROVE QueueIsFifo'
  <2>1. s \in Opened /\ owed' = [owed EXCEPT ![s] = Tail(@)]
    BY <1>6 DEF CollectWritten
  <2>2. PICK q : q.cells = Tail(queue[s].cells) /\ queue' = [queue EXCEPT ![s] = q]
    BY <1>6, CollectWrittenLemma
  <2> QED
    BY <2>1, <2>2 DEF QueueIsFifo, TypeOK, Opened
<1> QED
  BY <1>1, <1>2, <1>3, <1>4, <1>5, <1>6, StepCases

-----------------------------------------------------------------------------
\* Only opening and closing touch the registry.
LEMMA RegistryStep == ASSUME TypeOK, RegistryExact, Next PROVE RegistryExact'
<1>1. ASSUME UNCHANGED registry, Opened' = Opened PROVE RegistryExact'
  BY <1>1 DEF RegistryExact
<1>2. ASSUME NEW s \in Streams, Open(s) PROVE RegistryExact'
  <2>1. /\ s \notin Opened /\ registry' = Added(registry, s, registry.block)
        /\ queue' = Put(queue, s, NewArray(Capacity, NewBlock))
    BY <1>2 DEF Open
  <2>2. Opened' = Opened \cup {s}
    BY <2>1 DEF Opened, Put
  <2>3. registry'.cells = Append(registry.cells, s)
    <3>1. registry \in Arrays(Streams) /\ registry.block \in Blocks
      BY DEF TypeOK, Arrays
    <3> QED
      BY <2>1, <3>1, AddedLemma
  <2> DEFINE c == registry.cells
             d == registry'.cells
  <2>4. c \in Seq(Streams)
    BY DEF TypeOK, Arrays
  <2>5. /\ DOMAIN c = 1..Len(c) /\ DOMAIN d = 1..(Len(c) + 1) /\ Len(c) \in Nat
        /\ \A i \in 1..Len(c) : d[i] = c[i]
        /\ d[Len(c) + 1] = s
    BY <2>3, <2>4, AppendProperties, LenProperties
  <2>6. /\ \A y \in Opened : \E i \in DOMAIN c : c[i] = y
        /\ \A i \in DOMAIN c : c[i] \in Opened
        /\ \A i, j \in DOMAIN c : c[i] = c[j] => i = j
    BY DEF RegistryExact
  <2> HIDE DEF c, d
  <2>7. /\ \A y \in Opened' : \E i \in DOMAIN d : d[i] = y
        /\ \A i \in DOMAIN d : d[i] \in Opened'
        /\ \A i, j \in DOMAIN d : d[i] = d[j] => i = j
    <3>1. \A y \in Opened' : \E i \in DOMAIN d : d[i] = y
      BY <2>2, <2>5, <2>6
    <3>2. \A i \in DOMAIN d : (i \in DOMAIN c /\ d[i] = c[i]) \/ (i = Len(c) + 1 /\ d[i] = s)
      BY <2>5
    <3>3. \A i \in DOMAIN d : d[i] \in Opened'
      BY <2>2, <2>6, <3>2
    <3>4. \A i, j \in DOMAIN d : d[i] = d[j] => i = j
      BY <2>1, <2>6, <3>2
    <3> QED
      BY <3>1, <3>3, <3>4
  <2> QED
    BY <2>7 DEF RegistryExact, d
<1>3. ASSUME NEW s \in Streams, Close(s) PROVE RegistryExact'
  <2> DEFINE c == registry.cells
             d == registry'.cells
  <2>1. PICK k \in DOMAIN c : c[k] = s /\ registry' = RemovedAt(registry, k)
    BY <1>3 DEF Close, IsIndexOf
  <2>2. Opened' = Opened \ {s}
    BY <1>3 DEF Close, Opened, Without
  <2>3. registry \in Arrays(Streams)
    BY DEF TypeOK
  <2>4. /\ registry' \in Arrays(Streams) /\ Len(d) = Len(c) - 1
        /\ \A j \in 1..(Len(c) - 1) : d[j] = c[IF j < k THEN j ELSE j + 1]
    BY <2>1, <2>3, RemovedLemma
  <2>5. DOMAIN c = 1..Len(c) /\ Len(c) \in Nat /\ DOMAIN d = 1..(Len(c) - 1)
    BY <2>3, <2>4, LenProperties DEF Arrays
  <2>6. /\ \A y \in Opened : \E i \in DOMAIN c : c[i] = y
        /\ \A i \in DOMAIN c : c[i] \in Opened
        /\ \A i, j \in DOMAIN c : c[i] = c[j] => i = j
    BY DEF RegistryExact
  <2>7. k \in DOMAIN c /\ c[k] = s
    BY <2>1
  <2> HIDE DEF c, d
  <2>8. \A j \in DOMAIN d : \E i \in DOMAIN c \ {k} :
           d[j] = c[i] /\ i = (IF j < k THEN j ELSE j + 1)
    BY <2>4, <2>5, <2>7
  <2>9. \A i \in DOMAIN c \ {k} : \E j \in DOMAIN d : d[j] = c[i]
    <3> SUFFICES ASSUME NEW i \in DOMAIN c \ {k} PROVE \E j \in DOMAIN d : d[j] = c[i]
      OBVIOUS
    <3>1. CASE i < k
      BY <2>4, <2>5, <2>7, <3>1
    <3>2. CASE i > k
      <4>1. i - 1 \in DOMAIN d /\ d[i - 1] = c[i]
        BY <2>4, <2>5, <2>7, <3>2
      <4> QED
        BY <4>1
    <3> QED
      BY <2>5, <3>1, <3>2
  <2>10. \A y \in Opened' : \E i \in DOMAIN d : d[i] = y
    BY <2>2, <2>6, <2>7, <2>9
  <2>11. \A i \in DOMAIN d : d[i] \in Opened'
    BY <2>2, <2>6, <2>7, <2>8
  <2>12. \A i, j \in DOMAIN d : d[i] = d[j] => i = j
    BY <2>5, <2>6, <2>7, <2>8
  <2> QED
    BY <2>10, <2>11, <2>12 DEF RegistryExact, d
<1>4. ASSUME NEW s \in Streams, QueueSocket(s) \/ QueueDevice(s) PROVE RegistryExact'
  <2>1. PICK x \in Messages(s) : QueueItem(s, x)
    BY <1>4, QueuesMessage
  <2> QED
    BY <1>1, <2>1 DEF QueueItem, Opened
<1>5. Loop \/ Reset => RegistryExact'
  BY <1>1 DEF Loop, Reset, Opened
<1>6. ASSUME NEW s \in Streams, ReadBody(s) \/ CollectRead(s) \/ CollectWritten(s)
      PROVE  RegistryExact'
  BY <1>1, <1>6 DEF ReadBody, CollectRead, CollectWritten, Opened
<1> QED
  BY <1>2, <1>3, <1>4, <1>5, <1>6, StepCases

-----------------------------------------------------------------------------
Owners == Sockets \cap Opened

\* As long as nothing that a socket stream holds is touched, nobody loses a buffer.
LEMMA Untouched ==
    ASSUME BuffersOwned, Owners' = Owners,
           \A s \in Owners : queue'[s].cells = queue[s].cells /\ fallback'[s] = fallback[s],
           UNCHANGED <<heap, lost>>
    PROVE  BuffersOwned'
<1>1. \A s \in Owners : Items(s)' = Items(s) /\ \A i \in Items(s) : Item(s, i)' = Item(s, i)
  BY DEF Items, Item
<1> QED
  BY <1>1 DEF BuffersOwned, Owners

\* Item m of stream s takes a new buffer x, and was empty or did not exist.
LEMMA Takes ==
    ASSUME BuffersOwned, Owners' = Owners, NEW s \in Owners, NEW m, NEW x,
           x \notin heap, x # Null, Null \notin heap, heap' = heap \cup {x}, lost' = lost,
           Items(s)' = Items(s) \cup {m}, Item(s, m)' = x, m \in Items(s) => Item(s, m) = Null,
           \A i \in Items(s) \ {m} : Item(s, i)' = Item(s, i),
           \A y \in Owners \ {s} :
              Items(y)' = Items(y) /\ \A i \in Items(y) : Item(y, i)' = Item(y, i)
    PROVE  BuffersOwned'
<1>1. \A y \in Owners : \A i \in Items(y)' :
         \/ y = s /\ i = m /\ Item(y, i)' = x
         \/ i \in Items(y) /\ Item(y, i)' = Item(y, i)
  OBVIOUS
<1>2. \A y \in Owners : \A i \in Items(y) :
         Item(y, i) # Null => i \in Items(y)' /\ Item(y, i)' = Item(y, i)
  OBVIOUS
<1>3. \A y \in Owners : \A i \in Items(y) : Item(y, i) # x
  BY DEF BuffersOwned, Owners
<1>4. \A y, z \in Owners : \A i \in Items(y)', j \in Items(z)' :
         Item(y, i)' = Item(z, j)' /\ Item(y, i)' # Null => y = z /\ i = j
  BY <1>1, <1>3 DEF BuffersOwned, Owners
<1>5. \A y \in Owners : \A i \in Items(y)' : Item(y, i)' \in (heap' \ lost') \cup {Null}
  BY <1>1 DEF BuffersOwned, Owners
<1>6. \A b \in heap' \ lost' : \E y \in Owners : \E i \in Items(y)' : Item(y, i)' = b
  <2> SUFFICES ASSUME NEW b \in heap' \ lost'
               PROVE  \E y \in Owners : \E i \in Items(y)' : Item(y, i)' = b
    OBVIOUS
  <2>1. CASE b = x
    BY <2>1
  <2>2. CASE b # x
    <3>1. PICK y \in Owners : \E i \in Items(y) : Item(y, i) = b
      BY <2>2 DEF BuffersOwned, Owners
    <3>2. PICK i \in Items(y) : Item(y, i) = b
      BY <3>1
    <3> QED
      BY <1>2, <3>1, <3>2
  <2> QED
    BY <2>1, <2>2
<1> QED
  BY <1>4, <1>5, <1>6 DEF BuffersOwned, Owners

\* Buffers F are freed and L are lost; what the items still hold, they held before,
\* and it is neither.
LEMMA Releases ==
    ASSUME BuffersOwned, Null \notin heap, Owners' \subseteq Owners, NEW F, NEW L,
           heap' = heap \ F, lost' = lost \cup L,
           L \subseteq heap, F \cap L = {}, F \cap lost = {},
           \A y \in Owners' : \A i \in Items(y)' :
              \/ Item(y, i)' = Null
              \/ /\ \E j \in Items(y) : Item(y, j) = Item(y, i)'
                 /\ Item(y, i)' \notin F \cup L
                 /\ \A j \in Items(y)' : Item(y, i)' = Item(y, j)' => i = j,
           \A y \in Owners : \A i \in Items(y) :
              \/ Item(y, i) \in F \cup L \cup {Null}
              \/ y \in Owners' /\ \E j \in Items(y)' : Item(y, j)' = Item(y, i)
    PROVE  BuffersOwned'
<1>1. \A y, z \in Owners' : \A i \in Items(y)', j \in Items(z)' :
         Item(y, i)' = Item(z, j)' /\ Item(y, i)' # Null => y = z /\ i = j
  <2> SUFFICES ASSUME NEW y \in Owners', NEW z \in Owners', NEW i \in Items(y)', NEW j \in Items(z)',
                      Item(y, i)' = Item(z, j)', Item(y, i)' # Null
               PROVE  y = z /\ i = j
    OBVIOUS
  <2>1. PICK k \in Items(y) : Item(y, k) = Item(y, i)'
    OBVIOUS
  <2>2. PICK l \in Items(z) : Item(z, l) = Item(z, j)'
    OBVIOUS
  <2>3. y = z
    BY <2>1, <2>2 DEF BuffersOwned, Owners
  <2> QED
    BY <2>3
<1>2. \A y \in Owners' : \A i \in Items(y)' : Item(y, i)' \in (heap' \ lost') \cup {Null}
  <2> SUFFICES ASSUME NEW y \in Owners', NEW i \in Items(y)', Item(y, i)' # Null
               PROVE  Item(y, i)' \in heap' \ lost'
    OBVIOUS
  <2>1. Item(y, i)' \notin F \cup L
    OBVIOUS
  <2>2. PICK k \in Items(y) : Item(y, k) = Item(y, i)'
    OBVIOUS
  <2>3. Item(y, i)' \in heap \ lost
    BY <2>2 DEF BuffersOwned, Owners
  <2> QED
    BY <2>1, <2>3
<1>3. \A b \in heap' \ lost' : \E y \in Owners' : \E i \in Items(y)' : Item(y, i)' = b
  <2> SUFFICES ASSUME NEW b \in heap' \ lost'
               PROVE  \E y \in Owners' : \E i \in Items(y)' : Item(y, i)' = b
    OBVIOUS
  <2>1. b \in heap \ lost /\ b \notin F \cup L
    OBVIOUS
  <2>2. PICK y \in Owners : \E i \in Items(y) : Item(y, i) = b
    BY <2>1 DEF BuffersOwned, Owners
  <2>3. PICK i \in Items(y) : Item(y, i) = b
    BY <2>2
  <2> QED
    BY <2>1, <2>3
<1>4. lost' \subseteq heap'
  BY DEF BuffersOwned
<1> QED
  BY <1>1, <1>2, <1>3, <1>4 DEF BuffersOwned, Owners

\* Every action passes buffers on, takes new ones, or releases what it frees.
LEMMA OwnedStep == ASSUME TypeOK, NextCurrent, BuffersOwned, Next PROVE BuffersOwned'
<1>1. Null \notin heap
  BY NullAssumption DEF TypeOK
<1>2. Loop => BuffersOwned'
  BY Untouched DEF Loop, Owners, Opened
<1>3. ASSUME Reset PROVE BuffersOwned'
  <2>1. Owners' = Owners /\ handled \in Opened /\ DOMAIN fallback = Opened
    BY <1>3 DEF Reset, Owners, Opened, TypeOK
  <2>2. CASE handled \notin Sockets
    BY <1>3, <2>1, <2>2, Untouched DEF Reset, FreedByReset, Owners
  <2>3. CASE handled \in Sockets
    <3> DEFINE h == handled
               F == {fallback[h]}
               L == {}
    <3>1. /\ h \in Owners /\ heap' = heap \ F /\ lost' = lost
          /\ fallback' = [fallback EXCEPT ![h] = Null] /\ queue' = queue
      BY <1>3, <2>1, <2>3 DEF Reset, FreedByReset, Owners
    <3>2. /\ \A y \in Owners : Items(y)' = Items(y)
          /\ \A y \in Owners : \A i \in Items(y) :
                Item(y, i)' = IF y = h /\ i = 0 THEN Null ELSE Item(y, i)
      BY <2>1, <3>1 DEF Items, Item, Owners
    <3>3. 0 \in Items(h) /\ Item(h, 0) = fallback[h]
      <4>1. Len(queue[h].cells) \in Nat
        BY <3>1, LenProperties DEF TypeOK, Arrays, Owners
      <4> QED
        BY <4>1 DEF Items, Item
    <3>4. F \cap lost = {}
      BY <1>1, <3>1, <3>3 DEF BuffersOwned, Owners
    <3>5. \A y \in Owners : \A i \in Items(y) :
             \/ Item(y, i)' = Null
             \/ /\ Item(y, i)' = Item(y, i) /\ Item(y, i) \notin F
                /\ \A j \in Items(y) : Item(y, i)' = Item(y, j)' => i = j
      BY <3>1, <3>2, <3>3 DEF BuffersOwned, Owners
    <3>6. \A y \in Owners' : \A i \in Items(y)' :
             \/ Item(y, i)' = Null
             \/ /\ \E j \in Items(y) : Item(y, j) = Item(y, i)'
                /\ Item(y, i)' \notin F \cup L
                /\ \A j \in Items(y)' : Item(y, i)' = Item(y, j)' => i = j
      BY <2>1, <3>2, <3>5
    <3>7. \A y \in Owners : \A i \in Items(y) :
             \/ Item(y, i) \in F \cup L \cup {Null}
             \/ y \in Owners' /\ \E j \in Items(y)' : Item(y, j)' = Item(y, i)
      BY <2>1, <3>2, <3>3
    <3>8. lost' = lost \cup L /\ L \subseteq heap /\ F \cap L = {} /\ Owners' \subseteq Owners
      BY <2>1, <3>1
    <3>9. Null \notin heap /\ heap' = heap \ F
      BY <1>1, <3>1
    <3> HIDE DEF h, F, L
    <3> QED
      BY <3>4, <3>6, <3>7, <3>8, <3>9, Releases
  <2> QED
    BY <2>2, <2>3
<1>4. ASSUME NEW s \in Streams, ReadBody(s) PROVE BuffersOwned'
  <2>1. PICK x \in Buffers \ heap : fallback' = [fallback EXCEPT ![s] = x] /\ heap' = heap \cup {x}
    BY <1>4 DEF ReadBody
  <2>2. /\ s \in Owners /\ fallback[s] = Null /\ Owners' = Owners
        /\ queue' = queue /\ lost' = lost /\ DOMAIN fallback = Opened
    BY <1>4 DEF ReadBody, Owners, Opened, TypeOK
  <2>3. Len(queue[s].cells) \in Nat
    BY <2>2, LenProperties DEF TypeOK, Arrays, Owners
  <2>4. \A y \in Owners : Items(y)' = Items(y)
    BY <2>2 DEF Items
  <2>5. 0 \in Items(s) /\ Item(s, 0) = Null /\ Item(s, 0)' = x
    BY <2>1, <2>2, <2>3 DEF Items, Item, Owners
  <2>6. \A y \in Owners : \A i \in Items(y) : y # s \/ i # 0 => Item(y, i)' = Item(y, i)
    BY <2>1, <2>2 DEF Item, Owners
  <2>7. x \notin heap /\ x # Null
    BY NullAssumption
  <2> QED
    BY <1>1, <2>1, <2>2, <2>4, <2>5, <2>6, <2>7, Takes
<1>5. ASSUME NEW s \in Streams, QueueSocket(s) \/ QueueDevice(s) PROVE BuffersOwned'
  <2>1. PICK x \in Messages(s) :
           /\ QueueItem(s, x)
           /\ IF s \in Sockets THEN x \notin heap /\ heap' = heap \cup {x} ELSE heap' = heap
    BY <1>5, QueuesMessage
  <2>2. s \in Opened /\ fallback' = fallback /\ lost' = lost
    BY <1>5, <2>1, QueuesMessage DEF QueueItem
  <2>3. PICK q : q.cells = Append(queue[s].cells, x) /\ queue' = [queue EXCEPT ![s] = q]
    BY <2>1, <2>2, QueueItemLemma
  <2>4. Owners' = Owners
    BY <2>3 DEF Owners, Opened
  <2>5. CASE s \notin Sockets
    BY <2>1, <2>2, <2>3, <2>4, <2>5, Untouched DEF Owners
  <2>6. CASE s \in Sockets
    <3>1. PICK m : m = Len(queue[s].cells) + 1
      OBVIOUS
    <3>2. /\ s \in Owners /\ DOMAIN queue = Opened
          /\ queue[s].cells \in Seq(Messages(s))
      BY <2>2, <2>6 DEF TypeOK, Arrays, Owners, Opened
    <3>3. /\ queue'[s].cells = Append(queue[s].cells, x)
          /\ \A y \in Owners \ {s} : queue'[y] = queue[y]
      BY <2>3, <3>2 DEF Owners
    <3>4. /\ Len(queue[s].cells) \in Nat /\ Len(queue'[s].cells) = m
          /\ queue'[s].cells[m] = x
          /\ \A i \in 1..Len(queue[s].cells) : queue'[s].cells[i] = queue[s].cells[i]
      BY <3>1, <3>2, <3>3, AppendProperties, LenProperties
    <3>5. Items(s)' = Items(s) \cup {m} /\ m \notin Items(s)
      <4>1. Items(s) = 0..(m - 1) /\ Items(s)' = 0..m /\ m \in Nat \ {0}
        BY <3>1, <3>4 DEF Items
      <4> QED
        BY <4>1
    <3>6. Item(s, m)' = x
      <4>1. m # 0
        BY <3>1, <3>4
      <4> QED
        BY <3>4, <4>1 DEF Item
    <3>7. \A i \in Items(s) \ {m} : Item(s, i)' = Item(s, i)
      BY <2>2, <3>1, <3>4 DEF Items, Item
    <3>8. \A y \in Owners \ {s} :
             Items(y)' = Items(y) /\ \A i \in Items(y) : Item(y, i)' = Item(y, i)
      BY <2>2, <3>3 DEF Items, Item
    <3>9. x \notin heap /\ x # Null /\ heap' = heap \cup {x}
      BY <2>1, <2>6, NullAssumption DEF Messages
    <3> QED
      BY <1>1, <2>2, <2>4, <3>2, <3>5, <3>7, <3>8, <3>9, <3>6, Takes
  <2> QED
    BY <2>5, <2>6
<1>6. ASSUME NEW s \in Streams, CollectRead(s) PROVE BuffersOwned'
  <2>1. PICK x \in IF s \in Captured THEN Events \cup {Null} ELSE {fallback[s]} :
           fallback' = [fallback EXCEPT ![s] = x]
    BY <1>6 DEF CollectRead
  <2>2. /\ s \in Opened /\ Owners' = Owners /\ DOMAIN fallback = Opened
        /\ UNCHANGED <<queue, heap, lost>>
    BY <1>6 DEF CollectRead, Owners, Opened, TypeOK
  <2>3. s \in Sockets => x = fallback[s]
    BY <2>1, StreamsAssumption
  <2>4. \A y \in Owners : fallback'[y] = fallback[y]
    BY <2>1, <2>2, <2>3 DEF Owners
  <2> QED
    BY <2>2, <2>4, Untouched
<1>7. ASSUME NEW s \in Streams, Open(s) PROVE BuffersOwned'
  <2>1. /\ s \notin Opened /\ UNCHANGED <<heap, lost>>
        /\ queue' = Put(queue, s, NewArray(Capacity, NewBlock))
        /\ fallback' = Put(fallback, s, Null)
        /\ DOMAIN queue = Opened /\ DOMAIN fallback = Opened
    BY <1>7 DEF Open, Opened, TypeOK
  <2>2. Opened' = Opened \cup {s}
    BY <2>1 DEF Opened, Put
  <2>3. \A y \in Opened : queue'[y] = queue[y] /\ fallback'[y] = fallback[y]
    BY <2>1 DEF Put
  <2>4. queue'[s].cells = <<>> /\ fallback'[s] = Null
    BY <2>1 DEF Put, NewArray
  <2>5. Len(<<>>) = 0
    BY EmptySeq
  <2>6. Items(s)' = {0} /\ Item(s, 0)' = Null
    BY <2>4, <2>5 DEF Items, Item
  <2>7. \A y \in Owners : Items(y)' = Items(y) /\ \A i \in Items(y) : Item(y, i)' = Item(y, i)
    BY <2>3 DEF Items, Item, Owners
  <2>8. Owners' \subseteq Owners \cup {s} /\ Owners \subseteq Owners'
    BY <2>2 DEF Owners
  <2>9. \A y \in Owners' : \A i \in Items(y)' :
           Item(y, i)' # Null => y \in Owners /\ i \in Items(y) /\ Item(y, i)' = Item(y, i)
    BY <2>6, <2>7, <2>8
  <2>10. \A y, z \in Owners' : \A i \in Items(y)', j \in Items(z)' :
            Item(y, i)' = Item(z, j)' /\ Item(y, i)' # Null => y = z /\ i = j
    BY <2>9 DEF BuffersOwned, Owners
  <2>11. \A y \in Owners' : \A i \in Items(y)' : Item(y, i)' \in (heap' \ lost') \cup {Null}
    BY <2>1, <2>9 DEF BuffersOwned, Owners
  <2>12. \A b \in heap' \ lost' : \E y \in Owners' : \E i \in Items(y)' : Item(y, i)' = b
    <3> SUFFICES ASSUME NEW b \in heap \ lost
                 PROVE  \E y \in Owners' : \E i \in Items(y)' : Item(y, i)' = b
      BY <2>1
    <3>1. PICK y \in Owners : \E i \in Items(y) : Item(y, i) = b
      BY DEF BuffersOwned, Owners
    <3> QED
      BY <2>7, <2>8, <3>1
  <2> QED
    BY <2>1, <2>10, <2>11, <2>12 DEF BuffersOwned, Owners
<1>8. ASSUME NEW s \in Streams, Close(s) PROVE BuffersOwned'
  <2>1. /\ s \in Opened /\ Opened' = Opened \ {s} /\ Pointers(s) \cap Events = {}
        /\ heap' = heap \ Pointers(s) /\ lost' = lost
        /\ \A y \in Opened \ {s} : queue'[y] = queue[y] /\ fallback'[y] = fallback[y]
    BY <1>8 DEF Close, Opened, Without, TypeOK
  <2>2. Owners' = Owners \ {s}
    BY <2>1 DEF Owners
  <2>3. /\ queue[s].cells \in Seq(Messages(s)) /\ fallback[s] \in Messages(s) \cup {Null}
        /\ Len(queue[s].cells) \in Nat /\ DOMAIN queue[s].cells = 1..Len(queue[s].cells)
        /\ \A i \in DOMAIN queue[s].cells : queue[s].cells[i] \in Messages(s)
    BY <2>1, LenProperties, ElementOfSeq DEF TypeOK, Arrays
  <2>4. CASE s \notin Sockets
    <3>1. Pointers(s) = {}
      BY <2>1, <2>3, <2>4 DEF Pointers, Messages
    <3> QED
      BY <2>1, <2>2, <2>4, <3>1, Untouched DEF Owners
  <2>5. CASE s \in Sockets
    <3>1. PICK F : F = Pointers(s)
      OBVIOUS
    <3>2. PICK L : L = {}
      OBVIOUS
    <3>3. s \in Owners /\ F = {Item(s, i) : i \in Items(s)} \ {Null}
      BY <2>1, <2>3, <2>5, <3>1 DEF Pointers, Items, Item, Owners
    <3>4. /\ heap' = heap \ F /\ lost' = lost \cup L
          /\ L \subseteq heap /\ F \cap L = {} /\ F \cap lost = {}
      BY <2>1, <3>1, <3>2, <3>3 DEF BuffersOwned, Owners
    <3>5. \A y \in Owners \ {s} :
             Items(y)' = Items(y) /\ \A i \in Items(y) : Item(y, i)' = Item(y, i)
      BY <2>1 DEF Items, Item, Owners
    <3>6. \A y \in Owners' : \A i \in Items(y)' :
             \/ Item(y, i)' = Null
             \/ /\ \E j \in Items(y) : Item(y, j) = Item(y, i)'
                /\ Item(y, i)' \notin F \cup L
                /\ \A j \in Items(y)' : Item(y, i)' = Item(y, j)' => i = j
      BY <2>2, <3>2, <3>3, <3>5 DEF BuffersOwned, Owners
    <3>7. \A y \in Owners : \A i \in Items(y) :
             \/ Item(y, i) \in F \cup L \cup {Null}
             \/ y \in Owners' /\ \E j \in Items(y)' : Item(y, j)' = Item(y, i)
      BY <2>2, <3>3, <3>5
    <3> QED
      <4>1. Owners' \subseteq Owners
        BY <2>2
      <4> QED
        BY <1>1, <3>4, <3>6, <3>7, <4>1, Releases
  <2> QED
    BY <2>4, <2>5
<1>9. ASSUME NEW s \in Streams, CollectWritten(s) PROVE BuffersOwned'
  <2>1. PICK q \in Arrays(Messages(s)) :
           /\ q.cells = Tail(queue[s].cells) /\ queue' = [queue EXCEPT ![s] = q]
           /\ fallback' = [fallback EXCEPT ![s] = IF s \in Sockets THEN Null
                                                  ELSE queue[s].cells[1]]
    BY <1>9, CollectWrittenLemma
  <2>2. /\ s \in Opened /\ queue[s].cells # <<>> /\ queue[s].cells[1] \in Messages(s)
        /\ queue[s].cells \in Seq(Messages(s)) /\ fallback[s] \in Messages(s) \cup {Null}
        /\ DOMAIN queue = Opened /\ DOMAIN fallback = Opened
    BY <1>9, CollectWrittenLemma DEF TypeOK, Arrays, Opened
  <2>3. Owners' = Owners
    BY <2>1 DEF Owners, Opened
  <2>4. \A y \in Owners \ {s} : queue'[y] = queue[y] /\ fallback'[y] = fallback[y]
    BY <2>1, <2>2 DEF Owners
  <2>5. CASE s \notin Sockets
    <3>1. UNCHANGED <<heap, lost>>
      BY <1>9, <2>5 DEF CollectWritten, FreedByReset
    <3> QED
      BY <2>3, <2>4, <2>5, <3>1, Untouched DEF Owners
  <2>6. CASE s \in Sockets
    <3>1. PICK n : n = Len(queue[s].cells)
      OBVIOUS
    <3>2. /\ n \in Nat \ {0} /\ Len(q.cells) = n - 1
          /\ \A i \in 1..(n - 1) : q.cells[i] = queue[s].cells[i + 1]
      BY <2>1, <2>2, <3>1, HeadTailProperties, EmptySeq
    <3>3. /\ s \in Owners /\ queue'[s] = q /\ fallback'[s] = Null
      BY <2>1, <2>2, <2>6 DEF Owners
    <3>4. /\ Items(s) = 0..n /\ Items(s)' = 0..(n - 1) /\ Item(s, 0)' = Null
          /\ \A i \in 1..(n - 1) : Item(s, i)' = Item(s, i + 1)
      BY <3>1, <3>2, <3>3 DEF Items, Item
    <3>5. PICK F : F = {Item(s, 1)}
      OBVIOUS
    <3>6. PICK L : L = {Item(s, 0)} \ {Null}
      OBVIOUS
    <3>7. Item(s, 1) = queue[s].cells[1] /\ Item(s, 0) = fallback[s] /\ Item(s, 1) # Null
      BY <2>2, <2>6, NullAssumption DEF Item, Messages
    <3>8. heap' = heap \ F /\ lost' = lost \cup L
      BY <1>9, <2>6, <3>5, <3>6, <3>7 DEF CollectWritten, FreedByReset
    <3>9. 0 \in Items(s) /\ 1 \in Items(s)
      BY <3>2, <3>4
    <3>10. /\ \A i, j \in Items(s) : Item(s, i) = Item(s, j) /\ Item(s, i) # Null => i = j
           /\ \A i \in Items(s) : Item(s, i) \in (heap \ lost) \cup {Null}
      BY <3>3 DEF BuffersOwned, Owners
    <3>11. L \subseteq heap /\ F \cap L = {} /\ F \cap lost = {}
      BY <3>5, <3>6, <3>7, <3>9, <3>10
    <3>12. \A y \in Owners \ {s} : \A i \in Items(y) : Item(y, i) \notin F \cup L \/ Item(y, i) = Null
      BY <3>3, <3>5, <3>6, <3>9 DEF BuffersOwned, Owners
    <3>13. \A y \in Owners \ {s} :
              Items(y)' = Items(y) /\ \A i \in Items(y) : Item(y, i)' = Item(y, i)
      BY <2>4 DEF Items, Item
    <3>14. \A i \in Items(s)' :
              \/ Item(s, i)' = Null
              \/ i # 0 /\ i + 1 \in Items(s) /\ Item(s, i)' = Item(s, i + 1)
      BY <3>2, <3>4
    <3>15. \A i \in Items(s)' :
              \/ Item(s, i)' = Null
              \/ /\ \E j \in Items(s) : Item(s, j) = Item(s, i)'
                 /\ Item(s, i)' \notin F \cup L
                 /\ \A j \in Items(s)' : Item(s, i)' = Item(s, j)' => i = j
      <4> SUFFICES ASSUME NEW i \in Items(s)', Item(s, i)' # Null
                   PROVE  /\ \E j \in Items(s) : Item(s, j) = Item(s, i)'
                          /\ Item(s, i)' \notin F \cup L
                          /\ \A j \in Items(s)' : Item(s, i)' = Item(s, j)' => i = j
        OBVIOUS
      <4>1. i \in 1..(n - 1) /\ i + 1 \in Items(s) /\ Item(s, i)' = Item(s, i + 1)
        BY <3>2, <3>4, <3>14
      <4>2. i + 1 # 0 /\ i + 1 # 1
        BY <3>2, <4>1
      <4>3. Item(s, i)' \notin F \cup L
        BY <3>5, <3>6, <3>9, <3>10, <4>1, <4>2
      <4>4. ASSUME NEW j \in Items(s)', Item(s, i)' = Item(s, j)' PROVE i = j
        <5>1. j \in 1..(n - 1) /\ j + 1 \in Items(s) /\ Item(s, j)' = Item(s, j + 1)
          BY <3>2, <3>4, <3>14, <4>4
        <5>2. i + 1 = j + 1
          BY <3>10, <4>1, <4>4, <5>1
        <5> QED
          BY <3>2, <4>1, <5>1, <5>2
      <4> QED
        BY <4>1, <4>3, <4>4
    <3>16. \A i \in Items(s) :
              \/ Item(s, i) \in F \cup L \cup {Null}
              \/ \E j \in Items(s)' : Item(s, j)' = Item(s, i)
      <4> SUFFICES ASSUME NEW i \in Items(s), i # 0, i # 1
                   PROVE  \E j \in Items(s)' : Item(s, j)' = Item(s, i)
        BY <3>5, <3>6
      <4>1. i - 1 \in 1..(n - 1) /\ (i - 1) + 1 = i
        BY <3>2, <3>4
      <4>2. i - 1 \in Items(s)' /\ Item(s, i - 1)' = Item(s, i)
        BY <3>2, <3>4, <4>1
      <4> QED
        BY <4>2
    <3>17. \A y \in Owners' : \A i \in Items(y)' :
              \/ Item(y, i)' = Null
              \/ /\ \E j \in Items(y) : Item(y, j) = Item(y, i)'
                 /\ Item(y, i)' \notin F \cup L
                 /\ \A j \in Items(y)' : Item(y, i)' = Item(y, j)' => i = j
      <4>1. \A y \in Owners : \A i, j \in Items(y) :
               Item(y, i) = Item(y, j) /\ Item(y, i) # Null => i = j
        BY DEF BuffersOwned, Owners
      <4> QED
        BY <2>3, <3>12, <3>13, <3>15, <4>1
    <3>18. \A y \in Owners : \A i \in Items(y) :
              \/ Item(y, i) \in F \cup L \cup {Null}
              \/ y \in Owners' /\ \E j \in Items(y)' : Item(y, j)' = Item(y, i)
      BY <2>3, <3>13, <3>16
    <3> QED
      <4>1. Owners' \subseteq Owners
        BY <2>3
      <4> QED
        BY <1>1, <3>8, <3>11, <3>17, <3>18, <4>1, Releases
  <2> QED
    BY <2>5, <2>6
<1> QED
  BY <1>2, <1>3, <1>4, <1>5, <1>6, <1>7, <1>8, <1>9, StepCases

-----------------------------------------------------------------------------
IInv == TypeOK /\ NextCurrent /\ QueueIsFifo /\ RegistryExact /\ BuffersOwned

\* Every conjunct is inductive with those before it.
LEMMA IInvCorrect == Spec => []IInv
<1>1. Init => IInv
  <2>1. Init => Opened = {} /\ registry.cells = <<>> /\ heap = {} /\ lost = {} /\ empty = {}
    BY NewLemma DEF Init, Opened
  <2>2. Init => TypeOK
    BY <2>1, NewLemma DEF Init, TypeOK
  <2>3. Init => NextCurrent /\ QueueIsFifo /\ BuffersOwned
    BY <2>1 DEF NextCurrent, QueueIsFifo, BuffersOwned
  <2>4. Init => RegistryExact
    BY <2>1 DEF RegistryExact
  <2> QED
    BY <2>2, <2>3, <2>4 DEF IInv
<1>2. IInv /\ [Next]_vars => IInv'
  <2> SUFFICES ASSUME IInv, [Next]_vars PROVE IInv'
    OBVIOUS
  <2>1. CASE Next
    BY <2>1, TypeStep, NextCurrentStep, QueueIsFifoStep, RegistryStep, OwnedStep DEF IInv
  <2>2. CASE UNCHANGED vars
    BY <2>2 DEF vars, IInv, TypeOK, NextCurrent, QueueIsFifo, RegistryExact, BuffersOwned,
                Opened, Items, Item
  <2> QED
    BY <2>1, <2>2
<1> QED
  BY <1>1, <1>2, PTL DEF Spec

\* The arrays keep to their memory, and a socket stream holds nothing but buffers.
THEOREM TypeCorrect == Spec => []TypeOK
  BY IInvCorrect, PTL DEF IInv

\* stream->next never points into a block that realloc has freed, nor behind the
\* first item of the queue (stream_queue_writing, stream_collect).
THEOREM NextIsCurrent == Spec => []NextCurrent
  BY IInvCorrect, PTL DEF IInv

\* u_queue is first in, first out through every growth and removal.
THEOREM QueuesAreFifo == Spec => []QueueIsFifo
  BY IInvCorrect, PTL DEF IInv

\* ep_ctx->stream_ptrs lists the open streams, each once, in whatever order they
\* were opened and closed (e_epoll_add_stream, e_epoll_remove_stream).
THEOREM RegistryIsExact == Spec => []RegistryExact
  BY IInvCorrect, PTL DEF IInv

\* No buffer is freed twice, used after it was freed, or held by two items; what
\* is lost is what a written item was collected over (stream_collect).
THEOREM BuffersAreOwned == Spec => []BuffersOwned
  BY IInvCorrect, PTL DEF IInv
=============================================================================
