--------------------------- MODULE RcnStreamProofs ---------------------------
(***************************************************************************)
(* Theorems about RcnStream, for every set of messages, every header and   *)
(* body length and any number of messages.                                 *)
(*                                                                         *)
(* The framing of the wire is not inductive by itself: a write appends the *)
(* bytes the head of the queue says are next, so the last byte written has *)
(* to be tied to the progress of that head (WireInv), the progress has to  *)
(* stay inside the item, and the items behind the head have to be numbered *)
(* as they were queued and untouched (QueueInv).                           *)
(***************************************************************************)
EXTENDS RcnStream, TLAPS, SequenceTheorems

Popped == Len(sent) - Len(queue)

\* bytes of the item that are on the wire
Done(item, size) ==
    IF item.state = "COMPLETE" THEN HeaderLen + size ELSE Offset(item)

\* the progress of an item with a body of that size
InsideItem(item, size) ==
    /\ item.state \in {"HEADER", "BODY", "COMPLETE"}
    /\ item.state = "HEADER" => item.streamed < HeaderLen
    /\ item.state = "BODY" => item.streamed < size
    /\ item.state = "COMPLETE" => item.streamed = 0

QueueInv ==
    /\ Len(queue) <= Len(sent)
    /\ \A i \in 1..Len(queue) : /\ queue[i].id = Popped + i
                                /\ queue[i].op = "WRITING"
                                /\ InsideItem(queue[i], BodyLen[sent[queue[i].id]])
    /\ \A i \in 2..Len(queue) : queue[i].state = "HEADER" /\ queue[i].streamed = 0

HeadDone == IF queue = <<>> THEN 0 ELSE Done(queue[1], BodyLen[sent[queue[1].id]])

WireInv ==
    IF HeadDone > 0
    THEN wire # <<>> /\ wire[Len(wire)] = [id |-> Popped + 1, pos |-> HeadDone]
    ELSE IF Popped > 0
         THEN wire # <<>> /\ wire[Len(wire)] = [id |-> Popped, pos |-> TotalLen(Popped)]
         ELSE wire = <<>>

OutInv == TypeOK /\ QueueInv /\ WireInv /\ ArmedForQueue /\ WriteFraming

-----------------------------------------------------------------------------
\* The bytes appended by a write keep their numbering.
LEMMA RunLemma ==
    ASSUME NEW id \in Nat, NEW from \in Nat, NEW k \in Nat
    PROVE  /\ Run(id, from, k) \in Seq(Bytes)
           /\ Len(Run(id, from, k)) = k
           /\ \A j \in 1..k : Run(id, from, k)[j] = [id |-> id, pos |-> from + j]
<1>1. Run(id, from, k) \in [1..k -> Bytes]
  BY DEF Run, Bytes
<1> QED
  BY <1>1 DEF Run

\* Streaming changes the progress of an item and nothing else of it.
LEMMA StreamedLemma ==
    ASSUME NEW item \in Items, NEW k \in Nat, NEW size
    PROVE  /\ Streamed(item, k, size) \in Items
           /\ Streamed(item, k, size).id = item.id
           /\ Streamed(item, k, size).op = item.op
<1>1. item.streamed + k \in Nat
  BY DEF Items
<1>2. CASE item.streamed + k < SizeTotal(item, size)
  <2>1. Streamed(item, k, size) = [item EXCEPT !.streamed = item.streamed + k]
    BY <1>2 DEF Streamed
  <2> QED
    BY <1>1, <2>1 DEF Items
<1>3. CASE ~(item.streamed + k < SizeTotal(item, size))
  <2> DEFINE s == IF item.state = "BODY" \/ size = 0 THEN "COMPLETE" ELSE "BODY"
  <2>1. Streamed(item, k, size) = [item EXCEPT !.streamed = 0, !.state = s]
    BY <1>3 DEF Streamed
  <2>2. s \in States
    BY DEF States
  <2>3. Streamed(item, k, size)
          = [op |-> item.op, state |-> s, streamed |-> 0, id |-> item.id]
    BY <2>1 DEF Items
  <2> HIDE DEF s
  <2> QED
    BY <2>2, <2>3 DEF Items
<1> QED
  BY <1>2, <1>3

\* A message keeps its length while others are queued behind it.
LEMMA TotalLenLemma ==
    ASSUME TypeOK, NEW id \in 1..Len(sent)
    PROVE  /\ BodyLen[sent[id]] \in Nat
           /\ TotalLen(id) \in Nat
           /\ TotalLen(id) = HeaderLen + BodyLen[sent[id]]
           /\ TotalLen(id) > 0
<1>1. sent[id] \in Msgs
  BY DEF TypeOK
<1> QED
  BY <1>1, HeaderLenAssumption, BodyLenAssumption DEF TotalLen

\* What is known of the head of a queue that is not empty.
LEMMA HeadLemma ==
    ASSUME OutInv, queue # <<>>
    PROVE  /\ Len(queue) \in Nat \ {0} /\ Len(sent) \in Nat /\ Popped \in Nat
           /\ queue[1] \in Items /\ InsideItem(queue[1], BodyLen[sent[queue[1].id]])
           /\ queue[1].id = Popped + 1 /\ queue[1].id \in 1..Len(sent)
           /\ queue[1].op = "WRITING"
           /\ SizeTotal(queue[1], BodyLen[sent[queue[1].id]]) \in Nat
<1>1. /\ Len(queue) \in Nat \ {0} /\ Len(sent) \in Nat /\ Len(queue) <= Len(sent)
      /\ queue[1] \in Items
  BY DEF OutInv, TypeOK, QueueInv
<1>2. Popped \in Nat /\ Popped + 1 \in 1..Len(sent)
  BY <1>1 DEF Popped
<1>3. queue[1].id = Popped + 1 /\ queue[1].op = "WRITING" /\ InsideItem(queue[1], BodyLen[sent[queue[1].id]])
  BY <1>1 DEF OutInv, QueueInv
<1>4. BodyLen[sent[queue[1].id]] \in Nat
  BY <1>2, <1>3, TotalLenLemma DEF OutInv
<1> QED
  BY <1>1, <1>2, <1>3, <1>4, HeaderLenAssumption DEF SizeTotal

\* What one write does: k >= 1 bytes of the head go out.
LEMMA WriteLemma ==
    ASSUME OutInv, StreamWrite
    PROVE  /\ queue # <<>> /\ next = "queue"
           /\ queue[1].state \in {"HEADER", "BODY"}
           /\ \E k \in Nat \ {0} :
                 LET item == queue[1]
                     size == BodyLen[sent[item.id]]
                 IN  /\ item.streamed + k <= SizeTotal(item, size)
                     /\ wire' = wire \o Run(item.id, Offset(item), k)
                     /\ queue' = [queue EXCEPT ![1] = Streamed(item, k, size)]
<1>1. queue # <<>> /\ next = "queue"
  BY DEF OutInv, ArmedForQueue, StreamWrite
<1>2. queue[1].state \in {"HEADER", "BODY"}
  BY <1>1, HeadLemma DEF StreamWrite, NextItem, InsideItem
<1> DEFINE item == queue[1]
           size == BodyLen[sent[item.id]]
<1>3. PICK k \in 1..(SizeTotal(item, size) - item.streamed) :
            /\ wire' = wire \o Run(item.id, Offset(item), k)
            /\ queue' = [queue EXCEPT ![1] = Streamed(item, k, size)]
  BY DEF StreamWrite
<1>4. item.streamed \in Nat /\ SizeTotal(item, size) \in Nat
  BY <1>1, HeadLemma DEF Items
<1>5. k \in Nat \ {0} /\ item.streamed + k <= SizeTotal(item, size)
  BY <1>4
<1> QED
  BY <1>1, <1>2, <1>3, <1>5

\* Every step keeps the variables in their types.
LEMMA TypeStep == OutInv /\ [Next]_vars => TypeOK'
<1> SUFFICES ASSUME OutInv, [Next]_vars PROVE TypeOK'
  OBVIOUS
<1> USE DEF TypeOK
<1>0. TypeOK
  BY DEF OutInv
<1>1. ASSUME NEW m \in Msgs, QueueWriting(m) PROVE TypeOK'
  <2>1. Len(sent) + 1 \in Nat
    BY <1>0
  <2>2. FreshItem("WRITING", Len(sent) + 1) \in Items
    BY <2>1 DEF FreshItem, Items, States
  <2>3. sent' \in Seq(Msgs) /\ queue' \in Seq(Items) /\ next' = "queue"
    BY <1>0, <1>1, <2>2 DEF QueueWriting
  <2>4. interest' \in {"EPOLLIN", "EPOLLOUT"}
    BY <1>1 DEF QueueWriting, Mask
  <2>5. overlap' \in BOOLEAN
    BY <1>0, <1>1 DEF QueueWriting, ReadUnderWay
  <2> QED
    BY <1>0, <1>1, <2>3, <2>4, <2>5 DEF QueueWriting, inVars
<1>2. ASSUME NEW m \in Msgs, PeerSends(m) PROVE TypeOK'
  <2>1. Len(offered) + 1 \in Nat /\ HeaderLen + BodyLen[m] \in Nat
    BY <1>0, HeaderLenAssumption, BodyLenAssumption
  <2>2. Whole(Len(offered) + 1, m) \in Seq(Bytes)
    BY <2>1, RunLemma DEF Whole
  <2>3. offered' \in Seq(Msgs)
    BY <1>0, <1>2 DEF PeerSends
  <2>4. inbox' \in Seq(Bytes)
    BY <1>0, <1>2, <2>2, ConcatProperties DEF PeerSends
  <2> QED
    BY <1>0, <1>2, <2>3, <2>4 DEF PeerSends, outVars
<1>3. CASE StreamWrite
  <2> DEFINE item == queue[1]
             size == BodyLen[sent[item.id]]
  <2>1. PICK k \in Nat \ {0} :
              /\ wire' = wire \o Run(item.id, Offset(item), k)
              /\ queue' = [queue EXCEPT ![1] = Streamed(item, k, size)]
    BY <1>3, WriteLemma
  <2>2. queue # <<>> /\ item \in Items
    BY <1>3, WriteLemma, HeadLemma
  <2>3. Streamed(item, k, size) \in Items
    BY <2>2, StreamedLemma
  <2>4. queue' \in Seq(Items)
    BY <1>0, <2>1, <2>2, <2>3
  <2>5. Offset(item) \in Nat /\ item.id \in Nat
    BY <2>2, HeaderLenAssumption DEF Items, Offset
  <2>6. wire' \in Seq(Bytes)
    BY <1>0, <2>1, <2>5, RunLemma, ConcatProperties
  <2> QED
    BY <1>0, <1>3, <2>4, <2>6 DEF StreamWrite, inVars
<1>4. CASE StreamRead
  <2>1. inbox[1] \in Bytes
    BY <1>0, <1>4 DEF StreamRead
  <2> DEFINE id == inbox[1].id
             size == BodyLen[offered[id]]
  <2>2. PICK k \in 1..Len(inbox) :
              /\ fallback' = [Streamed(fallback, k, size) EXCEPT !.id = id]
              /\ inbox' = SubSeq(inbox, k + 1, Len(inbox))
    BY <1>4 DEF StreamRead
  <2>3. id \in Nat /\ k \in Nat
    BY <1>0, <2>1 DEF Bytes
  <2>4. fallback' \in Items
    <3>1. Streamed(fallback, k, size) \in Items
      BY <1>0, <2>3, StreamedLemma
    <3> QED
      BY <3>1, <2>2, <2>3 DEF Items
  <2>5. inbox' \in Seq(Bytes)
    BY <1>0, <2>2
  <2> QED
    BY <1>0, <1>4, <2>4, <2>5 DEF StreamRead, outVars
<1>5. CASE StreamReadGarbled
  BY <1>0, <1>5 DEF StreamReadGarbled, outVars, inVars
<1>6. CASE StreamEof
  <2>1. fallback' \in Items
    BY <1>0, <1>6 DEF StreamEof, Items, States
  <2> QED
    BY <1>0, <1>6, <2>1 DEF StreamEof, outVars, inVars
<1>7. CASE StreamFails
  BY <1>0, <1>7 DEF StreamFails, outVars, inVars
<1>8. CASE ResolveIncomplete
  BY <1>0, <1>8 DEF ResolveIncomplete, outVars, inVars
<1>9. CASE ResolveClosed
  BY <1>0, <1>9 DEF ResolveClosed, outVars, inVars
<1>10. CASE ResolveWritten
  <2>1. queue # <<>> /\ queue[1] \in Items
    BY <1>10, HeadLemma DEF OutInv, ArmedForQueue, ResolveWritten
  <2>2. queue' \in Seq(Items)
    BY <1>0, <1>10, <2>1 DEF ResolveWritten
  <2>3. fallback' \in Items
    BY <1>10, <2>1 DEF ResolveWritten, Cleared, Items, States
  <2>4. next' \in {"queue", "fallback"} /\ interest' \in {"EPOLLIN", "EPOLLOUT"}
    BY <1>10 DEF ResolveWritten, Mask
  <2> QED
    BY <1>0, <1>10, <2>2, <2>3, <2>4 DEF ResolveWritten, inVars
<1>11. CASE ResolveRead
  <2>1. fallback' \in Items /\ interest' \in {"EPOLLIN", "EPOLLOUT"}
    BY <1>0, <1>11 DEF ResolveRead, Cleared, Items, States, Mask
  <2>2. handled' \in Seq(Nat)
    BY <1>0, <1>11 DEF ResolveRead, Items
  <2> QED
    BY <1>0, <1>11, <2>1, <2>2 DEF ResolveRead, outVars
<1>12. CASE PeerCloses
  BY <1>0, <1>12 DEF PeerCloses, outVars
<1>13. CASE UNCHANGED vars
  BY <1>0, <1>13 DEF vars
<1> QED
  BY <1>1, <1>2, <1>3, <1>4, <1>5, <1>6, <1>7, <1>8, <1>9, <1>10, <1>11, <1>12, <1>13
     DEF Next, Resolve

\* The steps that touch the outgoing side.
OutStep == (\E m \in Msgs : QueueWriting(m)) \/ StreamWrite \/ ResolveWritten

\* All others leave it alone.
LEMMA OtherStepsLemma ==
    ASSUME [Next]_vars, ~OutStep
    PROVE  UNCHANGED <<queue, sent, wire, next>>
<1>1. CASE StreamRead \/ StreamReadGarbled \/ StreamEof \/ StreamFails
  BY <1>1 DEF StreamRead, StreamReadGarbled, StreamEof, StreamFails, outVars
<1>2. CASE ResolveIncomplete \/ ResolveClosed \/ ResolveRead
  BY <1>2 DEF ResolveIncomplete, ResolveClosed, ResolveRead, outVars
<1>3. CASE PeerCloses \/ \E m \in Msgs : PeerSends(m)
  BY <1>3 DEF PeerCloses, PeerSends, outVars
<1>4. CASE UNCHANGED vars
  BY <1>4 DEF vars
<1> QED
  BY <1>1, <1>2, <1>3, <1>4 DEF Next, Resolve, OutStep

\* The queue stays numbered and only its head is ever in progress.
LEMMA QueueStep == OutInv /\ [Next]_vars => QueueInv'
<1> SUFFICES ASSUME OutInv, [Next]_vars PROVE QueueInv'
  OBVIOUS
<1>0. TypeOK /\ QueueInv
  BY DEF OutInv
<1>1. ASSUME NEW m \in Msgs, QueueWriting(m) PROVE QueueInv'
  <2> DEFINE new == FreshItem("WRITING", Len(sent) + 1)
  <2>1. sent' = Append(sent, m) /\ queue' = Append(queue, new)
    BY <1>1 DEF QueueWriting
  <2>2. /\ Len(queue) \in Nat /\ Len(sent) \in Nat /\ Len(queue) <= Len(sent)
        /\ Len(sent') = Len(sent) + 1 /\ Len(queue') = Len(queue) + 1
        /\ Popped' = Popped
    BY <1>0, <2>1 DEF TypeOK, QueueInv, Popped
  <2>3. \A i \in 1..Len(queue) : queue'[i] = queue[i]
    BY <1>0, <2>1 DEF TypeOK
  <2>4. queue'[Len(queue) + 1] = new
    BY <1>0, <2>1 DEF TypeOK
  <2>5. ASSUME NEW i \in 1..Len(queue)
        PROVE  /\ queue'[i].id = Popped' + i /\ queue'[i].op = "WRITING"
               /\ InsideItem(queue'[i], BodyLen[sent'[queue'[i].id]])
    <3>1. queue[i].id = Popped + i /\ queue[i].op = "WRITING" /\ InsideItem(queue[i], BodyLen[sent[queue[i].id]])
      BY <1>0 DEF QueueInv
    <3>2. queue[i].id \in 1..Len(sent)
      BY <3>1, <2>2 DEF Popped
    <3>3. sent'[queue[i].id] = sent[queue[i].id]
      BY <1>0, <2>1, <3>2 DEF TypeOK
    <3> QED
      BY <3>1, <3>3, <2>2, <2>3 DEF InsideItem
  <2>6. /\ new.id = Popped' + Len(queue) + 1 /\ new.op = "WRITING"
        /\ new.state = "HEADER" /\ new.streamed = 0 /\ InsideItem(new, BodyLen[sent'[new.id]])
    BY <2>2, HeaderLenAssumption DEF Popped, FreshItem, InsideItem
  <2>7. \A i \in 1..Len(queue') : i \in 1..Len(queue) \/ i = Len(queue) + 1
    BY <2>2
  <2>8. \A i \in 1..Len(queue') : /\ queue'[i].id = Popped' + i
                                  /\ queue'[i].op = "WRITING"
                                  /\ InsideItem(queue'[i], BodyLen[sent'[queue'[i].id]])
    <3> SUFFICES ASSUME NEW i \in 1..Len(queue')
                 PROVE  /\ queue'[i].id = Popped' + i
                        /\ queue'[i].op = "WRITING"
                        /\ InsideItem(queue'[i], BodyLen[sent'[queue'[i].id]])
      OBVIOUS
    <3>1. CASE i \in 1..Len(queue)
      BY <2>5, <3>1
    <3>2. CASE i = Len(queue) + 1
      <4>1. queue'[i] = new
        BY <2>4, <3>2
      <4> HIDE DEF new
      <4>2. Popped' + i = Popped' + Len(queue) + 1
        BY <2>2, <3>2 DEF Popped
      <4> QED
        BY <2>6, <4>1, <4>2
    <3> QED
      BY <2>7, <3>1, <3>2
  <2>9. \A i \in 2..Len(queue') : queue'[i].state = "HEADER" /\ queue'[i].streamed = 0
    BY <1>0, <2>2, <2>3, <2>4, <2>6, <2>7 DEF QueueInv
  <2> QED
    BY <2>2, <2>8, <2>9 DEF QueueInv
<1>2. CASE StreamWrite
  <2> DEFINE item == queue[1]
             size == BodyLen[sent[item.id]]
  <2>1. PICK k \in Nat \ {0} :
              /\ item.streamed + k <= SizeTotal(item, size)
              /\ queue' = [queue EXCEPT ![1] = Streamed(item, k, size)]
    BY <1>2, WriteLemma
  <2>2. /\ queue # <<>> /\ item \in Items /\ item.state \in {"HEADER", "BODY"}
        /\ item.id = Popped + 1 /\ item.id \in 1..Len(sent) /\ item.op = "WRITING"
    BY <1>2, WriteLemma, HeadLemma
  <2>3. sent' = sent
    BY <1>2 DEF StreamWrite
  <2>4. Len(queue') = Len(queue) /\ queue'[1] = Streamed(item, k, size)
    BY <1>0, <2>1, <2>2 DEF TypeOK
  <2>5. \A i \in 2..Len(queue) : queue'[i] = queue[i]
    BY <1>0, <2>1 DEF TypeOK
  <2>6. queue'[1].id = item.id /\ queue'[1].op = item.op
    BY <2>1, <2>2, <2>4, StreamedLemma
  <2>7. InsideItem(queue'[1], BodyLen[sent'[queue'[1].id]])
    <3>1. size \in Nat /\ item.streamed \in Nat /\ item.streamed + k \in Nat
      BY <1>0, <2>2, TotalLenLemma DEF Items
    <3>2. CASE item.streamed + k < SizeTotal(item, size)
      <4>1. Streamed(item, k, size) = [item EXCEPT !.streamed = item.streamed + k]
        BY <3>2 DEF Streamed
      <4>2. queue'[1].state = item.state /\ queue'[1].streamed = item.streamed + k
        BY <2>2, <2>4, <4>1 DEF Items
      <4> QED
        BY <2>2, <2>3, <2>6, <3>2, <4>2 DEF InsideItem, SizeTotal
    <3>3. CASE ~(item.streamed + k < SizeTotal(item, size))
      <4> DEFINE s == IF item.state = "BODY" \/ size = 0 THEN "COMPLETE" ELSE "BODY"
      <4>1. Streamed(item, k, size) = [item EXCEPT !.streamed = 0, !.state = s]
        BY <3>3 DEF Streamed
      <4>2. queue'[1].state = s /\ queue'[1].streamed = 0
        BY <2>2, <2>4, <4>1 DEF Items
      <4> QED
        BY <2>2, <2>3, <2>6, <3>1, <4>2, HeaderLenAssumption DEF InsideItem
    <3> QED
      BY <3>2, <3>3
  <2>8. Popped' = Popped
    BY <2>3, <2>4 DEF Popped
  <2>9. \A i \in 1..Len(queue') : /\ queue'[i].id = Popped' + i
                                  /\ queue'[i].op = "WRITING"
                                  /\ InsideItem(queue'[i], BodyLen[sent'[queue'[i].id]])
    <3>1. \A i \in 1..Len(queue') : i = 1 \/ i \in 2..Len(queue)
      BY <1>0, <2>4 DEF TypeOK
    <3>2. \A i \in 2..Len(queue) : i \in 1..Len(queue) /\ InsideItem(queue[i], BodyLen[sent[queue[i].id]])
      BY <1>0 DEF QueueInv, TypeOK
    <3> QED
      BY <1>0, <2>2, <2>3, <2>5, <2>6, <2>7, <2>8, <3>1, <3>2 DEF QueueInv, InsideItem
  <2> QED
    BY <1>0, <2>3, <2>4, <2>5, <2>9 DEF QueueInv
<1>3. CASE ResolveWritten
  <2>1. queue # <<>> /\ queue' = Tail(queue) /\ sent' = sent
    BY <1>3 DEF ResolveWritten, OutInv, ArmedForQueue
  <2>2. Len(queue) \in Nat \ {0} /\ Len(sent) \in Nat /\ Len(queue') = Len(queue) - 1
    BY <1>0, <2>1 DEF TypeOK
  <2>3. Popped' = Popped + 1
    BY <2>1, <2>2 DEF Popped
  <2>4. \A i \in 1..Len(queue') : queue'[i] = queue[i + 1] /\ i + 1 \in 2..Len(queue)
    BY <1>0, <2>1, <2>2 DEF TypeOK
  <2>5. \A i \in 2..Len(queue) : i \in 1..Len(queue)
    BY <2>2
  <2>6. Popped \in Nat
    BY <2>1, HeadLemma
  <2> QED
    BY <1>0, <2>1, <2>2, <2>3, <2>4, <2>5, <2>6 DEF QueueInv, InsideItem
<1>4. CASE ~OutStep
  <2>1. UNCHANGED <<queue, sent>>
    BY <1>4, OtherStepsLemma
  <2> QED
    BY <1>0, <2>1 DEF QueueInv, Popped, InsideItem
<1> QED
  BY <1>1, <1>2, <1>3, <1>4 DEF OutStep

\* EPOLLOUT is asked for exactly while something is queued.
LEMMA ArmedStep == OutInv /\ [Next]_vars => ArmedForQueue'
<1> SUFFICES ASSUME OutInv, [Next]_vars PROVE ArmedForQueue'
  OBVIOUS
<1>0. TypeOK /\ QueueInv /\ ArmedForQueue
  BY DEF OutInv
<1>1. ASSUME NEW m \in Msgs, QueueWriting(m) PROVE ArmedForQueue'
  <2>1. queue' # <<>> /\ queue'[1].op = "WRITING"
    <3>1. QueueInv' /\ TypeOK'
      BY QueueStep, TypeStep
    <3>2. Len(queue') = Len(queue) + 1 /\ Len(queue) \in Nat
      BY <1>0, <1>1 DEF TypeOK, QueueWriting
    <3> QED
      BY <3>1, <3>2 DEF QueueInv, TypeOK
  <2> QED
    BY <1>1, <2>1 DEF QueueWriting, ArmedForQueue, Mask
<1>2. CASE StreamWrite
  <2>1. queue # <<>>
    BY <1>2, WriteLemma
  <2>2. queue' # <<>> /\ next' = next /\ interest' = interest
    BY <1>0, <1>2, <2>1 DEF StreamWrite, TypeOK
  <2> QED
    BY <1>0, <2>1, <2>2 DEF ArmedForQueue
<1>3. CASE ResolveWritten
  <2>1. CASE queue' = <<>>
    BY <1>3, <2>1 DEF ResolveWritten, ArmedForQueue, Mask, Cleared
  <2>2. CASE queue' # <<>>
    <3>1. queue'[1].op = "WRITING"
      <4>1. QueueInv' /\ TypeOK'
        BY QueueStep, TypeStep
      <4>2. 1 \in 1..Len(queue')
        BY <2>2, <4>1 DEF TypeOK
      <4> QED
        BY <4>1, <4>2 DEF QueueInv
    <3> QED
      BY <1>3, <2>2, <3>1 DEF ResolveWritten, ArmedForQueue, Mask
  <2> QED
    BY <2>1, <2>2
<1>4. CASE ResolveRead
  BY <1>0, <1>4 DEF ResolveRead, ArmedForQueue, Mask, Cleared, outVars
<1>5. CASE ~OutStep /\ ~ResolveRead
  <2>1. UNCHANGED <<queue, next, interest>>
    <3>1. CASE UNCHANGED vars
      BY <3>1 DEF vars
    <3>2. CASE Next
      BY <1>5, <3>2 DEF Next, OutStep, Resolve, StreamRead, StreamReadGarbled,
         StreamEof, StreamFails, ResolveIncomplete, ResolveClosed, PeerCloses,
         PeerSends, outVars
    <3> QED
      BY <3>1, <3>2
  <2> QED
    BY <1>0, <2>1 DEF ArmedForQueue
<1> QED
  BY <1>1, <1>2, <1>3, <1>4, <1>5 DEF OutStep

-----------------------------------------------------------------------------
\* The bytes on the wire, and the head of the queue that says which is next.
LEMMA WireStep == OutInv /\ [Next]_vars => WireInv' /\ WriteFraming'
<1> SUFFICES ASSUME OutInv, [Next]_vars PROVE WireInv' /\ WriteFraming'
  OBVIOUS
<1>0. TypeOK /\ QueueInv /\ WireInv /\ WriteFraming /\ TypeOK' /\ QueueInv'
  BY TypeStep, QueueStep DEF OutInv
<1>1. ASSUME NEW m \in Msgs, QueueWriting(m) PROVE WireInv' /\ WriteFraming'
  <2>1. /\ sent' = Append(sent, m) /\ wire' = wire
        /\ queue' = Append(queue, FreshItem("WRITING", Len(sent) + 1))
    BY <1>1 DEF QueueWriting
  <2>2. Popped' = Popped /\ Len(sent) \in Nat /\ Len(sent') = Len(sent) + 1
    BY <1>0, <2>1 DEF TypeOK, Popped
  <2>3. \A id \in 1..Len(sent) : TotalLen(id)' = TotalLen(id)
    BY <1>0, <2>1 DEF TypeOK, TotalLen
  <2>4. HeadDone' = HeadDone
    <3>1. CASE queue = <<>>
      <4>1. queue'[1] = FreshItem("WRITING", Len(sent) + 1)
        BY <1>0, <2>1, <3>1 DEF TypeOK
      <4> QED
        BY <2>1, <3>1, <4>1 DEF HeadDone, Done, FreshItem, Offset
    <3>2. CASE queue # <<>>
      <4>1. queue'[1] = queue[1] /\ queue' # <<>>
        <5>1. FreshItem("WRITING", Len(sent) + 1) \in Items
          BY <2>2 DEF FreshItem, Items, States
        <5>2. queue \in Seq(Items) /\ Len(queue) > 0
          BY <1>0, <3>2 DEF TypeOK
        <5> QED
          BY <2>1, <5>1, <5>2
      <4>2. queue[1].id \in 1..Len(sent)
        BY <3>2, HeadLemma
      <4>3. sent'[queue[1].id] = sent[queue[1].id]
        BY <1>0, <2>1, <4>2 DEF TypeOK
      <4> QED
        BY <3>2, <4>1, <4>3 DEF HeadDone, Done, Offset
    <3> QED
      BY <3>1, <3>2
  <2>5. WireInv'
    <3>1. Popped > 0 => Popped \in 1..Len(sent)
      BY <1>0 DEF TypeOK, QueueInv, Popped
    <3> QED
      BY <1>0, <2>1, <2>2, <2>3, <2>4, <3>1 DEF WireInv
  <2>6. WriteFraming'
    <3>1. \A i \in 1..Len(wire) : wire[i].id \in 1..Len(sent) /\ wire[i].id \in 1..Len(sent')
      BY <1>0, <2>2 DEF WriteFraming
    <3>2. \A i \in 1..Len(wire) : i # 1 => i - 1 \in 1..Len(wire)
      BY <1>0 DEF TypeOK
    <3>3. \A i \in 1..Len(wire) : i # 1 => TotalLen(wire[i - 1].id)' = TotalLen(wire[i - 1].id)
      BY <2>1, <2>3, <3>1, <3>2
    <3> QED
      BY <1>0, <2>1, <3>1, <3>3 DEF WriteFraming, Follows
  <2> QED
    BY <2>5, <2>6
<1>2. CASE StreamWrite
  <2> DEFINE item == queue[1]
             size == BodyLen[sent[item.id]]
             off  == Offset(item)
             total == TotalLen(item.id)
  <2>1. PICK k \in Nat \ {0} :
              /\ item.streamed + k <= SizeTotal(item, size)
              /\ wire' = wire \o Run(item.id, off, k)
              /\ queue' = [queue EXCEPT ![1] = Streamed(item, k, size)]
    BY <1>2, WriteLemma
  <2>2. /\ queue # <<>> /\ item \in Items /\ item.state \in {"HEADER", "BODY"}
        /\ item.id = Popped + 1 /\ item.id \in 1..Len(sent) /\ Popped \in Nat
    BY <1>2, WriteLemma, HeadLemma
  <2>3. sent' = sent /\ Popped' = Popped
    BY <1>0, <1>2, <2>1 DEF StreamWrite, Popped, TypeOK
  <2>4. /\ size \in Nat /\ total \in Nat /\ total = HeaderLen + size
        /\ off \in Nat /\ off + k <= total /\ HeaderLen \in Nat \ {0}
        /\ item.streamed \in Nat
    <3>1. size \in Nat /\ total \in Nat /\ total = HeaderLen + size
      BY <1>0, <2>2, TotalLenLemma
    <3>2. item.streamed \in Nat /\ HeaderLen \in Nat \ {0}
      BY <2>2, HeaderLenAssumption DEF Items
    <3> HIDE DEF size, total
    <3> QED
      BY <2>1, <2>2, <3>1, <3>2 DEF Offset, SizeTotal
  <2>5. HeadDone = off
    BY <2>2 DEF HeadDone, Done
  <2>6. /\ Len(wire) \in Nat /\ Len(wire') = Len(wire) + k
        /\ \A i \in 1..Len(wire) : wire'[i] = wire[i]
        /\ \A j \in 1..k : wire'[Len(wire) + j] = [id |-> item.id, pos |-> off + j]
    <3>1. item.id \in Nat
      BY <2>2
    <3> HIDE DEF off
    <3>2. /\ Run(item.id, off, k) \in Seq(Bytes) /\ Len(Run(item.id, off, k)) = k
          /\ \A j \in 1..k : Run(item.id, off, k)[j] = [id |-> item.id, pos |-> off + j]
      BY <2>4, <3>1, RunLemma
    <3> DEFINE run == Run(item.id, off, k)
    <3> HIDE DEF run
    <3>3. wire \in Seq(Bytes) /\ run \in Seq(Bytes) /\ wire' = wire \o run /\ Len(run) = k
      BY <1>0, <2>1, <3>2 DEF TypeOK, run
    <3>4. /\ Len(wire') = Len(wire) + k
          /\ \A i \in 1..Len(wire) + k :
                wire'[i] = IF i <= Len(wire) THEN wire[i] ELSE run[i - Len(wire)]
      BY <3>3, ConcatProperties
    <3>5. \A j \in 1..k : wire'[Len(wire) + j] = run[j]
      BY <3>3, <3>4
    <3> QED
      BY <3>2, <3>3, <3>4, <3>5 DEF run
  <2>7. HeadDone' = off + k
    <3>1. queue'[1] = Streamed(item, k, size) /\ queue' # <<>>
      BY <1>0, <2>1, <2>2 DEF TypeOK
    <3>2. queue'[1].id = item.id
      <4>1. item \in Items /\ k \in Nat
        BY <2>2
      <4> HIDE DEF item, size
      <4>2. Streamed(item, k, size).id = item.id
        BY <4>1, StreamedLemma
      <4> QED
        BY <3>1, <4>2
    <3>3. Done(queue'[1], size) = off + k
      <4>1. CASE item.streamed + k < SizeTotal(item, size)
        <5>1. Streamed(item, k, size) = [item EXCEPT !.streamed = item.streamed + k]
          BY <4>1 DEF Streamed
        <5>2. queue'[1].state = item.state /\ queue'[1].streamed = item.streamed + k
          BY <2>2, <3>1, <5>1 DEF Items
        <5> QED
          BY <2>2, <2>4, <5>2 DEF Done, Offset
      <4>2. CASE item.streamed + k = SizeTotal(item, size)
        <5> DEFINE s == IF item.state = "BODY" \/ size = 0 THEN "COMPLETE" ELSE "BODY"
        <5>1. Streamed(item, k, size) = [item EXCEPT !.streamed = 0, !.state = s]
          BY <2>4, <4>2 DEF Streamed, SizeTotal
        <5>2. queue'[1].state = s /\ queue'[1].streamed = 0
          BY <2>2, <3>1, <5>1 DEF Items
        <5>3. CASE item.state = "BODY"
          BY <2>4, <4>2, <5>2, <5>3 DEF Done, Offset, SizeTotal
        <5>4. CASE item.state = "HEADER"
          BY <2>4, <4>2, <5>2, <5>4 DEF Done, Offset, SizeTotal
        <5> QED
          BY <2>2, <5>3, <5>4
      <4>3. SizeTotal(item, size) \in Nat /\ item.streamed + k \in Nat
        BY <2>4 DEF SizeTotal
      <4> HIDE DEF size, off
      <4> QED
        BY <2>1, <4>1, <4>2, <4>3
    <3> QED
      BY <2>3, <3>1, <3>2, <3>3 DEF HeadDone
  <2>8. WireInv'
    <3> HIDE DEF off, total, size
    <3>1. wire'[Len(wire')] = [id |-> item.id, pos |-> off + k]
      BY <2>6
    <3>2. wire' # <<>>
      BY <1>0, <2>6 DEF TypeOK
    <3> QED
      BY <2>2, <2>3, <2>4, <2>7, <3>1, <3>2 DEF WireInv
  <2>9. WriteFraming'
    <3> SUFFICES ASSUME NEW i \in 1..Len(wire')
                 PROVE  /\ wire'[i].id \in 1..Len(sent)
                        /\ IF i = 1 THEN wire'[i] = [id |-> 1, pos |-> 1]
                                    ELSE Follows(wire'[i - 1], wire'[i])
      BY <2>3 DEF WriteFraming, Follows, TotalLen
    <3>1. CASE i \in 1..Len(wire)
      <4>1. i # 1 => i - 1 \in 1..Len(wire)
        BY <2>6, <3>1
      <4> QED
        BY <1>0, <2>6, <3>1, <4>1 DEF WriteFraming
    <3>2. CASE i = Len(wire) + 1
      <4>1. wire'[i] = [id |-> item.id, pos |-> off + 1] /\ item.id \in 1..Len(sent)
        BY <2>2, <2>6, <3>2
      <4> HIDE DEF off, total, size
      <4>2. CASE off > 0
        <5>1. wire # <<>> /\ wire[Len(wire)] = [id |-> item.id, pos |-> off]
          BY <1>0, <2>2, <2>5, <4>2 DEF WireInv
        <5>2. Len(wire) \in Nat \ {0}
          BY <1>0, <5>1 DEF TypeOK
        <5>3. i # 1 /\ wire'[i - 1] = [id |-> item.id, pos |-> off] /\ off < TotalLen(item.id)
          BY <2>4, <2>6, <3>2, <5>1, <5>2 DEF total
        <5> QED
          BY <4>1, <5>3 DEF Follows
      <4>3. CASE off = 0 /\ Popped > 0
        <5>1. wire # <<>> /\ wire[Len(wire)] = [id |-> Popped, pos |-> TotalLen(Popped)]
          BY <1>0, <2>5, <4>3 DEF WireInv
        <5>2. Len(wire) \in Nat \ {0}
          BY <1>0, <5>1 DEF TypeOK
        <5>3. i # 1 /\ wire'[i - 1] = [id |-> Popped, pos |-> TotalLen(Popped)]
          BY <2>6, <3>2, <5>1, <5>2
        <5>4. ~(TotalLen(Popped) < TotalLen(Popped))
          BY <1>0, <2>2, <4>3, TotalLenLemma
        <5> QED
          BY <2>2, <4>1, <4>3, <5>3, <5>4 DEF Follows
      <4>4. CASE off = 0 /\ Popped = 0
        <5>1. wire = <<>>
          BY <1>0, <2>5, <4>4 DEF WireInv
        <5>2. i = 1
          BY <3>2, <5>1
        <5> QED
          BY <2>2, <4>1, <4>4, <5>2
      <4> QED
        BY <2>2, <2>4, <4>2, <4>3, <4>4
    <3>3. CASE i > Len(wire) + 1
      <4> HIDE DEF off, total, size
      <4> DEFINE j == i - Len(wire)
      <4>1. j \in 2..k /\ j - 1 \in 1..k
        BY <2>6, <3>3
      <4>2. i = Len(wire) + j /\ i - 1 = Len(wire) + (j - 1) /\ i # 1
        BY <2>6, <3>3
      <4> HIDE DEF j
      <4>3. wire'[i] = [id |-> item.id, pos |-> off + j]
        BY <2>6, <4>1, <4>2
      <4>4. wire'[i - 1] = [id |-> item.id, pos |-> off + (j - 1)]
        BY <2>6, <4>1, <4>2
      <4>5. off + (j - 1) < TotalLen(item.id) /\ off + (j - 1) + 1 = off + j
        BY <2>4, <4>1 DEF total
      <4> QED
        BY <2>2, <4>2, <4>3, <4>4, <4>5 DEF Follows
    <3> QED
      BY <2>6, <3>1, <3>2, <3>3
  <2> QED
    BY <2>8, <2>9
<1>3. CASE ResolveWritten
  <2>1. /\ queue # <<>> /\ queue' = Tail(queue) /\ sent' = sent /\ wire' = wire
        /\ queue[1].state = "COMPLETE"
    BY <1>3 DEF ResolveWritten, OutInv, ArmedForQueue
  <2>2. /\ queue[1].id = Popped + 1 /\ Popped \in Nat /\ Popped + 1 \in 1..Len(sent)
    BY <2>1, HeadLemma
  <2>3. HeadDone = TotalLen(Popped + 1) /\ HeadDone > 0
    BY <1>0, <2>1, <2>2, TotalLenLemma DEF HeadDone, Done
  <2>4. Popped' = Popped + 1
    BY <1>0, <2>1 DEF Popped, TypeOK
  <2>5. HeadDone' = 0
    <3>1. CASE queue' = <<>>
      BY <3>1 DEF HeadDone
    <3>2. CASE queue' # <<>>
      <4>1. queue'[1] = queue[2] /\ 2 \in 2..Len(queue)
        BY <1>0, <2>1, <3>2 DEF TypeOK
      <4>2. queue[2].state = "HEADER" /\ queue[2].streamed = 0
        BY <1>0, <4>1 DEF QueueInv
      <4> QED
        BY <3>2, <4>1, <4>2 DEF HeadDone, Done, Offset
    <3> QED
      BY <3>1, <3>2
  <2>6. WireInv'
    BY <1>0, <2>1, <2>2, <2>3, <2>4, <2>5 DEF WireInv, TotalLen
  <2>7. WriteFraming'
    BY <1>0, <2>1 DEF WriteFraming, Follows, TotalLen
  <2> QED
    BY <2>6, <2>7
<1>4. CASE ~OutStep
  <2>1. UNCHANGED <<queue, sent, wire>>
    BY <1>4, OtherStepsLemma
  <2> QED
    BY <1>0, <2>1 DEF WireInv, HeadDone, Done, Popped, TotalLen, Offset, WriteFraming, Follows
<1> QED
  BY <1>1, <1>2, <1>3, <1>4 DEF OutStep

-----------------------------------------------------------------------------
\* the invariant of the writing side holds at the beginning
LEMMA OutInit == Init => OutInv
<1> SUFFICES ASSUME Init PROVE OutInv
  OBVIOUS
<1>1. TypeOK
  <2>1. fallback \in Items
    BY DEF Init, FreshItem, Items, States
  <2>2. \A S : <<>> \in Seq(S)
    BY EmptySeq
  <2> QED
    BY <2>1, <2>2 DEF Init, TypeOK
<1>2. QueueInv /\ WireInv /\ ArmedForQueue /\ WriteFraming
  BY DEF Init, QueueInv, WireInv, HeadDone, Popped, ArmedForQueue, WriteFraming
<1> QED
  BY <1>1, <1>2 DEF OutInv

\* The outgoing side stays consistent for ever.
THEOREM OutInvariant == Spec => []OutInv
<1>1. Init => OutInv
  BY OutInit
<1>2. OutInv /\ [Next]_vars => OutInv'
  BY TypeStep, QueueStep, ArmedStep, WireStep DEF OutInv
<1> QED
  BY <1>1, <1>2, PTL DEF Spec

\* Every variable keeps its type.
THEOREM TypeCorrect == Spec => []TypeOK
<1>1. OutInv => TypeOK
  BY DEF OutInv
<1> QED
  BY <1>1, OutInvariant, PTL

\* Whatever is queued and whenever, and however the kernel cuts the writes, the
\* other end can parse the stream: whole messages, in the order of queueing.
THEOREM WritesAreFramed == Spec => []WriteFraming
<1>1. OutInv => WriteFraming
  BY DEF OutInv
<1> QED
  BY <1>1, OutInvariant, PTL

\* No queued message is ever left without EPOLLOUT, and no stream with an empty
\* queue asks for it.
THEOREM StreamArmed == Spec => []ArmedForQueue
<1>1. OutInv => ArmedForQueue
  BY DEF OutInv
<1> QED
  BY <1>1, OutInvariant, PTL

\* The CHECK at the head of stream_stream never fires: between dispatch and
\* resolve other handlers may move `next` away from a complete item, but never
\* onto one that the following dispatch would stream again.
THEOREM NoItemRestreamed == Spec => []NeverRestreamed
<1>1. Init => NeverRestreamed
  BY DEF Init, NeverRestreamed, NextItem, FreshItem
<1>2. OutInv /\ NeverRestreamed /\ [Next]_vars => NeverRestreamed'
  <2> SUFFICES ASSUME OutInv, NeverRestreamed, [Next]_vars, phase' = "waiting"
               PROVE  NextItem'.state # "COMPLETE"
    BY DEF NeverRestreamed
  <2>0. TypeOK /\ QueueInv /\ ArmedForQueue /\ ArmedForQueue'
    BY ArmedStep DEF OutInv
  <2>1. ASSUME NEW m \in Msgs, QueueWriting(m) PROVE NextItem'.state # "COMPLETE"
    <3>1. phase = "waiting" /\ next' = "queue"
      BY <2>1 DEF QueueWriting
    <3>2. queue'[1] = IF queue = <<>> THEN FreshItem("WRITING", Len(sent) + 1) ELSE queue[1]
      <4>1. FreshItem("WRITING", Len(sent) + 1) \in Items
        BY <2>0 DEF FreshItem, Items, States, TypeOK
      <4>2. queue' = Append(queue, FreshItem("WRITING", Len(sent) + 1)) /\ queue \in Seq(Items)
        BY <2>0, <2>1 DEF QueueWriting, TypeOK
      <4> QED
        BY <4>1, <4>2
    <3> QED
      BY <2>0, <3>1, <3>2 DEF NeverRestreamed, NextItem, ArmedForQueue, FreshItem
  <2>2. CASE StreamWrite \/ StreamRead \/ StreamReadGarbled \/ StreamEof \/ StreamFails
    BY <2>2 DEF StreamWrite, StreamRead, StreamReadGarbled, StreamEof, StreamFails
  <2>3. CASE ResolveIncomplete
    BY <2>3 DEF ResolveIncomplete, NextItem, outVars
  <2>4. CASE ResolveClosed
    BY <2>4 DEF ResolveClosed
  <2>5. CASE ResolveWritten
    <3>1. CASE queue' = <<>>
      BY <2>5, <3>1 DEF ResolveWritten, NextItem, Cleared
    <3>2. CASE queue' # <<>>
      <4>1. queue'[1] = queue[2] /\ 2 \in 2..Len(queue)
        BY <2>0, <2>5, <3>2 DEF ResolveWritten, TypeOK, ArmedForQueue
      <4> QED
        BY <2>0, <2>5, <3>2, <4>1 DEF ResolveWritten, NextItem, QueueInv
    <3> QED
      BY <3>1, <3>2
  <2>6. CASE ResolveRead
    BY <2>6 DEF ResolveRead, NextItem, Cleared
  <2>7. CASE PeerCloses \/ \E m \in Msgs : PeerSends(m)
    BY <2>7 DEF PeerCloses, PeerSends, NeverRestreamed, NextItem, outVars
  <2>8. CASE UNCHANGED vars
    BY <2>8 DEF vars, NeverRestreamed, NextItem
  <2> QED
    BY <2>1, <2>2, <2>3, <2>4, <2>5, <2>6, <2>7, <2>8 DEF Next, Resolve
<1> QED
  BY <1>1, <1>2, OutInvariant, PTL DEF Spec

-----------------------------------------------------------------------------
(* The stream implements MessageQueue. *)

HeadComplete == queue # <<>> /\ queue[1].state = "COMPLETE"

CountInv ==
    /\ WrittenCount = IF HeadComplete THEN Popped + 1 ELSE Popped
    /\ WrittenCount \in 0..Len(sent)

\* The messages that are whole on the wire: the ones popped, and the head.
LEMMA WrittenCountLemma == ASSUME OutInv PROVE CountInv
<1> USE DEF CountInv
<1>0. TypeOK /\ QueueInv /\ WireInv
  BY DEF OutInv
<1>1. Popped \in Nat /\ Len(sent) \in Nat /\ Popped <= Len(sent)
  BY <1>0 DEF TypeOK, QueueInv, Popped
<1>2. CASE HeadDone > 0
  <2>1. queue # <<>>
    BY <1>2 DEF HeadDone
  <2>2. /\ wire # <<>> /\ wire[Len(wire)] = [id |-> Popped + 1, pos |-> HeadDone]
    BY <1>0, <1>2 DEF WireInv
  <2>3. Popped + 1 \in 1..Len(sent) /\ queue[1].id = Popped + 1
    BY <2>1, HeadLemma
  <2>4. HeadDone = TotalLen(Popped + 1) <=> HeadComplete
    <3> DEFINE size == BodyLen[sent[queue[1].id]]
    <3>1. /\ size \in Nat /\ TotalLen(Popped + 1) = HeaderLen + size
          /\ queue[1].streamed \in Nat /\ InsideItem(queue[1], size)
      BY <1>0, <2>1, <2>3, HeadLemma, TotalLenLemma DEF Items
    <3> HIDE DEF size
    <3>2. HeadDone = Done(queue[1], size)
      BY <2>1 DEF HeadDone, size
    <3> QED
      BY <2>1, <3>1, <3>2, HeaderLenAssumption DEF Done, Offset, InsideItem, HeadComplete
  <2> QED
    BY <1>1, <2>2, <2>3, <2>4 DEF WrittenCount
<1>3. CASE ~(HeadDone > 0)
  <2>1. ~HeadComplete
    BY <1>0, <1>3, HeadLemma, TotalLenLemma, HeaderLenAssumption
       DEF HeadDone, Done, HeadComplete, TotalLen
  <2>2. WrittenCount = Popped
    <3>1. CASE Popped > 0
      <4>1. wire # <<>> /\ wire[Len(wire)] = [id |-> Popped, pos |-> TotalLen(Popped)]
        BY <1>0, <1>3, <3>1 DEF WireInv
      <4> QED
        BY <4>1 DEF WrittenCount
    <3>2. CASE Popped = 0
      BY <1>0, <1>3, <3>2 DEF WireInv, WrittenCount
    <3> QED
      BY <1>1, <3>1, <3>2
  <2> QED
    BY <1>1, <2>1, <2>2
<1> QED
  BY <1>2, <1>3

\* Every behaviour of the stream is one of the queue of messages that its users
\* count on: nothing is lost, repeated, reordered or cut on the way out.
THEOREM StreamImplementsQueue == Spec => ImplementsQueue
<1> DEFINE received == SubSeq(sent, 1, WrittenCount)
<1>1. Init => Queue!Init
  BY DEF Init, Queue!Init, WrittenCount
<1>2. OutInv => CountInv
  BY WrittenCountLemma
<1>3. OutInv /\ CountInv /\ CountInv' /\ [Next]_vars => [Queue!Next]_<<sent, received>>
  <2> SUFFICES ASSUME OutInv, CountInv, CountInv', [Next]_vars
               PROVE  [Queue!Next]_<<sent, received>>
    OBVIOUS
  <2>0. TypeOK /\ QueueInv /\ sent \in Seq(Msgs) /\ Len(sent) \in Nat
    BY DEF OutInv, TypeOK
  <2>1. ASSUME NEW m \in Msgs, QueueWriting(m) PROVE Queue!Push(m)
    <3>1. sent' = Append(sent, m) /\ queue' = Append(queue, FreshItem("WRITING", Len(sent) + 1))
      BY <2>1 DEF QueueWriting
    <3>2. WrittenCount' = WrittenCount
      <4>1. wire' = wire /\ \A id \in 1..Len(sent) : TotalLen(id)' = TotalLen(id)
        BY <2>0, <2>1, <3>1 DEF QueueWriting, TotalLen
      <4>2. wire # <<>> => wire[Len(wire)].id \in 1..Len(sent)
        BY <2>0 DEF OutInv, WriteFraming, TypeOK
      <4> QED
        BY <4>1, <4>2 DEF WrittenCount, TotalLen
    <3>3. SubSeq(sent', 1, WrittenCount) = SubSeq(sent, 1, WrittenCount)
      BY <2>0, <3>1 DEF CountInv
    <3> QED
      BY <3>1, <3>2, <3>3 DEF Queue!Push
  <2>2. CASE StreamWrite
    <3>1. sent' = sent /\ ~HeadComplete /\ Popped' = Popped /\ Popped \in Nat
      <4>1. queue # <<>> /\ queue[1].state \in {"HEADER", "BODY"} /\ Popped \in Nat
        BY <2>2, WriteLemma, HeadLemma
      <4>2. PICK item : queue' = [queue EXCEPT ![1] = item]
        BY <2>2, WriteLemma
      <4>3. Len(queue') = Len(queue)
        BY <2>0, <4>2 DEF TypeOK
      <4> QED
        BY <2>2, <4>1, <4>3 DEF StreamWrite, HeadComplete, Popped
    <3>2. WrittenCount = Popped /\ WrittenCount \in 0..Len(sent)
      BY <3>1 DEF CountInv
    <3>3. CASE HeadComplete'
      <4>1. WrittenCount' = WrittenCount + 1 /\ WrittenCount + 1 \in 1..Len(sent)
        BY <3>1, <3>2, <3>3 DEF CountInv
      <4>2. SubSeq(sent, 1, WrittenCount + 1)
              = Append(SubSeq(sent, 1, WrittenCount), sent[WrittenCount + 1])
        BY <2>0, <3>2, <4>1
      <4>3. Len(SubSeq(sent, 1, WrittenCount)) = WrittenCount
        BY <2>0, <3>2
      <4>4. Len(received) < Len(sent)
        BY <2>0, <4>1, <4>3, <3>2
      <4>5. received' = Append(received, sent[Len(received) + 1])
        BY <3>1, <4>1, <4>2, <4>3
      <4>6. Queue!Deliver
        BY <3>1, <4>4, <4>5 DEF Queue!Deliver
      <4> QED
        BY <4>6 DEF Queue!Next
    <3>4. CASE ~HeadComplete'
      BY <3>1, <3>2, <3>4 DEF CountInv
    <3> QED
      BY <3>3, <3>4
  <2>3. CASE ResolveWritten
    <3>1. HeadComplete /\ Popped' = Popped + 1 /\ sent' = sent /\ Popped \in Nat
      BY <2>0, <2>3, HeadLemma
         DEF ResolveWritten, HeadComplete, Popped, OutInv, ArmedForQueue, TypeOK
    <3>2. ~HeadComplete'
      <4>1. CASE queue' # <<>>
        <5>1. queue'[1] = queue[2] /\ 2 \in 2..Len(queue)
          BY <2>0, <2>3, <4>1 DEF ResolveWritten, TypeOK, OutInv, ArmedForQueue
        <5> QED
          BY <2>0, <5>1 DEF QueueInv, HeadComplete
      <4> QED
        BY <4>1 DEF HeadComplete
    <3> QED
      BY <3>1, <3>2 DEF CountInv
  <2>4. CASE ~OutStep
    <3>1. UNCHANGED <<queue, sent, wire>>
      BY <2>4, OtherStepsLemma
    <3> QED
      BY <3>1 DEF WrittenCount, TotalLen
  <2> QED
    BY <2>1, <2>2, <2>3, <2>4 DEF OutStep, Queue!Next
<1> QED
  BY <1>1, <1>2, <1>3, OutInvariant, PTL DEF Spec, ImplementsQueue, Queue!Spec

-----------------------------------------------------------------------------
(* The reading side: messages are handled in the order of sending, and all *)
(* of them as long as no write overlaps a read.                            *)
(*                                                                         *)
(* Neither is inductive.  What a read takes for a header is one because of *)
(* what lies in the socket (InboxInv) and of where the item under way      *)
(* stands in it (FallbackInv); what is handled is tied to both by          *)
(* HandledInv, and exactly so, unless a read was overwritten, by ExactInv. *)

\* length of the message of that number among those of the other end
InLen(s, id) == HeaderLen + BodyLen[s[id]]

\* from the i-th byte of q on: the rest of its message, then the next message,
\* unless it is the last
OrderlyFrom(q, s, i) ==
    LET id   == q[i].id
        pos  == q[i].pos
        rest == InLen(s, id) - pos
    IN  /\ id \in 1..Len(s) /\ pos \in 1..InLen(s, id)
        /\ i + rest <= Len(q)
        /\ \A n \in 0..rest : q[i + n] = [id |-> id, pos |-> pos + n]
        /\ i + rest < Len(q) => q[i + rest + 1] = [id |-> id + 1, pos |-> 1]
        /\ i + rest = Len(q) => id = Len(s)

\* What has arrived and is not read yet is the rest of a message and whole
\* messages behind it, in the order of sending, up to the last one.
InboxInv == \A i \in 1..Len(inbox) : OrderlyFrom(inbox, offered, i)

\* everything up to message n is read, and nothing behind it
ReadUpTo(n) ==
    IF inbox = <<>> THEN n = Len(offered) ELSE inbox[1] = [id |-> n + 1, pos |-> 1]

\* the fallback has not begun a message, or is in the middle of one
Fresh   == fallback.state = "HEADER" /\ fallback.streamed = 0
Partial == fallback.state \in {"HEADER", "BODY"} /\ ~Fresh

\* A message under way goes on where the socket does, one that is complete is the last
\* one read, and the end of file lies behind all of them.
FallbackInv ==
    /\ fallback.op = "READING"
    /\ fallback.state = "HEADER" => fallback.streamed < HeaderLen
    /\ Partial => /\ inbox # <<>> /\ inbox[1] = [id |-> fallback.id, pos |-> Offset(fallback) + 1]
    /\ fallback.state = "COMPLETE" => fallback.id \in 1..Len(offered) /\ ReadUpTo(fallback.id)
    /\ fallback.state = "CLOSED" => inbox = <<>> /\ ~peerOpen

\* What was handled was sent, and before all that is still to be handled.
HandledInv ==
    \A i \in 1..Len(handled) :
        /\ handled[i] \in 1..Len(offered)
        /\ inbox # <<>> => handled[i] < inbox[1].id
        /\ fallback.state = "COMPLETE" => handled[i] < fallback.id

\* No write having overlapped a read, exactly the messages before the one under way, or
\* before the next, are handled, and while something is to be written none is under way.
ExactInv ==
    ~overlap =>
        /\ phase # "garbled"
        /\ \A i \in 1..Len(handled) : handled[i] = i
        /\ queue # <<>> => Fresh
        /\ Fresh => ReadUpTo(Len(handled))
        /\ Partial \/ fallback.state = "COMPLETE" => fallback.id = Len(handled) + 1

InInv == InboxInv /\ FallbackInv /\ HandledInv /\ HandledInOrder /\ ExactInv

-----------------------------------------------------------------------------
(* What lies in the socket *)

\* a message of the other end has a length
LEMMA InLenLemma ==
    ASSUME NEW s \in Seq(Msgs), NEW id \in 1..Len(s)
    PROVE  BodyLen[s[id]] \in Nat /\ InLen(s, id) \in Nat \ {0}
<1>1. s[id] \in Msgs
  OBVIOUS
<1> QED
  BY <1>1, HeaderLenAssumption, BodyLenAssumption DEF InLen

\* bytes that are orderly stay so when those before them are read
LEMMA ShiftLemma ==
    ASSUME NEW q \in Seq(Bytes), NEW s \in Seq(Msgs), NEW r \in Seq(Bytes),
           NEW k \in Nat, NEW i \in 1..Len(r), Len(q) = Len(r) + k,
           \A j \in 1..Len(r) : r[j] = q[j + k],
           OrderlyFrom(q, s, i + k)
    PROVE  OrderlyFrom(r, s, i)
<1> DEFINE id == q[i + k].id
           pos == q[i + k].pos
           rest == InLen(s, id) - pos
<1>1. /\ id \in 1..Len(s) /\ pos \in 1..InLen(s, id)
      /\ i + k + rest <= Len(q)
      /\ \A n \in 0..rest : q[i + k + n] = [id |-> id, pos |-> pos + n]
      /\ i + k + rest < Len(q) => q[i + k + rest + 1] = [id |-> id + 1, pos |-> 1]
      /\ i + k + rest = Len(q) => id = Len(s)
  BY DEF OrderlyFrom
<1>2. rest \in Nat
  BY <1>1, InLenLemma
<1>3. r[i].id = id /\ r[i].pos = pos
  OBVIOUS
<1>4. Len(q) \in Nat /\ Len(r) \in Nat /\ i \in Nat
  OBVIOUS
<1>5. rest = InLen(s, id) - pos
  OBVIOUS
<1> HIDE DEF rest, id, pos
<1>6. i + rest <= Len(r)
  <2>1. i + k + rest <= Len(q)
    BY <1>1
  <2> QED
    BY <1>2, <1>4, <2>1
<1>7. ASSUME NEW n \in 0..rest PROVE r[i + n] = [id |-> id, pos |-> pos + n]
  <2>1. i + n \in 1..Len(r) /\ (i + n) + k = i + k + n
    BY <1>2, <1>4, <1>6
  <2> QED
    BY <1>1, <2>1
<1>8. ASSUME i + rest < Len(r) PROVE r[i + rest + 1] = [id |-> id + 1, pos |-> 1]
  <2>1. /\ i + rest + 1 \in 1..Len(r) /\ (i + rest + 1) + k = i + k + rest + 1
        /\ i + k + rest < Len(q)
    BY <1>2, <1>4, <1>8
  <2> QED
    BY <1>1, <2>1
<1>9. ASSUME i + rest = Len(r) PROVE id = Len(s)
  <2>1. i + k + rest = Len(q)
    <3>1. Len(q) = (i + rest) + k
      BY <1>9
    <3>2. (i + rest) + k = i + k + rest
      BY <1>2, <1>4
    <3> QED
      BY <3>1, <3>2
  <2> QED
    BY <1>1, <2>1
<1> QED
  BY <1>1, <1>3, <1>5, <1>6, <1>7, <1>8, <1>9 DEF OrderlyFrom

\* what is left in the socket when k bytes are read
LEMMA RestLemma ==
    ASSUME TypeOK, InboxInv, NEW k \in 1..Len(inbox),
           inbox' = SubSeq(inbox, k + 1, Len(inbox)), offered' = offered
    PROVE  /\ InboxInv' /\ Len(inbox') = Len(inbox) - k
           /\ \A i \in 1..(Len(inbox) - k) : inbox'[i] = inbox[i + k]
<1>1. inbox \in Seq(Bytes) /\ Len(inbox) \in Nat /\ k \in Nat /\ offered \in Seq(Msgs)
  BY DEF TypeOK
<1>2. /\ inbox' \in Seq(Bytes) /\ Len(inbox') = Len(inbox) - k
      /\ \A i \in 1..(Len(inbox) - k) : inbox'[i] = inbox[i + k]
  BY <1>1
<1>3. ASSUME NEW i \in 1..Len(inbox') PROVE OrderlyFrom(inbox', offered, i)
  <2>1. i + k \in 1..Len(inbox)
    BY <1>1, <1>2
  <2>2. OrderlyFrom(inbox, offered, i + k)
    BY <2>1 DEF InboxInv
  <2>3. Len(inbox) = Len(inbox') + k /\ \A j \in 1..Len(inbox') : inbox'[j] = inbox[j + k]
    BY <1>1, <1>2
  <2> QED
    BY <1>1, <1>2, <2>2, <2>3, ShiftLemma
<1> QED
  BY <1>2, <1>3 DEF InboxInv

\* the bytes before a message that arrives
LEMMA BeforeLemma ==
    ASSUME NEW q \in Seq(Bytes), NEW s \in Seq(Msgs), NEW r \in Seq(Bytes),
           NEW t \in Seq(Msgs), NEW i \in 1..Len(q), Len(q) < Len(r), Len(t) = Len(s) + 1,
           \A j \in 1..Len(q) : r[j] = q[j],
           \A j \in 1..Len(s) : t[j] = s[j],
           r[Len(q) + 1] = [id |-> Len(s) + 1, pos |-> 1],
           OrderlyFrom(q, s, i)
    PROVE  OrderlyFrom(r, t, i)
<1> DEFINE id == q[i].id
           pos == q[i].pos
           rest == InLen(s, id) - pos
<1>1. /\ id \in 1..Len(s) /\ pos \in 1..InLen(s, id)
      /\ i + rest <= Len(q)
      /\ \A n \in 0..rest : q[i + n] = [id |-> id, pos |-> pos + n]
      /\ i + rest < Len(q) => q[i + rest + 1] = [id |-> id + 1, pos |-> 1]
      /\ i + rest = Len(q) => id = Len(s)
  BY DEF OrderlyFrom
<1>2. rest \in Nat
  BY <1>1, InLenLemma
<1>3. r[i].id = id /\ r[i].pos = pos /\ InLen(t, id) = InLen(s, id)
  BY <1>1 DEF InLen
<1>4. Len(q) \in Nat /\ Len(r) \in Nat /\ i \in Nat /\ Len(s) \in Nat
  OBVIOUS
<1>5. rest = InLen(t, id) - pos
  BY <1>3
<1> HIDE DEF rest, id, pos
<1>6. i + rest <= Len(q)
  BY <1>1
<1>7. i + rest < Len(r)
  BY <1>2, <1>4, <1>6
<1>8. ASSUME NEW n \in 0..rest PROVE r[i + n] = [id |-> id, pos |-> pos + n]
  <2>1. i + n \in 1..Len(q)
    BY <1>2, <1>4, <1>6
  <2> QED
    BY <1>1, <2>1
<1>9. r[i + rest + 1] = [id |-> id + 1, pos |-> 1]
  <2>1. CASE i + rest < Len(q)
    <3>1. i + rest + 1 \in 1..Len(q)
      BY <1>2, <1>4, <2>1
    <3> QED
      BY <1>1, <2>1, <3>1
  <2>2. CASE i + rest = Len(q)
    BY <1>1, <2>2
  <2> QED
    BY <1>2, <1>4, <1>6, <2>1, <2>2
<1>10. id \in 1..Len(t) /\ pos \in 1..InLen(t, id)
  BY <1>1, <1>3, <1>4
<1>11. i + rest <= Len(r) /\ i + rest # Len(r)
  BY <1>2, <1>4, <1>7
<1> QED
  BY <1>3, <1>5, <1>8, <1>9, <1>10, <1>11 DEF OrderlyFrom

\* the bytes of a message that arrives
LEMMA BehindLemma ==
    ASSUME NEW r \in Seq(Bytes), NEW t \in Seq(Msgs), NEW a \in Nat, Len(t) > 0,
           Len(r) = a + InLen(t, Len(t)),
           \A j \in (a + 1)..Len(r) : r[j] = [id |-> Len(t), pos |-> j - a],
           NEW i \in (a + 1)..Len(r)
    PROVE  OrderlyFrom(r, t, i)
<1> DEFINE len == InLen(t, Len(t))
           rest == len - (i - a)
<1>1. Len(t) \in 1..Len(t) /\ len \in Nat /\ Len(r) = a + len
  <2>1. Len(t) \in 1..Len(t)
    OBVIOUS
  <2> QED
    BY <2>1, InLenLemma
<1>2. r[i].id = Len(t) /\ r[i].pos = i - a
  <2>1. r[i] = [id |-> Len(t), pos |-> i - a]
    OBVIOUS
  <2> QED
    BY <2>1
<1> HIDE DEF len
<1>3. i \in Nat /\ i - a \in 1..len /\ rest \in Nat /\ i + rest = Len(r)
  BY <1>1
<1>4. ASSUME NEW n \in 0..rest PROVE r[i + n] = [id |-> Len(t), pos |-> (i - a) + n]
  <2>1. i + n \in (a + 1)..Len(r) /\ (i + n) - a = (i - a) + n
    BY <1>1, <1>3
  <2> QED
    BY <2>1
<1>5. rest = InLen(t, r[i].id) - r[i].pos /\ r[i].pos \in 1..InLen(t, r[i].id)
  BY <1>2, <1>3 DEF len
<1> HIDE DEF rest
<1>6. i + rest <= Len(r) /\ ~(i + rest < Len(r))
  BY <1>1, <1>3
<1> QED
  BY <1>1, <1>2, <1>4, <1>5, <1>6 DEF OrderlyFrom

\* a message that arrives lies behind what is there
LEMMA ArrivalLemma ==
    ASSUME TypeOK, InboxInv, NEW m \in Msgs, PeerSends(m)
    PROVE  /\ InboxInv' /\ inbox' # <<>>
           /\ inbox'[1] = IF inbox = <<>> THEN [id |-> Len(offered) + 1, pos |-> 1] ELSE inbox[1]
<1> DEFINE len == HeaderLen + BodyLen[m]
           last == Len(offered) + 1
<1>1. /\ inbox \in Seq(Bytes) /\ Len(inbox) \in Nat /\ offered \in Seq(Msgs)
      /\ Len(offered) \in Nat /\ len \in Nat \ {0} /\ last \in Nat
  BY HeaderLenAssumption, BodyLenAssumption DEF TypeOK
<1>2. /\ offered' \in Seq(Msgs) /\ Len(offered') = last /\ offered'[last] = m
      /\ \A i \in 1..Len(offered) : offered'[i] = offered[i]
  BY <1>1 DEF PeerSends
<1>3. inbox' = inbox \o Run(last, 0, len)
  BY DEF PeerSends, Whole
<1>4. InLen(offered', last) = len
  BY <1>2 DEF InLen
<1> HIDE DEF len, last
<1>5. /\ Run(last, 0, len) \in Seq(Bytes) /\ Len(Run(last, 0, len)) = len
      /\ \A j \in 1..len : Run(last, 0, len)[j] = [id |-> last, pos |-> 0 + j]
  BY <1>1, RunLemma
<1>6. /\ inbox' \in Seq(Bytes) /\ Len(inbox') = Len(inbox) + len
      /\ \A i \in 1..Len(inbox) : inbox'[i] = inbox[i]
  <2> DEFINE w == Run(last, 0, len)
  <2>1. w \in Seq(Bytes) /\ Len(w) = len /\ inbox' = inbox \o w
    BY <1>3, <1>5
  <2> HIDE DEF w
  <2>2. inbox \o w \in Seq(Bytes) /\ Len(inbox \o w) = Len(inbox) + len
    BY <1>1, <2>1, ConcatProperties
  <2>3. ASSUME NEW i \in 1..Len(inbox) PROVE (inbox \o w)[i] = inbox[i]
    <3>1. i \in 1..(Len(inbox) + Len(w)) /\ i <= Len(inbox)
      BY <1>1, <2>1
    <3> QED
      BY <1>1, <2>1, <3>1, ConcatProperties
  <2> QED
    BY <2>1, <2>2, <2>3
<1>7. ASSUME NEW i \in (Len(inbox) + 1)..(Len(inbox) + len)
      PROVE  inbox'[i] = [id |-> last, pos |-> i - Len(inbox)]
  <2>1. i - Len(inbox) \in 1..len /\ 0 + (i - Len(inbox)) = i - Len(inbox)
    BY <1>1
  <2>2. inbox'[i] = Run(last, 0, len)[i - Len(inbox)]
    BY <1>1, <1>3, <1>5, <2>1, ConcatProperties
  <2> QED
    BY <1>5, <2>1, <2>2
<1>8. inbox'[Len(inbox) + 1] = [id |-> last, pos |-> 1]
  <2>1. Len(inbox) + 1 \in (Len(inbox) + 1)..(Len(inbox) + len) /\ (Len(inbox) + 1) - Len(inbox) = 1
    BY <1>1
  <2> QED
    BY <1>7, <2>1
<1>9. ASSUME NEW i \in 1..Len(inbox') PROVE OrderlyFrom(inbox', offered', i)
  <2>1. CASE i \in 1..Len(inbox)
    <3>1. OrderlyFrom(inbox, offered, i)
      BY <2>1 DEF InboxInv
    <3>2. Len(inbox) < Len(inbox')
      BY <1>1, <1>6
    <3> QED
      BY <1>1, <1>2, <1>6, <1>8, <2>1, <3>1, <3>2, BeforeLemma DEF last
  <2>2. CASE i \in (Len(inbox) + 1)..(Len(inbox) + len)
    <3>1. Len(offered') > 0
      BY <1>1, <1>2 DEF last
    <3> QED
      BY <1>1, <1>2, <1>4, <1>6, <1>7, <2>2, <3>1, BehindLemma
  <2> QED
    BY <1>1, <1>6, <2>1, <2>2
<1>10. inbox' # <<>>
  BY <1>1, <1>6
<1>11. inbox'[1] = IF inbox = <<>> THEN [id |-> last, pos |-> 1] ELSE inbox[1]
  <2>1. CASE inbox = <<>>
    BY <1>8, <2>1
  <2>2. CASE inbox # <<>>
    BY <1>1, <1>6, <2>2
  <2> QED
    BY <2>1, <2>2
<1> QED
  BY <1>9, <1>10, <1>11 DEF InboxInv, last

-----------------------------------------------------------------------------
(* The steps *)

\* what k more bytes of a header leave of its message
LEMMA HeaderProgress ==
    ASSUME NEW head \in Nat, NEW size \in Nat, NEW streamed \in Nat, NEW k \in Nat,
           NEW rest, rest = head + size - (streamed + 1)
    PROVE  /\ streamed + k < head => k <= rest
           /\ streamed + k = head /\ size = 0 => k = rest + 1
           /\ streamed + k = head /\ size # 0 => k <= rest /\ streamed + 1 + k = head + 1
  OBVIOUS

\* what k more bytes of a body leave of its message
LEMMA BodyProgress ==
    ASSUME NEW head \in Nat, NEW size \in Nat, NEW streamed \in Nat, NEW k \in Nat,
           NEW rest, rest = head + size - (head + streamed + 1)
    PROVE  /\ streamed + k < size => k <= rest
           /\ streamed + k = size => k = rest + 1
  OBVIOUS

\* One read takes k bytes that continue what the fallback is reading: what it
\* leaves is the rest of that message, or the next one.
LEMMA ReadLemma ==
    ASSUME TypeOK, ArmedForQueue, InboxInv, FallbackInv, StreamRead
    PROVE  /\ InboxInv' /\ FallbackInv'
           /\ queue = <<>> /\ inbox # <<>> /\ inbox[1].id \in 1..Len(offered)
           /\ fallback.state \in {"HEADER", "BODY"}
           /\ fallback'.id = inbox[1].id /\ ~Fresh' /\ fallback'.state # "CLOSED"
           /\ inbox' # <<>> => inbox[1].id <= inbox'[1].id
<1> DEFINE id   == inbox[1].id
           pos  == inbox[1].pos
           size == BodyLen[offered[id]]
           rest == InLen(offered, id) - pos
<1>1. /\ inbox \in Seq(Bytes) /\ inbox # <<>> /\ Len(inbox) \in Nat \ {0} /\ offered \in Seq(Msgs)
      /\ fallback \in Items /\ fallback.streamed \in Nat /\ Len(offered) \in Nat
  BY DEF TypeOK, StreamRead, Items
<1>2. PICK k \in 1..Len(inbox) :
            /\ k <= SizeTotal(fallback, size) - fallback.streamed
            /\ fallback' = [Streamed(fallback, k, size) EXCEPT !.id = id]
            /\ inbox' = SubSeq(inbox, k + 1, Len(inbox))
  BY DEF StreamRead
<1>3. queue = <<>> /\ next = "fallback" /\ offered' = offered /\ handled' = handled /\ Aligned
  BY DEF StreamRead, ArmedForQueue, TypeOK
<1>4. fallback.state \in {"HEADER", "BODY"}
  BY <1>1, <1>3 DEF StreamRead, NextItem, FallbackInv, Items, States
<1>5. /\ id \in 1..Len(offered) /\ pos \in 1..InLen(offered, id)
      /\ 1 + rest <= Len(inbox)
      /\ \A n \in 0..rest : inbox[1 + n] = [id |-> id, pos |-> pos + n]
      /\ 1 + rest < Len(inbox) => inbox[1 + rest + 1] = [id |-> id + 1, pos |-> 1]
      /\ 1 + rest = Len(inbox) => id = Len(offered)
  <2>1. OrderlyFrom(inbox, offered, 1)
    BY <1>1 DEF InboxInv
  <2> QED
    BY <2>1 DEF OrderlyFrom
<1>6. size \in Nat /\ InLen(offered, id) = HeaderLen + size /\ rest \in Nat
  BY <1>1, <1>5, InLenLemma DEF InLen
<1>7. pos = Offset(fallback) + 1
  BY <1>3 DEF Aligned
<1>8. /\ InboxInv' /\ Len(inbox') = Len(inbox) - k
      /\ \A i \in 1..(Len(inbox) - k) : inbox'[i] = inbox[i + k]
  BY <1>2, <1>3, RestLemma
<1>9. id \in Nat /\ pos \in Nat /\ k \in Nat \ {0} /\ HeaderLen \in Nat \ {0}
      /\ rest = HeaderLen + size - pos
  <2>1. rest = InLen(offered, id) - pos
    OBVIOUS
  <2>2. id \in 1..Len(offered) /\ pos \in 1..InLen(offered, id) /\ k \in 1..Len(inbox)
    BY <1>5
  <2> HIDE DEF id, pos, size, rest
  <2>3. id \in Nat /\ k \in Nat \ {0} /\ HeaderLen \in Nat \ {0}
    BY <1>1, <2>2, HeaderLenAssumption
  <2>4. pos \in Nat
    BY <1>6, <2>2, <2>3
  <2> QED
    BY <1>6, <2>1, <2>3, <2>4
<1> HIDE DEF id, pos, size, rest
<1>10. SizeTotal(fallback, size) \in Nat
  BY <1>6, <1>9 DEF SizeTotal
\* the message is not at its end: the next byte is its next
<1>11. ASSUME k <= rest PROVE inbox' # <<>> /\ inbox'[1] = [id |-> id, pos |-> pos + k]
  <2>1. k \in 0..rest /\ 1 \in 1..(Len(inbox) - k)
    BY <1>1, <1>5, <1>6, <1>9, <1>11
  <2>2. inbox'[1] = inbox[1 + k]
    BY <1>8, <2>1
  <2> QED
    BY <1>5, <1>8, <2>1, <2>2
\* the message is at its end
<1>12. ASSUME k = rest + 1
       PROVE  IF inbox' = <<>> THEN id = Len(offered) ELSE inbox'[1] = [id |-> id + 1, pos |-> 1]
  <2>1. CASE inbox' = <<>>
    <3>1. 1 + rest = Len(inbox)
      BY <1>1, <1>6, <1>8, <1>12, <2>1
    <3> QED
      BY <1>5, <2>1, <3>1
  <2>2. CASE inbox' # <<>>
    <3>1. 1 + rest < Len(inbox) /\ 1 \in 1..(Len(inbox) - k) /\ 1 + k = 1 + rest + 1
      <4>1. Len(inbox') # 0 /\ Len(inbox') \in Nat
        BY <1>2, <1>1, <2>2
      <4>2. Len(inbox') = Len(inbox) - k
        BY <1>8
      <4> QED
        BY <1>1, <1>6, <1>9, <1>12, <4>1, <4>2
    <3>2. inbox'[1] = [id |-> id + 1, pos |-> 1]
      BY <1>5, <1>8, <3>1
    <3> QED
      BY <2>2, <3>2
  <2> QED
    BY <2>1, <2>2
<1>13. \/ /\ fallback.streamed + k < SizeTotal(fallback, size)
          /\ fallback' = [op |-> fallback.op, state |-> fallback.state,
                          streamed |-> fallback.streamed + k, id |-> id]
       \/ /\ fallback.streamed + k = SizeTotal(fallback, size)
          /\ \/ fallback.state = "BODY" \/ size = 0
             \/ fallback.state = "HEADER" /\ size # 0
          /\ fallback' = [op |-> fallback.op, streamed |-> 0, id |-> id,
                          state |-> IF fallback.state = "BODY" \/ size = 0
                                    THEN "COMPLETE" ELSE "BODY"]
  <2>1. fallback.streamed + k <= SizeTotal(fallback, size)
    BY <1>1, <1>2, <1>9, <1>10
  <2>2. CASE fallback.streamed + k < SizeTotal(fallback, size)
    BY <1>1, <1>2, <2>2 DEF Streamed, Items
  <2>3. CASE fallback.streamed + k = SizeTotal(fallback, size)
    BY <1>1, <1>2, <1>4, <1>10, <2>3 DEF Streamed, Items
  <2> QED
    BY <1>1, <1>9, <1>10, <2>1, <2>2, <2>3
<1> DEFINE streamed == fallback.streamed
<1>14. streamed \in Nat /\ fallback.streamed = streamed
  BY <1>1
<1>19. /\ streamed + k < SizeTotal(fallback, size) =>
            fallback'.state = fallback.state /\ fallback'.streamed = streamed + k
       /\ streamed + k = SizeTotal(fallback, size) =>
            /\ fallback'.streamed = 0
            /\ fallback.state = "BODY" \/ size = 0 => fallback'.state = "COMPLETE"
            /\ fallback.state = "HEADER" /\ size # 0 => fallback'.state = "BODY"
       /\ streamed + k <= SizeTotal(fallback, size)
  BY <1>13, <1>4, <1>9, <1>10, <1>14
<1> HIDE DEF streamed
<1>15. ASSUME fallback.state = "HEADER"
       PROVE  \/ fallback'.state = "COMPLETE" /\ k = rest + 1
              \/ /\ fallback'.state # "COMPLETE" /\ k <= rest
                 /\ pos + k = Offset(fallback') + 1
  <2>1. pos = streamed + 1 /\ SizeTotal(fallback, size) = HeaderLen
    BY <1>7, <1>9, <1>14, <1>15 DEF Offset, SizeTotal
  <2>2. rest = HeaderLen + size - (streamed + 1)
    BY <1>9, <2>1
  <2>3. /\ streamed + k < HeaderLen => k <= rest
        /\ streamed + k = HeaderLen /\ size = 0 => k = rest + 1
        /\ streamed + k = HeaderLen /\ size # 0 => k <= rest /\ streamed + 1 + k = HeaderLen + 1
    BY <1>6, <1>9, <1>14, <2>2, HeaderProgress
  <2>4. CASE streamed + k < HeaderLen
    <3>1. fallback'.state = "HEADER" /\ fallback'.streamed = streamed + k
      BY <1>15, <1>19, <2>1, <2>4
    <3>2. pos + k = Offset(fallback') + 1
      BY <1>9, <1>14, <2>1, <3>1 DEF Offset
    <3> QED
      BY <2>3, <2>4, <3>1, <3>2
  <2>5. CASE streamed + k = HeaderLen
    <3>1. CASE size = 0
      BY <1>15, <1>19, <2>1, <2>3, <2>5, <3>1
    <3>2. CASE size # 0
      <4>1. fallback'.state = "BODY" /\ fallback'.streamed = 0
        BY <1>15, <1>19, <2>1, <2>5, <3>2
      <4>2. pos + k = Offset(fallback') + 1
        BY <1>9, <1>14, <2>1, <2>3, <2>5, <3>2, <4>1 DEF Offset
      <4> QED
        BY <2>3, <2>5, <3>2, <4>1, <4>2
    <3> QED
      BY <3>1, <3>2
  <2>6. streamed + k < HeaderLen \/ streamed + k = HeaderLen
    BY <1>9, <1>14, <1>19, <2>1
  <2> QED
    BY <2>4, <2>5, <2>6
<1>16. ASSUME fallback.state = "BODY"
       PROVE  \/ fallback'.state = "COMPLETE" /\ k = rest + 1
              \/ /\ fallback'.state # "COMPLETE" /\ k <= rest
                 /\ pos + k = Offset(fallback') + 1
  <2>1. pos = HeaderLen + streamed + 1 /\ SizeTotal(fallback, size) = size
    BY <1>7, <1>9, <1>14, <1>16 DEF Offset, SizeTotal
  <2>2. rest = HeaderLen + size - (HeaderLen + streamed + 1)
    BY <1>9, <2>1
  <2>3. /\ streamed + k < size => k <= rest
        /\ streamed + k = size => k = rest + 1
    BY <1>6, <1>9, <1>14, <2>2, BodyProgress
  <2>4. CASE streamed + k < size
    <3>1. fallback'.state = "BODY" /\ fallback'.streamed = streamed + k
      BY <1>16, <1>19, <2>1, <2>4
    <3>2. pos + k = Offset(fallback') + 1
      BY <1>9, <1>14, <2>1, <3>1 DEF Offset
    <3> QED
      BY <2>3, <2>4, <3>1, <3>2
  <2>5. CASE streamed + k = size
    BY <1>16, <1>19, <2>1, <2>3, <2>5
  <2>6. streamed + k < size \/ streamed + k = size
    BY <1>6, <1>9, <1>14, <1>19, <2>1
  <2> QED
    BY <2>4, <2>5, <2>6
<1>17. CASE fallback'.state = "COMPLETE"
  <2>1. k = rest + 1
    BY <1>4, <1>17, <1>15, <1>16
  <2>2. ReadUpTo(fallback.id)' /\ (inbox' # <<>> => id <= inbox'[1].id)
    BY <1>3, <1>9, <1>12, <1>13, <2>1 DEF ReadUpTo
  <2>3. fallback'.op = "READING" /\ fallback'.id = id
    BY <1>13 DEF FallbackInv
  <2>4. FallbackInv'
    BY <1>3, <1>5, <1>17, <2>2, <2>3 DEF FallbackInv, Partial, Fresh
  <2> QED
    BY <1>1, <1>3, <1>4, <1>5, <1>8, <1>17, <2>2, <2>3, <2>4 DEF Fresh, id
<1>18. CASE fallback'.state # "COMPLETE"
  <2>1. k <= rest /\ pos + k = Offset(fallback') + 1
    BY <1>4, <1>18, <1>15, <1>16
  <2>2. inbox' # <<>> /\ inbox'[1] = [id |-> id, pos |-> pos + k]
    BY <1>11, <2>1
  <2>3. fallback'.op = "READING" /\ fallback'.id = id /\ fallback'.state \in {"HEADER", "BODY"}
    BY <1>4, <1>13, <1>18 DEF FallbackInv
  <2>4. ~Fresh' /\ (fallback'.state = "HEADER" => fallback'.streamed < HeaderLen)
    BY <1>1, <1>4, <1>9, <1>13 DEF Fresh, SizeTotal
  <2>5. FallbackInv'
    BY <2>1, <2>2, <2>3, <2>4 DEF FallbackInv, Partial
  <2> QED
    BY <1>1, <1>3, <1>4, <1>5, <1>8, <1>9, <2>2, <2>3, <2>4, <2>5 DEF id
<1> QED
  BY <1>17, <1>18

\* What the reading side goes by, and whether a read was overwritten, are as before.
Idle == UNCHANGED <<fallback, inbox, offered, peerOpen, handled>>

\* a step that leaves the reading side alone
LEMMA IdleLemma ==
    ASSUME InboxInv, FallbackInv, HandledInv, HandledInOrder, Idle
    PROVE  InboxInv' /\ FallbackInv' /\ HandledInv' /\ HandledInOrder'
  BY DEF InboxInv, FallbackInv, HandledInv, HandledInOrder, Idle, OrderlyFrom, InLen,
         ReadUpTo, Partial, Fresh, Offset

\* and that keeps a write away from a read, and the loop from reading garbage
LEMMA IdleExactLemma ==
    ASSUME ExactInv, Idle, phase' # "garbled", overlap' = overlap, queue' # <<>> => queue # <<>>
    PROVE  ExactInv'
  BY DEF ExactInv, Idle, ReadUpTo, Partial, Fresh

\* Every step keeps the reading side consistent.
LEMMA InStep ==
    ASSUME TypeOK, ArmedForQueue, InInv, [Next]_vars
    PROVE  InInv'
<1>0. InboxInv /\ FallbackInv /\ HandledInv /\ HandledInOrder /\ ExactInv
  BY DEF InInv
<1>12. /\ inbox \in Seq(Bytes) /\ handled \in Seq(Nat) /\ Len(handled) \in Nat
      /\ fallback \in Items /\ Len(offered) \in Nat /\ fallback.streamed \in Nat
      /\ fallback.state \in States /\ fallback.id \in Nat
  BY DEF TypeOK, Items
<1>1. ASSUME NEW m \in Msgs, QueueWriting(m) PROVE InInv'
  <2>1. Idle /\ phase' # "garbled"
    BY <1>1 DEF QueueWriting, Idle, inVars, Live
  <2>2. ASSUME ~overlap' PROVE ~overlap /\ Fresh
    <3>1. overlap' = (overlap \/ ReadUnderWay)
      BY <1>1 DEF QueueWriting
    <3>2. ~overlap
      BY <2>2, <3>1
    <3>3. ~ReadUnderWay
      BY <2>2, <3>1
    <3> QED
      BY <1>0, <1>12, <3>2, <3>3 DEF ReadUnderWay, FallbackInv, Fresh
  <2>3. ExactInv'
    BY <1>0, <2>1, <2>2 DEF ExactInv, Idle, ReadUpTo, Partial, Fresh
  <2> QED
    BY <1>0, <2>1, <2>3, IdleLemma DEF InInv
<1>2. ASSUME NEW m \in Msgs, PeerSends(m) PROVE InInv'
  <2>1. /\ peerOpen /\ Len(offered') = Len(offered) + 1
        /\ UNCHANGED <<queue, fallback, phase, peerOpen, handled, overlap>>
    BY <1>2 DEF PeerSends, outVars, TypeOK
  <2>2. /\ InboxInv' /\ inbox' # <<>>
        /\ inbox'[1] = IF inbox = <<>> THEN [id |-> Len(offered) + 1, pos |-> 1] ELSE inbox[1]
    BY <1>0, <1>2, ArrivalLemma
  <2>3. ASSUME NEW n, ReadUpTo(n) PROVE inbox'[1] = [id |-> n + 1, pos |-> 1]
    BY <2>2, <2>3 DEF ReadUpTo
  <2>4. FallbackInv'
    BY <1>0, <1>12, <2>1, <2>2, <2>3 DEF FallbackInv, ReadUpTo, Partial, Fresh, Offset
  <2>5. HandledInv'
    <3> SUFFICES ASSUME NEW i \in 1..Len(handled)
                 PROVE  /\ handled[i] \in 1..Len(offered') /\ handled[i] < inbox'[1].id
                        /\ fallback.state = "COMPLETE" => handled[i] < fallback.id
      BY <2>1 DEF HandledInv
    <3>1. /\ handled[i] \in 1..Len(offered)
          /\ inbox # <<>> => handled[i] < inbox[1].id
          /\ fallback.state = "COMPLETE" => handled[i] < fallback.id
      BY <1>0 DEF HandledInv
    <3> QED
      BY <1>12, <2>1, <2>2, <3>1
  <2>6. HandledInOrder'
    BY <1>0, <2>1 DEF HandledInOrder
  <2>7. ExactInv'
    BY <1>0, <2>1, <2>2, <2>3 DEF ExactInv, ReadUpTo, Partial, Fresh
  <2> QED
    BY <2>2, <2>4, <2>5, <2>6, <2>7 DEF InInv
<1>3. CASE StreamWrite
  <2>1. Idle /\ phase' # "garbled" /\ overlap' = overlap /\ queue # <<>>
    BY <1>3 DEF StreamWrite, Idle, inVars, ArmedForQueue
  <2> QED
    BY <1>0, <2>1, IdleLemma, IdleExactLemma DEF InInv
<1>4. CASE StreamRead
  <2>1. UNCHANGED <<queue, offered, handled, overlap>> /\ phase' = "streamed"
    BY <1>4 DEF StreamRead, outVars
  <2>2. /\ InboxInv' /\ FallbackInv' /\ queue = <<>> /\ inbox # <<>>
        /\ inbox[1].id \in 1..Len(offered) /\ fallback.state \in {"HEADER", "BODY"}
        /\ fallback'.id = inbox[1].id /\ ~Fresh' /\ fallback'.state # "CLOSED"
        /\ inbox' # <<>> => inbox[1].id <= inbox'[1].id
    BY <1>0, <1>4, ReadLemma
  <2>3. HandledInv'
    <3> SUFFICES ASSUME NEW i \in 1..Len(handled)
                 PROVE  /\ handled[i] \in 1..Len(offered)
                        /\ inbox' # <<>> => handled[i] < inbox'[1].id
                        /\ fallback'.state = "COMPLETE" => handled[i] < fallback'.id
      BY <2>1 DEF HandledInv
    <3>1. handled[i] \in 1..Len(offered) /\ handled[i] < inbox[1].id
      BY <1>0, <2>2 DEF HandledInv
    <3>2. ASSUME inbox' # <<>> PROVE inbox'[1].id \in Nat
      <4>1. PICK k \in 1..Len(inbox) : inbox' = SubSeq(inbox, k + 1, Len(inbox))
        BY <1>4 DEF StreamRead
      <4>2. inbox' \in Seq(Bytes)
        BY <1>12, <4>1
      <4>3. inbox'[1] \in Bytes
        BY <3>2, <4>2
      <4> QED
        BY <4>3 DEF Bytes
    <3> QED
      BY <1>12, <2>2, <3>1, <3>2
  <2>4. HandledInOrder'
    BY <1>0, <2>1 DEF HandledInOrder
  <2>5. ASSUME ~overlap PROVE inbox[1].id = Len(handled) + 1
    <3>1. CASE Fresh
      BY <1>0, <2>2, <2>5, <3>1 DEF ExactInv, ReadUpTo
    <3>2. CASE Partial
      BY <1>0, <2>2, <2>5, <3>2 DEF ExactInv, FallbackInv
    <3> QED
      BY <2>2, <3>1, <3>2 DEF Partial
  <2>6. ExactInv'
    BY <1>0, <2>1, <2>2, <2>5 DEF ExactInv
  <2> QED
    BY <2>2, <2>3, <2>4, <2>6 DEF InInv
<1>5. CASE StreamReadGarbled
  <2>1. /\ Idle /\ UNCHANGED <<queue, overlap>> /\ inbox # <<>> /\ ~Aligned
        /\ interest = "EPOLLIN" /\ NextItem.state # "COMPLETE"
    BY <1>5 DEF StreamReadGarbled, Idle, inVars, outVars
  <2>2. queue = <<>> /\ fallback.state # "COMPLETE"
    BY <2>1 DEF ArmedForQueue, NextItem, TypeOK
  <2>3. ASSUME ~overlap PROVE FALSE
    <3>1. CASE Fresh
      <4>1. inbox[1].pos = 1
        BY <1>0, <2>1, <2>3, <3>1 DEF ExactInv, ReadUpTo
      <4>2. Offset(fallback) + 1 = 1
        BY <3>1 DEF Fresh, Offset
      <4> QED
        BY <2>1, <4>1, <4>2 DEF Aligned
    <3>2. CASE Partial
      BY <1>0, <2>1, <3>2 DEF FallbackInv, Aligned
    <3>3. CASE fallback.state = "CLOSED"
      BY <1>0, <2>1, <3>3 DEF FallbackInv
    <3> QED
      BY <1>12, <2>2, <3>1, <3>2, <3>3 DEF Partial, States
  <2>4. ExactInv'
    BY <2>1, <2>3 DEF ExactInv
  <2> QED
    BY <1>0, <2>1, <2>4, IdleLemma DEF InInv
<1>6. CASE StreamEof
  <2>1. /\ inbox = <<>> /\ ~peerOpen /\ phase' = "streamed" /\ queue = <<>>
        /\ UNCHANGED <<queue, offered, inbox, peerOpen, handled, overlap>>
        /\ fallback' = [fallback EXCEPT !.state = "CLOSED"]
    BY <1>6 DEF StreamEof, inVars, outVars, ArmedForQueue
  <2>2. fallback'.state = "CLOSED" /\ fallback'.op = fallback.op
    BY <1>12, <2>1 DEF Items
  <2>3. FallbackInv'
    BY <1>0, <2>1, <2>2 DEF FallbackInv, Partial
  <2>4. InboxInv' /\ HandledInv' /\ HandledInOrder'
    BY <1>0, <2>1, <2>2 DEF InboxInv, OrderlyFrom, InLen, HandledInv, HandledInOrder
  <2>5. ExactInv'
    BY <1>0, <2>1, <2>2 DEF ExactInv, Partial, Fresh
  <2> QED
    BY <2>3, <2>4, <2>5 DEF InInv
<1>7. CASE StreamFails \/ ResolveIncomplete \/ ResolveClosed
  <2>1. Idle /\ phase' # "garbled" /\ UNCHANGED <<queue, overlap>>
    BY <1>7 DEF StreamFails, ResolveIncomplete, ResolveClosed, Idle, inVars, outVars
  <2> QED
    BY <1>0, <2>1, IdleLemma, IdleExactLemma DEF InInv
<1>8. CASE ResolveWritten
  <2>1. /\ queue # <<>> /\ queue[1] \in Items /\ phase' = "waiting"
        /\ UNCHANGED <<offered, inbox, peerOpen, handled, overlap>>
        /\ fallback' = Cleared(queue[1])
    BY <1>8 DEF ResolveWritten, inVars, ArmedForQueue, TypeOK
  <2>2. fallback'.op = "READING" /\ fallback'.state = "HEADER" /\ fallback'.streamed = 0
    BY <2>1 DEF Cleared, Items
  <2>3. FallbackInv'
    BY <2>2, HeaderLenAssumption DEF FallbackInv, Partial, Fresh
  <2>4. InboxInv' /\ HandledInv' /\ HandledInOrder'
    BY <1>0, <2>1, <2>2 DEF InboxInv, OrderlyFrom, InLen, HandledInv, HandledInOrder
  <2>5. ExactInv'
    BY <1>0, <2>1, <2>2 DEF ExactInv, Partial, Fresh, ReadUpTo
  <2> QED
    BY <2>3, <2>4, <2>5 DEF InInv
<1>9. CASE ResolveRead
  <2>1. /\ fallback.state = "COMPLETE" /\ phase' = "waiting"
        /\ UNCHANGED <<queue, offered, inbox, peerOpen, overlap>>
        /\ fallback' = Cleared(fallback) /\ handled' = Append(handled, fallback.id)
    BY <1>9 DEF ResolveRead, outVars
  <2>2. fallback'.op = "READING" /\ fallback'.state = "HEADER" /\ fallback'.streamed = 0
    BY <1>12, <2>1 DEF Cleared, Items
  <2>3. FallbackInv'
    BY <2>2, HeaderLenAssumption DEF FallbackInv, Partial, Fresh
  <2>4. InboxInv'
    BY <1>0, <2>1 DEF InboxInv, OrderlyFrom, InLen
  <2>5. /\ Len(handled') = Len(handled) + 1 /\ handled'[Len(handled) + 1] = fallback.id
        /\ \A i \in 1..Len(handled) : handled'[i] = handled[i]
        /\ \A i \in 1..Len(handled') : i \in 1..Len(handled) \/ i = Len(handled) + 1
    BY <1>12, <2>1
  <2>6. /\ fallback.id \in 1..Len(offered) /\ ReadUpTo(fallback.id)
        /\ \A i \in 1..Len(handled) : handled[i] \in 1..Len(offered) /\ handled[i] < fallback.id
    BY <1>0, <2>1 DEF FallbackInv, HandledInv
  <2>7. inbox # <<>> => inbox[1].id = fallback.id + 1
    BY <2>6 DEF ReadUpTo
  <2>8. HandledInv'
    <3> SUFFICES ASSUME NEW i \in 1..Len(handled')
                 PROVE  /\ handled'[i] \in 1..Len(offered)
                        /\ inbox # <<>> => handled'[i] < inbox[1].id
      BY <2>1, <2>2 DEF HandledInv
    <3>1. handled'[i] \in 1..Len(offered) /\ handled'[i] <= fallback.id
      BY <1>12, <2>5, <2>6
    <3> QED
      BY <1>12, <2>7, <3>1
  <2>9. HandledInOrder'
    <3> SUFFICES ASSUME NEW i \in 1..Len(handled'), NEW j \in 1..Len(handled'), i < j
                 PROVE  handled'[i] < handled'[j]
      BY DEF HandledInOrder
    <3>1. i \in 1..Len(handled)
      BY <1>12, <2>5
    <3>2. CASE j \in 1..Len(handled)
      BY <1>0, <2>5, <3>1, <3>2 DEF HandledInOrder
    <3>3. CASE j = Len(handled) + 1
      BY <2>5, <2>6, <3>1, <3>3
    <3> QED
      BY <2>5, <3>2, <3>3
  <2>10. ExactInv'
    <3> SUFFICES ASSUME ~overlap
                 PROVE  /\ \A i \in 1..Len(handled') : handled'[i] = i
                        /\ ReadUpTo(Len(handled) + 1)
      BY <2>1, <2>2, <2>5 DEF ExactInv, Partial, Fresh, ReadUpTo
    <3>1. fallback.id = Len(handled) + 1 /\ \A i \in 1..Len(handled) : handled[i] = i
      BY <1>0, <2>1 DEF ExactInv
    <3> QED
      BY <2>5, <2>6, <3>1
  <2> QED
    BY <2>3, <2>4, <2>8, <2>9, <2>10 DEF InInv
<1>10. CASE PeerCloses
  <2>1. /\ ~peerOpen' /\ UNCHANGED <<queue, fallback, phase, offered, inbox, handled, overlap>>
    BY <1>10 DEF PeerCloses, outVars
  <2>2. InboxInv' /\ HandledInv' /\ HandledInOrder'
    BY <1>0, <2>1 DEF InboxInv, OrderlyFrom, InLen, HandledInv, HandledInOrder
  <2>3. FallbackInv' /\ ExactInv'
    BY <1>0, <2>1 DEF FallbackInv, ExactInv, ReadUpTo, Partial, Fresh, Offset
  <2> QED
    BY <2>2, <2>3 DEF InInv
<1>11. CASE UNCHANGED vars
  <2>1. Idle /\ UNCHANGED <<queue, phase, overlap>>
    BY <1>11 DEF vars, Idle
  <2>2. ExactInv'
    BY <1>0, <2>1 DEF ExactInv, Idle, ReadUpTo, Partial, Fresh
  <2> QED
    BY <1>0, <2>1, <2>2, IdleLemma DEF InInv
<1> QED
  BY <1>1, <1>2, <1>3, <1>4, <1>5, <1>6, <1>7, <1>8, <1>9, <1>10, <1>11 DEF Next, Resolve

-----------------------------------------------------------------------------
\* The reading side stays consistent for ever.
THEOREM InInvariant == Spec => []InInv
<1>1. Init => InInv
  BY HeaderLenAssumption
     DEF Init, InInv, InboxInv, FallbackInv, HandledInv, HandledInOrder, ExactInv, ReadUpTo,
         Partial, Fresh, FreshItem
<1>2. TypeOK /\ ArmedForQueue /\ InInv /\ [Next]_vars => InInv'
  BY InStep
<1> QED
  BY <1>1, <1>2, TypeCorrect, StreamArmed, PTL DEF Spec

\* Whatever is lost when a collected write overwrites a read, no handler ever sees
\* a message twice, or one that was sent before another it has seen.
THEOREM MessagesHandledInOrder == Spec => []HandledInOrder
<1>1. InInv => HandledInOrder
  BY DEF InInv
<1> QED
  BY <1>1, InInvariant, PTL

\* That overlap is the only way to lose a message or to misread one: however the
\* kernel cuts the reads, without it each message is handled, once, in its turn.
THEOREM ReadsAreExact == Spec => []ReadsExactUnlessOverlapped
<1>1. InInv => ReadsExactUnlessOverlapped
  BY DEF InInv, ExactInv, ReadsExactUnlessOverlapped
<1> QED
  BY <1>1, InInvariant, PTL
=============================================================================
