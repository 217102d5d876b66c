---------------------------- MODULE RcnDaemonProofs ----------------------------
(***************************************************************************)
(* What may lie in the streams of a daemon, what its handlers do with it,  *)
(* and the steps of the loop, of the relays and of the user, joined to the *)
(* types of RcnDaemon; then the safety properties that follow from an      *)
(* inductive invariant beside the types.  All of it for any number of      *)
(* clients, devices and relays, any commands and any of the faults.        *)
(***************************************************************************)
EXTENDS RcnDaemon, FiniteSetTheorems, TLAPS

-----------------------------------------------------------------------------
(* Messages by where they travel.  E tells which daemons are about to exit. *)

PeerControls  == {"PEER_PAUSE", "PEER_RESUME", "PEER_STOP"}
DeviceHeaders == {"PEER_DEV_CRT", "PEER_GRAB", "PEER_EVENT"}
Headers == PeerControls \cup DeviceHeaders \cup RelayHeaders
             \cup {"RELAY_PAUSE_AGAIN", "RELAY_RESUME_AGAIN", "RELAY_NO_PEER", "UINPUT",
                   "GARBAGE", None}

Values == Events \cup {"info", "grabbed", "ungrabbed", "release", "report", "devices",
                       "garbage", None}

Messages == [h : Headers, dev : Devices \cup {None}, val : Values]

ToClient   == {m \in Messages : m.h \in PeerControls}
ToServer   == {m \in Messages : \/ m.h \in PeerControls
                                \/ m.h \in DeviceHeaders /\ m.dev \in Devices}
Requests   == {m \in Messages : m.h \in RelayHeaders}
Written    == {m \in Messages : m.h = "UINPUT"}
Answers(d, E) == {m \in Messages : m.h = "RELAY_STOP" => E[d]}

\* what arrives on the connection s at its end e
Arriving(s, e, E) ==
    IF s[1] = "peer" THEN IF e = Server THEN ToServer ELSE ToClient
    ELSE IF e = s[2] THEN Answers(Target[s[2]], E) ELSE Requests

\* what daemon d queues on its stream s, and what it reads there, or has written last
\* to a uinput device
Sent(d, s, E) ==
    IF s[1] = "peer" THEN IF d = Server THEN ToClient ELSE ToServer
    ELSE IF s[1] = "relay" THEN Answers(d, E)
    ELSE IF s[1] = "udev" THEN Written ELSE {}

Received(d, s) ==
    IF s[1] = "peer" THEN IF d = Server THEN ToServer ELSE ToClient
    ELSE IF s[1] = "relay" THEN Requests
    ELSE IF s[1] = "dev"
    THEN {m \in Messages : m.h = "PEER_EVENT" /\ m.dev = s[2] /\ m.val \in Events}
    ELSE IF s[1] = "udev" THEN Written ELSE {}

RelaysOf(d) == {RelayConn(r) : r \in {x \in Relays : Target[x] = d}}
PeersOf(d)  == IF d = Server THEN {PeerConn(c) : c \in Clients} ELSE {PeerConn(d)}
FilesOf(d)  == IF d = Server THEN {UdevStream(k) : k \in Devices}
               ELSE {DevStream(k) : k \in Devices}
NamesOf(d)  == RelaysOf(d) \cup PeersOf(d) \cup FilesOf(d)

QueueItems(d, s, E) == [msg : Sent(d, s, E), state : ItemStates \ {"CLOSED"}]
FallbackItems(d, s) ==
    [msg : Received(d, s) \cup {Msg(None), Garbage.msg}, state : ItemStates]
Records(d, s, E) ==
    [queue : Seq(QueueItems(d, s, E)), fallback : FallbackItems(d, s),
     interest : {"EPOLLIN", "EPOLLOUT"}]

\* a socket is armed for writing only while something is queued
Armed(s, stream) == IsSocket(s) /\ stream.interest = "EPOLLOUT" => stream.queue # <<>>
StreamsOf(d, s, E) == {stream \in Records(d, s, E) : Armed(s, stream)}

TypedStreams(d, ss, E) ==
    /\ DOMAIN ss \subseteq NamesOf(d)
    /\ \A s \in DOMAIN ss : ss[s] \in StreamsOf(d, s, E)

Units(s, e, E) == [msg : Arriving(s, e, E), part : {"header", "body"}]

TypedPipes(p, E) ==
    /\ DOMAIN p = Connections
    /\ \A s \in Connections : /\ DOMAIN p[s] = Ends(s)
                              /\ \A e \in Ends(s) : p[s][e] \in Seq(Units(s, e, E))

-----------------------------------------------------------------------------
(* Names of streams *)

\* the server is no client, and the TCP queue is none of the daemons'
LEMMA DaemonsLemma == Server \notin Clients /\ Tcp \notin Daemons
  BY NamesAssumption DEF Daemons, Server, Tcp

\* what kind of stream a name of daemon d stands for
LEMMA NamesLemma ==
  ASSUME NEW d \in Daemons, NEW s \in NamesOf(d)
  PROVE  /\ s[1] \in {"relay", "peer", "dev", "udev"}
         /\ s[1] = "relay" => /\ s[2] \in Relays /\ Target[s[2]] = d /\ s = RelayConn(s[2])
                              /\ s \in RelaysOf(d)
         /\ s[1] = "peer"  => /\ s[2] \in Clients /\ s = PeerConn(s[2])
                              /\ d # Server => s[2] = d
         /\ s[1] = "dev"   => d # Server /\ s[2] \in Devices /\ s = DevStream(s[2])
         /\ s[1] = "udev"  => d = Server /\ s[2] \in Devices /\ s = UdevStream(s[2])
  BY DEF NamesOf, RelaysOf, PeersOf, FilesOf, RelayConn, PeerConn, DevStream, UdevStream,
         Daemons

\* a socket of d has another end, and each direction its messages
LEMMA ConnectionsLemma ==
  ASSUME NEW d \in Daemons, NEW s \in NamesOf(d), IsSocket(s)
  PROVE  /\ s \in Connections /\ d \in Ends(s) /\ OtherEnd(s, d) \in Ends(s)
         /\ \A E : /\ Received(d, s) = Arriving(s, d, E)
                   /\ Sent(d, s, E) = Arriving(s, OtherEnd(s, d), E)
  <1>1. CASE s[1] = "relay"
    <2>1. PICK r \in Relays : s = RelayConn(r) /\ Target[r] = d
      BY <1>1, NamesLemma
    <2>2. r # d
      BY NamesAssumption DEF Daemons
    <2>3. Ends(s) = {r, d}
      BY <1>1, <2>1 DEF Ends, RelayConn
    <2>4. OtherEnd(s, d) = r
      BY <2>2, <2>3 DEF OtherEnd
    <2> QED
      BY <1>1, <2>1, <2>2, <2>3, <2>4 DEF Connections, RelayConn, Arriving, Received, Sent
  <1>2. CASE s[1] = "peer"
    <2>1. PICK c \in Clients : s = PeerConn(c) /\ (d # Server => c = d)
      BY <1>2, NamesLemma
    <2>2. Ends(s) = {c, Server} /\ c # Server
      BY <1>2, <2>1, DaemonsLemma DEF Ends, PeerConn
    <2>3. OtherEnd(s, d) = IF d = Server THEN c ELSE Server
      BY <2>1, <2>2 DEF OtherEnd
    <2> QED
      BY <1>2, <2>1, <2>2, <2>3 DEF Connections, PeerConn, Arriving, Received, Sent
  <1> QED BY <1>1, <1>2 DEF IsSocket

-----------------------------------------------------------------------------
(* Operations on streams *)

\* stream_set_default keeps the types
LEMMA ClearedTyped ==
  ASSUME NEW d, NEW s, NEW item \in FallbackItems(d, s)
  PROVE  /\ Cleared(s, item) \in FallbackItems(d, s)
         /\ IsSocket(s) => Cleared(s, item) = Idle
         /\ Cleared(s, item).state = "HEADER"
  BY DEF Cleared, FallbackItems, Idle, Item, ItemStates

\* e_epoll_reset_stream keeps the types, and all but the fallback and the mask
LEMMA ResetTyped ==
  ASSUME NEW d \in Daemons, NEW E, NEW ss, TypedStreams(d, ss, E), NEW s \in DOMAIN ss
  PROVE  /\ DOMAIN Reset(ss, s) = DOMAIN ss /\ TypedStreams(d, Reset(ss, s), E)
         /\ \A x \in DOMAIN ss : /\ Reset(ss, s)[x].queue = ss[x].queue
                                 /\ Reset(ss, s)[x].fallback =
                                       IF x = s THEN Cleared(s, ss[s].fallback)
                                       ELSE ss[x].fallback
  <1>1. DOMAIN Reset(ss, s) = DOMAIN ss
    BY DEF Reset
  <1>2. \A x \in DOMAIN ss : x # s => Reset(ss, s)[x] = ss[x]
    BY DEF Reset
  <1>3. ss[s] \in StreamsOf(d, s, E)
    BY DEF TypedStreams
  <1> DEFINE cleared == Cleared(s, ss[s].fallback)
  <1>5. cleared \in FallbackItems(d, s)
    BY <1>3, ClearedTyped DEF StreamsOf, Records
  <1>6. Reset(ss, s) = [ss EXCEPT ![s].fallback = cleared,
                                  ![s].interest = IF ss[s].queue # <<>> \/ s[1] = "udev"
                                                  THEN "EPOLLOUT" ELSE "EPOLLIN"]
    BY DEF Reset
  <1> HIDE DEF cleared
  <1>4. /\ Reset(ss, s)[s] \in StreamsOf(d, s, E)
        /\ Reset(ss, s)[s].queue = ss[s].queue /\ Reset(ss, s)[s].fallback = cleared
    BY <1>3, <1>5, <1>6 DEF StreamsOf, Records, Armed, IsSocket
  <1> QED BY <1>1, <1>2, <1>4 DEF TypedStreams, cleared

\* queueing messages keeps the types if they are such as the stream may carry
LEMMA PushAllTyped ==
  ASSUME NEW d \in Daemons, NEW E, NEW ss, TypedStreams(d, ss, E), NEW s,
         NEW ms, s \in DOMAIN ss => ms \in Seq(Sent(d, s, E))
  PROVE  /\ DOMAIN PushAll(ss, s, ms) = DOMAIN ss /\ TypedStreams(d, PushAll(ss, s, ms), E)
         /\ \A x \in DOMAIN ss : PushAll(ss, s, ms)[x].fallback = ss[x].fallback
         /\ \A x \in DOMAIN ss : x # s => PushAll(ss, s, ms)[x] = ss[x]
  <1>1. DOMAIN PushAll(ss, s, ms) = DOMAIN ss
    BY DEF PushAll
  <1>2. \A x \in DOMAIN ss : x # s => PushAll(ss, s, ms)[x] = ss[x]
    BY DEF PushAll
  <1>3. CASE s \notin DOMAIN ss
    BY <1>1, <1>2, <1>3 DEF TypedStreams
  <1> SUFFICES ASSUME s \in DOMAIN ss, ms \in Seq(Sent(d, s, E))
               PROVE  /\ PushAll(ss, s, ms)[s] \in StreamsOf(d, s, E)
                      /\ PushAll(ss, s, ms)[s].fallback = ss[s].fallback
    BY <1>1, <1>2, <1>3 DEF TypedStreams
  <1>6. ss[s] \in StreamsOf(d, s, E)
    BY DEF TypedStreams
  <1> DEFINE items == [i \in DOMAIN ms |-> Item(ms[i])]
  <1>4. items \in Seq(QueueItems(d, s, E))
    <2>1. \A i \in DOMAIN ms : Item(ms[i]) \in QueueItems(d, s, E)
      BY DEF Item, QueueItems, ItemStates
    <2>2. DOMAIN ms = 1..Len(ms) /\ Len(ms) \in Nat
      OBVIOUS
    <2> QED BY <2>1, <2>2
  <1>5. CASE ms = <<>>
    BY <1>6, <1>5 DEF PushAll
  <1>7. CASE ms # <<>>
    <2>1. PushAll(ss, s, ms)[s] = [ss[s] EXCEPT !.queue = @ \o items, !.interest = "EPOLLOUT"]
      BY <1>7 DEF PushAll
    <2>2. ss[s].queue \o items \in Seq(QueueItems(d, s, E))
      BY <1>6, <1>4 DEF StreamsOf, Records
    <2>3. ss[s].queue \o items # <<>>
      <3>1. Len(items) > 0 /\ ss[s].queue \in Seq(QueueItems(d, s, E))
        BY <1>6, <1>7 DEF StreamsOf, Records
      <3> HIDE DEF items
      <3> QED BY <1>4, <3>1
    <2> HIDE DEF items
    <2> QED BY <1>6, <2>1, <2>2, <2>3 DEF StreamsOf, Records, Armed
  <1> QED BY <1>5, <1>7

\* the same for one message
LEMMA PushTyped ==
  ASSUME NEW d \in Daemons, NEW E, NEW ss, TypedStreams(d, ss, E), NEW s,
         NEW m, s \in DOMAIN ss => m \in Sent(d, s, E)
  PROVE  /\ DOMAIN Push(ss, s, m) = DOMAIN ss /\ TypedStreams(d, Push(ss, s, m), E)
         /\ \A x \in DOMAIN ss : Push(ss, s, m)[x].fallback = ss[x].fallback
         /\ \A x \in DOMAIN ss : x # s => Push(ss, s, m)[x] = ss[x]
  <1>1. s \in DOMAIN ss => <<m>> \in Seq(Sent(d, s, E))
    OBVIOUS
  <1> DEFINE ms == <<m>>
  <1>2. Push(ss, s, m) = PushAll(ss, s, ms)
    BY DEF Push
  <1>3. s \in DOMAIN ss => ms \in Seq(Sent(d, s, E))
    BY <1>1
  <1> HIDE DEF ms
  <1>4. /\ DOMAIN PushAll(ss, s, ms) = DOMAIN ss /\ TypedStreams(d, PushAll(ss, s, ms), E)
        /\ \A x \in DOMAIN ss : PushAll(ss, s, ms)[x].fallback = ss[x].fallback
        /\ \A x \in DOMAIN ss : x # s => PushAll(ss, s, ms)[x] = ss[x]
    BY <1>3, PushAllTyped
  <1> QED BY <1>2, <1>4

\* the same for one message on each of several streams
LEMMA PushEachTyped ==
  ASSUME NEW d \in Daemons, NEW E, NEW ss, TypedStreams(d, ss, E), NEW S, NEW m,
         \A s \in S \cap DOMAIN ss : m \in Sent(d, s, E)
  PROVE  /\ DOMAIN PushEach(ss, S, m) = DOMAIN ss /\ TypedStreams(d, PushEach(ss, S, m), E)
         /\ \A x \in DOMAIN ss : PushEach(ss, S, m)[x].fallback = ss[x].fallback
         /\ \A x \in DOMAIN ss : x \notin S => PushEach(ss, S, m)[x] = ss[x]
  <1>1. DOMAIN PushEach(ss, S, m) = DOMAIN ss
    BY DEF PushEach
  <1>2. ASSUME NEW x \in DOMAIN ss
        PROVE  /\ PushEach(ss, S, m)[x] \in StreamsOf(d, x, E)
               /\ PushEach(ss, S, m)[x].fallback = ss[x].fallback
               /\ x \notin S => PushEach(ss, S, m)[x] = ss[x]
    <2>1. CASE x \in S
      <3>1. PushEach(ss, S, m)[x] = Push(ss, x, m)[x]
        BY <2>1 DEF PushEach
      <3>2. m \in Sent(d, x, E)
        BY <2>1
      <3>3. /\ DOMAIN Push(ss, x, m) = DOMAIN ss /\ TypedStreams(d, Push(ss, x, m), E)
            /\ Push(ss, x, m)[x].fallback = ss[x].fallback
        BY <3>2, PushTyped
      <3> QED BY <2>1, <3>1, <3>3 DEF TypedStreams
    <2>2. CASE x \notin S
      BY <2>2 DEF PushEach, TypedStreams
    <2> QED BY <2>1, <2>2
  <1> QED BY <1>1, <1>2 DEF TypedStreams

\* closing streams keeps the types of the others
LEMMA WithoutTyped ==
  ASSUME NEW d \in Daemons, NEW E, NEW ss, TypedStreams(d, ss, E), NEW S
  PROVE  /\ DOMAIN Without(ss, S) = DOMAIN ss \ S /\ TypedStreams(d, Without(ss, S), E)
         /\ \A x \in DOMAIN ss \ S : Without(ss, S)[x] = ss[x]
  BY DEF Without, TypedStreams

\* a new stream may be any stream
LEMMA FreshTyped == \A d, s, E : FreshStream \in StreamsOf(d, s, E)
  BY DEF FreshStream, StreamsOf, Records, Armed, Idle, Item, FallbackItems, ItemStates

\* the end of a handler: its entry leaves the batch, its stream is reset
LEMMA FinishTyped ==
  ASSUME NEW d \in Daemons, NEW E, NEW ss, TypedStreams(d, ss, E), NEW s \in DOMAIN ss,
         d \in DOMAIN streams, d \in DOMAIN batch, Finish(d, s, ss)
  PROVE  /\ streams' = [streams EXCEPT ![d] = streams'[d]]
         /\ batch' = [batch EXCEPT ![d] = @ \ {s}]
         /\ TypedStreams(d, streams'[d], E) /\ DOMAIN streams'[d] = DOMAIN ss
         /\ \A x \in DOMAIN ss : /\ streams'[d][x].queue = ss[x].queue
                                 /\ streams'[d][x].fallback =
                                       IF x = s THEN Cleared(s, ss[s].fallback)
                                       ELSE ss[x].fallback
  BY ResetTyped DEF Finish

\* a daemon that is about to exit may be said to
LEMMA TypedMonotone ==
  ASSUME NEW d \in Daemons, NEW E, NEW F, \A e \in Daemons : E[e] => F[e]
  PROVE  /\ \A ss : TypedStreams(d, ss, E) => TypedStreams(d, ss, F)
         /\ \A p : TypedPipes(p, E) => TypedPipes(p, F)
  <1>1. \A e \in Daemons : Answers(e, E) \subseteq Answers(e, F)
    BY DEF Answers
  <1>2. \A s : Sent(d, s, E) \subseteq Sent(d, s, F)
    BY <1>1 DEF Sent
  <1>3. ASSUME NEW s PROVE StreamsOf(d, s, E) \subseteq StreamsOf(d, s, F)
    <2>1. QueueItems(d, s, E) \subseteq QueueItems(d, s, F)
      BY <1>2 DEF QueueItems
    <2>2. Seq(QueueItems(d, s, E)) \subseteq Seq(QueueItems(d, s, F))
      BY <2>1
    <2> QED BY <2>2 DEF StreamsOf, Records
  <1>4. ASSUME NEW s \in Connections, NEW e \in Ends(s)
        PROVE  Seq(Units(s, e, E)) \subseteq Seq(Units(s, e, F))
    <2>1. Arriving(s, e, E) \subseteq Arriving(s, e, F)
      BY <1>1, TargetAssumption DEF Arriving, Connections, PeerConn, RelayConn
    <2>2. Units(s, e, E) \subseteq Units(s, e, F)
      BY <2>1 DEF Units
    <2> QED BY <2>2
  <1> QED BY <1>3, <1>4 DEF TypedStreams, TypedPipes

-----------------------------------------------------------------------------
(* The types of all variables, and what is known of a step that resolves   *)
(* an entry of a batch.                                                    *)

Entries     == [id : Devices, grabbed : BOOLEAN]
DeviceLists == Seq(Entries)
RelayPlaces == {"off", "waiting", "body", "draining", "closed", "failed"}

RelayRecords == [pc : RelayPlaces, sent : Headers, answer : Headers]

TypeInv ==
    /\ proc \in [Daemons -> {"off", "running", "exited", "failed"}]
    /\ exiting \in [Daemons -> BOOLEAN]
    /\ state \in [Daemons -> {"RUNNING", "PAUSED"}]
    /\ peerState \in [Daemons -> {"CONNECTED", "DISCONNECTED"}]
    /\ peerStream \in [Daemons -> PeersOf(Server) \cup {NoStream}]
    /\ devices \in [Daemons -> DeviceLists]
    /\ polled \in [Daemons -> SUBSET Devices]
    /\ batch \in [Daemons -> SUBSET StreamNames]
    /\ DOMAIN relayStreams = Daemons /\ DOMAIN streams = Daemons
    /\ \A d \in Daemons : /\ relayStreams[d] \in Seq(RelaysOf(d))
                          /\ TypedStreams(d, streams[d], exiting)
    /\ TypedPipes(pipe, exiting)
    /\ open \in [Connections -> SUBSET (Daemons \cup Relays)]
    /\ reset \subseteq Connections /\ listening \in BOOLEAN
    /\ DOMAIN backlog = Daemons \cup {Tcp} /\ backlog[Tcp] \in Seq(PeersOf(Server))
    /\ \A d \in Daemons : backlog[d] \in Seq(RelaysOf(d))
    /\ relay \in [Relays -> RelayRecords]
    /\ evq \in [Devices -> Seq(Events)]
    /\ down \subseteq Devices /\ virt \subseteq Devices /\ inputs \in 0..MaxInput
    /\ unplugged \subseteq Unpluggable

\* a client's devices, epoll set and state after it resolved an entry
GrabMoves(d) ==
    \/ UNCHANGED <<devices, polled, state>>
    \/ \E grab \in BOOLEAN :
          /\ ControlledDevices(d, grab) /\ InputsControllable(d, grab)
          /\ state' = [state EXCEPT ![d] = state'[d]]
          /\ peerState[d] = "CONNECTED" => state'[d] = IF grab THEN "RUNNING" ELSE "PAUSED"

\* a handler may only say that d is about to exit, and open or close no stream
\* but those of uinput devices
StreamsResolved(d, s) ==
    /\ batch' = [batch EXCEPT ![d] = @ \ {s}]
    /\ exiting' \in [Daemons -> BOOLEAN]
    /\ \A e \in Daemons : exiting[e] => exiting'[e]
    /\ DOMAIN streams' = Daemons /\ \A e \in Daemons \ {d} : streams'[e] = streams[e]
    /\ TypedStreams(d, streams'[d], exiting')
    /\ \A x \in NamesOf(d) : x[1] # "udev" => (x \in DOMAIN streams[d] <=> x \in DOMAIN streams'[d])
    /\ \A x \in DOMAIN streams[d] \cap DOMAIN streams'[d] :
          /\ IsSocket(x) => streams'[d][x].fallback \in {streams[d][x].fallback, Idle}
          /\ streams'[d][x].fallback.state \in {streams[d][x].fallback.state, "HEADER"}
          /\ x # s => streams'[d][x].fallback = streams[d][x].fallback

InputsResolved(d) ==
    /\ devices' = [devices EXCEPT ![d] = devices'[d]] /\ devices'[d] \in DeviceLists
    /\ polled' = [polled EXCEPT ![d] = polled'[d]] /\ polled'[d] \subseteq Devices
    /\ state' = [state EXCEPT ![d] = state'[d]] /\ state'[d] \in {"RUNNING", "PAUSED"}
    /\ evq' \in [Devices -> Seq(Events)]
    /\ d # Server => GrabMoves(d)

\* the server may have seen its client stop
PeerResolved(d) ==
    \/ UNCHANGED <<peerState, peerStream, listening, virt>>
    \/ /\ d = Server /\ listening' = TRUE /\ virt' = {}
       /\ peerState' = [peerState EXCEPT ![d] = "DISCONNECTED"]
       /\ peerStream' = [peerStream EXCEPT ![d] = NoStream]

\* d has resolved the entry s
Resolved(d, s) ==
    /\ UNCHANGED <<proc, relayStreams, relay, pipe, open, reset, backlog, down, inputs, unplugged>>
    /\ StreamsResolved(d, s) /\ InputsResolved(d) /\ PeerResolved(d)

\* Msg and DevMsg are messages with the header and the device they are given
LEMMA MessagesLemma ==
  /\ \A h \in Headers : Msg(h) \in Messages /\ Msg(h).h = h
  /\ \A h \in Headers, k \in Devices, v \in Values :
        DevMsg(h, k, v) \in Messages /\ DevMsg(h, k, v).h = h /\ DevMsg(h, k, v).dev = k
  BY DEF Msg, DevMsg, Messages, Values, None

\* a daemon's streams are among StreamNames
LEMMA NamesAreStreamNames == \A d \in Daemons : NamesOf(d) \subseteq StreamNames
  BY DEF NamesOf, RelaysOf, PeersOf, FilesOf, StreamNames, Connections, Daemons

\* draining leaves sequences of events
LEMMA FlushType == ASSUME TypeInv, NEW ids PROVE FlushKeys(ids) \in [Devices -> Seq(Events)]
  <1>1. ASSUME NEW k \in Devices PROVE Flushed(evq[k]) \in Seq(Events)
    <2>1. evq[k] \in Seq(Events)
      BY DEF TypeInv
    <2> DEFINE M == {j \in DOMAIN evq[k] : evq[k][j] \in Movements}
    <2> DEFINE n == Len(evq[k])
    <2>4. n \in Nat /\ M \subseteq 1..n
      BY <2>1
    <2>2. IsFiniteSet(1..n)
      BY <2>4, FS_Interval
    <2>3. Cardinality(M) \in Nat
      BY <2>2, <2>4, FS_Subset, FS_CardinalityType
    <2> DEFINE first == IF evq[k] # <<>> /\ evq[k][1] \notin Movements THEN <<"syn">> ELSE <<>>
               rest  == [j \in 1..(2 * Cardinality(M)) |-> IF j % 2 = 1 THEN "move" ELSE "syn"]
    <2>5. Flushed(evq[k]) = first \o rest
      BY DEF Flushed
    <2>6. first \in Seq(Events)
      <3>1. "syn" \in Events
        BY DEF Events
      <3>2. <<"syn">> \in Seq(Events) /\ <<>> \in Seq(Events)
        BY <3>1
      <3> QED BY <3>2
    <2> HIDE DEF M, first
    <2>7. rest \in Seq(Events)
      <3>1. 2 * Cardinality(M) \in Nat
        BY <2>3
      <3>2. \A j \in 1..(2 * Cardinality(M)) : rest[j] \in Events
        BY DEF Events, Movements
      <3> QED BY <3>1, <3>2
    <2> HIDE DEF rest
    <2> QED BY <2>5, <2>6, <2>7
  <1> QED BY <1>1 DEF FlushKeys, TypeInv

\* the entries of a daemon's list of devices have devices for ids
LEMMA IdsLemma ==
  ASSUME TypeInv, NEW d \in Daemons
  PROVE  /\ \A i \in DOMAIN devices[d] : devices[d][i] \in Entries
         /\ DeviceIds(d) \subseteq Devices
  <1>1. devices[d] \in Seq(Entries)
    BY DEF TypeInv, DeviceLists
  <1>2. \A i \in DOMAIN devices[d] : devices[d][i] \in Entries
    BY <1>1
  <1> QED BY <1>2 DEF DeviceIds, Entries

\* what an entry holds that a handler is called for
LEMMA ReadLemma ==
  ASSUME TypeInv, NEW d \in Daemons, NEW s, NEW h, h # None, h # "GARBAGE", HasRead(d, s, h)
  PROVE  /\ s \in batch[d] /\ s \in DOMAIN streams[d] /\ s \in NamesOf(d)
         /\ streams[d][s].fallback.msg \in Received(d, s)
         /\ streams[d][s].fallback.msg.h = h
         /\ TypedStreams(d, streams[d], exiting)
  BY DEF TypeInv, TypedStreams, HasRead, StreamsOf, Records, FallbackItems, Msg, Garbage, DevMsg

-----------------------------------------------------------------------------
(* Entries that no handler sees *)

\* a handler that touches no device has InputsResolved
LEMMA SameInputs ==
  ASSUME TypeInv, NEW d \in Daemons, UNCHANGED <<devices, polled, state, evq>>
  PROVE  InputsResolved(d)
  BY DEF TypeInv, InputsResolved, GrabMoves

\* the streams once a handler has finished with ss
LEMMA FinishLemma ==
  ASSUME TypeInv, NEW d \in Daemons, NEW s, s \in DOMAIN streams[d], NEW ss,
         exiting' \in [Daemons -> BOOLEAN], \A e \in Daemons : exiting[e] => exiting'[e],
         TypedStreams(d, ss, exiting'), s \in DOMAIN ss,
         \A x \in NamesOf(d) : x[1] # "udev" => (x \in DOMAIN streams[d] <=> x \in DOMAIN ss),
         \A x \in DOMAIN ss \cap DOMAIN streams[d] : ss[x].fallback = streams[d][x].fallback,
         Finish(d, s, ss)
  PROVE  StreamsResolved(d, s)
  <1>1. d \in DOMAIN streams /\ d \in DOMAIN batch
    BY DEF TypeInv
  <1>2. /\ batch' = [batch EXCEPT ![d] = @ \ {s}]
        /\ TypedStreams(d, streams'[d], exiting') /\ DOMAIN streams'[d] = DOMAIN ss
        /\ \A x \in DOMAIN ss :
              streams'[d][x].fallback = IF x = s THEN Cleared(s, ss[s].fallback)
                                        ELSE ss[x].fallback
    BY <1>1, FinishTyped
  <1>4. /\ IsSocket(s) => Cleared(s, ss[s].fallback) = Idle
        /\ Cleared(s, ss[s].fallback).state = "HEADER"
    <2>1. ss[s].fallback \in FallbackItems(d, s)
      BY DEF TypedStreams, StreamsOf, Records
    <2> QED BY <2>1, ClearedTyped
  <1>3. DOMAIN streams' = Daemons /\ \A e \in Daemons \ {d} : streams'[e] = streams[e]
    BY DEF Finish, TypeInv
  <1> QED BY <1>2, <1>3, <1>4 DEF StreamsResolved

\* an entry of a freed stream: the daemon ends or nothing happens
LEMMA ResolveFreedMoves ==
  ASSUME TypeInv, NEW d \in Daemons, NEW s, ResolveFreed(d, s)
  PROVE  Resolved(d, s) \/ Fails(d)
  BY SameInputs DEF ResolveFreed, Resolved, StreamsResolved, PeerResolved, TypeInv,
                    socketVars, inputVars

\* an entry that is half streamed changes nothing
LEMMA ResolveIncompleteMoves ==
  ASSUME TypeInv, NEW d \in Daemons, NEW s, ResolveIncomplete(d, s)
  PROVE  Resolved(d, s)
  BY SameInputs DEF ResolveIncomplete, Resolved, StreamsResolved, PeerResolved, TypeInv,
                    socketVars, inputVars

\* a stream that was popped and reset: the queue without its head, and a uinput stream
\* keeps what it has written
LEMMA WrittenStream ==
  ASSUME TypeInv, NEW d \in Daemons, NEW s, ResolveWritten(d, s)
  PROVE  /\ s \in DOMAIN streams[d] /\ streams[d][s] \in StreamsOf(d, s, exiting)
         /\ DOMAIN streams' = Daemons /\ \A e \in Daemons \ {d} : streams'[e] = streams[e]
         /\ DOMAIN streams'[d] = DOMAIN streams[d]
         /\ \A x \in DOMAIN streams[d] : x # s => streams'[d][x] = streams[d][x]
         /\ streams'[d][s] \in StreamsOf(d, s, exiting)
         /\ streams[d][s].queue = <<>> => streams'[d][s].queue = <<>>
         /\ streams[d][s].queue # <<>> => streams'[d][s].queue = Tail(streams[d][s].queue)
         /\ IsSocket(s) => streams[d][s].queue # <<>> /\ streams'[d][s].fallback = Idle
         /\ s[1] = "udev" =>
               /\ streams'[d][s].interest = "EPOLLOUT"
               /\ streams'[d][s].fallback.msg = NextItem(streams[d][s]).msg
               /\ streams'[d][s].fallback.state = "HEADER"
         /\ IsSocket(s) \/ s[1] = "udev"
  <1> DEFINE old == streams[d][s]
             ss  == [streams[d] EXCEPT ![s] = Popped(old)]
             q   == IF old.queue = <<>> THEN <<>> ELSE Tail(old.queue)
             f   == Cleared(s, NextItem(old))
             i   == IF q # <<>> \/ s[1] = "udev" THEN "EPOLLOUT" ELSE "EPOLLIN"
  <1>1. /\ s \in DOMAIN streams[d] /\ TypedStreams(d, streams[d], exiting)
        /\ old.queue # <<>> \/ s[1] = "udev"
        /\ Finish(d, s, ss) /\ DOMAIN streams = Daemons
    BY DEF ResolveWritten, TypeInv
  <1>2. /\ old \in StreamsOf(d, s, exiting) /\ s \in NamesOf(d)
        /\ old.queue \in Seq(QueueItems(d, s, exiting)) /\ old.fallback \in FallbackItems(d, s)
        /\ old = [queue |-> old.queue, fallback |-> old.fallback, interest |-> old.interest]
    BY <1>1 DEF TypedStreams, StreamsOf, Records
  <1>3. IsSocket(s) \/ s[1] = "udev"
    <2>1. old.queue # <<>> => Head(old.queue) \in QueueItems(d, s, exiting)
      BY <1>2
    <2>2. s[1] = "dev" => QueueItems(d, s, exiting) = {}
      BY DEF QueueItems, Sent
    <2> QED BY <1>1, <1>2, <2>1, <2>2, NamesLemma DEF IsSocket
  <1>4. q \in Seq(QueueItems(d, s, exiting)) /\ i \in {"EPOLLIN", "EPOLLOUT"}
    BY <1>2
  <1>5. /\ IsSocket(s) => f = Idle
        /\ s[1] = "udev" => f = [NextItem(old) EXCEPT !.state = "HEADER"]
    BY DEF Cleared, IsSocket
  <1>6. f \in FallbackItems(d, s)
    <2>1. CASE IsSocket(s)
      BY <1>5, <2>1 DEF FallbackItems, Idle, Item, ItemStates
    <2>2. CASE s[1] = "udev"
      <3>1. CASE old.queue = <<>>
        BY <1>2, <3>1, ClearedTyped DEF NextItem
      <3>2. CASE old.queue # <<>>
        <4>1. old.queue[1] \in QueueItems(d, s, exiting)
          BY <1>2, <3>2
        <4>2. old.queue[1] \in FallbackItems(d, s)
          BY <2>2, <4>1 DEF QueueItems, FallbackItems, Sent, Received
        <4> QED BY <3>2, <4>2, ClearedTyped DEF NextItem
      <3> QED BY <3>1, <3>2
    <2> QED BY <1>3, <2>1, <2>2
  <1>7. /\ DOMAIN ss = DOMAIN streams[d] /\ ss[s] = Popped(old)
        /\ \A x \in DOMAIN ss : x # s => ss[x] = streams[d][x]
    BY <1>1
  <1>8. /\ Popped(old).queue = q /\ Popped(old).fallback = NextItem(old)
        /\ Popped(old) = [queue |-> q, fallback |-> NextItem(old), interest |-> old.interest]
    BY <1>2 DEF Popped, NextItem
  <1> HIDE DEF ss
  <1>9. /\ DOMAIN Reset(ss, s) = DOMAIN ss /\ \A x \in DOMAIN ss : x # s => Reset(ss, s)[x] = ss[x]
        /\ Reset(ss, s)[s] = [ss[s] EXCEPT !.fallback = Cleared(s, ss[s].fallback),
                                            !.interest = IF ss[s].queue # <<>> \/ s[1] = "udev"
                                                         THEN "EPOLLOUT" ELSE "EPOLLIN"]
    BY <1>1, <1>7 DEF Reset
  <1>10. Reset(ss, s)[s] = [queue |-> q, fallback |-> f, interest |-> i]
    <2> DEFINE p == Popped(old)
    <2>1. /\ p.queue = q /\ p.fallback = NextItem(old)
          /\ p = [queue |-> q, fallback |-> NextItem(old), interest |-> old.interest]
          /\ Reset(ss, s)[s] = [p EXCEPT !.fallback = Cleared(s, p.fallback),
                                         !.interest = IF p.queue # <<>> \/ s[1] = "udev"
                                                      THEN "EPOLLOUT" ELSE "EPOLLIN"]
      BY <1>7, <1>8, <1>9
    <2> HIDE DEF p, q
    <2> QED BY <2>1
  <1>11. streams' = [streams EXCEPT ![d] = Reset(ss, s)] /\ streams'[d] = Reset(ss, s)
    BY <1>1 DEF Finish
  <1>14. s[1] = "udev" => i = "EPOLLOUT"
    OBVIOUS
  <1>15. IsSocket(s) => s[1] # "udev"
    BY DEF IsSocket
  <1>16. i = "EPOLLOUT" /\ IsSocket(s) => q # <<>>
    BY <1>15
  <1> HIDE DEF q, f, i
  <1>12. Reset(ss, s)[s] \in Records(d, s, exiting)
    BY <1>4, <1>6, <1>10 DEF Records
  <1>13. Armed(s, Reset(ss, s)[s])
    BY <1>10, <1>16 DEF Armed
  <1>17. Reset(ss, s)[s] \in StreamsOf(d, s, exiting)
    BY <1>12, <1>13 DEF StreamsOf
  <1>18. s[1] = "udev" => f.msg = NextItem(old).msg /\ f.state = "HEADER"
    <2>1. old.fallback = [msg |-> old.fallback.msg, state |-> old.fallback.state]
      BY <1>2 DEF FallbackItems
    <2>2. old.queue # <<>> => old.queue[1] \in QueueItems(d, s, exiting)
      BY <1>2
    <2>3. old.queue # <<>> => old.queue[1] = [msg |-> old.queue[1].msg, state |-> old.queue[1].state]
      BY <2>2 DEF QueueItems
    <2>4. NextItem(old) = [msg |-> NextItem(old).msg, state |-> NextItem(old).state]
      BY <2>1, <2>3 DEF NextItem
    <2> QED BY <1>5, <2>4
  <1>19. DOMAIN streams' = Daemons /\ \A e \in Daemons \ {d} : streams'[e] = streams[e]
    BY <1>1, <1>11
  <1>20. old.queue = <<>> => q = <<>>
    BY DEF q
  <1>21. old.queue # <<>> => q = Tail(old.queue)
    BY DEF q
  <1> HIDE DEF old
  <1>22. /\ DOMAIN streams'[d] = DOMAIN streams[d]
         /\ \A x \in DOMAIN streams[d] : x # s => streams'[d][x] = streams[d][x]
    BY <1>7, <1>9, <1>11
  <1>23. /\ streams'[d][s].queue = q /\ streams'[d][s].fallback = f
         /\ streams'[d][s].interest = i /\ streams'[d][s] \in StreamsOf(d, s, exiting)
    BY <1>10, <1>11, <1>17
  <1> QED BY <1>1, <1>2, <1>3, <1>5, <1>14, <1>15, <1>18, <1>19, <1>20, <1>21, <1>22, <1>23 DEF old

\* a written message is taken off its queue
LEMMA ResolveWrittenMoves ==
  ASSUME TypeInv, NEW d \in Daemons, NEW s, ResolveWritten(d, s)
  PROVE  Resolved(d, s)
  <1>1. /\ s \in DOMAIN streams[d] /\ DOMAIN streams'[d] = DOMAIN streams[d]
        /\ DOMAIN streams' = Daemons /\ \A e \in Daemons \ {d} : streams'[e] = streams[e]
        /\ \A x \in DOMAIN streams[d] : x # s => streams'[d][x] = streams[d][x]
        /\ streams'[d][s] \in StreamsOf(d, s, exiting)
        /\ IsSocket(s) => streams'[d][s].fallback = Idle
        /\ s[1] = "udev" => streams'[d][s].fallback.state = "HEADER"
        /\ IsSocket(s) \/ s[1] = "udev"
    BY WrittenStream
  <1>7. streams'[d][s].fallback.state = "HEADER"
    BY <1>1 DEF Idle, Item
  <1>2. exiting' = exiting /\ batch' = [batch EXCEPT ![d] = @ \ {s}]
    BY DEF ResolveWritten, Finish
  <1>3. exiting' \in [Daemons -> BOOLEAN] /\ \A e \in Daemons : exiting[e] => exiting'[e]
    BY <1>2 DEF TypeInv
  <1>5. TypedStreams(d, streams'[d], exiting')
    BY <1>1, <1>2 DEF TypedStreams, TypeInv
  <1>6. StreamsResolved(d, s)
    BY <1>1, <1>2, <1>3, <1>5, <1>7 DEF StreamsResolved
  <1> QED BY <1>6, SameInputs DEF ResolveWritten, Resolved, PeerResolved, socketVars, inputVars

-----------------------------------------------------------------------------
(* Handlers of the peer's messages *)

\* what pause and resume queue
LEMMA ControlTyped ==
  ASSUME TypeInv, NEW d \in Daemons, NEW grab \in BOOLEAN, InputsControllable(d, grab)
  PROVE  LET ss == ControlInputs(d, streams[d], grab)
         IN  /\ DOMAIN ss = DOMAIN streams[d] /\ TypedStreams(d, ss, exiting)
             /\ \A x \in DOMAIN ss : ss[x].fallback = streams[d][x].fallback
  <1>1. TypedStreams(d, streams[d], exiting) /\ devices[d] \in DeviceLists
    BY DEF TypeInv
  <1>2. CASE d = Server
    <2> DEFINE ss == ReleaseVirtKeys(d, streams[d])
    <2>1. DOMAIN ss = DOMAIN streams[d]
      BY DEF ReleaseVirtKeys
    <2>2. ASSUME NEW x \in DOMAIN streams[d]
          PROVE  ss[x] \in StreamsOf(d, x, exiting) /\ ss[x].fallback = streams[d][x].fallback
      <3>1. CASE x \in UdevStreams(d)
        <4> DEFINE ms == <<DevMsg("UINPUT", x[2], "release"), DevMsg("UINPUT", x[2], "report")>>
        <4>1. x \in NamesOf(d) /\ x[1] = "udev"
          BY <1>1, <3>1 DEF TypedStreams, UdevStreams, UdevStream
        <4>2. ms \in Seq(Sent(d, x, exiting))
          <5>1. /\ DevMsg("UINPUT", x[2], "release") \in Sent(d, x, exiting)
                /\ DevMsg("UINPUT", x[2], "report") \in Sent(d, x, exiting)
            BY <4>1, NamesLemma, MessagesLemma DEF Sent, Written, Headers, Values
          <5> QED BY <5>1
        <4>3. ss[x] = PushAll(streams[d], x, ms)[x]
          BY <3>1 DEF ReleaseVirtKeys
        <4> HIDE DEF ms, ss
        <4>4. /\ DOMAIN PushAll(streams[d], x, ms) = DOMAIN streams[d]
              /\ TypedStreams(d, PushAll(streams[d], x, ms), exiting)
              /\ PushAll(streams[d], x, ms)[x].fallback = streams[d][x].fallback
          BY <1>1, <4>2, PushAllTyped
        <4> QED BY <4>3, <4>4 DEF TypedStreams
      <3>2. CASE x \notin UdevStreams(d)
        BY <1>1, <3>2 DEF ReleaseVirtKeys, TypedStreams
      <3> QED BY <3>1, <3>2
    <2> QED BY <1>1, <1>2, <2>1, <2>2 DEF ControlInputs, TypedStreams
  <1>3. CASE d # Server
    <2> DEFINE ms == [i \in DOMAIN devices[d] |-> GrabMsg(devices[d][i].id, grab)]
    <2>1. peerStream[d] \in DOMAIN streams[d] => ms \in Seq(Sent(d, peerStream[d], exiting))
      <3> SUFFICES ASSUME peerStream[d] \in DOMAIN streams[d]
                   PROVE  ms \in Seq(Sent(d, peerStream[d], exiting))
        OBVIOUS
      <3>1. peerStream[d] \in NamesOf(d) /\ peerStream[d] \in PeersOf(Server) \cup {NoStream}
        BY <1>1 DEF TypedStreams, TypeInv
      <3>2. peerStream[d][1] = "peer"
        BY <3>1, NamesLemma DEF PeersOf, PeerConn, NoStream
      <3>3. ASSUME NEW i \in DOMAIN devices[d]
            PROVE  GrabMsg(devices[d][i].id, grab) \in ToServer
        <4>1. devices[d][i].id \in Devices
          BY IdsLemma DEF Entries
        <4> QED BY <4>1, MessagesLemma DEF GrabMsg, ToServer, DeviceHeaders, Headers, Values
      <3>4. DOMAIN devices[d] = 1..Len(devices[d]) /\ Len(devices[d]) \in Nat
        BY <1>1 DEF DeviceLists
      <3> QED BY <1>3, <3>2, <3>3, <3>4 DEF Sent
    <2>2. ControlInputs(d, streams[d], grab) = PushAll(streams[d], peerStream[d], ms)
      BY <1>3 DEF ControlInputs, ControlDevices
    <2> HIDE DEF ms
    <2>3. /\ DOMAIN PushAll(streams[d], peerStream[d], ms) = DOMAIN streams[d]
          /\ TypedStreams(d, PushAll(streams[d], peerStream[d], ms), exiting)
          /\ \A x \in DOMAIN streams[d] :
                PushAll(streams[d], peerStream[d], ms)[x].fallback = streams[d][x].fallback
      BY <1>1, <2>1, PushAllTyped
    <2> QED BY <2>2, <2>3
  <1> QED BY <1>2, <1>3

\* what pause and resume leave of devices and epoll set
LEMMA ControlledLemma ==
  ASSUME TypeInv, NEW d \in Daemons, NEW grab \in BOOLEAN, InputsControllable(d, grab),
         ControlledInputs(d, grab),
         state' = [state EXCEPT ![d] = state'[d]], state'[d] \in {"RUNNING", "PAUSED"},
         peerState[d] = "CONNECTED" => state'[d] = IF grab THEN "RUNNING" ELSE "PAUSED"
  PROVE  InputsResolved(d)
  <1>1. CASE d = Server
    BY <1>1 DEF ControlledInputs, InputsResolved, TypeInv
  <1>2. CASE d # Server
    <2>1. ControlledDevices(d, grab)
      BY <1>2 DEF ControlledInputs
    <2>2. devices[d] \in DeviceLists
      BY DEF TypeInv
    <2>3. devices'[d] = [i \in DOMAIN devices[d] |-> [devices[d][i] EXCEPT !.grabbed = grab]]
      BY <2>1 DEF ControlledDevices, TypeInv
    <2>4. devices'[d] \in DeviceLists
      <3>1. DOMAIN devices[d] = 1..Len(devices[d]) /\ Len(devices[d]) \in Nat
        BY <2>2 DEF DeviceLists
      <3>2. ASSUME NEW i \in DOMAIN devices[d]
            PROVE  [devices[d][i] EXCEPT !.grabbed = grab] \in Entries
        BY IdsLemma DEF Entries
      <3> QED BY <2>3, <3>1, <3>2 DEF DeviceLists
    <2>5. devices' = [devices EXCEPT ![d] = devices'[d]]
      BY <2>1, <2>3 DEF ControlledDevices, TypeInv
    <2>6. DeviceIds(d) \subseteq Devices
      BY IdsLemma
    <2>7. polled' = [polled EXCEPT ![d] = polled'[d]] /\ polled'[d] \subseteq Devices
      BY <2>1, <2>6 DEF ControlledDevices, TypeInv
    <2>8. evq' \in [Devices -> Seq(Events)]
      BY <2>1, FlushType DEF ControlledDevices
    <2>9. GrabMoves(d)
      BY <2>1 DEF GrabMoves
    <2> QED BY <2>4, <2>5, <2>7, <2>8, <2>9 DEF InputsResolved
  <1> QED BY <1>1, <1>2

\* a message to all relays
LEMMA BroadcastTyped ==
  ASSUME TypeInv, NEW d \in Daemons, NEW E, NEW ss, TypedStreams(d, ss, E),
         NEW h \in Headers, h = "RELAY_STOP" => E[d]
  PROVE  LET tt == Broadcast(d, ss, h)
         IN  /\ DOMAIN tt = DOMAIN ss /\ TypedStreams(d, tt, E)
             /\ \A x \in DOMAIN ss : tt[x].fallback = ss[x].fallback
  <1>1. ASSUME NEW s \in RelaySet(d) PROVE Msg(h) \in Sent(d, s, E)
    <2>1. relayStreams[d] \in Seq(RelaysOf(d))
      BY DEF TypeInv
    <2>2. s \in RelaysOf(d)
      BY <2>1 DEF RelaySet
    <2>3. s[1] = "relay"
      BY <2>2 DEF RelaysOf, RelayConn
    <2> QED BY <2>3, MessagesLemma DEF Sent, Answers
  <1> QED BY <1>1, PushEachTyped DEF Broadcast

\* handler_dev_crt does what Resolved allows
LEMMA PeerDevCrtMoves ==
  ASSUME TypeInv, NEW d \in Daemons, NEW s, PeerDevCrt(d, s)
  PROVE  Resolved(d, s)
  <1> DEFINE k  == streams[d][s].fallback.msg.dev
             ss == Opened(streams[d], {UdevStream(k)})
  <1>1. HasRead(d, s, "PEER_DEV_CRT") /\ s[1] = "peer"
    BY DEF PeerDevCrt
  <1>2. /\ s \in DOMAIN streams[d] /\ s \in NamesOf(d) /\ TypedStreams(d, streams[d], exiting)
        /\ streams[d][s].fallback.msg \in Received(d, s)
        /\ streams[d][s].fallback.msg.h = "PEER_DEV_CRT"
    BY <1>1, ReadLemma DEF None
  <1>3. d = Server /\ k \in Devices
    BY <1>1, <1>2 DEF Received, ToServer, ToClient, PeerControls
  <1>4. UdevStream(k) \in NamesOf(d) /\ UdevStream(k)[1] = "udev"
    BY <1>3 DEF NamesOf, FilesOf, UdevStream
  <1>5. Finish(d, s, ss) /\ exiting' = exiting
    BY DEF PeerDevCrt
  <1>6. devices' = [devices EXCEPT ![d] = Append(@, [id |-> k, grabbed |-> FALSE])]
    BY DEF PeerDevCrt
  <1> HIDE DEF k
  <1>7. /\ DOMAIN ss = DOMAIN streams[d] \cup {UdevStream(k)} /\ TypedStreams(d, ss, exiting)
        /\ \A x \in DOMAIN streams[d] : ss[x] = streams[d][x]
    <2>1. /\ DOMAIN ss = DOMAIN streams[d] \cup {UdevStream(k)}
          /\ \A x \in DOMAIN streams[d] : ss[x] = streams[d][x]
          /\ UdevStream(k) \notin DOMAIN streams[d] => ss[UdevStream(k)] = FreshStream
      BY DEF Opened
    <2>2. FreshStream \in StreamsOf(d, UdevStream(k), exiting)
      BY FreshTyped
    <2> HIDE DEF ss
    <2> QED BY <1>2, <1>4, <2>1, <2>2 DEF TypedStreams
  <1> HIDE DEF ss
  <1>8. exiting' \in [Daemons -> BOOLEAN] /\ \A e \in Daemons : exiting[e] => exiting'[e]
    BY <1>5 DEF TypeInv
  <1>9. StreamsResolved(d, s)
    BY <1>2, <1>4, <1>5, <1>7, <1>8, FinishLemma
  <1>10. devices'[d] = Append(devices[d], [id |-> k, grabbed |-> FALSE])
    BY <1>6 DEF TypeInv
  <1>11. devices'[d] \in DeviceLists
    <2>1. [id |-> k, grabbed |-> FALSE] \in Entries /\ devices[d] \in Seq(Entries)
      BY <1>3 DEF TypeInv, DeviceLists, Entries
    <2> QED BY <1>10, <2>1 DEF DeviceLists
  <1>12. UNCHANGED <<polled, state, evq>>
    BY DEF PeerDevCrt, PeerUnchanged
  <1>13. InputsResolved(d)
    BY <1>3, <1>6, <1>10, <1>11, <1>12 DEF InputsResolved, TypeInv
  <1> QED BY <1>9, <1>13 DEF PeerDevCrt, PeerUnchanged, Resolved, PeerResolved, socketVars

\* so does handler_dev_upd_grab, or the daemon ends
LEMMA PeerUpdGrabMoves ==
  ASSUME TypeInv, NEW d \in Daemons, NEW s, PeerUpdGrab(d, s)
  PROVE  Resolved(d, s) \/ Fails(d)
  <1> SUFFICES ASSUME ~Fails(d) PROVE Resolved(d, s)
    OBVIOUS
  <1> DEFINE m == streams[d][s].fallback.msg
             i == FindById(d, m.dev)
  <1>1. HasRead(d, s, "PEER_GRAB") /\ s[1] = "peer" /\ Finish(d, s, streams[d])
    BY DEF PeerUpdGrab
  <1>2. /\ s \in DOMAIN streams[d] /\ TypedStreams(d, streams[d], exiting)
        /\ m \in Received(d, s) /\ m.h = "PEER_GRAB"
    BY <1>1, ReadLemma DEF None
  <1>3. d = Server
    BY <1>1, <1>2 DEF Received, ToClient, PeerControls
  <1>4. devices' = [devices EXCEPT ![d][i].grabbed = (m.val = "grabbed")]
    BY DEF PeerUpdGrab
  <1>5. UNCHANGED <<exiting, polled, state, evq>>
    BY DEF PeerUpdGrab, PeerUnchanged
  <1>6. exiting' \in [Daemons -> BOOLEAN] /\ \A e \in Daemons : exiting[e] => exiting'[e]
    BY <1>5 DEF TypeInv
  <1>7. StreamsResolved(d, s)
    BY <1>1, <1>2, <1>5, <1>6, FinishLemma
  <1> DEFINE g == (m.val = "grabbed")
  <1>8. g \in BOOLEAN
    OBVIOUS
  <1> HIDE DEF g, i
  <1>9. devices' = [devices EXCEPT ![d] = [devices[d] EXCEPT ![i].grabbed = g]]
    BY <1>4 DEF g
  <1>10. devices'[d] = [devices[d] EXCEPT ![i].grabbed = g]
    BY <1>9 DEF TypeInv
  <1>11. devices'[d] \in DeviceLists
    <2>1. devices[d] \in Seq(Entries)
      BY DEF TypeInv, DeviceLists
    <2>2. DOMAIN devices'[d] = 1..Len(devices[d]) /\ Len(devices[d]) \in Nat
      BY <1>10, <2>1
    <2>3. ASSUME NEW j \in 1..Len(devices[d]) PROVE devices'[d][j] \in Entries
      <3>1. devices[d][j] \in Entries
        BY <2>1
      <3>2. [devices[d][j] EXCEPT !.grabbed = g] \in Entries
        BY <1>8, <3>1 DEF Entries
      <3>3. devices'[d][j] = IF j = i THEN [devices[d][j] EXCEPT !.grabbed = g] ELSE devices[d][j]
        BY <1>10, <2>1
      <3> QED BY <3>1, <3>2, <3>3
    <2>4. devices'[d] = [j \in 1..Len(devices[d]) |-> devices'[d][j]]
      BY <1>10, <2>1
    <2> QED BY <2>2, <2>3, <2>4 DEF DeviceLists
  <1>12. InputsResolved(d)
    BY <1>3, <1>5, <1>9, <1>10, <1>11 DEF InputsResolved, TypeInv
  <1> QED BY <1>7, <1>12 DEF PeerUpdGrab, PeerUnchanged, Resolved, PeerResolved, socketVars

\* so does handler_event
LEMMA PeerEventMoves ==
  ASSUME TypeInv, NEW d \in Daemons, NEW s, PeerEvent(d, s)
  PROVE  Resolved(d, s) \/ Fails(d)
  <1> SUFFICES ASSUME ~Fails(d) PROVE Resolved(d, s)
    OBVIOUS
  <1> DEFINE m  == streams[d][s].fallback.msg
             k  == devices[d][FindById(d, m.dev)].id
             o  == <<DevMsg("UINPUT", k, m.val)>>
                      \o (IF m.val \in Movements THEN <<DevMsg("UINPUT", k, "report")>> ELSE <<>>)
             ss == PushAll(streams[d], UdevStream(k), o)
  <1>1. HasRead(d, s, "PEER_EVENT") /\ s[1] = "peer" /\ Finish(d, s, ss)
    BY DEF PeerEvent, EmitEvent
  <1>2. /\ s \in DOMAIN streams[d] /\ TypedStreams(d, streams[d], exiting)
        /\ m \in Received(d, s)
    BY <1>1, ReadLemma DEF None
  <1>3. m.val \in Values
    BY <1>1, <1>2 DEF Received, ToServer, ToClient, Messages
  <1> HIDE DEF k, m
  <1>4. UdevStream(k) \in DOMAIN streams[d] => o \in Seq(Sent(d, UdevStream(k), exiting))
    <2> SUFFICES ASSUME UdevStream(k) \in DOMAIN streams[d]
                 PROVE  o \in Seq(Sent(d, UdevStream(k), exiting))
      OBVIOUS
    <2>1. k \in Devices
      BY <1>2, NamesLemma DEF TypedStreams, UdevStream
    <2>2. /\ DevMsg("UINPUT", k, m.val) \in Sent(d, UdevStream(k), exiting)
          /\ DevMsg("UINPUT", k, "report") \in Sent(d, UdevStream(k), exiting)
      BY <1>3, <2>1, MessagesLemma DEF Sent, Written, UdevStream, Headers, Values
    <2> QED BY <2>2
  <1> HIDE DEF o
  <1>5. /\ DOMAIN ss = DOMAIN streams[d] /\ TypedStreams(d, ss, exiting)
        /\ \A x \in DOMAIN streams[d] : ss[x].fallback = streams[d][x].fallback
    BY <1>2, <1>4, PushAllTyped
  <1> HIDE DEF ss
  <1>6. UNCHANGED <<exiting, devices, polled, state, evq>>
    BY DEF PeerEvent, PeerUnchanged
  <1>7. exiting' \in [Daemons -> BOOLEAN] /\ \A e \in Daemons : exiting[e] => exiting'[e]
    BY <1>6 DEF TypeInv
  <1>8. StreamsResolved(d, s)
    BY <1>1, <1>2, <1>5, <1>6, <1>7, FinishLemma
  <1> QED BY <1>6, <1>8, SameInputs DEF PeerEvent, PeerUnchanged, Resolved, PeerResolved, socketVars

\* so do handler_pause and handler_resume of a peer
LEMMA PeerControlMoves ==
  ASSUME TypeInv, NEW d \in Daemons, NEW s, NEW h \in PeerControls, NEW grab \in BOOLEAN,
         NEW reply \in {"RELAY_PAUSE", "RELAY_RESUME"},
         PeerControl(d, s, h, grab, reply, IF grab THEN "RUNNING" ELSE "PAUSED")
  PROVE  Resolved(d, s) \/ Fails(d)
  <1> SUFFICES ASSUME ~Fails(d) PROVE Resolved(d, s)
    OBVIOUS
  <1> DEFINE held == ControlInputs(d, streams[d], grab)
             ss   == Broadcast(d, held, reply)
  <1>1. /\ HasRead(d, s, h) /\ s[1] = "peer" /\ Finish(d, s, ss)
        /\ InputsControllable(d, grab) /\ ControlledInputs(d, grab)
        /\ state' = [state EXCEPT ![d] = IF grab THEN "RUNNING" ELSE "PAUSED"]
    BY DEF PeerControl
  <1>2. s \in DOMAIN streams[d]
    BY <1>1 DEF HasRead
  <1>3. /\ DOMAIN held = DOMAIN streams[d] /\ TypedStreams(d, held, exiting)
        /\ \A x \in DOMAIN held : held[x].fallback = streams[d][x].fallback
    BY <1>1, ControlTyped
  <1> HIDE DEF held
  <1>4. /\ DOMAIN ss = DOMAIN held /\ TypedStreams(d, ss, exiting)
        /\ \A x \in DOMAIN held : ss[x].fallback = held[x].fallback
    BY <1>3, BroadcastTyped DEF Headers, RelayHeaders
  <1> HIDE DEF ss
  <1>5. exiting' = exiting
    BY DEF PeerControl, PeerUnchanged
  <1>6. exiting' \in [Daemons -> BOOLEAN] /\ \A e \in Daemons : exiting[e] => exiting'[e]
    BY <1>5 DEF TypeInv
  <1>7. StreamsResolved(d, s)
    BY <1>1, <1>2, <1>3, <1>4, <1>5, <1>6, FinishLemma
  <1>8. InputsResolved(d)
    <2>1. state'[d] = IF grab THEN "RUNNING" ELSE "PAUSED"
      BY <1>1 DEF TypeInv
    <2> QED BY <1>1, <2>1, ControlledLemma
  <1> QED BY <1>7, <1>8 DEF PeerControl, PeerUnchanged, Resolved, PeerResolved, socketVars

\* so does handler_stop on a client, which may now be said to exit
LEMMA PeerStopClientMoves ==
  ASSUME TypeInv, NEW d \in Daemons, NEW s, PeerStopClient(d, s)
  PROVE  Resolved(d, s)
  <1> DEFINE ss == Broadcast(d, streams[d], "RELAY_STOP")
  <1>1. /\ HasRead(d, s, "PEER_STOP") /\ Finish(d, s, ss)
        /\ exiting' = [exiting EXCEPT ![d] = TRUE]
    BY DEF PeerStopClient
  <1>2. s \in DOMAIN streams[d] /\ TypedStreams(d, streams[d], exiting)
    BY <1>1 DEF HasRead, TypeInv
  <1>3. /\ exiting' \in [Daemons -> BOOLEAN] /\ \A e \in Daemons : exiting[e] => exiting'[e]
        /\ exiting'[d]
    BY <1>1 DEF TypeInv
  <1>4. TypedStreams(d, streams[d], exiting')
    BY <1>2, <1>3, TypedMonotone
  <1>5. /\ DOMAIN ss = DOMAIN streams[d] /\ TypedStreams(d, ss, exiting')
        /\ \A x \in DOMAIN streams[d] : ss[x].fallback = streams[d][x].fallback
    BY <1>3, <1>4, BroadcastTyped DEF Headers, RelayHeaders
  <1> HIDE DEF ss
  <1>6. StreamsResolved(d, s)
    BY <1>1, <1>2, <1>3, <1>5, FinishLemma
  <1>7. InputsResolved(d)
    BY SameInputs DEF PeerStopClient, PeerUnchanged
  <1> QED BY <1>6, <1>7 DEF PeerStopClient, PeerUnchanged, Resolved, PeerResolved, socketVars

\* so does handler_stop on the server, which forgets devices and peer at once
LEMMA PeerStopServerMoves ==
  ASSUME TypeInv, NEW d \in Daemons, NEW s, PeerStopServer(d, s)
  PROVE  Resolved(d, s)
  <1> DEFINE ss == Without(streams[d], UdevStreams(d))
  <1>1. /\ d = Server /\ HasRead(d, s, "PEER_STOP") /\ s[1] = "peer" /\ Finish(d, s, ss)
        /\ devices' = [devices EXCEPT ![d] = <<>>] /\ state' = [state EXCEPT ![d] = "RUNNING"]
    BY DEF PeerStopServer, NoDevices
  <1>2. s \in DOMAIN streams[d] /\ TypedStreams(d, streams[d], exiting)
    BY <1>1 DEF HasRead, TypeInv
  <1>3. \A x \in UdevStreams(d) : x[1] = "udev"
    BY DEF UdevStreams, UdevStream
  <1>4. /\ DOMAIN ss = DOMAIN streams[d] \ UdevStreams(d) /\ TypedStreams(d, ss, exiting)
        /\ \A x \in DOMAIN ss : ss[x] = streams[d][x]
    BY <1>2, WithoutTyped
  <1> HIDE DEF ss
  <1>5. UNCHANGED <<exiting, polled, evq>>
    BY DEF PeerStopServer, PeerUnchanged
  <1>6. exiting' \in [Daemons -> BOOLEAN] /\ \A e \in Daemons : exiting[e] => exiting'[e]
    BY <1>5 DEF TypeInv
  <1>7. s \in DOMAIN ss
    BY <1>1, <1>2, <1>3, <1>4
  <1>8. StreamsResolved(d, s)
    BY <1>1, <1>2, <1>3, <1>4, <1>5, <1>6, <1>7, FinishLemma
  <1>9. devices'[d] = <<>> /\ state'[d] = "RUNNING"
    BY <1>1 DEF TypeInv
  <1>10. InputsResolved(d)
    BY <1>1, <1>5, <1>9 DEF InputsResolved, TypeInv, DeviceLists
  <1> QED BY <1>1, <1>8, <1>10 DEF PeerStopServer, PeerUnchanged, Resolved, PeerResolved

-----------------------------------------------------------------------------
(* Handlers of the relays' requests *)

\* the entry of a request is a relay's stream
LEMMA RequestLemma ==
  ASSUME TypeInv, NEW d \in Daemons, NEW s, NEW h \in RelayHeaders, HasRead(d, s, h)
  PROVE  /\ s \in DOMAIN streams[d] /\ s \in RelaysOf(d) /\ s[1] = "relay"
         /\ TypedStreams(d, streams[d], exiting)
  <1>1. /\ s \in DOMAIN streams[d] /\ s \in NamesOf(d) /\ TypedStreams(d, streams[d], exiting)
        /\ streams[d][s].fallback.msg \in Received(d, s) /\ streams[d][s].fallback.msg.h = h
    BY ReadLemma DEF None, RelayHeaders
  <1>2. s[1] = "relay"
    BY <1>1 DEF Received, Written, ToServer, ToClient, PeerControls, DeviceHeaders,
                   RelayHeaders
  <1> QED BY <1>1, <1>2, NamesLemma

\* so does a handler that only answers, as long as the answer is no RELAY_STOP
LEMMA AnswerMoves ==
  ASSUME TypeInv, NEW d \in Daemons, NEW s, NEW h \in RelayHeaders, HasRead(d, s, h),
         NEW m \in Messages, m.h # "RELAY_STOP", Answer(d, s, m)
  PROVE  Resolved(d, s)
  <1> DEFINE ss == Push(streams[d], s, m)
  <1>1. s \in DOMAIN streams[d] /\ s[1] = "relay" /\ TypedStreams(d, streams[d], exiting)
    BY RequestLemma
  <1>2. m \in Sent(d, s, exiting)
    BY <1>1 DEF Sent, Answers
  <1>3. /\ DOMAIN ss = DOMAIN streams[d] /\ TypedStreams(d, ss, exiting)
        /\ \A x \in DOMAIN streams[d] : ss[x].fallback = streams[d][x].fallback
    BY <1>1, <1>2, PushTyped
  <1>4. Finish(d, s, ss) /\ UNCHANGED <<exiting, devices, polled, state, evq>>
    BY DEF Answer
  <1> HIDE DEF ss
  <1>5. exiting' \in [Daemons -> BOOLEAN] /\ \A e \in Daemons : exiting[e] => exiting'[e]
    BY <1>4 DEF TypeInv
  <1>6. StreamsResolved(d, s)
    BY <1>1, <1>3, <1>4, <1>5, FinishLemma
  <1> QED BY <1>4, <1>6, SameInputs DEF Answer, RelayUnchanged, Resolved, PeerResolved, socketVars

\* so does the request to hang
LEMMA RelayIdleMoves ==
  ASSUME TypeInv, NEW d \in Daemons, NEW s, RelayIdle(d, s)
  PROVE  Resolved(d, s)
  <1>1. /\ HasRead(d, s, "RELAY_IDLE") /\ Finish(d, s, streams[d])
        /\ UNCHANGED <<exiting, devices, polled, state, evq>>
    BY DEF RelayIdle
  <1>2. s \in DOMAIN streams[d] /\ TypedStreams(d, streams[d], exiting)
    BY <1>1, RequestLemma DEF RelayHeaders
  <1>3. exiting' \in [Daemons -> BOOLEAN] /\ \A e \in Daemons : exiting[e] => exiting'[e]
    BY <1>1 DEF TypeInv
  <1>4. StreamsResolved(d, s)
    BY <1>1, <1>2, <1>3, FinishLemma
  <1> QED BY <1>1, <1>4, SameInputs DEF RelayIdle, RelayUnchanged, Resolved, PeerResolved, socketVars

\* those that only answer
LEMMA AnsweringMoves ==
  ASSUME TypeInv, NEW d \in Daemons, NEW s,
         \/ RelayStart(d, s) \/ RelayList(d, s) \/ RelayPauseAgain(d, s) \/ RelayResumeAgain(d, s)
  PROVE  Resolved(d, s)
  <1>1. DevMsg("RELAY_LIST", None, "devices") \in Messages
    BY DEF DevMsg, Messages, Headers, Values, RelayHeaders
  <1>2. /\ Msg("RELAY_START") \in Messages /\ Msg("RELAY_LIST") \in Messages
        /\ Msg("RELAY_PAUSE_AGAIN") \in Messages /\ Msg("RELAY_RESUME_AGAIN") \in Messages
    BY MessagesLemma DEF Headers, RelayHeaders
  <1>3. \E h \in RelayHeaders, m \in Messages :
           HasRead(d, s, h) /\ m.h # "RELAY_STOP" /\ Answer(d, s, m)
    <2>1. CASE RelayStart(d, s)
      BY <1>2, <2>1 DEF RelayStart, RelayHeaders, Msg
    <2>2. CASE RelayList(d, s)
      BY <1>1, <1>2, <2>2 DEF RelayList, RelayHeaders, Msg, DevMsg
    <2>3. CASE RelayPauseAgain(d, s)
      BY <1>2, <2>3 DEF RelayPauseAgain, AsksToPause, RelayHeaders, Msg
    <2>4. CASE RelayResumeAgain(d, s)
      BY <1>2, <2>4 DEF RelayResumeAgain, AsksToResume, RelayHeaders, Msg
    <2> QED BY <2>1, <2>2, <2>3, <2>4
  <1> QED BY <1>3, AnswerMoves

\* a message to the peer, whose stream is there
LEMMA ToPeerTyped ==
  ASSUME TypeInv, NEW d \in Daemons, NEW E, NEW ss, TypedStreams(d, ss, E),
         NEW m \in Messages, m.h \in PeerControls \/ (d # Server /\ m \in ToServer)
  PROVE  LET tt == Push(ss, peerStream[d], m)
         IN  /\ DOMAIN tt = DOMAIN ss /\ TypedStreams(d, tt, E)
             /\ \A x \in DOMAIN ss : tt[x].fallback = ss[x].fallback
  <1>1. ASSUME peerStream[d] \in DOMAIN ss PROVE m \in Sent(d, peerStream[d], E)
    <2>1. peerStream[d] \in NamesOf(d) /\ peerStream[d] \in PeersOf(Server) \cup {NoStream}
      BY <1>1 DEF TypedStreams, TypeInv
    <2>2. peerStream[d][1] = "peer"
      BY <2>1, NamesLemma DEF PeersOf, PeerConn, NoStream
    <2> QED BY <2>2 DEF Sent, ToServer, ToClient
  <1> QED BY <1>1, PushTyped

\* so does handler_pause of a relay, or the daemon ends
LEMMA RelayPauseMoves ==
  ASSUME TypeInv, NEW d \in Daemons, NEW s, RelayPause(d, s)
  PROVE  Resolved(d, s) \/ Fails(d)
  <1> SUFFICES ASSUME ~Fails(d) PROVE Resolved(d, s)
    OBVIOUS
  <1> DEFINE held == ControlInputs(d, streams[d], FALSE)
             told == Broadcast(d, held, "RELAY_PAUSE")
             none == Broadcast(d, held, "RELAY_NO_PEER")
             both == Push(told, peerStream[d], Msg("PEER_PAUSE"))
  <1>1. /\ InputsControllable(d, FALSE) /\ ControlledInputs(d, FALSE)
        /\ \/ /\ Finish(d, s, both) /\ state' = [state EXCEPT ![d] = "PAUSED"]
           \/ /\ Finish(d, s, none) /\ state' = state /\ peerState[d] # "CONNECTED"
        /\ exiting' = exiting
    BY DEF RelayPause
  <1>2. s \in DOMAIN streams[d]
    BY DEF RelayPause, AsksToPause, HasRead
  <1>3. /\ DOMAIN held = DOMAIN streams[d] /\ TypedStreams(d, held, exiting)
        /\ \A x \in DOMAIN held : held[x].fallback = streams[d][x].fallback
    BY <1>1, ControlTyped
  <1> HIDE DEF held
  <1>4. /\ DOMAIN told = DOMAIN held /\ TypedStreams(d, told, exiting)
        /\ \A x \in DOMAIN held : told[x].fallback = held[x].fallback
    BY <1>3, BroadcastTyped DEF Headers, RelayHeaders
  <1>5. /\ DOMAIN none = DOMAIN held /\ TypedStreams(d, none, exiting)
        /\ \A x \in DOMAIN held : none[x].fallback = held[x].fallback
    BY <1>3, BroadcastTyped DEF Headers, RelayHeaders
  <1> HIDE DEF told, none
  <1>6. /\ DOMAIN both = DOMAIN told /\ TypedStreams(d, both, exiting)
        /\ \A x \in DOMAIN told : both[x].fallback = told[x].fallback
    BY <1>4, ToPeerTyped, MessagesLemma DEF Headers, PeerControls
  <1> HIDE DEF both
  <1>7. exiting' \in [Daemons -> BOOLEAN] /\ \A e \in Daemons : exiting[e] => exiting'[e]
    BY <1>1 DEF TypeInv
  <1>8. PICK ss \in {both, none} : Finish(d, s, ss)
    BY <1>1
  <1>9. /\ DOMAIN ss = DOMAIN streams[d] /\ TypedStreams(d, ss, exiting)
        /\ \A x \in DOMAIN ss : ss[x].fallback = streams[d][x].fallback
    BY <1>3, <1>4, <1>5, <1>6, <1>8
  <1>10. StreamsResolved(d, s)
    BY <1>1, <1>2, <1>7, <1>8, <1>9, FinishLemma
  <1>11. InputsResolved(d)
    <2>1. /\ state' = [state EXCEPT ![d] = state'[d]] /\ state'[d] \in {"RUNNING", "PAUSED"}
          /\ peerState[d] = "CONNECTED" => state'[d] = "PAUSED"
      BY <1>1 DEF TypeInv
    <2> QED BY <1>1, <2>1, ControlledLemma
  <1> QED BY <1>10, <1>11 DEF RelayPause, RelayUnchanged, Resolved, PeerResolved, socketVars

\* so does handler_resume of a relay
LEMMA RelayResumeMoves ==
  ASSUME TypeInv, NEW d \in Daemons, NEW s, RelayResume(d, s)
  PROVE  Resolved(d, s) \/ Fails(d)
  <1> SUFFICES ASSUME ~Fails(d) PROVE Resolved(d, s)
    OBVIOUS
  <1> DEFINE held == ControlInputs(d, streams[d], TRUE)
             ss   == Push(held, peerStream[d], Msg("PEER_RESUME"))
  <1>1. /\ InputsControllable(d, TRUE) /\ ControlledInputs(d, TRUE)
        /\ Finish(d, s, ss) /\ state' = [state EXCEPT ![d] = "RUNNING"] /\ exiting' = exiting
    BY DEF RelayResume
  <1>2. s \in DOMAIN streams[d]
    BY DEF RelayResume, AsksToResume, HasRead
  <1>3. /\ DOMAIN held = DOMAIN streams[d] /\ TypedStreams(d, held, exiting)
        /\ \A x \in DOMAIN held : held[x].fallback = streams[d][x].fallback
    BY <1>1, ControlTyped
  <1> HIDE DEF held
  <1>4. /\ DOMAIN ss = DOMAIN held /\ TypedStreams(d, ss, exiting)
        /\ \A x \in DOMAIN held : ss[x].fallback = held[x].fallback
    BY <1>3, ToPeerTyped, MessagesLemma DEF Headers, PeerControls
  <1> HIDE DEF ss
  <1>5. exiting' \in [Daemons -> BOOLEAN] /\ \A e \in Daemons : exiting[e] => exiting'[e]
    BY <1>1 DEF TypeInv
  <1>6. StreamsResolved(d, s)
    BY <1>1, <1>2, <1>3, <1>4, <1>5, FinishLemma
  <1>7. InputsResolved(d)
    <2>1. /\ state' = [state EXCEPT ![d] = state'[d]] /\ state'[d] = "RUNNING"
      BY <1>1 DEF TypeInv
    <2> QED BY <1>1, <2>1, ControlledLemma
  <1> QED BY <1>6, <1>7 DEF RelayResume, RelayUnchanged, Resolved, PeerResolved, socketVars

\* so does handler_stop of a relay: it announces the exit that it has set
LEMMA RelayStopMoves ==
  ASSUME TypeInv, NEW d \in Daemons, NEW s, RelayStop(d, s)
  PROVE  Resolved(d, s) \/ Fails(d)
  <1> SUFFICES ASSUME ~Fails(d) PROVE Resolved(d, s)
    OBVIOUS
  <1> DEFINE told == Broadcast(d, streams[d], "RELAY_STOP")
             ss   == Push(told, peerStream[d], Msg("PEER_STOP"))
  <1>1. /\ HasRead(d, s, "RELAY_STOP") /\ Finish(d, s, ss)
        /\ exiting' = [exiting EXCEPT ![d] = TRUE]
        /\ UNCHANGED <<devices, polled, state, evq>>
    BY DEF RelayStop
  <1>2. s \in DOMAIN streams[d] /\ TypedStreams(d, streams[d], exiting)
    BY <1>1 DEF HasRead, TypeInv
  <1>3. /\ exiting' \in [Daemons -> BOOLEAN] /\ \A e \in Daemons : exiting[e] => exiting'[e]
        /\ exiting'[d]
    BY <1>1 DEF TypeInv
  <1>4. TypedStreams(d, streams[d], exiting')
    BY <1>2, <1>3, TypedMonotone
  <1>5. /\ DOMAIN told = DOMAIN streams[d] /\ TypedStreams(d, told, exiting')
        /\ \A x \in DOMAIN streams[d] : told[x].fallback = streams[d][x].fallback
    BY <1>3, <1>4, BroadcastTyped DEF Headers, RelayHeaders
  <1> HIDE DEF told
  <1>6. /\ DOMAIN ss = DOMAIN told /\ TypedStreams(d, ss, exiting')
        /\ \A x \in DOMAIN told : ss[x].fallback = told[x].fallback
    BY <1>5, ToPeerTyped, MessagesLemma DEF Headers, PeerControls
  <1> HIDE DEF ss
  <1>7. StreamsResolved(d, s)
    BY <1>1, <1>2, <1>3, <1>5, <1>6, FinishLemma
  <1> QED BY <1>1, <1>7, SameInputs DEF RelayStop, RelayUnchanged, Resolved, PeerResolved, socketVars

-----------------------------------------------------------------------------
(* The handler of captured events *)

\* so does dev_handler
LEMMA DevHandlerMoves ==
  ASSUME TypeInv, NEW d \in Daemons, NEW s, DevHandler(d, s)
  PROVE  Resolved(d, s) \/ Fails(d)
  <1> SUFFICES ASSUME ~Fails(d) PROVE Resolved(d, s)
    OBVIOUS
  <1> DEFINE m  == streams[d][s].fallback.msg
             ss == Push(streams[d], peerStream[d], m)
  <1>1. HasRead(d, s, "PEER_EVENT") /\ s[1] = "dev" /\ Finish(d, s, ss)
    BY DEF DevHandler, SendEvent
  <1>2. /\ s \in DOMAIN streams[d] /\ s \in NamesOf(d) /\ TypedStreams(d, streams[d], exiting)
        /\ m \in Received(d, s)
    BY <1>1, ReadLemma DEF None
  <1>3. d # Server /\ s[2] \in Devices
    BY <1>1, <1>2, NamesLemma
  <1>4. m \in Messages /\ m \in ToServer
    BY <1>1, <1>2, <1>3 DEF Received, ToServer, DeviceHeaders
  <1> HIDE DEF m
  <1>5. /\ DOMAIN ss = DOMAIN streams[d] /\ TypedStreams(d, ss, exiting)
        /\ \A x \in DOMAIN streams[d] : ss[x].fallback = streams[d][x].fallback
    BY <1>2, <1>3, <1>4, ToPeerTyped
  <1> HIDE DEF ss
  <1>6. UNCHANGED <<exiting, devices, polled, state, evq>>
    BY DEF DevHandler, inputVars
  <1>7. exiting' \in [Daemons -> BOOLEAN] /\ \A e \in Daemons : exiting[e] => exiting'[e]
    BY <1>6 DEF TypeInv
  <1>8. StreamsResolved(d, s)
    BY <1>1, <1>2, <1>5, <1>6, <1>7, FinishLemma
  <1> QED BY <1>6, <1>8, SameInputs
         DEF DevHandler, Resolved, PeerResolved, socketVars, inputVars

\* A daemon that resolves an entry fails, closes its stream, or does what Resolved says.
LEMMA ResolveMoves ==
  ASSUME TypeInv, NEW d \in Daemons, Resolve(d)
  PROVE  Fails(d) \/ \E s \in batch[d] : ResolveClosed(d, s) \/ Resolved(d, s)
  <1>1. PICK s \in batch[d] :
           \/ ResolveFreed(d, s) \/ ResolveIncomplete(d, s) \/ ResolveClosed(d, s)
           \/ CloseCrashes(d, s) \/ ResolveWritten(d, s)
           \/ PeerHandler(d, s) \/ RelayHandler(d, s) \/ DevHandler(d, s)
    BY DEF Resolve
  <1>2. CASE ResolveClosed(d, s)
    BY <1>2
  <1>3. CASE ResolveFreed(d, s) \/ ResolveIncomplete(d, s) \/ ResolveWritten(d, s)
    BY <1>3, ResolveFreedMoves, ResolveIncompleteMoves, ResolveWrittenMoves
  <1>4. CASE PeerHandler(d, s)
    <2>1. CASE PeerPause(d, s)
      <3>1. PeerControl(d, s, "PEER_PAUSE", FALSE, "RELAY_PAUSE", IF FALSE THEN "RUNNING" ELSE "PAUSED")
        BY <2>1 DEF PeerPause
      <3> QED BY <3>1, PeerControlMoves DEF PeerControls
    <2>2. CASE PeerResume(d, s)
      <3>1. PeerControl(d, s, "PEER_RESUME", TRUE, "RELAY_RESUME", IF TRUE THEN "RUNNING" ELSE "PAUSED")
        BY <2>2 DEF PeerResume
      <3> QED BY <3>1, PeerControlMoves DEF PeerControls
    <2>3. CASE PeerStopCrashes(d, s)
      BY <2>3 DEF PeerStopCrashes
    <2> QED BY <1>4, <2>1, <2>2, <2>3, PeerDevCrtMoves, PeerUpdGrabMoves, PeerEventMoves,
               PeerStopClientMoves, PeerStopServerMoves DEF PeerHandler
  <1>5. CASE RelayHandler(d, s)
    BY <1>5, RelayIdleMoves, AnsweringMoves, RelayPauseMoves, RelayResumeMoves, RelayStopMoves
       DEF RelayHandler
  <1>6. CASE DevHandler(d, s)
    BY <1>6, DevHandlerMoves
  <1>7. CASE CloseCrashes(d, s)
    BY <1>7 DEF CloseCrashes
  <1> QED BY <1>1, <1>2, <1>3, <1>4, <1>5, <1>6, <1>7

-----------------------------------------------------------------------------
(* What a pass of the loop reads and writes *)

\* what a stream of d holds that its read or write may touch
LEMMA StreamFacts ==
  ASSUME TypeInv, NEW d \in Daemons, NEW s \in DOMAIN streams[d]
  PROVE  /\ s \in NamesOf(d)
         /\ streams[d][s].queue \in Seq(QueueItems(d, s, exiting))
         /\ streams[d][s].fallback \in FallbackItems(d, s)
         /\ streams[d][s].interest \in {"EPOLLIN", "EPOLLOUT"}
         /\ streams[d][s] \in StreamsOf(d, s, exiting)
         /\ Writes(d, s) => streams[d][s].queue # <<>>
  BY DEF TypeInv, TypedStreams, StreamsOf, Records, Armed, Writes

\* the head of a queue may be replaced or taken off
LEMMA HeadsLemma ==
  ASSUME NEW S, NEW q \in Seq(S), q # <<>>
  PROVE  /\ q[1] \in S /\ Head(q) \in S /\ Tail(q) \in Seq(S) /\ 1 \in DOMAIN q
         /\ \A x \in S : [q EXCEPT ![1] = x] \in Seq(S) /\ [q EXCEPT ![1] = x] # <<>>
  <1>1. q[1] \in S /\ Head(q) \in S /\ Tail(q) \in Seq(S) /\ 1 \in DOMAIN q
    OBVIOUS
  <1>2. ASSUME NEW x \in S PROVE [q EXCEPT ![1] = x] \in Seq(S) /\ [q EXCEPT ![1] = x] # <<>>
    <2>1. \A i \in 1..Len(q) : [q EXCEPT ![1] = x][i] \in S
      BY <1>1
    <2>2. [q EXCEPT ![1] = x] \in Seq(S)
      BY <2>1
    <2> QED BY <1>1, <2>2
  <1> QED BY <1>1, <1>2

\* one read or write leaves a stream of its type
LEMMA AfterIoTyped ==
  ASSUME TypeInv, NEW d \in Daemons, NEW s \in ReadySet(d)
  PROVE  AfterIo(d, s) \in StreamsOf(d, s, exiting)
  <1> DEFINE stream == streams[d][s]
  <1>1. /\ s \in DOMAIN streams[d] /\ s \in NamesOf(d) /\ Ready(d, s)
        /\ stream \in Records(d, s, exiting) /\ Armed(s, stream)
        /\ stream.queue \in Seq(QueueItems(d, s, exiting))
        /\ stream.fallback \in FallbackItems(d, s)
    BY StreamFacts DEF ReadySet, StreamsOf
  <1>2. ASSUME NEW f \in FallbackItems(d, s), AfterIo(d, s) = [stream EXCEPT !.fallback = f]
        PROVE  AfterIo(d, s) \in StreamsOf(d, s, exiting)
    <2> HIDE DEF stream
    <2> QED BY <1>1, <1>2 DEF StreamsOf, Records, Armed
  <1>3. ASSUME NEW i \in QueueItems(d, s, exiting), stream.queue # <<>>,
               AfterIo(d, s) = [stream EXCEPT !.queue[1] = i]
        PROVE  AfterIo(d, s) \in StreamsOf(d, s, exiting)
    <2> HIDE DEF stream
    <2> DEFINE q == [stream.queue EXCEPT ![1] = i]
    <2>1. AfterIo(d, s) = [stream EXCEPT !.queue = q]
      BY <1>1, <1>3 DEF Records
    <2>2. q \in Seq(QueueItems(d, s, exiting)) /\ q # <<>>
      BY <1>1, <1>3, HeadsLemma
    <2> HIDE DEF q
    <2> QED BY <1>1, <2>1, <2>2 DEF StreamsOf, Records, Armed
  <1>4. [stream.fallback EXCEPT !.state = "CLOSED"] \in FallbackItems(d, s)
    BY <1>1 DEF FallbackItems, ItemStates
  <1>5. stream.queue # <<>> => stream.queue[1] \in QueueItems(d, s, exiting)
    BY <1>1, HeadsLemma
  <1>6. CASE s[1] = "dev"
    <2>1. CASE s[2] \in unplugged
      <3>1. AfterIo(d, s) = [stream EXCEPT !.fallback = [stream.fallback EXCEPT !.state = "CLOSED"]]
        BY <1>1, <1>6, <2>1 DEF AfterIo, Records
      <3> HIDE DEF stream
      <3> QED BY <1>2, <1>4, <3>1
    <2>2. CASE s[2] \notin unplugged
      <3>1. s[2] \in Devices /\ evq[s[2]] # <<>>
        BY <1>1, <1>6, <2>2, NamesLemma DEF Ready
      <3>2. Head(evq[s[2]]) \in Events
        BY <3>1, HeadsLemma DEF TypeInv
      <3> DEFINE m == DevMsg("PEER_EVENT", s[2], Head(evq[s[2]]))
      <3>3. m \in Messages /\ m.h = "PEER_EVENT" /\ m.dev = s[2] /\ m.val \in Events
        <4>1. "PEER_EVENT" \in Headers /\ Head(evq[s[2]]) \in Values
          BY <3>2 DEF Headers, DeviceHeaders, Values
        <4>2. m.val = Head(evq[s[2]])
          BY DEF DevMsg
        <4> QED BY <3>1, <3>2, <4>1, <4>2, MessagesLemma
      <3>4. AfterIo(d, s) = [stream EXCEPT !.fallback = [msg |-> m, state |-> "COMPLETE"]]
        BY <1>6, <2>2 DEF AfterIo
      <3> HIDE DEF m, stream
      <3>5. [msg |-> m, state |-> "COMPLETE"] \in FallbackItems(d, s)
        BY <1>6, <3>3 DEF FallbackItems, Received, ItemStates
      <3> QED BY <1>2, <3>4, <3>5
    <2> QED BY <2>1, <2>2
  <1>7. CASE s[1] = "udev"
    <2>1. CASE stream.queue = <<>>
      <3> DEFINE f == [stream.fallback EXCEPT !.state = "COMPLETE"]
      <3>1. f \in FallbackItems(d, s)
        BY <1>1 DEF FallbackItems, ItemStates
      <3>2. AfterIo(d, s) = [stream EXCEPT !.fallback = f]
        BY <1>1, <1>7, <2>1 DEF AfterIo, Records
      <3> HIDE DEF f, stream
      <3> QED BY <1>2, <3>1, <3>2
    <2>2. CASE stream.queue # <<>>
      <3> DEFINE i == [stream.queue[1] EXCEPT !.state = "COMPLETE"]
      <3>1. i \in QueueItems(d, s, exiting)
        BY <1>5, <2>2 DEF QueueItems, ItemStates
      <3>2. AfterIo(d, s) = [stream EXCEPT !.queue[1].state = "COMPLETE"]
        BY <1>7, <2>2 DEF AfterIo
      <3>3. AfterIo(d, s) = [stream EXCEPT !.queue[1] = i]
        BY <3>2
      <3> HIDE DEF i, stream
      <3> QED BY <1>3, <2>2, <3>1, <3>3
    <2> QED BY <2>1, <2>2
  <1>8. CASE IsSocket(s)
    <2>0. s[1] # "dev" /\ s[1] # "udev"
      BY <1>8 DEF IsSocket
    <2>1. CASE Writes(d, s)
      <3> DEFINE i == Streamed(stream.queue[1])
      <3>1. stream.queue # <<>>
        BY <1>1, <2>1 DEF Writes, Armed
      <3>2. i \in QueueItems(d, s, exiting)
        BY <1>5, <3>1 DEF QueueItems, ItemStates, Streamed
      <3>3. AfterIo(d, s) = [stream EXCEPT !.queue[1] = i]
        BY <2>0, <2>1 DEF AfterIo
      <3> HIDE DEF i, stream
      <3> QED BY <1>3, <3>1, <3>2, <3>3
    <2>2. CASE ~Writes(d, s) /\ ~Reads(d, s)
      <3>1. AfterIo(d, s) = [stream EXCEPT !.fallback = [stream.fallback EXCEPT !.state = "CLOSED"]]
        BY <1>1, <2>0, <2>2 DEF AfterIo, Records
      <3> HIDE DEF stream
      <3> QED BY <1>2, <1>4, <3>1
    <2>3. CASE ~Writes(d, s) /\ Reads(d, s) /\ Misreads(d, s)
      <3>1. AfterIo(d, s) = [stream EXCEPT !.fallback = Garbage]
        BY <2>0, <2>3 DEF AfterIo
      <3>2. Garbage \in FallbackItems(d, s)
        BY DEF FallbackItems, Garbage, ItemStates
      <3> HIDE DEF stream
      <3> QED BY <1>2, <3>1, <3>2
    <2>4. CASE ~Writes(d, s) /\ Reads(d, s) /\ ~Misreads(d, s)
      <3> DEFINE f == Streamed([msg |-> Head(pipe[s][d]).msg, state |-> stream.fallback.state])
      <3>1. AfterIo(d, s) = [stream EXCEPT !.fallback = f]
        BY <2>0, <2>4 DEF AfterIo
      <3>2. s \in Connections /\ d \in Ends(s) /\ Received(d, s) = Arriving(s, d, exiting)
        BY <1>1, <1>8, ConnectionsLemma
      <3>3. Head(pipe[s][d]) \in Units(s, d, exiting)
        BY <2>4, <3>2, HeadsLemma DEF Reads, TypeInv, TypedPipes
      <3>4. f \in FallbackItems(d, s)
        BY <1>1, <3>2, <3>3 DEF Units, Streamed, FallbackItems, ItemStates
      <3> HIDE DEF f, stream
      <3> QED BY <1>2, <3>1, <3>4
    <2> QED BY <2>1, <2>2, <2>3, <2>4
  <1> QED BY <1>1, <1>6, <1>7, <1>8, NamesLemma DEF IsSocket

\* nor does it change that of what the sockets carry
LEMMA PipeAfterTyped ==
  ASSUME TypeInv, NEW d \in Daemons, NEW S \in SUBSET DOMAIN streams[d]
  PROVE  TypedPipes(PipeAfter(d, S), exiting)
  <1> DEFINE p == PipeAfter(d, S)
  <1>1. DOMAIN p = Connections
    BY DEF PipeAfter
  <1>2. ASSUME NEW s \in Connections
        PROVE  DOMAIN p[s] = Ends(s) /\ \A e \in Ends(s) : p[s][e] \in Seq(Units(s, e, exiting))
    <2>1. /\ DOMAIN pipe[s] = Ends(s)
          /\ \A e \in Ends(s) : pipe[s][e] \in Seq(Units(s, e, exiting))
      BY DEF TypeInv, TypedPipes
    <2>2. CASE p[s] = pipe[s]
      BY <2>1, <2>2
    <2>3. CASE s \in S
      <3>1. s \in DOMAIN streams[d] /\ s \in NamesOf(d) /\ IsSocket(s)
        BY <2>3, StreamFacts DEF IsSocket, Connections, PeerConn, RelayConn
      <3>2. /\ d \in Ends(s) /\ OtherEnd(s, d) \in Ends(s)
            /\ Sent(d, s, exiting) = Arriving(s, OtherEnd(s, d), exiting)
        BY <3>1, ConnectionsLemma
      <3> DEFINE o == OtherEnd(s, d)
      <3>3. CASE Reads(d, s)
        <4>1. p[s] = [pipe[s] EXCEPT ![d] = Tail(@)]
          BY <2>3, <3>3 DEF PipeAfter
        <4>2. Tail(pipe[s][d]) \in Seq(Units(s, d, exiting))
          BY <2>1, <3>2, <3>3, HeadsLemma DEF Reads
        <4> HIDE DEF p
        <4> QED BY <2>1, <3>2, <4>1, <4>2
      <3>4. CASE ~Reads(d, s) /\ Writes(d, s) /\ o \in open[s]
        <4> DEFINE u == Unit(streams[d][s].queue[1])
        <4>1. p[s] = [pipe[s] EXCEPT ![o] = Append(@, u)]
          BY <2>3, <3>4 DEF PipeAfter
        <4>2. streams[d][s].queue[1] \in QueueItems(d, s, exiting)
          BY <3>1, <3>4, StreamFacts, HeadsLemma
        <4>3. u \in Units(s, o, exiting)
          BY <3>2, <4>2 DEF Unit, Units, QueueItems
        <4> HIDE DEF u, o, p
        <4>4. o \in Ends(s)
          BY <3>2 DEF o
        <4>5. Append(pipe[s][o], u) \in Seq(Units(s, o, exiting))
          <5> DEFINE T == Units(s, o, exiting)
          <5>1. pipe[s][o] \in Seq(T) /\ u \in T
            BY <2>1, <4>3, <4>4
          <5> HIDE DEF T
          <5>2. Append(pipe[s][o], u) \in Seq(T)
            BY <5>1
          <5> QED BY <5>2 DEF T
        <4> QED BY <2>1, <4>1, <4>4, <4>5
      <3> QED BY <2>2, <2>3, <3>3, <3>4 DEF PipeAfter
    <2>4. CASE s \notin S
      BY <2>2, <2>4 DEF PipeAfter
    <2> QED BY <2>3, <2>4
  <1> QED BY <1>1, <1>2 DEF TypedPipes

-----------------------------------------------------------------------------
(* Type correctness, step by step *)

\* d ends; "exited" is only said of one that no relay is connected to
Gone(d) ==
    \E how \in {"exited", "failed"} : \E p :
        /\ ProcessEnds(d, how, p) /\ TypedPipes(p, exiting)
        /\ how = "exited" => CanExit(d)

\* a daemon that ends, in whatever way, leaves every variable of its type
LEMMA GoneTyped ==
  ASSUME TypeInv, NEW d \in Daemons, Gone(d) PROVE TypeInv'
  <1>0. PICK how \in {"exited", "failed"} : \E p : ProcessEnds(d, how, p) /\ TypedPipes(p, exiting)
    BY DEF Gone
  <1>1. PICK p : ProcessEnds(d, how, p) /\ TypedPipes(p, exiting)
    BY <1>0
  <1>2. /\ proc' \in [Daemons -> {"off", "running", "exited", "failed"}]
        /\ devices' \in [Daemons -> DeviceLists] /\ polled' \in [Daemons -> SUBSET Devices]
        /\ batch' \in [Daemons -> SUBSET StreamNames]
        /\ DOMAIN relayStreams' = Daemons /\ DOMAIN streams' = Daemons
    BY <1>1 DEF ProcessEnds, TypeInv, DeviceLists
  <1>3. ASSUME NEW e \in Daemons
        PROVE  /\ relayStreams'[e] \in Seq(RelaysOf(e)) /\ TypedStreams(e, streams'[e], exiting)
               /\ backlog'[e] \in Seq(RelaysOf(e))
    <2>1. e # Tcp
      BY DaemonsLemma
    <2>2. CASE e = d
      <3>1. relayStreams'[e] = <<>> /\ streams'[e] = <<>> /\ backlog'[e] = <<>>
        BY <1>1, <2>1, <2>2 DEF ProcessEnds, TypeInv
      <3> QED BY <3>1 DEF TypedStreams
    <2>3. CASE e # d
      BY <1>1, <2>1, <2>3 DEF ProcessEnds, TypeInv
    <2> QED BY <2>2, <2>3
  <1>4. TypedPipes(pipe', exiting)
    <2>1. ASSUME NEW s \in Connections
          PROVE  /\ DOMAIN pipe'[s] = Ends(s)
                 /\ \A e \in Ends(s) : pipe'[s][e] \in Seq(Units(s, e, exiting))
      <3>1. DOMAIN p[s] = Ends(s) /\ \A e \in Ends(s) : p[s][e] \in Seq(Units(s, e, exiting))
        BY <1>1 DEF TypedPipes
      <3>2. pipe'[s] = p[s] \/ pipe'[s] = [p[s] EXCEPT ![d] = <<>>]
        BY <1>1 DEF ProcessEnds
      <3>3. DOMAIN pipe'[s] = Ends(s) /\ \A e \in Ends(s) : pipe'[s][e] \in {p[s][e], <<>>}
        BY <3>1, <3>2
      <3>4. \A e \in Ends(s) : <<>> \in Seq(Units(s, e, exiting))
        OBVIOUS
      <3> QED BY <3>1, <3>3, <3>4
    <2>2. DOMAIN pipe' = Connections
      BY <1>1 DEF ProcessEnds
    <2> QED BY <2>1, <2>2 DEF TypedPipes
  <1>5. /\ open' \in [Connections -> SUBSET (Daemons \cup Relays)]
        /\ reset' \subseteq Connections /\ listening' \in BOOLEAN
        /\ DOMAIN backlog' = Daemons \cup {Tcp} /\ backlog'[Tcp] \in Seq(PeersOf(Server))
    <2>1. Tcp # d
      BY DaemonsLemma
    <2> QED BY <1>1, <2>1 DEF ProcessEnds, TypeInv, HeldBy
  <1>6. evq' \in [Devices -> Seq(Events)] /\ virt' \subseteq Devices
    BY <1>1 DEF ProcessEnds, TypeInv
  <1>7. UNCHANGED <<exiting, state, peerState, peerStream, relay, down, inputs, unplugged>>
    BY <1>1 DEF ProcessEnds
  <1> QED BY <1>2, <1>3, <1>4, <1>5, <1>6, <1>7 DEF TypeInv

\* so does a handler, by what Resolved says of it
LEMMA ResolvedTyped ==
  ASSUME TypeInv, NEW d \in Daemons, NEW s, Resolved(d, s) PROVE TypeInv'
  <1>1. /\ UNCHANGED <<proc, relayStreams, relay, pipe, open, reset, backlog, down, inputs, unplugged>>
        /\ StreamsResolved(d, s) /\ InputsResolved(d) /\ PeerResolved(d)
    BY DEF Resolved
  <1>2. /\ exiting' \in [Daemons -> BOOLEAN] /\ \A e \in Daemons : exiting[e] => exiting'[e]
        /\ batch' \in [Daemons -> SUBSET StreamNames] /\ DOMAIN streams' = Daemons
    BY <1>1 DEF StreamsResolved, TypeInv
  <1>3. \A e \in Daemons : TypedStreams(e, streams'[e], exiting')
    BY <1>1, <1>2, TypedMonotone DEF StreamsResolved, TypeInv
  <1>4. TypedPipes(pipe', exiting')
    BY <1>1, <1>2, TypedMonotone DEF TypeInv
  <1>5. /\ devices' \in [Daemons -> DeviceLists] /\ polled' \in [Daemons -> SUBSET Devices]
        /\ state' \in [Daemons -> {"RUNNING", "PAUSED"}] /\ evq' \in [Devices -> Seq(Events)]
    BY <1>1 DEF InputsResolved, TypeInv
  <1>6. /\ peerState' \in [Daemons -> {"CONNECTED", "DISCONNECTED"}]
        /\ peerStream' \in [Daemons -> PeersOf(Server) \cup {NoStream}]
        /\ listening' \in BOOLEAN /\ virt' \subseteq Devices
    BY <1>1 DEF PeerResolved, TypeInv
  <1> QED BY <1>1, <1>2, <1>3, <1>4, <1>5, <1>6 DEF TypeInv

\* u_array_remove keeps what it does not remove
LEMMA RemovedTyped ==
  ASSUME NEW S, NEW q \in Seq(S), NEW s PROVE Removed(q, s) \in Seq(S)
  <1> DEFINE i == CHOOSE j \in DOMAIN q : q[j] = s /\ \A n \in 1..(j - 1) : q[n] # s
             f == [j \in 1..(Len(q) - 1) |-> IF j < i THEN q[j] ELSE q[j + 1]]
  <1>1. Removed(q, s) = f
    BY DEF Removed
  <1> HIDE DEF i
  <1>2. CASE q = <<>>
    BY <1>1, <1>2
  <1>3. CASE q # <<>>
    <2>1. Len(q) - 1 \in Nat
      BY <1>3
    <2>2. \A j \in 1..(Len(q) - 1) : j \in 1..Len(q) /\ j + 1 \in 1..Len(q)
      BY <2>1
    <2>3. \A j \in 1..(Len(q) - 1) : q[j] \in S /\ q[j + 1] \in S
      BY <2>2
    <2>4. \A j \in 1..(Len(q) - 1) : f[j] \in S
      BY <2>3
    <2> QED BY <1>1, <2>1, <2>4
  <1> QED BY <1>2, <1>3

\* so does the closing of a stream
LEMMA ClosedTyped ==
  ASSUME TypeInv, NEW d \in Daemons, NEW s, ResolveClosed(d, s) PROVE TypeInv'
  <1>1. \A e \in Daemons : relayStreams'[e] \in Seq(RelaysOf(e))
    <2>1. /\ \A e \in Daemons : relayStreams[e] \in Seq(RelaysOf(e))
          /\ DOMAIN relayStreams = Daemons
      BY DEF TypeInv
    <2>2. Removed(relayStreams[d], s) \in Seq(RelaysOf(d))
      BY <2>1, RemovedTyped
    <2>3. relayStreams' = relayStreams
             \/ relayStreams' = [relayStreams EXCEPT ![d] = Removed(relayStreams[d], s)]
      BY DEF ResolveClosed, Unregistered
    <2> QED BY <2>1, <2>2, <2>3
  <1>2. DOMAIN relayStreams' = Daemons
    BY DEF ResolveClosed, Unregistered, TypeInv
  <1>3. \A e \in Daemons : TypedStreams(e, streams'[e], exiting)
    BY WithoutTyped DEF ResolveClosed, TypeInv
  <1>4. /\ DOMAIN streams' = Daemons /\ batch' \in [Daemons -> SUBSET StreamNames]
        /\ polled' \in [Daemons -> SUBSET Devices]
    BY DEF ResolveClosed, TypeInv
  <1>5. peerState' \in [Daemons -> {"CONNECTED", "DISCONNECTED"}]
    BY DEF ResolveClosed, PeerClosed, TypeInv
  <1>6. open' \in [Connections -> SUBSET (Daemons \cup Relays)]
    BY DEF ResolveClosed, TypeInv
  <1>7. UNCHANGED <<proc, exiting, state, peerStream, devices, pipe, reset, backlog,
                    listening, relay, inputVars>>
    BY DEF ResolveClosed
  <1> QED BY <1>1, <1>2, <1>3, <1>4, <1>5, <1>6, <1>7 DEF TypeInv, inputVars

\* what a pass accepts is a connection of d
LEMMA AcceptedTyped ==
  ASSUME TypeInv, NEW d \in Daemons
  PROVE  /\ Accepted(d) \in Seq(RelaysOf(d)) /\ NewStreams(d) \subseteq NamesOf(d)
         /\ AcceptsPeer(d) => d = Server /\ Head(backlog[Tcp]) \in PeersOf(Server)
  <1>1. backlog[d] \in Seq(RelaysOf(d)) /\ backlog[Tcp] \in Seq(PeersOf(Server))
    BY DEF TypeInv
  <1>2. Accepted(d) \in Seq(RelaysOf(d))
    <2>1. backlog[d] # <<>> => Head(backlog[d]) \in RelaysOf(d)
      BY <1>1, HeadsLemma
    <2> QED BY <2>1 DEF Accepted
  <1>3. AcceptsPeer(d) => d = Server /\ Head(backlog[Tcp]) \in PeersOf(Server)
    BY <1>1, HeadsLemma DEF AcceptsPeer
  <1>4. \A i \in DOMAIN Accepted(d) : Accepted(d)[i] \in RelaysOf(d)
    BY <1>2
  <1> QED BY <1>2, <1>3, <1>4 DEF NewStreams, NamesOf

\* the streams after a pass
LEMMA PassStreams ==
  ASSUME TypeInv, NEW d \in Daemons, Dispatch(d)
  PROVE  /\ DOMAIN streams' = Daemons /\ \A e \in Daemons \ {d} : streams'[e] = streams[e]
         /\ DOMAIN streams'[d] = DOMAIN streams[d] \cup NewStreams(d)
         /\ TypedStreams(d, streams'[d], exiting)
         /\ \A s \in DOMAIN streams[d] :
               streams'[d][s] = IF s \in ReadySet(d) THEN AfterIo(d, s) ELSE streams[d][s]
         /\ \A s \in NewStreams(d) \ DOMAIN streams[d] : streams'[d][s] = FreshStream
  <1> DEFINE ss == [s \in DOMAIN streams[d] |-> IF s \in ReadySet(d) THEN AfterIo(d, s)
                                                ELSE streams[d][s]]
  <1>1. TypedStreams(d, ss, exiting) /\ DOMAIN ss = DOMAIN streams[d]
    BY AfterIoTyped, StreamFacts DEF TypedStreams
  <1>2. DOMAIN streams = Daemons
    BY DEF TypeInv
  <1>3. streams' = [streams EXCEPT ![d] = Opened(ss, NewStreams(d))]
    BY DEF Dispatch
  <1>4. /\ DOMAIN streams' = Daemons /\ \A e \in Daemons \ {d} : streams'[e] = streams[e]
        /\ streams'[d] = Opened(ss, NewStreams(d))
    BY <1>2, <1>3
  <1>5. \A s \in DOMAIN streams[d] :
           ss[s] = IF s \in ReadySet(d) THEN AfterIo(d, s) ELSE streams[d][s]
    OBVIOUS
  <1> HIDE DEF ss
  <1>6. NewStreams(d) \subseteq NamesOf(d)
    BY AcceptedTyped
  <1>7. /\ DOMAIN Opened(ss, NewStreams(d)) = DOMAIN ss \cup NewStreams(d)
        /\ TypedStreams(d, Opened(ss, NewStreams(d)), exiting)
        /\ \A x \in DOMAIN ss : Opened(ss, NewStreams(d))[x] = ss[x]
        /\ \A x \in NewStreams(d) \ DOMAIN ss : Opened(ss, NewStreams(d))[x] = FreshStream
    <2> DEFINE tt == Opened(ss, NewStreams(d))
    <2>1. /\ DOMAIN tt = DOMAIN ss \cup NewStreams(d)
          /\ \A x \in DOMAIN ss : tt[x] = ss[x]
          /\ \A x \in NewStreams(d) \ DOMAIN ss : tt[x] = FreshStream
      BY DEF Opened
    <2> HIDE DEF tt
    <2>2. TypedStreams(d, tt, exiting)
      BY <1>1, <1>6, <2>1, FreshTyped DEF TypedStreams
    <2> QED BY <2>1, <2>2 DEF tt
  <1> QED BY <1>1, <1>4, <1>5, <1>7

\* so does a pass over what is ready
LEMMA DispatchTyped ==
  ASSUME TypeInv, NEW d \in Daemons, Dispatch(d) PROVE TypeInv'
  <1>1. DOMAIN streams' = Daemons /\ \A e \in Daemons : TypedStreams(e, streams'[e], exiting)
    BY PassStreams DEF TypeInv
  <1>2. ReadySet(d) \subseteq DOMAIN streams[d]
    BY DEF ReadySet
  <1>3. TypedPipes(pipe', exiting)
    BY <1>2, PipeAfterTyped DEF Dispatch
  <1>4. batch' \in [Daemons -> SUBSET StreamNames]
    BY <1>2, StreamFacts, NamesAreStreamNames DEF Dispatch, TypeInv
  <1>5. reset' \subseteq Connections
    <2>1. \A s \in ReadySet(d) : Writes(d, s) => s \in Connections
      BY <1>2, StreamFacts, ConnectionsLemma DEF Writes
    <2> QED BY <2>1 DEF Dispatch, TypeInv
  <1>6. DOMAIN relayStreams' = Daemons /\ \A e \in Daemons : relayStreams'[e] \in Seq(RelaysOf(e))
    <2>1. relayStreams[d] \o Accepted(d) \in Seq(RelaysOf(d))
      BY AcceptedTyped DEF TypeInv
    <2> QED BY <2>1 DEF Dispatch, TypeInv
  <1>7. /\ peerState' \in [Daemons -> {"CONNECTED", "DISCONNECTED"}]
        /\ peerStream' \in [Daemons -> PeersOf(Server) \cup {NoStream}]
    <2>1. CASE AcceptsPeer(d)
      BY <2>1, AcceptedTyped DEF Dispatch, TypeInv
    <2>2. CASE ~AcceptsPeer(d)
      BY <2>2 DEF Dispatch, TypeInv
    <2> QED BY <2>1, <2>2
  <1>8. listening' \in BOOLEAN
    BY DEF Dispatch, ListeningAfter
  <1>9. /\ DOMAIN backlog' = Daemons \cup {Tcp} /\ backlog'[Tcp] \in Seq(PeersOf(Server))
        /\ \A e \in Daemons : backlog'[e] \in Seq(RelaysOf(e))
    <2>1. Tcp \notin Daemons
      BY DaemonsLemma
    <2>2. Accepted(d) # <<>> => backlog[d] # <<>>
      BY DEF Accepted
    <2>3. Accepted(d) # <<>> => Tail(backlog[d]) \in Seq(RelaysOf(d))
      BY <2>2, HeadsLemma DEF TypeInv
    <2> QED BY <2>1, <2>3 DEF Dispatch, TypeInv
  <1>10. evq' \in [Devices -> Seq(Events)]
    <2>1. \A k \in Devices : evq[k] # <<>> => Tail(evq[k]) \in Seq(Events)
      BY HeadsLemma DEF TypeInv
    <2> QED BY <2>1 DEF Dispatch, TypeInv
  <1>11. virt' \subseteq Devices
    BY DEF Dispatch, TypeInv
  <1>12. UNCHANGED <<proc, exiting, state, devices, polled, open, relay, down, inputs, unplugged>>
    BY DEF Dispatch
  <1> QED BY <1>1, <1>3, <1>4, <1>5, <1>6, <1>7, <1>8, <1>9, <1>10, <1>11, <1>12 DEF TypeInv

\* a function on 1..n is a sequence
LEMMA SeqLemma ==
  ASSUME NEW S, NEW n \in Nat, NEW f, f = [i \in 1..n |-> f[i]], \A i \in 1..n : f[i] \in S
  PROVE  f \in Seq(S)
  OBVIOUS

\* what a client begins with
LEMMA StartStreams ==
  ASSUME TypeInv, NEW c \in Clients, ClientStart(c)
  PROVE  LET ids == {DeviceArg[c][i] : i \in DOMAIN DeviceArg[c]}
         IN  /\ ids \subseteq Devices /\ DOMAIN streams' = Daemons
             /\ \A e \in Daemons \ {c} : streams'[e] = streams[e]
             /\ DOMAIN streams'[c] = {PeerConn(c)} \cup {DevStream(k) : k \in ids}
             /\ TypedStreams(c, streams'[c], exiting)
             /\ \A s \in DOMAIN streams'[c] : streams'[c][s].fallback = Idle
  <1> DEFINE arg  == DeviceArg[c]
             s    == PeerConn(c)
             ids  == {arg[i] : i \in DOMAIN arg}
             ss   == [x \in {s} \cup {DevStream(k) : k \in ids} |-> FreshStream]
             crt  == [i \in DOMAIN arg |-> DevMsg("PEER_DEV_CRT", arg[i], "info")]
             grab == [i \in DOMAIN arg |-> GrabMsg(arg[i], TRUE)]
             msgs == crt \o grab
  <1>1. c \in Daemons /\ c # Server
    BY DaemonsLemma DEF Daemons
  <1>2. arg \in Seq(Devices)
    BY DevicesAssumption
  <1>3. ids \subseteq Devices
    BY <1>2
  <1>4. DOMAIN ss \subseteq NamesOf(c)
    BY <1>1, <1>3 DEF NamesOf, PeersOf, FilesOf
  <1>5. TypedStreams(c, ss, exiting)
    BY <1>4, FreshTyped DEF TypedStreams
  <1>6. msgs \in Seq(Sent(c, s, exiting))
    <2>1. Sent(c, s, exiting) = ToServer
      BY <1>1 DEF Sent, PeerConn
    <2>2. ASSUME NEW k \in Devices
          PROVE  DevMsg("PEER_DEV_CRT", k, "info") \in ToServer /\ GrabMsg(k, TRUE) \in ToServer
      <3>1. "PEER_DEV_CRT" \in Headers /\ "PEER_GRAB" \in Headers
        BY DEF Headers, DeviceHeaders
      <3>2. "info" \in Values /\ "grabbed" \in Values
        BY DEF Values
      <3> QED BY <3>1, <3>2, MessagesLemma DEF GrabMsg, ToServer, DeviceHeaders
    <2>3. DOMAIN arg = 1..Len(arg) /\ Len(arg) \in Nat /\ \A i \in DOMAIN arg : arg[i] \in Devices
      BY <1>2
    <2>4. \A i \in 1..Len(arg) : crt[i] \in ToServer /\ grab[i] \in ToServer
      BY <2>2, <2>3
    <2>5. crt = [i \in 1..Len(arg) |-> crt[i]] /\ grab = [i \in 1..Len(arg) |-> grab[i]]
      BY <2>3
    <2> HIDE DEF crt, grab, arg
    <2>6. crt \in Seq(ToServer)
      BY <2>3, <2>4, <2>5, SeqLemma
    <2>7. grab \in Seq(ToServer)
      BY <2>3, <2>4, <2>5, SeqLemma
    <2> QED BY <2>1, <2>6, <2>7
  <1>7. streams' = [streams EXCEPT ![c] = PushAll(ss, s, msgs)]
    BY DEF ClientStart
  <1>8. \A x \in DOMAIN ss : ss[x].fallback = Idle
    BY DEF FreshStream
  <1>9. DOMAIN ss = {PeerConn(c)} \cup {DevStream(k) : k \in ids}
    OBVIOUS
  <1> HIDE DEF ss, msgs, s
  <1>10. /\ DOMAIN PushAll(ss, s, msgs) = DOMAIN ss
         /\ TypedStreams(c, PushAll(ss, s, msgs), exiting)
         /\ \A x \in DOMAIN ss : PushAll(ss, s, msgs)[x].fallback = ss[x].fallback
    BY <1>1, <1>5, <1>6, PushAllTyped
  <1>11. /\ DOMAIN streams' = Daemons /\ streams'[c] = PushAll(ss, s, msgs)
         /\ \A e \in Daemons \ {c} : streams'[e] = streams[e]
    BY <1>1, <1>7 DEF TypeInv
  <1> QED BY <1>3, <1>8, <1>9, <1>10, <1>11

\* so does a client that starts
LEMMA ClientStartTyped ==
  ASSUME TypeInv, NEW c \in Clients, ClientStart(c) PROVE TypeInv'
  <1> DEFINE arg == DeviceArg[c]
             ids == {arg[i] : i \in DOMAIN arg}
             s   == PeerConn(c)
  <1>1. c \in Daemons /\ Server \in Daemons /\ s \in PeersOf(Server) /\ s \in Connections
    BY DEF Daemons, PeersOf, Connections
  <1>2. /\ ids \subseteq Devices /\ DOMAIN streams' = Daemons
        /\ \A e \in Daemons : TypedStreams(e, streams'[e], exiting)
    BY StartStreams DEF TypeInv
  <1>3. /\ proc' = [proc EXCEPT ![c] = "running"]
        /\ devices' = [devices EXCEPT ![c] = [i \in DOMAIN arg |-> [id |-> arg[i], grabbed |-> TRUE]]]
        /\ polled' = [polled EXCEPT ![c] = ids] /\ peerStream' = [peerStream EXCEPT ![c] = s]
        /\ open' = [open EXCEPT ![s] = {c, Server}]
        /\ backlog' = [backlog EXCEPT ![Tcp] = Append(@, s)]
        /\ peerState' = [peerState EXCEPT ![c] = "CONNECTED"]
    BY DEF ClientStart
  <1>4. [i \in DOMAIN arg |-> [id |-> arg[i], grabbed |-> TRUE]] \in DeviceLists
    <2>1. arg \in Seq(Devices)
      BY DevicesAssumption
    <2>2. DOMAIN arg = 1..Len(arg) /\ Len(arg) \in Nat /\ \A i \in DOMAIN arg : arg[i] \in Devices
      BY <2>1
    <2>3. \A i \in DOMAIN arg : [id |-> arg[i], grabbed |-> TRUE] \in Entries
      BY <2>2 DEF Entries
    <2> QED BY <2>2, <2>3 DEF DeviceLists
  <1>5. /\ devices' \in [Daemons -> DeviceLists] /\ polled' \in [Daemons -> SUBSET Devices]
        /\ proc' \in [Daemons -> {"off", "running", "exited", "failed"}]
        /\ peerStream' \in [Daemons -> PeersOf(Server) \cup {NoStream}]
        /\ peerState' \in [Daemons -> {"CONNECTED", "DISCONNECTED"}]
    BY <1>1, <1>2, <1>3, <1>4 DEF TypeInv
  <1>6. open' \in [Connections -> SUBSET (Daemons \cup Relays)]
    BY <1>1, <1>3 DEF TypeInv
  <1>7. /\ DOMAIN backlog' = Daemons \cup {Tcp} /\ backlog'[Tcp] \in Seq(PeersOf(Server))
        /\ \A e \in Daemons : backlog'[e] \in Seq(RelaysOf(e))
    BY <1>1, <1>3, DaemonsLemma DEF TypeInv
  <1>8. UNCHANGED <<exiting, state, relayStreams, batch, pipe, reset, listening, relay, inputVars>>
    BY DEF ClientStart
  <1> QED BY <1>2, <1>5, <1>6, <1>7, <1>8 DEF TypeInv, inputVars

\* the ends of a relay's connection
LEMMA RelayEndsLemma ==
  ASSUME NEW r \in Relays
  PROVE  /\ RelayConn(r) \in Connections /\ Target[r] \in Daemons /\ r # Target[r]
         /\ Ends(RelayConn(r)) = {r, Target[r]}
         /\ RelayConn(r) \in RelaysOf(Target[r])
         /\ RelayConn(r)[1] = "relay" /\ RelayConn(r)[2] = r
  BY NamesAssumption, TargetAssumption DEF Connections, RelayConn, Ends, Daemons, RelaysOf

\* the pipe of a relay at one end
LEMMA OnePipe ==
  ASSUME TypeInv, NEW r \in Relays, NEW e \in {r, Target[r]},
         NEW q \in Seq(Units(RelayConn(r), e, exiting)),
         pipe' = [pipe EXCEPT ![RelayConn(r)][e] = q]
  PROVE  TypedPipes(pipe', exiting)
  <1> DEFINE s == RelayConn(r)
  <1>1. s \in Connections /\ e \in Ends(s)
    BY RelayEndsLemma
  <1>2. DOMAIN pipe = Connections /\ DOMAIN pipe[s] = Ends(s)
    BY <1>1 DEF TypeInv, TypedPipes
  <1> HIDE DEF s
  <1>3. pipe' = [pipe EXCEPT ![s] = [pipe[s] EXCEPT ![e] = q]]
    BY DEF s
  <1>4. /\ DOMAIN pipe' = Connections /\ \A x \in Connections \ {s} : pipe'[x] = pipe[x]
        /\ pipe'[s] = [pipe[s] EXCEPT ![e] = q]
    BY <1>1, <1>2, <1>3
  <1>5. /\ DOMAIN pipe'[s] = Ends(s) /\ pipe'[s][e] = q
        /\ \A x \in Ends(s) \ {e} : pipe'[s][x] = pipe[s][x]
    BY <1>1, <1>2, <1>4
  <1>6. q \in Seq(Units(s, e, exiting))
    BY DEF s
  <1> QED BY <1>1, <1>4, <1>5, <1>6 DEF TypeInv, TypedPipes

\* so does a relay that connects
LEMMA RelayConnectTyped ==
  ASSUME TypeInv, NEW r \in Relays, NEW h, RelayConnect(r, h) PROVE TypeInv'
  <1> DEFINE d == Target[r]
             s == RelayConn(r)
             q == <<Unit(Item(Msg(h)))>>
  <1>1. s \in Connections /\ d \in Daemons /\ s \in RelaysOf(d) /\ r # d /\ s[1] = "relay" /\ s[2] = r
    BY RelayEndsLemma
  <1>2. h \in RelayHeaders
    BY CommandsAssumption DEF RelayConnect
  <1>3. q \in Seq(Units(s, d, exiting))
    <2>1. Msg(h) \in Requests
      BY <1>2, MessagesLemma DEF Requests, Headers
    <2>2. Unit(Item(Msg(h))) \in Units(s, d, exiting)
      BY <1>1, <2>1 DEF Unit, Item, Units, Arriving
    <2> QED BY <2>2
  <1> HIDE DEF q
  <1>4. pipe' = [pipe EXCEPT ![s][d] = q]
    BY DEF RelayConnect, q
  <1>5. TypedPipes(pipe', exiting)
    BY <1>3, <1>4, OnePipe
  <1>6. open' \in [Connections -> SUBSET (Daemons \cup Relays)]
    BY <1>1 DEF RelayConnect, TypeInv
  <1>7. /\ DOMAIN backlog' = Daemons \cup {Tcp} /\ backlog'[Tcp] \in Seq(PeersOf(Server))
        /\ \A e \in Daemons : backlog'[e] \in Seq(RelaysOf(e))
    <2>1. backlog' = [backlog EXCEPT ![d] = Append(@, s)]
      BY DEF RelayConnect
    <2>2. Append(backlog[d], s) \in Seq(RelaysOf(d))
      BY <1>1 DEF TypeInv
    <2> QED BY <1>1, <2>1, <2>2, DaemonsLemma DEF TypeInv
  <1>8. relay' \in [Relays -> RelayRecords]
    <2>1. relay' = [relay EXCEPT ![r] = [relay[r] EXCEPT !.pc = "waiting", !.sent = h]]
      BY DEF RelayConnect, TypeInv
    <2>2. [relay[r] EXCEPT !.pc = "waiting", !.sent = h] \in RelayRecords
      <3>1. relay[r] \in RelayRecords /\ h \in Headers /\ "waiting" \in RelayPlaces
        BY <1>2 DEF TypeInv, RelayPlaces, Headers
      <3> QED BY <3>1 DEF RelayRecords
    <2> QED BY <2>1, <2>2 DEF TypeInv
  <1>9. UNCHANGED <<daemonVars, reset, listening, inputVars>>
    BY DEF RelayConnect, Others
  <1> QED BY <1>5, <1>6, <1>7, <1>8, <1>9 DEF TypeInv, daemonVars, inputVars

\* the next message to a relay
LEMMA RelayHead ==
  ASSUME TypeInv, NEW r \in Relays, pipe[RelayConn(r)][r] # <<>>
  PROVE  /\ Head(pipe[RelayConn(r)][r]) \in Units(RelayConn(r), r, exiting)
         /\ Tail(pipe[RelayConn(r)][r]) \in Seq(Units(RelayConn(r), r, exiting))
         /\ Head(pipe[RelayConn(r)][r]).msg \in Answers(Target[r], exiting)
  <1> DEFINE s == RelayConn(r)
  <1>1. s \in Connections /\ r \in Ends(s) /\ s[1] = "relay" /\ s[2] = r
    BY RelayEndsLemma
  <1>2. pipe[s][r] \in Seq(Units(s, r, exiting))
    BY <1>1 DEF TypeInv, TypedPipes
  <1>3. Head(pipe[s][r]) \in Units(s, r, exiting) /\ Tail(pipe[s][r]) \in Seq(Units(s, r, exiting))
    BY <1>2, HeadsLemma
  <1>4. Head(pipe[s][r]).msg \in Arriving(s, r, exiting)
    BY <1>3 DEF Units
  <1>5. Arriving(s, r, exiting) = Answers(Target[r], exiting)
    BY <1>1 DEF Arriving
  <1> QED BY <1>3, <1>4, <1>5

\* so does a relay that reads
LEMMA RelayReadTyped ==
  ASSUME TypeInv, NEW r \in Relays, RelayRead(r) \/ RelayDrain(r) PROVE TypeInv'
  <1> DEFINE s == RelayConn(r)
             u == Head(pipe[s][r])
  <1>1. pipe[s][r] # <<>> /\ pipe' = [pipe EXCEPT ![s][r] = Tail(pipe[s][r])]
    <2>1. CASE RelayRead(r)
      BY <2>1 DEF RelayRead
    <2>2. CASE RelayDrain(r)
      BY <2>2 DEF RelayDrain
    <2> QED BY <2>1, <2>2
  <1>2. TypedPipes(pipe', exiting)
    BY <1>1, RelayHead, OnePipe
  <1>3. relay' \in [Relays -> RelayRecords]
    <2>1. CASE RelayDrain(r)
      BY <2>1 DEF RelayDrain, TypeInv
    <2>2. CASE RelayRead(r)
      <3>1. \/ relay' = [relay EXCEPT ![r] = [relay[r] EXCEPT !.pc = "body"]]
            \/ relay' = [relay EXCEPT ![r] = [relay[r] EXCEPT !.pc = "draining", !.answer = u.msg.h]]
        BY <2>2 DEF RelayRead, TypeInv
      <3>2. u.msg.h \in Headers
        BY <1>1, RelayHead DEF Answers, Messages
      <3> HIDE DEF u
      <3>3. relay[r] \in RelayRecords /\ "body" \in RelayPlaces /\ "draining" \in RelayPlaces
        BY DEF TypeInv, RelayPlaces
      <3>4. /\ [relay[r] EXCEPT !.pc = "body"] \in RelayRecords
            /\ [relay[r] EXCEPT !.pc = "draining", !.answer = u.msg.h] \in RelayRecords
        BY <3>2, <3>3 DEF RelayRecords
      <3> QED BY <3>1, <3>4 DEF TypeInv
    <2> QED BY <2>1, <2>2
  <1>4. UNCHANGED <<daemonVars, open, reset, backlog, listening, inputVars>>
    BY DEF RelayRead, RelayDrain, Others
  <1> QED BY <1>2, <1>3, <1>4 DEF TypeInv, daemonVars, inputVars

\* a relay is done, and closes its end
RelayLeaves(r) ==
    /\ Waiting(r) \/ relay[r].pc = "draining"
    /\ \E how \in {"closed", "failed"} :
          RelayEnds(r, how) /\ (reset' = reset \/ reset' = reset \cup {RelayConn(r)})

\* so does a relay that closes its end
LEMMA RelayLeavesTyped ==
  ASSUME TypeInv, NEW r \in Relays, RelayLeaves(r) PROVE TypeInv'
  <1>1. PICK how \in {"closed", "failed"} :
           RelayEnds(r, how) /\ (reset' = reset \/ reset' = reset \cup {RelayConn(r)})
    BY DEF RelayLeaves
  <1>2. relay' \in [Relays -> RelayRecords]
    <2>1. relay' = [relay EXCEPT ![r] = [relay[r] EXCEPT !.pc = how]]
      BY <1>1 DEF RelayEnds, TypeInv
    <2>2. relay[r] \in RelayRecords /\ how \in RelayPlaces
      BY DEF TypeInv, RelayPlaces
    <2>3. [relay[r] EXCEPT !.pc = how] \in RelayRecords
      BY <2>2 DEF RelayRecords
    <2> QED BY <2>1, <2>3 DEF TypeInv
  <1>3. open' \in [Connections -> SUBSET (Daemons \cup Relays)]
    BY <1>1, RelayEndsLemma DEF RelayEnds, TypeInv
  <1>4. reset' \subseteq Connections
    BY <1>1, RelayEndsLemma DEF TypeInv
  <1>5. UNCHANGED <<daemonVars, pipe, backlog, listening, inputVars>>
    BY <1>1 DEF RelayEnds, Others
  <1> QED BY <1>2, <1>3, <1>4, <1>5 DEF TypeInv, daemonVars, inputVars

\* so does the user
LEMMA UserTyped == ASSUME TypeInv, User PROVE TypeInv'
  <1>1. PICK k \in Devices : KeyDown(k) \/ KeyUp(k) \/ Move(k) \/ Unplug(k)
    BY DEF User
  <1>2. /\ \A e \in Events : evq[k] \o <<e, "syn">> \in Seq(Events)
        /\ "down" \in Events /\ "up" \in Events /\ "move" \in Events
        /\ <<>> \in Seq(Events)
    <2>1. evq[k] \in Seq(Events)
      BY DEF TypeInv
    <2>2. "syn" \in Events /\ "down" \in Events /\ "up" \in Events /\ "move" \in Events
      BY DEF Events, KeyEvents, Movements
    <2>3. \A e \in Events : <<e, "syn">> \in Seq(Events)
      BY <2>2
    <2> QED BY <2>1, <2>2, <2>3
  <1>3. evq' \in [Devices -> Seq(Events)]
    <2>1. evq \in [Devices -> Seq(Events)]
      BY DEF TypeInv
    <2>2. PICK q \in Seq(Events) : evq' = [evq EXCEPT ![k] = q]
      <3>1. CASE Unplug(k)
        BY <1>2, <3>1 DEF Unplug
      <3>2. ASSUME NEW e \in Events, Arrive(k, e)
            PROVE  \E q \in Seq(Events) : evq' = [evq EXCEPT ![k] = q]
        <4>1. evq[k] \in Seq(Events) /\ evq[k] \o <<e, "syn">> \in Seq(Events)
          BY <1>2, <2>1
        <4> QED BY <3>2, <4>1 DEF Arrive
      <3> QED BY <1>1, <1>2, <3>1, <3>2 DEF KeyDown, KeyUp, Move
    <2> QED BY <2>1, <2>2
  <1>4. /\ down' \subseteq Devices /\ inputs' \in 0..MaxInput /\ unplugged' \subseteq Unpluggable
        /\ virt' = virt
    BY <1>1, BoundsAssumption DEF KeyDown, KeyUp, Move, Unplug, UserUnchanged, TypeInv
  <1>5. UNCHANGED <<daemonVars, socketVars, relay>>
    BY <1>1 DEF KeyDown, KeyUp, Move, Unplug, UserUnchanged
  <1> QED BY <1>3, <1>4, <1>5 DEF TypeInv, daemonVars, socketVars

-----------------------------------------------------------------------------
(* All steps *)

\* Every step of the system is one of these.
LEMMA Steps ==
  ASSUME TypeInv, Next
  PROVE  \/ \E d \in Daemons : \/ Gone(d) \/ Dispatch(d)
                               \/ \E s \in batch[d] : ResolveClosed(d, s) \/ Resolved(d, s)
         \/ \E c \in Clients : ClientStart(c)
         \/ \E r \in Relays : \/ \E h \in Commands[r] : RelayConnect(r, h)
                              \/ RelayRead(r) \/ RelayDrain(r) \/ RelayLeaves(r)
         \/ User
  <1>1. ASSUME NEW d \in Daemons, Fails(d) PROVE Gone(d)
    BY <1>1 DEF Fails, Gone, TypeInv
  <1>2. ASSUME NEW d \in Daemons, DispatchFails(d) PROVE Gone(d)
    <2>1. PICK S \in SUBSET ReadySet(d) : ProcessEnds(d, "failed", PipeAfter(d, S))
      BY <1>2 DEF DispatchFails
    <2>2. S \in SUBSET DOMAIN streams[d]
      BY DEF ReadySet
    <2> QED BY <2>1, <2>2, PipeAfterTyped DEF Gone
  <1>3. ASSUME NEW d \in Daemons, Exit(d) PROVE Gone(d)
    BY <1>3 DEF Exit, Gone, TypeInv
  <1>4. ASSUME NEW d \in Killable, Kill(d) PROVE Gone(d)
    BY <1>1, <1>4, FaultsAssumption DEF Kill
  <1>5. ASSUME NEW r \in Relays, RelayProcess(r) \/ RelayGivesUp(r)
        PROVE  RelayRead(r) \/ RelayDrain(r) \/ RelayLeaves(r)
    <2>1. CASE RelayEof(r)
      BY <2>1 DEF RelayEof, RelayLeaves
    <2>2. CASE RelayGivesUp(r)
      BY <2>2 DEF RelayGivesUp, RelayLeaves
    <2> QED BY <1>5, <2>1, <2>2 DEF RelayProcess
  <1>6. Killable \subseteq Daemons
    BY FaultsAssumption
  <1> QED BY <1>1, <1>2, <1>3, <1>4, <1>5, <1>6, ResolveMoves DEF Next

\* in the initial states every variable has its type
LEMMA InitTyped == Init => TypeInv
  <1> SUFFICES ASSUME Init PROVE TypeInv
    OBVIOUS
  <1>1. Server \in Daemons /\ None \in Headers /\ "off" \in RelayPlaces
    BY DEF Daemons, Headers, RelayPlaces
  <1>2. TypedPipes(pipe, exiting)
    BY DEF Init, TypedPipes
  <1>3. relay \in [Relays -> RelayRecords]
    BY <1>1 DEF Init, RelayRecords
  <1>4. \A d \in Daemons : /\ relayStreams[d] \in Seq(RelaysOf(d))
                           /\ TypedStreams(d, streams[d], exiting)
                           /\ backlog[d] \in Seq(RelaysOf(d))
    BY DEF Init, TypedStreams
  <1>5. DOMAIN backlog = Daemons \cup {Tcp} /\ backlog[Tcp] \in Seq(PeersOf(Server))
    BY DEF Init
  <1>6. /\ proc \in [Daemons -> {"off", "running", "exited", "failed"}]
        /\ exiting \in [Daemons -> BOOLEAN] /\ state \in [Daemons -> {"RUNNING", "PAUSED"}]
        /\ peerState \in [Daemons -> {"CONNECTED", "DISCONNECTED"}]
        /\ peerStream \in [Daemons -> PeersOf(Server) \cup {NoStream}]
    BY DEF Init
  <1>7. /\ devices \in [Daemons -> DeviceLists] /\ polled \in [Daemons -> SUBSET Devices]
        /\ batch \in [Daemons -> SUBSET StreamNames]
        /\ DOMAIN relayStreams = Daemons /\ DOMAIN streams = Daemons
    <2>1. <<>> \in DeviceLists
      BY DEF DeviceLists
    <2> QED BY <2>1 DEF Init
  <1>8. /\ open \in [Connections -> SUBSET (Daemons \cup Relays)]
        /\ reset \subseteq Connections /\ listening \in BOOLEAN
        /\ evq \in [Devices -> Seq(Events)]
        /\ down \subseteq Devices /\ virt \subseteq Devices /\ inputs \in 0..MaxInput
        /\ unplugged \subseteq Unpluggable
    BY BoundsAssumption DEF Init
  <1> QED BY <1>2, <1>3, <1>4, <1>5, <1>6, <1>7, <1>8 DEF TypeInv

\* each step keeps the types
LEMMA StepTyped == TypeInv /\ [Next]_vars => TypeInv'
  <1> SUFFICES ASSUME TypeInv, [Next]_vars PROVE TypeInv'
    OBVIOUS
  <1>1. CASE UNCHANGED vars
    BY <1>1 DEF TypeInv, vars, daemonVars, socketVars, inputVars
  <1>2. CASE Next
    BY <1>2, Steps, GoneTyped, ResolvedTyped, ClosedTyped, DispatchTyped, ClientStartTyped,
       RelayConnectTyped, RelayReadTyped, RelayLeavesTyped, UserTyped
  <1> QED BY <1>1, <1>2

\* TypeInv holds in every behaviour: the base of all that follows
LEMMA Typed == Spec => []TypeInv
  BY InitTyped, StepTyped, PTL DEF Spec

\* Every variable keeps its type.
THEOREM TypeCorrect == Spec => []TypeOK
  <1>1. TypeInv => TypeOK
    <2> SUFFICES ASSUME TypeInv PROVE TypeOK
      OBVIOUS
    <2>1. ASSUME NEW d \in Daemons
          PROVE  /\ DOMAIN streams[d] \subseteq StreamNames
                 /\ \A s \in DOMAIN streams[d] :
                       /\ streams[d][s].interest \in {"EPOLLIN", "EPOLLOUT"}
                       /\ streams[d][s].fallback.state \in ItemStates
                       /\ \A i \in DOMAIN streams[d][s].queue :
                             streams[d][s].queue[i].state \in ItemStates
      <3>1. DOMAIN streams[d] \subseteq StreamNames
        BY StreamFacts, NamesAreStreamNames
      <3>2. ASSUME NEW s \in DOMAIN streams[d]
            PROVE  /\ streams[d][s].interest \in {"EPOLLIN", "EPOLLOUT"}
                   /\ streams[d][s].fallback.state \in ItemStates
                   /\ \A i \in DOMAIN streams[d][s].queue :
                         streams[d][s].queue[i].state \in ItemStates
        <4> DEFINE Q == QueueItems(d, s, exiting)
        <4>1. /\ streams[d][s].queue \in Seq(Q) /\ streams[d][s].fallback \in FallbackItems(d, s)
              /\ streams[d][s].interest \in {"EPOLLIN", "EPOLLOUT"}
          BY StreamFacts
        <4> HIDE DEF Q
        <4>2. \A i \in DOMAIN streams[d][s].queue : streams[d][s].queue[i] \in Q
          BY <4>1
        <4> QED BY <4>1, <4>2 DEF Q, QueueItems, FallbackItems
      <3> QED BY <3>1, <3>2
    <2> QED BY <2>1 DEF TypeInv, TypeOK, PeersOf, DeviceLists, Entries
  <1> QED BY <1>1, Typed, PTL

-----------------------------------------------------------------------------
(* The peer pointer *)

\* whoever sets peer_state to CONNECTED has the stream, and a stream that is closed sets it back
LEMMA PeerPointerStep == ASSUME TypeInv, PeerPointerValid, Next PROVE PeerPointerValid'
  <1> SUFFICES ASSUME NEW e \in Daemons, proc'[e] = "running", peerState'[e] = "CONNECTED"
               PROVE  peerStream'[e] \in DOMAIN streams'[e]
    BY DEF PeerPointerValid, PeerThere
  <1> USE DEF PeerPointerValid, PeerThere
  <1>1. ASSUME NEW d \in Daemons, Gone(d) PROVE peerStream'[e] \in DOMAIN streams'[e]
    <2>0. PICK how \in {"exited", "failed"} : \E p : ProcessEnds(d, how, p)
      BY <1>1 DEF Gone
    <2>1. PICK p : ProcessEnds(d, how, p)
      BY <2>0
    <2> QED BY <2>1 DEF ProcessEnds, TypeInv
  <1>2. ASSUME NEW d \in Daemons, Dispatch(d) PROVE peerStream'[e] \in DOMAIN streams'[e]
    <2>1. CASE e = d /\ AcceptsPeer(d)
      <3>1. peerStream'[d] = Head(backlog[Tcp]) /\ Head(backlog[Tcp]) \in NewStreams(d)
        BY <1>2, <2>1 DEF Dispatch, NewStreams, TypeInv
      <3> QED BY <1>2, <2>1, <3>1, PassStreams
    <2>2. CASE ~(e = d /\ AcceptsPeer(d))
      <3>1. proc'[e] = proc[e] /\ peerState'[e] = peerState[e] /\ peerStream'[e] = peerStream[e]
        BY <1>2, <2>2 DEF Dispatch, TypeInv
      <3> QED BY <1>2, <3>1, PassStreams
    <2> QED BY <2>1, <2>2
  <1>3. ASSUME NEW d \in Daemons, NEW s, ResolveClosed(d, s)
        PROVE  peerStream'[e] \in DOMAIN streams'[e]
    <2>1. /\ proc' = proc /\ peerStream' = peerStream /\ peerState' = PeerClosed(d, s)
          /\ streams' = [streams EXCEPT ![d] = Without(@, {s})]
      BY <1>3 DEF ResolveClosed
    <2>2. CASE e = d
      <3>1. s[1] # "peer" /\ peerState[e] = "CONNECTED"
        BY <2>1, <2>2 DEF PeerClosed, TypeInv
      <3>2. peerStream[e] \in DOMAIN streams[e] /\ peerStream[e] \in PeersOf(Server) \cup {NoStream}
        BY <2>1, <3>1 DEF TypeInv
      <3>3. peerStream[e][1] = "peer"
        BY <3>2, StreamFacts, NamesLemma DEF PeersOf, PeerConn, NoStream
      <3> QED BY <2>1, <2>2, <3>1, <3>2, <3>3 DEF Without, TypeInv
    <2>3. CASE e # d
      BY <2>1, <2>3 DEF PeerClosed, TypeInv
    <2> QED BY <2>2, <2>3
  <1>4. ASSUME NEW d \in Daemons, NEW s, Resolved(d, s)
        PROVE  peerStream'[e] \in DOMAIN streams'[e]
    <2>1. proc' = proc /\ StreamsResolved(d, s) /\ PeerResolved(d)
      BY <1>4 DEF Resolved
    <2>2. peerState'[e] = peerState[e] /\ peerStream'[e] = peerStream[e]
      BY <2>1 DEF PeerResolved, TypeInv
    <2>3. peerStream[e] \in DOMAIN streams[e] /\ peerStream[e] \in PeersOf(Server) \cup {NoStream}
      BY <2>1, <2>2 DEF TypeInv
    <2>4. peerStream[e] \in NamesOf(e) /\ peerStream[e][1] # "udev"
      BY <2>3, StreamFacts, NamesLemma DEF PeersOf, PeerConn, NoStream
    <2> QED BY <2>1, <2>2, <2>3, <2>4 DEF StreamsResolved
  <1>5. ASSUME NEW c \in Clients, ClientStart(c) PROVE peerStream'[e] \in DOMAIN streams'[e]
    <2>1. CASE e = c
      <3>1. peerStream' = [peerStream EXCEPT ![c] = PeerConn(c)] /\ c \in Daemons
        BY <1>5 DEF ClientStart, Daemons
      <3>2. PeerConn(c) \in DOMAIN streams'[c]
        BY <1>5, StartStreams
      <3> QED BY <2>1, <3>1, <3>2 DEF TypeInv
    <2>2. CASE e # c
      BY <1>5, <2>2, StartStreams DEF ClientStart, TypeInv
    <2> QED BY <2>1, <2>2
  <1>6. ASSUME daemonVars' = daemonVars PROVE peerStream'[e] \in DOMAIN streams'[e]
    BY <1>6 DEF daemonVars
  <1>7. ASSUME NEW r \in Relays,
               \/ \E h \in Commands[r] : RelayConnect(r, h)
               \/ RelayRead(r) \/ RelayDrain(r) \/ RelayLeaves(r)
        PROVE  daemonVars' = daemonVars
    BY <1>7 DEF RelayConnect, RelayRead, RelayDrain, RelayLeaves, RelayEnds, Others
  <1>8. User => daemonVars' = daemonVars
    BY DEF User, KeyDown, KeyUp, Move, Unplug, UserUnchanged
  <1> QED BY <1>1, <1>2, <1>3, <1>4, <1>5, <1>6, <1>7, <1>8, Steps

\* A daemon that believes to be connected has the stream it would write to:
\* peer_stream dangles only while peer_state is DISCONNECTED.
THEOREM PeerPointerIsValid == Spec => []PeerPointerValid
  <1>1. Init => PeerPointerValid
    BY DEF Init, PeerPointerValid
  <1>2. TypeInv /\ PeerPointerValid /\ [Next]_vars => PeerPointerValid'
    <2>1. TypeInv /\ PeerPointerValid /\ Next => PeerPointerValid'
      BY PeerPointerStep
    <2>2. PeerPointerValid /\ UNCHANGED vars => PeerPointerValid'
      BY DEF PeerPointerValid, PeerThere, vars, daemonVars
    <2> QED BY <2>1, <2>2
  <1> QED BY <1>1, <1>2, Typed, PTL DEF Spec

-----------------------------------------------------------------------------
(* What a relay is told *)

\* a daemon that is to exit stays so, and one that was started does not return to the beginning
LEMMA SameOrLater ==
  ASSUME TypeInv, Next
  PROVE  /\ \A d \in Daemons : exiting[d] => exiting'[d]
         /\ \A d \in Daemons : proc[d] # "off" => proc'[d] # "off"
  <1>1. ASSUME NEW d \in Daemons, Gone(d)
        PROVE  exiting' = exiting /\ \A e \in Daemons : proc[e] # "off" => proc'[e] # "off"
    BY <1>1 DEF Gone, ProcessEnds, TypeInv
  <1>2. ASSUME NEW d \in Daemons, NEW s, Resolved(d, s)
        PROVE  proc' = proc /\ \A e \in Daemons : exiting[e] => exiting'[e]
    BY <1>2 DEF Resolved, StreamsResolved
  <1>3. ASSUME NEW d \in Daemons, NEW s, Dispatch(d) \/ ResolveClosed(d, s)
        PROVE  exiting' = exiting /\ proc' = proc
    BY <1>3 DEF Dispatch, ResolveClosed
  <1>4. ASSUME NEW c \in Clients, ClientStart(c)
        PROVE  exiting' = exiting /\ \A e \in Daemons : proc[e] # "off" => proc'[e] # "off"
    BY <1>4 DEF ClientStart, TypeInv
  <1>5. ASSUME NEW r \in Relays,
               \/ \E h \in Commands[r] : RelayConnect(r, h)
               \/ RelayRead(r) \/ RelayDrain(r) \/ RelayLeaves(r)
        PROVE  daemonVars' = daemonVars
    BY <1>5 DEF RelayConnect, RelayRead, RelayDrain, RelayLeaves, RelayEnds, Others
  <1>6. User => daemonVars' = daemonVars
    BY DEF User, KeyDown, KeyUp, Move, Unplug, UserUnchanged
  <1>7. daemonVars' = daemonVars => exiting' = exiting /\ proc' = proc
    BY DEF daemonVars
  <1> QED BY <1>1, <1>2, <1>3, <1>4, <1>5, <1>6, <1>7, Steps

\* what each step does to the relays
LEMMA RelayStates ==
  ASSUME TypeInv, Next
  PROVE  \/ relay' = relay
         \/ \E r \in Relays : RelayRead(r) \/ \E h \in Commands[r] : RelayConnect(r, h)
         \/ \E r \in Relays : RelayLeaves(r)
  <1>1. ASSUME NEW d \in Daemons, NEW s,
               Gone(d) \/ Dispatch(d) \/ ResolveClosed(d, s) \/ Resolved(d, s)
        PROVE  relay' = relay
    BY <1>1 DEF Gone, ProcessEnds, Dispatch, ResolveClosed, Resolved
  <1>2. ASSUME NEW c \in Clients, ClientStart(c) PROVE relay' = relay
    BY <1>2 DEF ClientStart
  <1>3. ASSUME NEW r \in Relays, RelayDrain(r) PROVE relay' = relay
    BY <1>3 DEF RelayDrain
  <1>4. User => relay' = relay
    BY DEF User, KeyDown, KeyUp, Move, Unplug, UserUnchanged
  <1> QED BY <1>1, <1>2, <1>3, <1>4, Steps

\* a relay that reads RELAY_STOP reads it from a daemon that is to exit
LEMMA StopAnswerStep == ASSUME TypeInv, StopAnswerTrue, Next PROVE StopAnswerTrue'
  <1> SUFFICES ASSUME NEW q \in Relays, relay'[q].answer = "RELAY_STOP" PROVE exiting'[Target[q]]
    BY DEF StopAnswerTrue
  <1>1. Target[q] \in Daemons
    BY RelayEndsLemma
  <1>2. relay[q].answer = "RELAY_STOP" => exiting'[Target[q]]
    BY <1>1, SameOrLater DEF StopAnswerTrue
  <1>3. ASSUME NEW r \in Relays, RelayRead(r) PROVE exiting'[Target[q]]
    <2>1. CASE relay'[q].answer = relay[q].answer
      BY <1>2, <2>1
    <2>2. CASE relay'[q].answer # relay[q].answer
      <3>1. /\ q = r /\ pipe[RelayConn(r)][r] # <<>>
            /\ relay'[q].answer = Head(pipe[RelayConn(r)][r]).msg.h
        BY <1>3, <2>2 DEF RelayRead, TypeInv, RelayRecords
      <3>2. exiting[Target[q]]
        BY <3>1, RelayHead DEF Answers
      <3> QED BY <1>1, <3>2, SameOrLater
    <2> QED BY <2>1, <2>2
  <1>4. ASSUME NEW r \in Relays, RelayLeaves(r) \/ \E h \in Commands[r] : RelayConnect(r, h)
        PROVE  relay'[q].answer = relay[q].answer
    <2>1. relay[r] \in RelayRecords
      BY DEF TypeInv
    <2>2. ASSUME NEW h, RelayConnect(r, h) PROVE relay'[q].answer = relay[q].answer
      <3>1. relay' = [relay EXCEPT ![r] = [relay[r] EXCEPT !.pc = "waiting", !.sent = h]]
        BY <2>2 DEF RelayConnect, TypeInv
      <3> QED BY <2>1, <3>1 DEF TypeInv, RelayRecords
    <2>3. ASSUME NEW how, RelayEnds(r, how) PROVE relay'[q].answer = relay[q].answer
      <3>1. relay' = [relay EXCEPT ![r] = [relay[r] EXCEPT !.pc = how]]
        BY <2>3 DEF RelayEnds, TypeInv
      <3> QED BY <2>1, <3>1 DEF TypeInv, RelayRecords
    <2> QED BY <1>4, <2>2, <2>3 DEF RelayLeaves
  <1> QED BY <1>2, <1>3, <1>4, RelayStates

\* Who is told that the daemon stops is told the truth.
THEOREM StopAnswerIsTrue == Spec => []StopAnswerTrue
  <1>1. Init => StopAnswerTrue
    BY DEF Init, StopAnswerTrue, None
  <1>2. TypeInv /\ StopAnswerTrue /\ [Next]_vars => StopAnswerTrue'
    <2>1. TypeInv /\ StopAnswerTrue /\ Next => StopAnswerTrue'
      BY StopAnswerStep
    <2>2. StopAnswerTrue /\ UNCHANGED vars => StopAnswerTrue'
      BY DEF StopAnswerTrue, vars, daemonVars
    <2> QED BY <2>1, <2>2
  <1> QED BY <1>1, <1>2, Typed, PTL DEF Spec

-----------------------------------------------------------------------------
(* Whose step it is *)

\* what a daemon holds
Local(e) ==
    <<proc[e], state[e], peerState[e], devices[e], polled[e], relayStreams[e],
      streams[e], batch[e], backlog[e]>>

\* A step that changes what a daemon holds, or waits for it, is a step of that daemon, or
\* one that connects to it.
LEMMA WhoseStep ==
  ASSUME TypeInv, Next, NEW e \in Daemons
  PROVE  \/ Local(e)' = Local(e)
         \/ Gone(e) \/ Dispatch(e) \/ \E s \in batch[e] : ResolveClosed(e, s) \/ Resolved(e, s)
         \/ e \in Clients /\ ClientStart(e)
         \/ \E r \in Relays : \E h \in Commands[r] : RelayConnect(r, h) /\ Target[r] = e
  <1>1. ASSUME NEW d \in Daemons, Gone(d), e # d PROVE Local(e)' = Local(e)
    <2>1. e # Tcp
      BY DaemonsLemma
    <2> QED BY <1>1, <2>1 DEF Gone, ProcessEnds, Local, TypeInv
  <1>2. ASSUME NEW d \in Daemons, Dispatch(d), e # d PROVE Local(e)' = Local(e)
    <2>1. e # Tcp
      BY DaemonsLemma
    <2>2. backlog'[e] = backlog[e]
      BY <1>2, <2>1 DEF Dispatch, TypeInv
    <2>3. peerState'[e] = peerState[e]
      BY <1>2 DEF Dispatch, TypeInv
    <2> QED BY <1>2, <2>2, <2>3, PassStreams DEF Dispatch, Local, TypeInv
  <1>3. ASSUME NEW d \in Daemons, NEW s, ResolveClosed(d, s), e # d PROVE Local(e)' = Local(e)
    BY <1>3 DEF ResolveClosed, Unregistered, PeerClosed, Local, TypeInv
  <1>4. ASSUME NEW d \in Daemons, NEW s, Resolved(d, s), e # d
        PROVE  Local(e)' = Local(e)
    <2>1. /\ UNCHANGED <<proc, relayStreams, backlog>>
          /\ StreamsResolved(d, s) /\ InputsResolved(d) /\ PeerResolved(d)
      BY <1>4 DEF Resolved
    <2>2. streams'[e] = streams[e] /\ batch'[e] = batch[e]
      BY <1>4, <2>1 DEF StreamsResolved, TypeInv
    <2>3. devices'[e] = devices[e] /\ polled'[e] = polled[e] /\ state'[e] = state[e]
      BY <1>4, <2>1 DEF InputsResolved, TypeInv
    <2>4. peerState'[e] = peerState[e]
      BY <1>4, <2>1 DEF PeerResolved, TypeInv
    <2> QED BY <2>1, <2>2, <2>3, <2>4 DEF Local
  <1>5. ASSUME NEW c \in Clients, ClientStart(c), e # c PROVE Local(e)' = Local(e)
    <2>1. e # Tcp
      BY DaemonsLemma
    <2> QED BY <1>5, <2>1, StartStreams DEF ClientStart, Local, TypeInv
  <1>6. ASSUME NEW r \in Relays, NEW h, RelayConnect(r, h), Target[r] # e PROVE Local(e)' = Local(e)
    BY <1>6 DEF RelayConnect, Others, daemonVars, Local, TypeInv
  <1>7. ASSUME NEW r \in Relays, RelayRead(r) \/ RelayDrain(r) \/ RelayLeaves(r)
        PROVE  Local(e)' = Local(e)
    BY <1>7 DEF RelayRead, RelayDrain, RelayLeaves, RelayEnds, Others, daemonVars, Local
  <1>8. User => Local(e)' = Local(e)
    BY DEF User, KeyDown, KeyUp, Move, Unplug, UserUnchanged, daemonVars, socketVars, Local
  <1> QED BY <1>1, <1>2, <1>3, <1>4, <1>5, <1>6, <1>7, <1>8, Steps

-----------------------------------------------------------------------------
(* A daemon that does not run holds nothing *)

Stopped ==
    \A e \in Daemons : proc[e] # "running" =>
        DOMAIN streams[e] = {} /\ batch[e] = {} /\ relayStreams[e] = <<>> /\ backlog[e] = <<>>

\* a daemon that does not run gains no stream, entry or connection
LEMMA StoppedStep == ASSUME TypeInv, Stopped, Next PROVE Stopped'
  <1> SUFFICES ASSUME NEW e \in Daemons, proc'[e] # "running"
               PROVE  /\ DOMAIN streams'[e] = {} /\ batch'[e] = {}
                      /\ relayStreams'[e] = <<>> /\ backlog'[e] = <<>>
    BY DEF Stopped
  <1> DEFINE Goal == /\ DOMAIN streams'[e] = {} /\ batch'[e] = {}
                     /\ relayStreams'[e] = <<>> /\ backlog'[e] = <<>>
  <1>1. CASE Local(e)' = Local(e)
    BY <1>1 DEF Local, Stopped
  <1>2. CASE Gone(e)
    BY <1>2 DEF Gone, ProcessEnds, TypeInv
  <1>3. ~Dispatch(e)
    BY DEF Dispatch, InLoop
  <1>4. ASSUME NEW s \in batch[e], ResolveClosed(e, s) \/ Resolved(e, s) PROVE FALSE
    <2>1. proc' = proc
      BY <1>4 DEF ResolveClosed, Resolved
    <2> QED BY <2>1 DEF Stopped
  <1>5. ASSUME e \in Clients, ClientStart(e) PROVE FALSE
    BY <1>5 DEF ClientStart, TypeInv
  <1>6. ASSUME NEW r \in Relays, NEW h, RelayConnect(r, h), Target[r] = e PROVE FALSE
    BY <1>6 DEF RelayConnect, Others, daemonVars
  <1> QED BY <1>1, <1>2, <1>3, <1>4, <1>5, <1>6, WhoseStep

\* a daemon that does not run has none
LEMMA StoppedHolds == Spec => []Stopped
  <1>1. Init => Stopped
    BY DEF Init, Stopped
  <1>2. TypeInv /\ Stopped /\ [Next]_vars => Stopped'
    <2>1. TypeInv /\ Stopped /\ Next => Stopped'
      BY StoppedStep
    <2>2. Stopped /\ UNCHANGED vars => Stopped'
      BY DEF Stopped, vars, daemonVars, socketVars
    <2> QED BY <2>1, <2>2
  <1> QED BY <1>1, <1>2, Typed, PTL DEF Spec

-----------------------------------------------------------------------------
(* The list of the relays' streams *)

Elems(q) == {q[i] : i \in DOMAIN q}
Once(q)  == \A i, j \in DOMAIN q : q[i] = q[j] => i = j

\* appending what is not in a list keeps it without repetition
LEMMA AppendedOnce ==
  ASSUME NEW S, NEW q \in Seq(S), NEW x \in S
  PROVE  /\ Elems(q \o <<x>>) = Elems(q) \cup {x}
         /\ Once(q) /\ x \notin Elems(q) => Once(q \o <<x>>)
         /\ Append(q, x) = q \o <<x>>
  <1> DEFINE f == q \o <<x>>
  <1>1. /\ Len(q) \in Nat /\ DOMAIN q = 1..Len(q) /\ DOMAIN f = 1..(Len(q) + 1)
        /\ \A i \in DOMAIN q : f[i] = q[i]
        /\ f[Len(q) + 1] = x /\ Append(q, x) = f
    OBVIOUS
  <1> HIDE DEF f
  <1>2. DOMAIN f = DOMAIN q \cup {Len(q) + 1}
    BY <1>1
  <1>3. Elems(f) = Elems(q) \cup {x}
    BY <1>1, <1>2 DEF Elems
  <1>4. ASSUME Once(q), x \notin Elems(q) PROVE Once(f)
    BY <1>1, <1>2, <1>4 DEF Once, Elems
  <1> QED BY <1>1, <1>3, <1>4 DEF f

\* and so does taking off its head
LEMMA TailOnce ==
  ASSUME NEW S, NEW q \in Seq(S), q # <<>>
  PROVE  /\ Elems(Tail(q)) \subseteq Elems(q) /\ Head(q) \in Elems(q)
         /\ Once(q) => Once(Tail(q)) /\ Head(q) \notin Elems(Tail(q))
  <1> DEFINE t == Tail(q)
  <1>1. /\ Len(q) \in Nat \ {0} /\ DOMAIN q = 1..Len(q) /\ DOMAIN t = 1..(Len(q) - 1)
        /\ \A i \in 1..(Len(q) - 1) : t[i] = q[i + 1]
        /\ Head(q) = q[1]
    OBVIOUS
  <1> HIDE DEF t
  <1>2. \A i \in DOMAIN t : i + 1 \in DOMAIN q /\ i + 1 # 1 /\ t[i] = q[i + 1]
    BY <1>1
  <1>3. 1 \in DOMAIN q
    BY <1>1
  <1>4. Elems(t) \subseteq Elems(q) /\ Head(q) \in Elems(q)
    BY <1>1, <1>2, <1>3 DEF Elems
  <1>5. ASSUME Once(q) PROVE Once(t) /\ Head(q) \notin Elems(t)
    <2>1. Head(q) \notin Elems(t)
      BY <1>1, <1>2, <1>3, <1>5 DEF Once, Elems
    <2>2. ASSUME NEW i \in DOMAIN t, NEW j \in DOMAIN t, t[i] = t[j] PROVE i = j
      <3>1. i + 1 = j + 1
        BY <1>2, <1>5, <2>2 DEF Once
      <3> QED BY <1>1, <3>1
    <2> QED BY <2>1, <2>2 DEF Once
  <1> QED BY <1>4, <1>5 DEF t

\* u_array_remove removes one element, of which there was one
LEMMA RemovedOnce ==
  ASSUME NEW S, NEW q \in Seq(S), Once(q), NEW s \in Elems(q)
  PROVE  Elems(Removed(q, s)) = Elems(q) \ {s} /\ Once(Removed(q, s))
  <1> DEFINE i == CHOOSE j \in DOMAIN q : q[j] = s /\ \A n \in 1..(j - 1) : q[n] # s
             f == [j \in 1..(Len(q) - 1) |-> IF j < i THEN q[j] ELSE q[j + 1]]
  <1>1. Removed(q, s) = f
    BY DEF Removed
  <1>2. PICK k \in DOMAIN q : q[k] = s
    BY DEF Elems
  <1>3. DOMAIN q = 1..Len(q) /\ Len(q) \in Nat /\ k \in 1..Len(q)
    BY <1>2
  <1>4. \A n \in 1..(k - 1) : n \in DOMAIN q /\ n # k
    BY <1>3
  <1>5. \A n \in 1..(k - 1) : q[n] # s
    BY <1>2, <1>4 DEF Once
  <1>6. i \in DOMAIN q /\ q[i] = s
    BY <1>2, <1>5
  <1>7. /\ DOMAIN f = 1..(Len(q) - 1)
        /\ \A j \in 1..(Len(q) - 1) : f[j] = q[IF j < i THEN j ELSE j + 1]
    OBVIOUS
  <1> HIDE DEF i, f
  <1> DEFINE g(j) == IF j < i THEN j ELSE j + 1
  <1>8. \A j \in DOMAIN f : g(j) \in DOMAIN q /\ g(j) # i /\ f[j] = q[g(j)]
    BY <1>3, <1>6, <1>7
  <1>9. \A n \in DOMAIN q : n # i => \E j \in DOMAIN f : g(j) = n
    <2> SUFFICES ASSUME NEW n \in DOMAIN q, n # i PROVE \E j \in DOMAIN f : g(j) = n
      OBVIOUS
    <2>1. CASE n < i
      <3>1. n \in DOMAIN f /\ g(n) = n
        BY <1>3, <1>6, <1>7, <2>1
      <3> QED BY <3>1
    <2>2. CASE n > i
      <3>1. n - 1 \in DOMAIN f /\ g(n - 1) = n
        BY <1>3, <1>6, <1>7, <2>2
      <3> QED BY <3>1
    <2> QED BY <1>3, <1>6, <2>1, <2>2
  <1>10. \A j, n \in DOMAIN f : g(j) = g(n) => j = n
    BY <1>3, <1>6, <1>7
  <1> HIDE DEF g
  <1>11. Once(f)
    BY <1>8, <1>10 DEF Once
  <1>12. Elems(f) \subseteq Elems(q) \ {s}
    BY <1>6, <1>8 DEF Elems, Once
  <1>13. Elems(q) \ {s} \subseteq Elems(f)
    BY <1>6, <1>8, <1>9 DEF Elems
  <1> QED BY <1>1, <1>11, <1>12, <1>13

Registered(d) ==
    /\ Elems(relayStreams[d]) = {s \in DOMAIN streams[d] : s[1] = "relay"}
    /\ Once(relayStreams[d]) /\ Once(backlog[d])
    /\ Elems(backlog[d]) \cap DOMAIN streams[d] = {}
    /\ \A r \in Relays : RelayConn(r) \in DOMAIN streams[d] \cup Elems(backlog[d]) =>
                            relay[r].pc # "off"

\* where a relay may go from where it is
LEMMA RelayPlacesStep ==
  ASSUME TypeInv, Next, NEW r \in Relays
  PROVE  \/ relay'[r].pc = relay[r].pc
         \/ relay'[r].pc = "waiting" /\ \E h \in Commands[r] : RelayConnect(r, h)
         \/ relay'[r].pc \in {"body", "draining"} /\ Waiting(r)
         \/ relay'[r].pc \in {"closed", "failed"} /\ relay[r].pc # "off"
  <1>0. relay[r] \in RelayRecords
    BY DEF TypeInv
  <1>1. ASSUME NEW q \in Relays, NEW h \in Commands[q], RelayConnect(q, h)
        PROVE  relay'[r].pc = relay[r].pc \/ (q = r /\ relay'[r].pc = "waiting")
    <2>1. relay' = [relay EXCEPT ![q] = [relay[q] EXCEPT !.pc = "waiting", !.sent = h]]
      BY <1>1 DEF RelayConnect, TypeInv
    <2> QED BY <1>0, <2>1 DEF TypeInv, RelayRecords
  <1>2. ASSUME NEW q \in Relays, RelayRead(q)
        PROVE  relay'[r].pc = relay[r].pc \/ (Waiting(r) /\ relay'[r].pc \in {"body", "draining"})
    <2>1. PICK m : \/ relay' = [relay EXCEPT ![q] = [relay[q] EXCEPT !.pc = "body"]]
                   \/ relay' = [relay EXCEPT ![q] = [relay[q] EXCEPT !.pc = "draining", !.answer = m]]
      BY <1>2 DEF RelayRead, TypeInv
    <2>2. Waiting(q)
      BY <1>2 DEF RelayRead
    <2>3. relay[q] \in RelayRecords /\ DOMAIN relay = Relays
      BY DEF TypeInv
    <2>4. relay'[q].pc \in {"body", "draining"} /\ \A x \in Relays \ {q} : relay'[x] = relay[x]
      BY <2>1, <2>3 DEF RelayRecords
    <2> QED BY <2>2, <2>4
  <1>3. ASSUME NEW q \in Relays, RelayLeaves(q)
        PROVE  \/ relay'[r].pc = relay[r].pc
               \/ relay'[r].pc \in {"closed", "failed"} /\ relay[r].pc # "off"
    <2>1. PICK how \in {"closed", "failed"} : relay' = [relay EXCEPT ![q] = [relay[q] EXCEPT !.pc = how]]
      BY <1>3 DEF RelayLeaves, RelayEnds, TypeInv
    <2>2. relay[q].pc # "off"
      BY <1>3 DEF RelayLeaves, Waiting
    <2> QED BY <1>0, <2>1, <2>2 DEF TypeInv, RelayRecords
  <1> QED BY <1>1, <1>2, <1>3, RelayStates

\* a relay runs once
LEMMA NeverOffAgain ==
  ASSUME TypeInv, Next, NEW r \in Relays, relay[r].pc # "off" PROVE relay'[r].pc # "off"
  BY RelayPlacesStep

\* accept_usock lists the stream it opens, which was in the backlog and so in no list
LEMMA DispatchRegistered ==
  ASSUME TypeInv, Next, NEW e \in Daemons, Registered(e), Dispatch(e) PROVE Registered(e)'
  <1> DEFINE q == relayStreams[e]
             b == backlog[e]
             P == NewStreams(e) \ RelaysOf(e)
             B == {s \in DOMAIN streams[e] : s[1] = "relay"}
  <1>1. q \in Seq(RelaysOf(e)) /\ b \in Seq(RelaysOf(e)) /\ e # Tcp
    BY DaemonsLemma DEF TypeInv
  <1>2. /\ DOMAIN streams'[e] = DOMAIN streams[e] \cup NewStreams(e)
        /\ relayStreams'[e] = q \o Accepted(e)
        /\ backlog'[e] = IF Accepted(e) # <<>> THEN Tail(b) ELSE b
    BY <1>1, PassStreams DEF Dispatch, TypeInv
  <1>3. /\ Elems(q) = B /\ Once(q) /\ Once(b) /\ Elems(b) \cap DOMAIN streams[e] = {}
        /\ \A r \in Relays : RelayConn(r) \in DOMAIN streams[e] \cup Elems(b) => relay[r].pc # "off"
    BY DEF Registered
  <1>4. \A s \in NewStreams(e) : s[1] = "relay" => s \in {Accepted(e)[i] : i \in DOMAIN Accepted(e)}
    BY AcceptedTyped DEF NewStreams, PeersOf, PeerConn
  <1>5. CASE b = <<>>
    <2>1. Accepted(e) = <<>>
      BY <1>5 DEF Accepted
    <2>2. \A s \in NewStreams(e) : s[1] # "relay"
      BY <1>4, <2>1
    <2>3. q \o <<>> = q
      BY <1>1
    <2>4. /\ relayStreams'[e] = q /\ backlog'[e] = b
          /\ {s \in DOMAIN streams'[e] : s[1] = "relay"} = B
      BY <1>2, <2>1, <2>2, <2>3
    <2>5. Elems(b) = {}
      BY <1>5 DEF Elems
    <2>6. \A r \in Relays : RelayConn(r) \in DOMAIN streams'[e] => RelayConn(r) \in DOMAIN streams[e]
      BY <1>2, <2>2 DEF RelayConn
    <2> HIDE DEF q, b, B
    <2> QED BY <1>3, <2>4, <2>5, <2>6, NeverOffAgain DEF Registered, B
  <1>6. CASE b # <<>>
    <2> DEFINE h == Head(b)
    <2>1. Accepted(e) = <<h>> /\ Accepted(e) # <<>>
      BY <1>6 DEF Accepted
    <2>2. h \in RelaysOf(e) /\ h[1] = "relay" /\ h \in Elems(b)
      BY <1>1, <1>6, HeadsLemma, TailOnce DEF RelaysOf, RelayConn
    <2>3. /\ \A s \in NewStreams(e) : s[1] = "relay" => s = h
          /\ h \in NewStreams(e)
      BY <1>4, <2>1 DEF NewStreams
    <2>4. relayStreams'[e] = q \o <<h>> /\ backlog'[e] = Tail(b)
      BY <1>2, <2>1
    <2> HIDE DEF h, q, b, B
    <2>5. h \notin Elems(q)
      BY <1>3, <2>2 DEF B
    <2>6. Elems(q \o <<h>>) = Elems(q) \cup {h} /\ Once(q \o <<h>>)
      BY <1>1, <1>3, <2>2, <2>5, AppendedOnce
    <2>7. Elems(Tail(b)) \subseteq Elems(b) /\ Once(Tail(b)) /\ h \notin Elems(Tail(b))
      BY <1>1, <1>3, <1>6, TailOnce DEF h
    <2>8. {s \in DOMAIN streams'[e] : s[1] = "relay"} = B \cup {h}
      BY <1>2, <2>2, <2>3 DEF B
    <2>9. \A s \in Elems(b) : s[1] = "relay"
      <3>1. \A i \in DOMAIN b : b[i] \in RelaysOf(e)
        BY <1>1
      <3> QED BY <3>1 DEF Elems, RelaysOf, RelayConn
    <2>10. Elems(Tail(b)) \cap DOMAIN streams'[e] = {}
      BY <1>2, <1>3, <2>3, <2>7, <2>9
    <2>11. \A r \in Relays : RelayConn(r) \in DOMAIN streams'[e] \cup Elems(Tail(b)) =>
                                RelayConn(r) \in DOMAIN streams[e] \cup Elems(b)
      BY <1>2, <2>2, <2>3, <2>7 DEF RelayConn
    <2> QED BY <1>3, <2>4, <2>6, <2>7, <2>8, <2>10, <2>11, NeverOffAgain DEF Registered
  <1> QED BY <1>5, <1>6

\* r_close_relay removes the stream that is closed and no other
LEMMA ClosedRegistered ==
  ASSUME TypeInv, Next, NEW e \in Daemons, Registered(e), NEW s, ResolveClosed(e, s)
  PROVE  Registered(e)'
  <1> DEFINE q == relayStreams[e]
  <1>1. q \in Seq(RelaysOf(e))
    BY DEF TypeInv
  <1>2. /\ s \in DOMAIN streams[e] /\ DOMAIN streams'[e] = DOMAIN streams[e] \ {s}
        /\ backlog' = backlog /\ relay' = relay
        /\ relayStreams'[e] = IF s[1] = "relay" THEN Removed(q, s) ELSE q
    BY DEF ResolveClosed, Without, Unregistered, TypeInv
  <1> HIDE DEF q
  <1>3. Elems(q) = {x \in DOMAIN streams[e] : x[1] = "relay"} /\ Once(q)
    BY DEF Registered, q
  <1>4. CASE s[1] = "relay"
    <2>1. s \in Elems(q)
      BY <1>2, <1>3, <1>4
    <2>2. Elems(Removed(q, s)) = Elems(q) \ {s} /\ Once(Removed(q, s))
      BY <1>1, <1>3, <2>1, RemovedOnce
    <2>3. {x \in DOMAIN streams'[e] : x[1] = "relay"} = Elems(q) \ {s}
      BY <1>2, <1>3
    <2> QED BY <1>2, <1>4, <2>2, <2>3 DEF Registered
  <1>5. CASE s[1] # "relay"
    <2>1. {x \in DOMAIN streams'[e] : x[1] = "relay"} = {x \in DOMAIN streams[e] : x[1] = "relay"}
      BY <1>2, <1>5
    <2> QED BY <1>2, <1>3, <1>5, <2>1 DEF Registered
  <1> QED BY <1>4, <1>5

\* each step keeps the registry of relays
LEMMA RegisteredStep ==
  ASSUME TypeInv, Stopped, Stopped', Next, NEW e \in Daemons, Registered(e) PROVE Registered(e)'
  <1>1. CASE Local(e)' = Local(e)
    BY <1>1, NeverOffAgain DEF Local, Registered
  <1>2. ASSUME proc'[e] # "running" PROVE Registered(e)'
    <2>1. DOMAIN streams'[e] = {} /\ relayStreams'[e] = <<>> /\ backlog'[e] = <<>>
      BY <1>2 DEF Stopped
    <2> QED BY <2>1 DEF Registered, Elems, Once
  <1>3. CASE Gone(e)
    BY <1>2, <1>3 DEF Gone, ProcessEnds, TypeInv
  <1>4. ASSUME NEW s \in batch[e], Resolved(e, s) PROVE Registered(e)'
    <2>1. UNCHANGED <<relayStreams, backlog, relay>> /\ StreamsResolved(e, s)
      BY <1>4 DEF Resolved
    <2>2. TypedStreams(e, streams[e], exiting) /\ TypedStreams(e, streams'[e], exiting')
      BY <2>1 DEF TypeInv, StreamsResolved
    <2>3. \A x : x[1] = "relay" => (x \in DOMAIN streams[e] <=> x \in DOMAIN streams'[e])
      BY <2>1, <2>2 DEF StreamsResolved, TypedStreams
    <2>4. \A x \in Elems(backlog[e]) : x[1] = "relay"
      <3>1. backlog[e] \in Seq(RelaysOf(e))
        BY DEF TypeInv
      <3>2. \A i \in DOMAIN backlog[e] : backlog[e][i] \in RelaysOf(e)
        BY <3>1
      <3> QED BY <3>2 DEF Elems, RelaysOf, RelayConn
    <2>5. \A r \in Relays : RelayConn(r)[1] = "relay"
      BY DEF RelayConn
    <2> QED BY <2>1, <2>3, <2>4, <2>5 DEF Registered
  <1>5. ASSUME e \in Clients, ClientStart(e) PROVE Registered(e)'
    <2>1. relayStreams[e] = <<>> /\ backlog[e] = <<>> /\ e # Tcp
      BY <1>5, DaemonsLemma DEF ClientStart, Stopped
    <2>2. relayStreams'[e] = <<>> /\ backlog'[e] = <<>>
      BY <1>5, <2>1 DEF ClientStart, TypeInv
    <2>3. \A s \in DOMAIN streams'[e] : s[1] # "relay"
      BY <1>5, StartStreams DEF PeerConn, DevStream
    <2> QED BY <2>2, <2>3 DEF Registered, Elems, Once, RelayConn
  <1>6. ASSUME NEW r \in Relays, NEW h \in Commands[r], RelayConnect(r, h), Target[r] = e
        PROVE  Registered(e)'
    <2> DEFINE b == backlog[e]
               s == RelayConn(r)
    <2>1. b \in Seq(RelaysOf(e)) /\ s \in RelaysOf(e)
      BY <1>6, RelayEndsLemma DEF TypeInv
    <2>2. /\ UNCHANGED <<streams, relayStreams>> /\ backlog'[e] = Append(b, s)
          /\ relay[r].pc = "off" /\ relay'[r].pc = "waiting"
      BY <1>6 DEF RelayConnect, Others, daemonVars, TypeInv
    <2>3. s \notin DOMAIN streams[e] /\ s \notin Elems(b)
      BY <2>2 DEF Registered
    <2> HIDE DEF b, s
    <2>4. Elems(Append(b, s)) = Elems(b) \cup {s} /\ (Once(b) => Once(Append(b, s)))
      <3> DEFINE T == RelaysOf(e)
      <3>1. b \in Seq(T) /\ s \in T
        BY <2>1
      <3> HIDE DEF T
      <3>2. /\ Elems(b \o <<s>>) = Elems(b) \cup {s}
            /\ Once(b) /\ s \notin Elems(b) => Once(b \o <<s>>)
            /\ Append(b, s) = b \o <<s>>
        BY <3>1, AppendedOnce
      <3> QED BY <2>3, <3>2
    <2>5. \A q \in Relays : RelayConn(q) = s => q = r
      BY DEF RelayConn, s
    <2> QED BY <2>2, <2>3, <2>4, <2>5, NeverOffAgain DEF Registered, b, s
  <1> QED BY <1>1, <1>3, <1>4, <1>5, <1>6, DispatchRegistered, ClosedRegistered, WhoseStep

\* the registry is exact, and a relay is in the backlog or in the list, once
LEMMA RegisteredHolds == Spec => [](\A d \in Daemons : Registered(d))
  <1>1. Init => \A d \in Daemons : Registered(d)
    BY DEF Init, Registered, Elems, Once
  <1>2. /\ TypeInv /\ Stopped /\ Stopped' /\ [Next]_vars /\ (\A d \in Daemons : Registered(d))
        => (\A d \in Daemons : Registered(d))'
    <2>1. /\ TypeInv /\ Stopped /\ Stopped' /\ Next /\ (\A d \in Daemons : Registered(d))
          => (\A d \in Daemons : Registered(d))'
      BY RegisteredStep
    <2>2. (\A d \in Daemons : Registered(d)) /\ UNCHANGED vars => (\A d \in Daemons : Registered(d))'
      BY DEF Registered, vars, daemonVars, socketVars
    <2> QED BY <2>1, <2>2
  <1> QED BY <1>1, <1>2, Typed, StoppedHolds, PTL DEF Spec

\* relay_ctx->relay_streams lists exactly the relay streams that are open, each once,
\* whatever was accepted and closed in whatever order.
THEOREM RelayRegistryIsExact == Spec => []RelayRegistry
  <1>1. (\A d \in Daemons : Registered(d)) => RelayRegistry
    BY DEF Registered, RelayRegistry, RelaySet, Elems, Once
  <1> QED BY <1>1, RegisteredHolds, PTL

-----------------------------------------------------------------------------
(* The devices of a client *)

\* nothing is ever queued on an evdev file, and it closes only when it is gone
DevClosed(e) ==
    \A s \in DOMAIN streams[e] :
        s[1] = "dev" /\ streams[e][s].fallback.state = "CLOSED" => s[2] \in unplugged

\* what is captured can be: its file is open
DevThere(e) ==
    proc[e] = "running" => \A k \in DeviceIds(e) \ unplugged : DevStream(k) \in DOMAIN streams[e]

Grabbing(e) ==
    proc[e] = "running" /\ peerState[e] = "CONNECTED" =>
        LET on == state[e] = "RUNNING"
        IN  /\ polled[e] = {k \in DeviceIds(e) : on /\ DevStream(k) \in DOMAIN streams[e]}
            /\ \A i \in DOMAIN devices[e] : devices[e][i].grabbed = on

Capturing(e) ==
    (proc[e] = "off" => state[e] = "RUNNING") /\ DevClosed(e) /\ DevThere(e) /\ Grabbing(e)

\* a device that was unplugged stays so
LEMMA NeverPluggedAgain == ASSUME TypeInv, Next PROVE unplugged \subseteq unplugged'
  <1>1. ASSUME NEW d \in Daemons, NEW s,
               Gone(d) \/ Dispatch(d) \/ ResolveClosed(d, s) \/ Resolved(d, s)
        PROVE  unplugged' = unplugged
    BY <1>1 DEF Gone, ProcessEnds, Dispatch, ResolveClosed, Resolved, inputVars
  <1>2. ASSUME NEW c \in Clients, ClientStart(c) PROVE unplugged' = unplugged
    BY <1>2 DEF ClientStart, inputVars
  <1>3. ASSUME NEW r \in Relays,
               \/ \E h \in Commands[r] : RelayConnect(r, h)
               \/ RelayRead(r) \/ RelayDrain(r) \/ RelayLeaves(r)
        PROVE  unplugged' = unplugged
    BY <1>3 DEF RelayConnect, RelayRead, RelayDrain, RelayLeaves, RelayEnds, Others, inputVars
  <1>4. User => unplugged \subseteq unplugged'
    BY DEF User, KeyDown, KeyUp, Move, Unplug, UserUnchanged
  <1> QED BY <1>1, <1>2, <1>3, <1>4, Steps

\* nothing is ever queued on the stream of an evdev file
LEMMA DevQueue ==
  ASSUME TypeInv, NEW d \in Daemons, NEW s \in DOMAIN streams[d], s[1] = "dev"
  PROVE  streams[d][s].queue = <<>> /\ NextItem(streams[d][s]) = streams[d][s].fallback
  <1>1. streams[d][s].queue \in Seq(QueueItems(d, s, exiting))
    BY StreamFacts
  <1>2. QueueItems(d, s, exiting) = {}
    BY DEF QueueItems, Sent
  <1>3. streams[d][s].queue = <<>>
    BY <1>1, <1>2, HeadsLemma
  <1> QED BY <1>3 DEF NextItem

\* a pass changes neither grabs nor the epoll set, and may only lose the peer
LEMMA DispatchCapturing ==
  ASSUME TypeInv, NEW e \in Clients, Capturing(e), Dispatch(e) PROVE Capturing(e)'
  <1>1. e \in Daemons /\ e # Server
    BY DaemonsLemma DEF Daemons
  <1>2. UNCHANGED <<proc, state, devices, polled, unplugged>> /\ peerState'[e] = peerState[e]
    BY <1>1 DEF Dispatch, AcceptsPeer
  <1>3. /\ DOMAIN streams'[e] = DOMAIN streams[e] \cup NewStreams(e)
        /\ \A s \in DOMAIN streams[e] :
              streams'[e][s] = IF s \in ReadySet(e) THEN AfterIo(e, s) ELSE streams[e][s]
        /\ \A s \in NewStreams(e) \ DOMAIN streams[e] : streams'[e][s] = FreshStream
    BY <1>1, PassStreams
  <1>4. \A s \in NewStreams(e) : s[1] # "dev"
    <2>1. ~AcceptsPeer(e)
      BY <1>1 DEF AcceptsPeer
    <2>2. Accepted(e) \in Seq(RelaysOf(e))
      BY <1>1, AcceptedTyped
    <2>3. \A i \in DOMAIN Accepted(e) : Accepted(e)[i] \in RelaysOf(e)
      BY <2>2
    <2> QED BY <2>1, <2>3 DEF NewStreams, RelaysOf, RelayConn
  <1>5. DevClosed(e)'
    <2> SUFFICES ASSUME NEW s \in DOMAIN streams'[e], s[1] = "dev",
                        streams'[e][s].fallback.state = "CLOSED", s[2] \notin unplugged
                 PROVE  FALSE
      BY <1>2 DEF DevClosed
    <2>1. s \in DOMAIN streams[e]
      BY <1>3, <1>4
    <2>2. s \in ReadySet(e) /\ streams'[e][s] = AfterIo(e, s)
      BY <1>3, <2>1 DEF Capturing, DevClosed
    <2>3. streams[e][s] \in Records(e, s, exiting)
      BY <1>1, <2>1, StreamFacts DEF StreamsOf
    <2>4. AfterIo(e, s).fallback.state = "COMPLETE"
      BY <2>3 DEF AfterIo, Records
    <2> QED BY <2>2, <2>4
  <1>6. \A k : DevStream(k) \in DOMAIN streams'[e] <=> DevStream(k) \in DOMAIN streams[e]
    BY <1>3, <1>4 DEF DevStream
  <1>7. DevThere(e)' /\ Grabbing(e)'
    BY <1>2, <1>6 DEF Capturing, DevThere, Grabbing, DeviceIds
  <1> QED BY <1>2, <1>5, <1>7 DEF Capturing

\* a device whose stream is closed leaves the epoll set
LEMMA ClosedCapturing ==
  ASSUME TypeInv, NEW e \in Clients, NEW s, Capturing(e), ResolveClosed(e, s) PROVE Capturing(e)'
  <1>1. e \in Daemons
    BY DEF Daemons
  <1>2. /\ UNCHANGED <<proc, state, devices, unplugged>>
        /\ s \in DOMAIN streams[e] /\ DOMAIN streams'[e] = DOMAIN streams[e] \ {s}
        /\ \A x \in DOMAIN streams'[e] : streams'[e][x] = streams[e][x]
        /\ polled'[e] = {k \in polled[e] : DevStream(k) # s}
        /\ peerState'[e] = IF s[1] = "peer" THEN "DISCONNECTED" ELSE peerState[e]
        /\ NextItem(streams[e][s]).state = "CLOSED"
    BY <1>1 DEF ResolveClosed, Without, PeerClosed, TypeInv, inputVars
  <1>3. DevClosed(e)'
    BY <1>2 DEF Capturing, DevClosed
  <1>4. s[1] = "dev" => s[2] \in unplugged
    BY <1>1, <1>2, DevQueue DEF Capturing, DevClosed
  <1>5. DevThere(e)'
    <2>1. \A k : DevStream(k)[1] = "dev" /\ DevStream(k)[2] = k
      BY DEF DevStream
    <2>2. \A k \in DeviceIds(e) \ unplugged : DevStream(k) # s
      BY <1>4, <2>1
    <2>3. DeviceIds(e)' = DeviceIds(e)
      BY <1>2 DEF DeviceIds
    <2> QED BY <1>2, <2>2, <2>3 DEF Capturing, DevThere
  <1>6. Grabbing(e)'
    BY <1>2 DEF Capturing, Grabbing, DeviceIds
  <1> QED BY <1>2, <1>3, <1>5, <1>6 DEF Capturing

\* pause and resume move grabs, epoll set and state together
LEMMA ResolvedCapturing ==
  ASSUME TypeInv, NEW e \in Clients, NEW s, Capturing(e), Resolved(e, s), proc[e] = "running"
  PROVE  Capturing(e)'
  <1>1. e \in Daemons /\ e # Server
    BY DaemonsLemma DEF Daemons
  <1>2. /\ UNCHANGED <<proc, unplugged>> /\ GrabMoves(e)
        /\ StreamsResolved(e, s) /\ peerState'[e] = peerState[e]
    BY <1>1 DEF Resolved, InputsResolved, PeerResolved
  <1>3. TypedStreams(e, streams[e], exiting) /\ TypedStreams(e, streams'[e], exiting')
    BY <1>1, <1>2 DEF TypeInv, StreamsResolved
  <1>4. \A x : x[1] = "dev" => (x \in DOMAIN streams[e] <=> x \in DOMAIN streams'[e])
    BY <1>2, <1>3 DEF StreamsResolved, TypedStreams
  <1>5. DevClosed(e)'
    BY <1>2, <1>4 DEF Capturing, DevClosed, StreamsResolved
  <1>6. \A k : DevStream(k) \in DOMAIN streams'[e] <=> DevStream(k) \in DOMAIN streams[e]
    BY <1>4 DEF DevStream
  <1>7. CASE UNCHANGED <<devices, polled, state>>
    BY <1>2, <1>5, <1>6, <1>7 DEF Capturing, DevThere, Grabbing, DeviceIds
  <1>8. ASSUME NEW grab \in BOOLEAN, ControlledDevices(e, grab), InputsControllable(e, grab),
               peerState[e] = "CONNECTED" => state'[e] = IF grab THEN "RUNNING" ELSE "PAUSED"
        PROVE  Capturing(e)'
    <2>1. devices'[e] = [i \in DOMAIN devices[e] |-> [devices[e][i] EXCEPT !.grabbed = grab]]
      BY <1>1, <1>8 DEF ControlledDevices, TypeInv
    <2>2. polled'[e] = IF grab THEN DeviceIds(e) ELSE {}
      BY <1>1, <1>8 DEF ControlledDevices, TypeInv
    <2>3. \A i \in DOMAIN devices[e] : /\ devices'[e][i].id = devices[e][i].id
                                       /\ devices'[e][i].grabbed = grab
      BY <1>1, <2>1, IdsLemma DEF Entries
    <2>4. DOMAIN devices'[e] = DOMAIN devices[e] /\ DeviceIds(e)' = DeviceIds(e)
      BY <2>1, <2>3 DEF DeviceIds
    <2>5. \A k \in DeviceIds(e) : k \notin unplugged
      BY <1>1, <1>8 DEF InputsControllable, DeviceIds
    <2>6. \A k \in DeviceIds(e) : DevStream(k) \in DOMAIN streams'[e]
      BY <1>6, <2>5 DEF Capturing, DevThere
    <2>7. DevThere(e)'
      BY <2>4, <2>6 DEF DevThere
    <2>8. Grabbing(e)'
      <3> SUFFICES ASSUME peerState[e] = "CONNECTED"
                   PROVE  /\ polled'[e] = {k \in DeviceIds(e) : /\ state'[e] = "RUNNING"
                                                                /\ DevStream(k) \in DOMAIN streams'[e]}
                          /\ \A i \in DOMAIN devices[e] :
                                devices'[e][i].grabbed = (state'[e] = "RUNNING")
        BY <1>2, <2>4 DEF Grabbing
      <3>1. state'[e] = IF grab THEN "RUNNING" ELSE "PAUSED"
        BY <1>8
      <3>2. CASE grab
        BY <2>2, <2>3, <2>6, <3>1, <3>2
      <3>3. CASE ~grab
        BY <2>2, <2>3, <3>1, <3>3
      <3> QED BY <3>2, <3>3
    <2> QED BY <1>2, <1>5, <2>7, <2>8 DEF Capturing
  <1> QED BY <1>2, <1>7, <1>8 DEF GrabMoves

\* a client starts with all its devices grabbed and in the epoll set
LEMMA StartCapturing ==
  ASSUME TypeInv, NEW e \in Clients, Capturing(e), ClientStart(e) PROVE Capturing(e)'
  <1> DEFINE arg == DeviceArg[e]
             ids == {arg[i] : i \in DOMAIN arg}
  <1>1. e \in Daemons
    BY DEF Daemons
  <1>2. /\ DOMAIN streams'[e] = {PeerConn(e)} \cup {DevStream(k) : k \in ids}
        /\ \A s \in DOMAIN streams'[e] : streams'[e][s].fallback = Idle
    BY StartStreams
  <1>3. /\ proc'[e] = "running" /\ state'[e] = "RUNNING" /\ polled'[e] = ids
        /\ devices'[e] = [i \in DOMAIN arg |-> [id |-> arg[i], grabbed |-> TRUE]]
    BY <1>1 DEF ClientStart, Capturing, TypeInv
  <1>4. /\ DOMAIN devices'[e] = DOMAIN arg
        /\ \A i \in DOMAIN arg : devices'[e][i].id = arg[i] /\ devices'[e][i].grabbed = TRUE
    BY <1>3
  <1>5. DeviceIds(e)' = ids
    BY <1>4 DEF DeviceIds
  <1>6. DevClosed(e)'
    BY <1>2 DEF DevClosed, Idle, Item
  <1>7. \A k \in ids : DevStream(k) \in DOMAIN streams'[e]
    BY <1>2
  <1> HIDE DEF ids
  <1>8. DevThere(e)'
    BY <1>5, <1>7 DEF DevThere
  <1>9. Grabbing(e)'
    BY <1>3, <1>4, <1>5, <1>7 DEF Grabbing
  <1> QED BY <1>3, <1>6, <1>8, <1>9 DEF Capturing

\* each step keeps grabs, epoll set and state together
LEMMA CapturingStep ==
  ASSUME TypeInv, Stopped, Next, NEW e \in Clients, Capturing(e) PROVE Capturing(e)'
  <1>0. e \in Daemons
    BY DEF Daemons
  <1>1. ASSUME UNCHANGED <<proc[e], state[e], peerState[e], devices[e], polled[e], streams[e]>>
        PROVE  Capturing(e)'
    <2>1. unplugged \subseteq unplugged'
      BY NeverPluggedAgain
    <2>2. DeviceIds(e)' = DeviceIds(e)
      BY <1>1 DEF DeviceIds
    <2> QED BY <1>1, <2>1, <2>2 DEF Capturing, DevClosed, DevThere, Grabbing
  <1>2. CASE Gone(e)
    <2>1. proc'[e] \in {"exited", "failed"} /\ DOMAIN streams'[e] = {}
      BY <1>0, <1>2 DEF Gone, ProcessEnds, TypeInv
    <2> QED BY <2>1 DEF Capturing, DevClosed, DevThere, Grabbing
  <1>3. CASE Local(e)' = Local(e)
    BY <1>1, <1>3 DEF Local
  <1>4. ASSUME NEW r \in Relays, NEW h, RelayConnect(r, h) PROVE Capturing(e)'
    BY <1>1, <1>4 DEF RelayConnect, Others, daemonVars
  <1>5. ASSUME NEW s \in batch[e], Resolved(e, s) PROVE Capturing(e)'
    <2>1. proc[e] = "running"
      BY <1>0 DEF Stopped
    <2> QED BY <1>5, <2>1, ResolvedCapturing
  <1> QED BY <1>0, <1>2, <1>3, <1>4, <1>5, DispatchCapturing, ClosedCapturing, StartCapturing, WhoseStep

\* While its peer is connected, a client that runs has every device grabbed and, unless it
\* was unplugged, in the epoll set, and a client that is paused none.
THEOREM GrabFollowsState == Spec => []GrabMatchesState
  <1> DEFINE I == \A c \in Clients : Capturing(c)
  <1>1. Init => I
    <2> SUFFICES ASSUME Init, NEW c \in Clients PROVE Capturing(c)
      OBVIOUS
    <2>1. c \in Daemons /\ c # Server
      BY DaemonsLemma DEF Daemons
    <2>2. proc[c] = "off" /\ state[c] = "RUNNING" /\ DOMAIN streams[c] = {}
      BY <2>1 DEF Init
    <2> QED BY <2>2 DEF Capturing, DevClosed, DevThere, Grabbing
  <1>2. TypeInv /\ Stopped /\ [Next]_vars /\ I => I'
    <2>1. TypeInv /\ Stopped /\ Next /\ I => I'
      BY CapturingStep
    <2>2. I /\ UNCHANGED vars => I'
      BY DEF Capturing, DevClosed, DevThere, Grabbing, DeviceIds, vars, daemonVars, inputVars
    <2> QED BY <2>1, <2>2
  <1>3. I => GrabMatchesState
    BY DEF Capturing, Grabbing, GrabMatchesState
  <1> HIDE DEF I
  <1> QED BY <1>1, <1>2, <1>3, Typed, StoppedHolds, PTL DEF Spec

-----------------------------------------------------------------------------
(* Relays that wait *)

\* a relay that waits for a daemon that runs is in its backlog or among its streams, and is
\* not taken for gone
Heard(r) ==
    LET d == Target[r]
        s == RelayConn(r)
    IN  /\ relay[r].pc # "off" => proc[d] # "off"
        /\ Waiting(r) => r \in open[s]
        /\ Waiting(r) /\ proc[d] = "running" => s \in DOMAIN streams[d] \cup Elems(backlog[d])
        /\ s \in DOMAIN streams[d] /\ streams[d][s].fallback.state = "CLOSED" => ~Waiting(r)

\* a relay's end stays open until the relay closes it
LEMMA StillOpen ==
  ASSUME TypeInv, Next, NEW r \in Relays, r \in open[RelayConn(r)], ~RelayLeaves(r)
  PROVE  r \in open'[RelayConn(r)]
  <1> DEFINE s == RelayConn(r)
  <1>1. s \in Connections /\ r \notin Daemons
    BY RelayEndsLemma, NamesAssumption DEF Daemons
  <1>2. ASSUME NEW d \in Daemons, NEW x, Gone(d) \/ ResolveClosed(d, x) PROVE r \in open'[s]
    BY <1>1, <1>2 DEF Gone, ProcessEnds, ResolveClosed
  <1>3. ASSUME NEW d \in Daemons, NEW x, Dispatch(d) \/ Resolved(d, x) PROVE r \in open'[s]
    BY <1>3 DEF Dispatch, Resolved
  <1>4. ASSUME NEW c \in Clients, ClientStart(c) PROVE r \in open'[s]
    <2>1. PeerConn(c) # s
      BY DEF PeerConn, RelayConn
    <2> QED BY <1>4, <2>1 DEF ClientStart, TypeInv
  <1>5. ASSUME NEW q \in Relays, NEW h, RelayConnect(q, h) PROVE r \in open'[s]
    <2>1. open' = [open EXCEPT ![RelayConn(q)] = {q, Target[q]}]
      BY <1>5 DEF RelayConnect
    <2>2. RelayConn(q) = s => q = r
      BY DEF RelayConn
    <2> QED BY <1>1, <2>1, <2>2 DEF TypeInv
  <1>6. ASSUME NEW q \in Relays, RelayRead(q) \/ RelayDrain(q) PROVE r \in open'[s]
    BY <1>6 DEF RelayRead, RelayDrain
  <1>7. ASSUME NEW q \in Relays, RelayLeaves(q) PROVE r \in open'[s]
    <2>1. q # r /\ RelayConn(q) # s
      BY <1>7 DEF RelayConn
    <2> QED BY <1>7, <2>1 DEF RelayLeaves, RelayEnds, TypeInv
  <1>8. User => r \in open'[s]
    BY DEF User, KeyDown, KeyUp, Move, Unplug, UserUnchanged, socketVars
  <1> QED BY <1>2, <1>3, <1>4, <1>5, <1>6, <1>7, <1>8, Steps

\* a pass takes the end of a relay's stream only for what it is
LEMMA EofIsTrue ==
  ASSUME TypeInv, NEW r \in Relays, Heard(r), Waiting(r),
         RelayConn(r) \in ReadySet(Target[r])
  PROVE  AfterIo(Target[r], RelayConn(r)).fallback.state # "CLOSED"
  <1> DEFINE d == Target[r]
             s == RelayConn(r)
  <1>1. d \in Daemons /\ s[1] = "relay" /\ s[2] = r /\ Ends(s) = {r, d} /\ r # d
    BY RelayEndsLemma
  <1>2. s \in DOMAIN streams[d] /\ Ready(d, s)
    BY DEF ReadySet
  <1>3. streams[d][s] \in Records(d, s, exiting) /\ streams[d][s].fallback.state # "CLOSED"
    BY <1>1, <1>2, StreamFacts DEF StreamsOf, Heard
  <1>4. OtherEnd(s, d) = r
    BY <1>1 DEF OtherEnd
  <1>5. ~AtEof(d, s)
    BY <1>1, <1>4 DEF AtEof, Heard, Waiting
  <1> SUFFICES AfterIo(d, s).fallback.state # "CLOSED"
    OBVIOUS
  <1> HIDE DEF s, d
  <1>6. CASE Writes(d, s)
    BY <1>1, <1>3, <1>6 DEF AfterIo, Records
  <1>7. CASE ~Writes(d, s) /\ ~Reads(d, s)
    BY <1>1, <1>2, <1>3, <1>5, <1>7 DEF Ready, Writes, Reads, IsSocket, Records
  <1>8. CASE ~Writes(d, s) /\ Reads(d, s)
    BY <1>1, <1>3, <1>8 DEF AfterIo, Records, Garbage, Streamed
  <1> QED BY <1>6, <1>7, <1>8

\* what is in a list is its head or in the tail
LEMMA HeadOrTail ==
  ASSUME NEW S, NEW q \in Seq(S), q # <<>> PROVE Elems(q) \subseteq {Head(q)} \cup Elems(Tail(q))
  <1> DEFINE t == Tail(q)
  <1>1. /\ Len(q) \in Nat /\ DOMAIN q = 1..Len(q) /\ DOMAIN t = 1..(Len(q) - 1)
        /\ \A i \in 1..(Len(q) - 1) : t[i] = q[i + 1]
        /\ Head(q) = q[1]
    OBVIOUS
  <1> HIDE DEF t
  <1>2. ASSUME NEW i \in DOMAIN q, i # 1 PROVE i - 1 \in DOMAIN t /\ t[i - 1] = q[i]
    BY <1>1, <1>2
  <1>3. ASSUME NEW x \in Elems(q), x # Head(q) PROVE x \in Elems(t)
    <2>1. PICK i \in DOMAIN q : x = q[i]
      BY DEF Elems
    <2>2. i - 1 \in DOMAIN t /\ t[i - 1] = x
      BY <1>1, <1>2, <1>3, <2>1
    <2> QED BY <2>2 DEF Elems
  <1> QED BY <1>3 DEF t

\* an accepted relay is in the list of those the exit waits for
LEMMA DispatchHeard ==
  ASSUME TypeInv, NEW r \in Relays, Heard(r), Dispatch(Target[r])
  PROVE  LET d == Target[r]
             s == RelayConn(r)
         IN  /\ Waiting(r) /\ proc[d] = "running" =>
                   s \in DOMAIN streams'[d] \cup Elems(backlog'[d])
             /\ s \in DOMAIN streams'[d] /\ streams'[d][s].fallback.state = "CLOSED" => ~Waiting(r)
  <1> DEFINE d == Target[r]
             s == RelayConn(r)
             b == backlog[d]
  <1>1. d \in Daemons /\ d # Tcp /\ b \in Seq(RelaysOf(d))
    BY RelayEndsLemma, DaemonsLemma DEF TypeInv
  <1>2. /\ DOMAIN streams'[d] = DOMAIN streams[d] \cup NewStreams(d)
        /\ \A x \in DOMAIN streams[d] :
              streams'[d][x] = IF x \in ReadySet(d) THEN AfterIo(d, x) ELSE streams[d][x]
        /\ \A x \in NewStreams(d) \ DOMAIN streams[d] : streams'[d][x] = FreshStream
    BY <1>1, PassStreams
  <1>3. backlog'[d] = IF Accepted(d) # <<>> THEN Tail(b) ELSE b
    BY <1>1 DEF Dispatch, TypeInv
  <1>4. Elems(b) \subseteq NewStreams(d) \cup Elems(backlog'[d])
    <2>1. CASE b = <<>>
      BY <2>1 DEF Elems
    <2>2. CASE b # <<>>
      <3>1. Accepted(d) = <<Head(b)>> /\ Accepted(d) # <<>>
        BY <2>2 DEF Accepted
      <3>2. Head(b) \in NewStreams(d) /\ backlog'[d] = Tail(b)
        BY <1>3, <3>1 DEF NewStreams
      <3> HIDE DEF b
      <3>3. Elems(b) \subseteq {Head(b)} \cup Elems(Tail(b))
        BY <1>1, <2>2, HeadOrTail
      <3> QED BY <3>2, <3>3
    <2> QED BY <2>1, <2>2
  <1>5. ASSUME s \in DOMAIN streams'[d], streams'[d][s].fallback.state = "CLOSED", Waiting(r)
        PROVE  FALSE
    <2>1. s \in DOMAIN streams[d]
      BY <1>2, <1>5 DEF FreshStream, Idle, Item
    <2>2. s \in ReadySet(d)
      BY <1>2, <1>5, <2>1 DEF Heard
    <2>3. AfterIo(d, s).fallback.state # "CLOSED"
      BY <1>5, <2>2, EofIsTrue
    <2> QED BY <1>2, <1>5, <2>1, <2>2, <2>3
  <1>6. ASSUME Waiting(r), proc[d] = "running" PROVE s \in DOMAIN streams'[d] \cup Elems(backlog'[d])
    BY <1>2, <1>4, <1>6 DEF Heard
  <1> QED BY <1>5, <1>6

\* each step keeps a waiting relay in the backlog or among the streams
LEMMA HeardStep ==
  ASSUME TypeInv, Next, NEW r \in Relays, Heard(r), Registered(Target[r]) PROVE Heard(r)'
  <1> DEFINE d == Target[r]
             s == RelayConn(r)
             There == s \in DOMAIN streams'[d] \cup Elems(backlog'[d])
             Shut  == s \in DOMAIN streams'[d] /\ streams'[d][s].fallback.state = "CLOSED"
  <1>0. /\ d \in Daemons /\ s \in NamesOf(d) /\ s[1] = "relay" /\ IsSocket(s) /\ s \in Connections
        /\ s \in RelaysOf(d) /\ d # Tcp
    BY RelayEndsLemma, DaemonsLemma DEF NamesOf, IsSocket
  <1>1. CASE \E h \in Commands[r] : RelayConnect(r, h)
    <2>1. PICK h \in Commands[r] : RelayConnect(r, h)
      BY <1>1
    <2>2. /\ proc[d] = "running" /\ UNCHANGED <<proc, streams>> /\ relay[r].pc = "off"
          /\ open'[s] = {r, d} /\ backlog'[d] = Append(backlog[d], s)
      BY <1>0, <2>1 DEF RelayConnect, Others, daemonVars, TypeInv
    <2>3. s \in Elems(Append(backlog[d], s))
      <3> DEFINE T == RelaysOf(d)
                 b == backlog[d]
      <3>1. b \in Seq(T) /\ s \in T
        BY <1>0 DEF TypeInv
      <3> HIDE DEF T, b, s
      <3>2. Elems(b \o <<s>>) = Elems(b) \cup {s} /\ Append(b, s) = b \o <<s>>
        BY <3>1, AppendedOnce
      <3> QED BY <3>2 DEF b, s
    <2>4. s \notin DOMAIN streams[d]
      BY <2>2 DEF Registered
    <2> QED BY <2>2, <2>3, <2>4 DEF Heard
  <1> SUFFICES ASSUME ~\E h \in Commands[r] : RelayConnect(r, h) PROVE Heard(r)'
    BY <1>1
  <1>2. relay'[r].pc # "off" => proc'[d] # "off"
    BY <1>0, RelayPlacesStep, SameOrLater DEF Heard, Waiting
  <1>3. Waiting(r)' => Waiting(r) /\ ~RelayLeaves(r)
    <2>1. Waiting(r)' => Waiting(r)
      BY RelayPlacesStep DEF Waiting
    <2>2. RelayLeaves(r) => ~Waiting(r)'
      <3> SUFFICES ASSUME RelayLeaves(r) PROVE ~Waiting(r)'
        OBVIOUS
      <3>1. PICK how \in {"closed", "failed"} : relay' = [relay EXCEPT ![r] = [relay[r] EXCEPT !.pc = how]]
        BY DEF RelayLeaves, RelayEnds, TypeInv
      <3>2. relay[r] \in RelayRecords /\ DOMAIN relay = Relays
        BY DEF TypeInv
      <3> QED BY <3>1, <3>2 DEF RelayRecords, Waiting
    <2> QED BY <2>1, <2>2
  <1>4. Waiting(r)' => r \in open'[s]
    BY <1>3, StillOpen DEF Heard
  <1>5. CASE proc'[d] # "running" /\ DOMAIN streams'[d] = {}
    BY <1>2, <1>4, <1>5 DEF Heard
  <1> SUFFICES ASSUME Waiting(r), ~Gone(d)
               PROVE  (proc'[d] = "running" => There) /\ ~Shut
    <2>1. Gone(d) => proc'[d] # "running" /\ DOMAIN streams'[d] = {}
      BY <1>0 DEF Gone, ProcessEnds, TypeInv
    <2> QED BY <1>2, <1>3, <1>4, <1>5, <2>1 DEF Heard
  <1>6. CASE UNCHANGED <<proc[d], streams[d]>> /\ Elems(backlog[d]) \subseteq Elems(backlog'[d])
    BY <1>6 DEF Heard
  <1>7. CASE Local(d)' = Local(d)
    BY <1>6, <1>7 DEF Local
  <1>8. CASE Dispatch(d)
    BY <1>8, DispatchHeard DEF Dispatch
  <1>9. ASSUME NEW x, ResolveClosed(d, x) PROVE (proc'[d] = "running" => There) /\ ~Shut
    <2>1. /\ UNCHANGED <<proc, backlog>> /\ NextItem(streams[d][x]).state = "CLOSED"
          /\ x \in DOMAIN streams[d] /\ streams'[d] = Without(streams[d], {x})
      BY <1>0, <1>9 DEF ResolveClosed, TypeInv
    <2>2. x # s
      <3> SUFFICES ASSUME x = s PROVE FALSE
        OBVIOUS
      <3> DEFINE q == streams[d][s].queue
      <3>1. q \in Seq(QueueItems(d, s, exiting))
        BY <1>0, <2>1, StreamFacts
      <3>2. q # <<>> => q[1] \in QueueItems(d, s, exiting)
        BY <3>1, HeadsLemma
      <3>3. q = <<>>
        BY <2>1, <3>2 DEF NextItem, QueueItems
      <3> QED BY <2>1, <3>3 DEF NextItem, Heard
    <2> QED BY <2>1, <2>2 DEF Without, Heard
  <1>10. ASSUME NEW x, Resolved(d, x) PROVE (proc'[d] = "running" => There) /\ ~Shut
    <2>1. UNCHANGED <<proc, backlog>> /\ StreamsResolved(d, x)
      BY <1>10 DEF Resolved
    <2>2. s \in DOMAIN streams[d] <=> s \in DOMAIN streams'[d]
      BY <1>0, <2>1 DEF StreamsResolved
    <2>3. s \in DOMAIN streams'[d] =>
             streams'[d][s].fallback.state \in {streams[d][s].fallback.state, "HEADER"}
      BY <2>1, <2>2 DEF StreamsResolved
    <2> QED BY <2>1, <2>2, <2>3 DEF Heard
  <1>11. ASSUME d \in Clients, ClientStart(d) PROVE FALSE
    BY <1>11 DEF ClientStart, Heard, Waiting
  <1>12. ASSUME NEW q \in Relays, NEW h, RelayConnect(q, h), Target[q] = d
         PROVE  (proc'[d] = "running" => There) /\ ~Shut
    <2>1. UNCHANGED <<proc, streams>> /\ backlog'[d] = Append(backlog[d], RelayConn(q))
      BY <1>0, <1>12 DEF RelayConnect, Others, daemonVars, TypeInv
    <2> DEFINE T == RelaysOf(d)
               b == backlog[d]
               x == RelayConn(q)
    <2>2. b \in Seq(T) /\ x \in T
      BY <1>0, <1>12, RelayEndsLemma DEF TypeInv
    <2> HIDE DEF T, b, x
    <2>3. Elems(b \o <<x>>) = Elems(b) \cup {x} /\ Append(b, x) = b \o <<x>>
      BY <2>2, AppendedOnce
    <2> QED BY <1>6, <2>1, <2>3 DEF b, x
  <1> QED BY <1>0, <1>7, <1>8, <1>9, <1>10, <1>11, <1>12, WhoseStep

\* a relay that waits for a daemon that runs is in its backlog or among its streams
LEMMA HeardHolds == Spec => [](\A r \in Relays : Heard(r))
  <1> DEFINE I == \A r \in Relays : Heard(r)
             R == \A d \in Daemons : Registered(d)
  <1>1. Init => I
    <2> SUFFICES ASSUME Init, NEW r \in Relays PROVE Heard(r)
      OBVIOUS
    <2>1. Target[r] \in Daemons
      BY RelayEndsLemma
    <2>2. relay[r].pc = "off" /\ DOMAIN streams[Target[r]] = {}
      BY <2>1 DEF Init
    <2> QED BY <2>2 DEF Heard, Waiting
  <1>2. TypeInv /\ R /\ [Next]_vars /\ I => I'
    <2>1. TypeInv /\ R /\ Next /\ I => I'
      BY HeardStep, RelayEndsLemma
    <2>2. I /\ UNCHANGED vars => I'
      BY DEF Heard, Waiting, vars, daemonVars, socketVars
    <2> QED BY <2>1, <2>2
  <1>3. Spec => []R
    BY RegisteredHolds
  <1> HIDE DEF I, R
  <1>4. Spec => []I
    BY <1>1, <1>2, <1>3, Typed, PTL DEF Spec
  <1> QED BY <1>4 DEF I

\* A daemon that exits leaves no relay it has accepted without an answer: those that still
\* wait are in the backlog.
THEOREM ExitIsPolite == Spec => ExitLeavesNobodyWaiting
  <1> DEFINE A == \A d \in Daemons : proc[d] = "running" /\ proc'[d] = "exited" =>
                     \A r \in Relays : Target[r] = d /\ Waiting(r) =>
                        \E i \in DOMAIN backlog[d] : backlog[d][i] = RelayConn(r)
             I == \A r \in Relays : Heard(r)
             R == \A d \in Daemons : Registered(d)
  <1>1. TypeInv /\ R /\ I /\ [Next]_vars => [A]_vars
    <2> SUFFICES ASSUME TypeInv, R, I, Next, NEW d \in Daemons, proc[d] = "running",
                        proc'[d] = "exited", NEW r \in Relays, Target[r] = d, Waiting(r)
                 PROVE  \E i \in DOMAIN backlog[d] : backlog[d][i] = RelayConn(r)
      OBVIOUS
    <2>1. ASSUME Gone(d) PROVE RelayConn(r) \notin DOMAIN streams[d]
      <3>1. CanExit(d)
        BY <2>1 DEF Gone, ProcessEnds, TypeInv
      <3> QED BY <3>1 DEF CanExit, Registered, Elems, RelayConn
    <2>2. CASE Gone(d)
      BY <2>1, <2>2 DEF Heard, Elems
    <2>3. ASSUME NEW s, Dispatch(d) \/ ResolveClosed(d, s) \/ Resolved(d, s) PROVE FALSE
      BY <2>3 DEF Dispatch, ResolveClosed, Resolved
    <2>4. ASSUME NEW q \in Relays, NEW h, RelayConnect(q, h) PROVE FALSE
      BY <2>4 DEF RelayConnect, Others, daemonVars
    <2>5. ASSUME d \in Clients, ClientStart(d) PROVE FALSE
      BY <2>5 DEF ClientStart
    <2>6. CASE Local(d)' = Local(d)
      BY <2>6 DEF Local
    <2> QED BY <2>2, <2>3, <2>4, <2>5, <2>6, WhoseStep
  <1>2. Spec => []R /\ []I
    BY RegisteredHolds, HeardHolds
  <1>3. ExitLeavesNobodyWaiting <=> [][A]_vars
    BY DEF ExitLeavesNobodyWaiting
  <1> HIDE DEF A, I, R
  <1>4. Spec => [][A]_vars
    BY <1>1, <1>2, Typed, PTL DEF Spec
  <1> QED BY <1>3, <1>4
=============================================================================
