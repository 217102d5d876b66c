------------------------------ MODULE RcnDaemon ------------------------------
(***************************************************************************)
(* rcn_daemon.c: the event loop of a daemon, and the whole system: a       *)
(* server, its clients, the relays and the user.                           *)
(*                                                                         *)
(* A pass of d_loop is one Dispatch, which streams every file that is      *)
(* ready, and then one Resolve for each of them, in any order: epoll       *)
(* reports them in the order in which they became ready.                   *)
(***************************************************************************)
EXTENDS RcnRelay

-----------------------------------------------------------------------------
(* dispatch_epoll *)

\* read() would report the end of the connection
AtEof(d, s) ==
    \/ OtherEnd(s, d) \notin open[s]
    \/ s[1] = "relay" /\ relay[s[2]].pc = "draining"

Ready(d, s) ==
    CASE s[1] = "dev"  -> s[2] \in polled[d] /\ (evq[s[2]] # <<>> \/ s[2] \in unplugged)
      [] s[1] = "udev" -> streams[d][s].interest = "EPOLLOUT"
      [] OTHER -> \/ streams[d][s].interest = "EPOLLOUT"
                  \/ pipe[s][d] # <<>> \/ AtEof(d, s)

ReadySet(d) == {s \in DOMAIN streams[d] : Ready(d, s)}

Writes(d, s) == IsSocket(s) /\ streams[d][s].interest = "EPOLLOUT"
Reads(d, s)  == IsSocket(s) /\ streams[d][s].interest = "EPOLLIN" /\ pipe[s][d] # <<>>

\* what arrived continues what the fallback is reading
InPlace(item, u) ==
    /\ u.part = "header" <=> item.state = "HEADER"
    /\ u.part = "body" => u.msg = item.msg

Misreads(d, s) == Reads(d, s) /\ ~InPlace(streams[d][s].fallback, Head(pipe[s][d]))

\* a body taken for a header: a size that calloc may refuse, else the stream
\* swallows all that follows as a body
Garbage == [msg |-> DevMsg("GARBAGE", None, "garbage"), state |-> "BODY"]

\* EPIPE (SIGPIPE is not ignored), ECONNRESET, or calloc of a misread size
MustFail(d, s) ==
    \/ Writes(d, s) /\ OtherEnd(s, d) \notin open[s] /\ (s[1] = "relay" \/ s \in reset)
    \/ IsSocket(s) /\ ~Writes(d, s) /\ ~Reads(d, s) /\ s \in reset
MayFail(d, s) ==
    \/ MustFail(d, s)
    \/ Writes(d, s) /\ OtherEnd(s, d) \notin open[s]
    \/ Misreads(d, s) /\ streams[d][s].fallback # Garbage

\* the stream after one read or write
AfterIo(d, s) ==
    LET stream == streams[d][s]
    IN  IF s[1] = "dev"
        THEN IF s[2] \in unplugged THEN [stream EXCEPT !.fallback.state = "CLOSED"]   \* ENODEV
             ELSE [stream EXCEPT !.fallback = [msg |-> DevMsg("PEER_EVENT", s[2], Head(evq[s[2]])),
                                               state |-> "COMPLETE"]]
        ELSE IF s[1] = "udev"
        THEN IF stream.queue = <<>>
             THEN [stream EXCEPT !.fallback.state = "COMPLETE"]   \* the last event once more
             ELSE [stream EXCEPT !.queue[1].state = "COMPLETE"]
        ELSE IF Writes(d, s) THEN [stream EXCEPT !.queue[1] = Streamed(@)]
        ELSE IF ~Reads(d, s) THEN [stream EXCEPT !.fallback.state = "CLOSED"]
        ELSE IF Misreads(d, s) THEN [stream EXCEPT !.fallback = Garbage]
        ELSE [stream EXCEPT !.fallback = Streamed([msg |-> Head(pipe[s][d]).msg,
                                                   state |-> stream.fallback.state])]

PipeAfter(d, S) ==
    [s \in Connections |->
        IF s \notin S THEN pipe[s]
        ELSE IF Reads(d, s) THEN [pipe[s] EXCEPT ![d] = Tail(@)]
        ELSE IF Writes(d, s) /\ OtherEnd(s, d) \in open[s]
        THEN [pipe[s] EXCEPT ![OtherEnd(s, d)] = Append(@, Unit(streams[d][s].queue[1]))]
        ELSE pipe[s]]

\* the event that this pass writes to the uinput copy of k is one of E; with nothing
\* queued it is the one before, once more
Replays(d, k, E) ==
    UdevStream(k) \in ReadySet(d) /\ NextItem(streams[d][UdevStream(k)]).msg.val \in E

\* accept_usock: the first waiting relay
Accepted(d) == IF backlog[d] = <<>> THEN <<>> ELSE <<Head(backlog[d])>>

\* accept_isock: the waiting client, of which listen(0) admits one; the TCP
\* socket closes
AcceptsPeer(d) == d = Server /\ listening /\ backlog[Tcp] # <<>>

\* fault: the TCP socket stays open
StaysOpen(d) == listening

\* e_epoll_close_remove_simple of the TCP socket
ListeningAfter(d) == listening /\ ~AcceptsPeer(d)

NewStreams(d) ==
    {Accepted(d)[i] : i \in DOMAIN Accepted(d)}
        \cup (IF AcceptsPeer(d) THEN {Head(backlog[Tcp])} ELSE {})

InLoop(d)  == proc[d] = "running" /\ batch[d] = {}
\* fault: the relays that are still connected are not waited for
ExitAtOnce(d) == exiting[d]

CanExit(d) == exiting[d] /\ relayStreams[d] = <<>>

Dispatch(d) ==
    /\ InLoop(d) /\ ~CanExit(d) /\ Quiet
    /\ ReadySet(d) # {} \/ NewStreams(d) # {}
    /\ \A s \in ReadySet(d) : ~MustFail(d, s)
    /\ batch' = [batch EXCEPT ![d] = ReadySet(d)]
    /\ streams' = [streams EXCEPT ![d] =
          Opened([s \in DOMAIN @ |-> IF s \in ReadySet(d) THEN AfterIo(d, s) ELSE @[s]],
                 NewStreams(d))]
    /\ pipe' = PipeAfter(d, ReadySet(d))
    /\ reset' = reset \cup {s \in ReadySet(d) : Writes(d, s) /\ OtherEnd(s, d) \notin open[s]}
    /\ relayStreams' = [relayStreams EXCEPT ![d] = @ \o Accepted(d)]
    /\ IF AcceptsPeer(d)
       THEN /\ peerStream' = [peerStream EXCEPT ![d] = Head(backlog[Tcp])]
            /\ peerState' = [peerState EXCEPT ![d] = "CONNECTED"]
       ELSE UNCHANGED <<peerStream, peerState>>
    /\ listening' = ListeningAfter(d)
    /\ backlog' = [q \in DOMAIN backlog |->
          IF q = d /\ Accepted(d) # <<>> THEN Tail(backlog[q])
          ELSE IF q = Tcp /\ AcceptsPeer(d) THEN <<>> ELSE backlog[q]]
    /\ evq' = [k \in Devices |-> IF DevStream(k) \in ReadySet(d) /\ evq[k] # <<>>
                                 THEN Tail(evq[k]) ELSE evq[k]]
    /\ virt' = (virt \cup {k \in Devices : Replays(d, k, {"down"})})
                 \ {k \in Devices : Replays(d, k, {"up", "release"})}
    /\ emitted' = [k \in Devices |->
                     IF Replays(d, k, Events) /\ streams[d][UdevStream(k)].queue # <<>>
                     THEN Append(emitted[k], streams[d][UdevStream(k)].queue[1].msg.val)
                     ELSE emitted[k]]
    /\ UNCHANGED <<proc, exiting, state, devices, polled, open, relay, down, inputs, unplugged,
                   captured>>

\* stream_stream fails for one entry, after it streamed some of the others
DispatchFails(d) ==
    /\ InLoop(d) /\ ~CanExit(d) /\ Quiet
    /\ \E s \in ReadySet(d) :
          /\ MayFail(d, s)
          /\ \E S \in SUBSET {x \in ReadySet(d) \ {s} : IsSocket(x) /\ ~MustFail(d, x)} :
                ProcessEnds(d, "failed", PipeAfter(d, S))

-----------------------------------------------------------------------------
(* resolve_fd_streams: entries that no handler sees *)

\* the stream of the entry was freed by an earlier entry.  A uinput stream is
\* always ready for writing, so it may well be behind the STOP that closes it:
\* resetting it fails on its file -1, unless its memory was used again.
ResolveFreed(d, s) ==
    /\ s \in batch[d] /\ s \notin DOMAIN streams[d]
    /\ \/ Fails(d)
       \/ /\ batch' = [batch EXCEPT ![d] = @ \ {s}]
          /\ UNCHANGED <<proc, exiting, state, peerState, peerStream, devices, polled,
                         relayStreams, streams, socketVars, relay, inputVars, logVars>>

ResolveIncomplete(d, s) ==
    /\ s \in batch[d] /\ s \in DOMAIN streams[d]
    /\ NextItem(streams[d][s]).state \in {"HEADER", "BODY"}
    /\ batch' = [batch EXCEPT ![d] = @ \ {s}]
    /\ UNCHANGED <<proc, exiting, state, peerState, peerStream, devices, polled,
                   relayStreams, streams, socketVars, relay, inputVars, logVars>>

\* fault: the closed stream stays in the list
StaysRegistered(d, s) == relayStreams

\* u_array_find_index and u_array_remove
Removed(q, s) ==
    LET i == CHOOSE j \in DOMAIN q : q[j] = s /\ \A n \in 1..(j - 1) : q[n] # s
    IN  [j \in 1..(Len(q) - 1) |-> IF j < i THEN q[j] ELSE q[j + 1]]

\* r_close_relay
Unregistered(d, s) ==
    IF s[1] = "relay" THEN [relayStreams EXCEPT ![d] = Removed(@, s)] ELSE relayStreams

\* fault: the peer is still taken for connected
StaysConnected(d, s) == peerState

\* p_close_peer
PeerClosed(d, s) ==
    [peerState EXCEPT ![d] = IF s[1] = "peer" THEN "DISCONNECTED" ELSE @]

\* e_epoll_close_remove; the pointers to a peer stream and to a device's stream
\* are left behind: dev_close_dev does not find the device it looks for
ResolveClosed(d, s) ==
    /\ s \in batch[d] /\ s \in DOMAIN streams[d]
    /\ NextItem(streams[d][s]).state = "CLOSED"
    /\ IsSocket(s) \/ ~FreesEvent(streams[d][s])
    /\ batch' = [batch EXCEPT ![d] = @ \ {s}]
    /\ streams' = [streams EXCEPT ![d] = Without(@, {s})]
    /\ relayStreams' = Unregistered(d, s)
    /\ peerState' = PeerClosed(d, s)
    /\ open' = [x \in Connections |-> IF x = s THEN open[x] \ {d} ELSE open[x]]
    /\ polled' = [polled EXCEPT ![d] = {k \in @ : DevStream(k) # s}]
    /\ UNCHANGED <<proc, exiting, state, peerStream, devices, pipe, reset, backlog,
                   listening, relay, inputVars, logVars>>

\* a device that is unplugged between an event and its SYN_REPORT: stream_close frees
\* the event
CloseCrashes(d, s) ==
    /\ s \in batch[d] /\ s \in DOMAIN streams[d]
    /\ NextItem(streams[d][s]).state = "CLOSED"
    /\ ~IsSocket(s) /\ FreesEvent(streams[d][s])
    /\ Fails(d)

\* a queued item is out, or the last event of a uinput stream once more: it is
\* collected, and e_epoll_reset_stream clears the fallback of a socket
ResolveWritten(d, s) ==
    /\ s \in batch[d] /\ s \in DOMAIN streams[d]
    /\ streams[d][s].queue # <<>> \/ s[1] = "udev"
    /\ NextItem(streams[d][s]).state = "COMPLETE"
    /\ Finish(d, s, [streams[d] EXCEPT ![s] = Popped(@)])
    /\ UNCHANGED <<proc, exiting, state, peerState, peerStream, devices, polled,
                   relayStreams, socketVars, relay, inputVars, logVars>>

Resolve(d) ==
    \E s \in batch[d] :
        \/ ResolveFreed(d, s) \/ ResolveIncomplete(d, s) \/ ResolveClosed(d, s)
        \/ CloseCrashes(d, s) \/ ResolveWritten(d, s)
        \/ PeerHandler(d, s) \/ RelayHandler(d, s) \/ DevHandler(d, s)

-----------------------------------------------------------------------------
(* A daemon's beginning and end *)

\* d_init of a client: connect, open and announce the devices, grab them
ClientStart(c) ==
    /\ proc[c] = "off" /\ Quiet
    /\ listening /\ backlog[Tcp] = <<>>
    /\ LET arg  == DeviceArg[c]
           s    == PeerConn(c)
           msgs == [i \in DOMAIN arg |-> DevMsg("PEER_DEV_CRT", arg[i], "info")]
                     \o [i \in DOMAIN arg |-> GrabMsg(arg[i], TRUE)]
           ids  == {arg[i] : i \in DOMAIN arg}
       IN  /\ Drained(ids) /\ ids \cap unplugged = {}
           /\ streams' = [streams EXCEPT ![c] =
                 PushAll([x \in {s} \cup {DevStream(k) : k \in ids} |-> FreshStream], s, msgs)]
           /\ devices' = [devices EXCEPT ![c] =
                             [i \in DOMAIN arg |-> [id |-> arg[i], grabbed |-> TRUE]]]
           /\ polled' = [polled EXCEPT ![c] = ids]
           /\ peerStream' = [peerStream EXCEPT ![c] = s]
           /\ open' = [open EXCEPT ![s] = {c, Server}]
           /\ backlog' = [backlog EXCEPT ![Tcp] = Append(@, s)]
    /\ proc' = [proc EXCEPT ![c] = "running"]
    /\ peerState' = [peerState EXCEPT ![c] = "CONNECTED"]
    /\ UNCHANGED <<exiting, state, relayStreams, batch, pipe, reset, listening, relay,
                   inputVars, logVars>>

\* cleanup gets to its end: it does not free an event, nor close a device whose
\* stream is freed
CleanupWorks(d) ==
    /\ ~HoldsEvents(d)
    /\ d # Server => \A k \in DeviceIds(d) : DevStream(k) \in DOMAIN streams[d]

\* can_exit, then cleanup
Exit(d) ==
    /\ InLoop(d) /\ CanExit(d)
    /\ ProcessEnds(d, IF CleanupWorks(d) THEN "exited" ELSE "failed", pipe)

\* SIGKILL, or any other signal: the daemon handles none
Kill(d) == d \in Killable /\ proc[d] = "running" /\ Quiet /\ Fails(d)

-----------------------------------------------------------------------------
Init ==
    /\ proc = [d \in Daemons |-> IF d = Server THEN "running" ELSE "off"]
    /\ exiting = [d \in Daemons |-> FALSE]
    /\ state = [d \in Daemons |-> "RUNNING"]
    /\ peerState = [d \in Daemons |-> "DISCONNECTED"]
    /\ peerStream = [d \in Daemons |-> NoStream]
    /\ devices = [d \in Daemons |-> <<>>]
    /\ polled = [d \in Daemons |-> {}]
    /\ relayStreams = [d \in Daemons |-> <<>>]
    /\ streams = [d \in Daemons |-> <<>>]
    /\ batch = [d \in Daemons |-> {}]
    /\ pipe = [s \in Connections |-> [e \in Ends(s) |-> <<>>]]
    /\ open = [s \in Connections |-> {}]
    /\ reset = {}
    /\ backlog = [q \in Daemons \cup {Tcp} |-> <<>>]
    /\ listening = TRUE
    /\ relay = [r \in Relays |-> [pc |-> "off", sent |-> None, answer |-> None]]
    /\ down = {} /\ evq = [k \in Devices |-> <<>>] /\ virt = {} /\ inputs = 0
    /\ unplugged = {}
    /\ captured = [k \in Devices |-> <<>>] /\ emitted = captured

User == \E k \in Devices : KeyDown(k) \/ KeyUp(k) \/ Move(k) \/ Unplug(k)

Next ==
    \/ \E d \in Daemons : Dispatch(d) \/ DispatchFails(d) \/ Resolve(d) \/ Exit(d)
    \/ \E d \in Killable : Kill(d)
    \/ \E c \in Clients : ClientStart(c)
    \/ \E r \in Relays : RelayProcess(r) \/ RelayGivesUp(r)
                           \/ \E h \in Commands[r] : RelayConnect(r, h)
    \/ User

Spec == Init /\ [][Next]_vars

-----------------------------------------------------------------------------
(* What scheduling justifies: no process stops in the middle of its code,  *)
(* and no key is held for ever.  A Dispatch waits for Quiet, which is the  *)
(* model's reduction and nothing the daemon would notice: weak fairness of *)
(* the daemon is strong fairness here.                                     *)

Fairness ==
    /\ \A d \in Daemons : /\ SF_vars(Dispatch(d) \/ DispatchFails(d))
                          /\ WF_vars(Resolve(d))
                          /\ WF_vars(Exit(d))
    /\ \A r \in Relays : WF_vars(RelayProcess(r))
    /\ \A k \in Devices : WF_vars(KeyUp(k))

FairSpec == Spec /\ Fairness

-----------------------------------------------------------------------------
(* Properties *)

ItemStates == {"HEADER", "BODY", "COMPLETE", "CLOSED"}
StreamNames ==
    Connections \cup {DevStream(k) : k \in Devices} \cup {UdevStream(k) : k \in Devices}

TypeOK ==
    /\ proc \in [Daemons -> {"off", "running", "exited", "failed"}]
    /\ exiting \in [Daemons -> BOOLEAN]
    /\ state \in [Daemons -> {"RUNNING", "PAUSED"}]
    /\ peerState \in [Daemons -> {"CONNECTED", "DISCONNECTED"}]
    /\ \A d \in Daemons :
          /\ peerStream[d] \in {PeerConn(c) : c \in Clients} \cup {NoStream}
          /\ devices[d] \in Seq([id : Devices, grabbed : BOOLEAN])
          /\ polled[d] \subseteq Devices
          /\ batch[d] \subseteq StreamNames
          /\ DOMAIN streams[d] \subseteq StreamNames
          /\ \A s \in DOMAIN streams[d] :
                /\ streams[d][s].interest \in {"EPOLLIN", "EPOLLOUT"}
                /\ streams[d][s].fallback.state \in ItemStates
                /\ \A i \in DOMAIN streams[d][s].queue :
                      streams[d][s].queue[i].state \in ItemStates
    /\ open \in [Connections -> SUBSET (Daemons \cup Relays)]
    /\ reset \subseteq Connections /\ listening \in BOOLEAN
    /\ down \subseteq Devices /\ virt \subseteq Devices /\ inputs \in 0..MaxInput
    /\ unplugged \subseteq Unpluggable

\* While its peer is connected, a client that runs has every device grabbed and,
\* unless it was unplugged, in the epoll set, and a client that is paused none:
\* whichever side paused or resumed, and however their requests overlap.
GrabMatchesState ==
    \A c \in Clients : proc[c] = "running" /\ peerState[c] = "CONNECTED" =>
        LET on == state[c] = "RUNNING"
        IN  /\ polled[c] = {k \in DeviceIds(c) : on /\ DevStream(k) \in DOMAIN streams[c]}
            /\ \A i \in DOMAIN devices[c] : devices[c][i].grabbed = on

\* what client c has told the server and the server has not read yet, oldest first; a
\* message that is being written may be there once more
InFlight(c) ==
    LET sent == pipe[PeerConn(c)][Server]
        rest == IF PeerConn(c) \in DOMAIN streams[c] THEN streams[c][PeerConn(c)].queue ELSE <<>>
    IN  [i \in DOMAIN sent |-> sent[i].msg] \o [i \in DOMAIN rest |-> rest[i].msg]

\* Once a client has told the server that a device is released, it sends no
\* event of it before it has told that the device is grabbed again.
EventsOnlyWhileGrabbed ==
    \A c \in Clients : \A i, j \in DOMAIN InFlight(c) :
        LET m == InFlight(c)
        IN  i < j /\ m[j].h = "PEER_EVENT" /\ m[i] = GrabMsg(m[j].dev, FALSE)
              => \E n \in i..j : m[n] = GrabMsg(m[j].dev, TRUE)

\* relay_ctx->relay_streams, which broadcasts and can_exit go by, lists exactly
\* the relay streams that are open, each once.
RelayRegistry ==
    \A d \in Daemons :
        /\ RelaySet(d) = {s \in DOMAIN streams[d] : s[1] = "relay"}
        /\ \A i, j \in DOMAIN relayStreams[d] :
              relayStreams[d][i] = relayStreams[d][j] => i = j

\* Who is told that the daemon stops is told the truth: it is about to exit.
StopAnswerTrue ==
    \A r \in Relays : relay[r].answer = "RELAY_STOP" => exiting[Target[r]]

\* A daemon that exits leaves no relay it has accepted without an answer.
ExitLeavesNobodyWaiting ==
    [][\A d \in Daemons : proc[d] = "running" /\ proc'[d] = "exited" =>
          \A r \in Relays : Target[r] = d /\ Waiting(r) =>
              \E i \in DOMAIN backlog[d] : backlog[d][i] = RelayConn(r)]_vars

\* client c and the server have handled all they have sent each other
Settled(c) ==
    LET s == PeerConn(c)
    IN  /\ proc[c] = "running" /\ proc[Server] = "running" /\ ~exiting[c] /\ ~exiting[Server]
        /\ s \in DOMAIN streams[c] /\ s \in DOMAIN streams[Server]
        /\ \A d \in {c, Server} : /\ batch[d] = {} /\ pipe[s][d] = <<>>
                                  /\ streams[d][s] = FreshStream

\* When all is handled and the server has not lost a message (MaxInput = 0), both
\* sides are in the same state and know the same devices, grabbed or not.
PeersAgree ==
    \A c \in Clients : Settled(c) => /\ devices[Server] = devices[c]
                                     /\ state[Server] = state[c]

\* A pause at the server un-grabs the devices of its client: when all is handled and the
\* server is paused, the client has none grabbed.
PausedMeansReleased ==
    \A c \in Clients : Settled(c) /\ state[Server] = "PAUSED" =>
        \A i \in DOMAIN devices[c] : ~devices[c][i].grabbed

\* A server that is paused holds no key once the queued releases are written.
PausedKeysUp ==
    state[Server] = "PAUSED" /\ (\A s \in UdevStreams(Server) : streams[Server][s].queue = <<>>)
        => virt = {}

\* The server replays the events of a device in the order in which they were
\* captured, and none before all that came before it: what its streams take from
\* their queues and write is a prefix of what was captured.
ReplayInOrder ==
    \A k \in Devices : /\ Len(emitted[k]) <= Len(captured[k])
                       /\ emitted[k] = SubSeq(captured[k], 1, Len(emitted[k]))

\* What an idle uinput stream, which stays armed, writes again in every pass is never
\* a movement, which would be made twice: it is a SYN_REPORT, or a key event that is
\* the last of all that were replayed on the device.
RepeatsHarmless ==
    \A k \in Devices : UdevStream(k) \in DOMAIN streams[Server] =>
        LET stream == streams[Server][UdevStream(k)]
            again  == stream.fallback.msg.val
        IN  stream.queue = <<>> /\ stream.interest = "EPOLLOUT" =>
               \/ again \in Reports
               \/ again \in KeyEvents /\ emitted[k] # <<>> /\ again = emitted[k][Len(emitted[k])]

\* Whenever a daemon believes to be connected, which is all that guards a pause
\* and its end, the stream it would write to is there: peer_stream dangles only
\* while peer_state is DISCONNECTED.
PeerPointerValid ==
    \A d \in Daemons : proc[d] = "running" /\ peerState[d] = "CONNECTED" => PeerThere(d)

\* While the server's TCP socket is open, nothing of an earlier client is left:
\* no peer, no virtual device, no key that is down.  (A client that two relays stop
\* sends PEER_STOP twice; the second one takes the server from the next client.)
ListeningIsFresh ==
    listening => /\ peerState[Server] = "DISCONNECTED"
                 /\ devices[Server] = <<>> /\ virt = {}
                 /\ \A s \in DOMAIN streams[Server] : s[1] # "udev"

\* the client whose connection the server took last and has not seen stop
Guest ==
    LET C == {c \in Clients : peerStream[Server] = PeerConn(c)}
    IN  IF C = {} THEN None ELSE CHOOSE c \in C : TRUE

Session ==
    INSTANCE RcnSession WITH
        Nobody    <- None,
        DevicesOf <- [c \in Clients |-> {DeviceArg[c][i] : i \in DOMAIN DeviceArg[c]}],
        guest     <- IF listening \/ proc[Server] # "running" THEN None ELSE Guest,
        copies    <- DeviceIds(Server),
        ended     <- proc[Server] # "running"

\* The server implements RcnSession: one client at a time, whose devices are copied
\* one by one and go all at once, before another is let in.
ImplementsSession == Session!Spec

\* A client that ends because it was stopped has told the server so: the server
\* cannot know it otherwise, an end of file alone does not make it listen again.
StopIsSent ==
    [][\A c \in Clients : proc[c] = "running" /\ proc'[c] = "exited" /\ PeerThere(c) =>
          \A i \in DOMAIN streams[c][peerStream[c]].queue :
              streams[c][peerStream[c]].queue[i].msg.h # "PEER_STOP"]_vars

\* A client that is stopped leaves a server that runs and listens for another.
ClientStopLeavesServer ==
    \A c \in Clients : proc[c] = "exited" /\ ~exiting[Server] => proc[Server] # "failed"

\* A daemon that is asked to pause by its peer pauses and goes on, whether or
\* not a relay has paused it in the meantime.
PauseSurvived ==
    [][\A d \in Daemons : \A s \in batch[d] : PeerPause(d, s) => proc'[d] # "failed"]_vars

\* No relay is left hanging, but one that asked to resume (or to switch), whose
\* handler answers nobody, and one that asked for nothing.
RelayAnswered ==
    \A r \in Relays :
        Waiting(r) /\ relay[r].sent \notin {"RELAY_RESUME", "RELAY_SWITCH", "RELAY_IDLE"}
            ~> ~Waiting(r)

\* A daemon that was told to stop comes to its end.
StopEnds == \A d \in Daemons : exiting[d] ~> proc[d] \in {"exited", "failed"}

\* A pause on the client reaches the server.
PauseReachesServer ==
    \A c \in Clients :
        state[c] = "PAUSED" ~>
            (state[Server] = "PAUSED" \/ exiting[c] \/ proc[c] # "running" \/ proc[Server] # "running")
=============================================================================
