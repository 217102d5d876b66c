------------------------------- MODULE RcnCore -------------------------------
(***************************************************************************)
(* What every part of an rcn daemon works with: its streams (rcn_stream.c, *)
(* rcn_epoll.c), the sockets between the processes, and the end of a       *)
(* process.                                                                *)
(*                                                                         *)
(* A client daemon grabs physical input devices and sends their events to  *)
(* the server daemon over one TCP connection, the peer stream; the server  *)
(* replays them on uinput devices.  Short-lived relay processes (`rcn      *)
(* pause`, `rcn stop`, ...) talk to a daemon over its unix socket.         *)
(*                                                                         *)
(* A stream is named by the socket or file it is about: <<"peer", c>> is   *)
(* the connection of client c, the same name at both of its ends,          *)
(* <<"relay", r>> that of relay r, <<"dev", k>> the evdev file of device k *)
(* and <<"udev", k>> its uinput copy.  A name that is not in DOMAIN        *)
(* streams[d] is a stream that d has closed and freed.                     *)
(*                                                                         *)
(* RcnStream shows what a stream does byte by byte.  Here a header and a   *)
(* body go through a socket in one piece each, and `next` and the event    *)
(* mask of a socket are what ArmedForQueue says they are: queue[1] and     *)
(* EPOLLOUT while something is queued, the fallback and EPOLLIN otherwise. *)
(***************************************************************************)
EXTENDS Naturals, Sequences, FiniteSets

CONSTANTS
    Clients,     \* client daemons
    Relays,      \* relay processes, one command each
    DeviceArg,   \* the devices each client is told to capture, a sequence
    Target,      \* the daemon each relay talks to
    Commands,    \* the relay headers each relay may send
    MaxInput,    \* bound on key presses and movements
    Interrupts,  \* relays may be killed, or give up waiting for the daemon
    Killable,    \* daemons that may be killed
    Unpluggable  \* devices that may be unplugged

Server  == "server"
Tcp     == "tcp"     \* names the backlog of the server's TCP socket
Daemons == Clients \cup {Server}
Devices == UNION {{DeviceArg[c][i] : i \in DOMAIN DeviceArg[c]} : c \in Clients}
OwnerOf(k) == CHOOSE c \in Clients : \E i \in DOMAIN DeviceArg[c] : DeviceArg[c][i] = k

RelayHeaders == {"RELAY_IDLE", "RELAY_START", "RELAY_PAUSE", "RELAY_RESUME",
                 "RELAY_STOP", "RELAY_SWITCH", "RELAY_LIST"}

ASSUME NamesAssumption ==
    /\ {Server, Tcp} \cap Clients = {} /\ {Server, Tcp} \cap Relays = {}
    /\ Clients \cap Relays = {}
ASSUME DevicesAssumption ==
    DOMAIN DeviceArg = Clients /\ \A c \in Clients : DeviceArg[c] \in Seq(Devices)
ASSUME TargetAssumption   == Target \in [Relays -> Daemons]
ASSUME CommandsAssumption == Commands \in [Relays -> SUBSET RelayHeaders]
ASSUME BoundsAssumption   == MaxInput \in Nat /\ Interrupts \in BOOLEAN
ASSUME FaultsAssumption   == Killable \subseteq Daemons /\ Unpluggable \subseteq Devices

VARIABLES
    \* memory of the daemons
    proc,          \* "off", "running", "exited" or "failed"
    exiting,       \* d_ctx->exit
    state,         \* d_ctx->state
    peerState,     \* peer_ctx->peer_state
    peerStream,    \* peer_ctx->peer_stream: a name, dangling or not, or NoStream
    devices,       \* device_ctx->devices: a sequence of [id, grabbed]
    polled,        \* evdev files in the epoll set
    relayStreams,  \* relay_ctx->relay_streams
    streams,       \* ep_ctx->stream_ptrs: by name, the streams that are open
    batch,         \* entries of the last epoll_wait not yet resolved
    \* sockets
    pipe,          \* by connection and end, what travels towards that end
    open,          \* by connection, the ends that are not closed
    reset,         \* connections on which a reset was sent
    backlog,       \* connections a daemon has not accepted yet, by socket
    listening,     \* the server's TCP socket is open
    \* relay processes
    relay,         \* where each relay is, what it sent and what it was told
    \* hardware
    down,          \* physical keys held down, one key on each device
    evq,           \* events in each evdev file that were not read yet
    virt,          \* uinput devices whose key is down
    inputs,        \* key presses and movements so far
    unplugged,     \* devices that are gone
    captured,      \* by device, the events dev_handler sent, in order
    emitted        \* by device, those of them taken from the queue of its uinput
                   \* copy and written, in order

daemonVars == <<proc, exiting, state, peerState, peerStream, devices, polled,
                relayStreams, streams, batch>>
socketVars == <<pipe, open, reset, backlog, listening>>
inputVars  == <<down, evq, virt, inputs, unplugged>>
logVars    == <<captured, emitted>>
vars == <<daemonVars, socketVars, relay, inputVars, logVars>>

-----------------------------------------------------------------------------
(* Messages and stream items. *)

None     == "none"
NoStream == <<"none">>

ASSUME NobodyAssumption == None \notin Clients

Msg(h)           == [h |-> h, dev |-> None, val |-> None]
DevMsg(h, k, v)  == [h |-> h, dev |-> k, val |-> v]
HasBody(m)       == m.val # None

Item(m)    == [msg |-> m, state |-> "HEADER"]
Idle       == Item(Msg(None))
FreshStream == [queue |-> <<>>, fallback |-> Idle, interest |-> "EPOLLIN"]

\* the item after its next piece went through a socket
Streamed(item) ==
    [item EXCEPT !.state = IF item.state = "HEADER" /\ HasBody(item.msg)
                           THEN "BODY" ELSE "COMPLETE"]

\* stream->next
NextItem(stream) == IF stream.queue # <<>> THEN stream.queue[1] ELSE stream.fallback

\* stream_queue_writing for each of ms in turn, on the stream s of ss
PushAll(ss, s, ms) ==
    IF ms = <<>> THEN ss
    ELSE [ss EXCEPT ![s].queue = @ \o [i \in DOMAIN ms |-> Item(ms[i])],
                    ![s].interest = "EPOLLOUT"]
Push(ss, s, m) == PushAll(ss, s, <<m>>)

\* the same message on every stream of the set S
PushEach(ss, S, m) ==
    [s \in DOMAIN ss |-> IF s \in S THEN Push(ss, s, m)[s] ELSE ss[s]]

\* stream_collect: what is popped goes over whatever the fallback holds
Popped(stream) ==
    IF stream.queue = <<>> THEN stream
    ELSE [stream EXCEPT !.queue = Tail(@), !.fallback = stream.queue[1]]

Without(f, S) == [x \in DOMAIN f \ S |-> f[x]]

\* e_epoll_add: the streams S are opened beside those of ss
Opened(ss, S) == [s \in DOMAIN ss \cup S |-> IF s \in DOMAIN ss THEN ss[s] ELSE FreshStream]

PeerConn(c)  == <<"peer", c>>
RelayConn(r) == <<"relay", r>>
Connections  == {PeerConn(c) : c \in Clients} \cup {RelayConn(r) : r \in Relays}
Ends(s)      == IF s[1] = "peer" THEN {s[2], Server} ELSE {s[2], Target[s[2]]}
OtherEnd(s, e) == CHOOSE x \in Ends(s) : x # e

IsSocket(s) == s[1] \in {"peer", "relay"}

\* stream_set_default: the message of a socket is dropped, the event of a device stays
Cleared(s, item) == IF IsSocket(s) THEN Idle ELSE [item EXCEPT !.state = "HEADER"]

\* e_epoll_reset_stream; a uinput stream stays armed for writing
Reset(ss, s) ==
    [ss EXCEPT ![s].fallback = Cleared(s, @),
               ![s].interest = IF ss[s].queue # <<>> \/ s[1] = "udev"
                               THEN "EPOLLOUT" ELSE "EPOLLIN"]

RelaySet(d) == {relayStreams[d][i] : i \in DOMAIN relayStreams[d]}

\* the peer stream is there to be written to: neither NULL nor freed
PeerThere(d) == peerStream[d] \in DOMAIN streams[d]

\* some daemon has entries of its last epoll_wait to resolve.  Resolving is
\* local to the daemon, so that nobody but the user acts in between: any other
\* step commutes with it.
Quiet == \A d \in Daemons : batch[d] = {}

-----------------------------------------------------------------------------
(* A process ends: the kernel closes its files, which ends its grabs and   *)
(* removes its uinput devices.  A socket closed before all that arrived on *)
(* it was read is reset.                                                   *)

HeldBy(d) == {s \in Connections : d \in open[s]}

\* p is what the sockets carry when it ends
ProcessEnds(d, how, p) ==
    /\ proc' = [proc EXCEPT ![d] = how]
    /\ streams' = [streams EXCEPT ![d] = <<>>]
    /\ batch' = [batch EXCEPT ![d] = {}]
    /\ relayStreams' = [relayStreams EXCEPT ![d] = <<>>]
    /\ devices' = [devices EXCEPT ![d] = <<>>]
    /\ polled' = [polled EXCEPT ![d] = {}]
    /\ open' = [s \in Connections |-> open[s] \ {d}]
    /\ reset' = reset \cup {s \in HeldBy(d) : p[s][d] # <<>>}
    /\ pipe' = [s \in Connections |->
                  IF s \in HeldBy(d) THEN [p[s] EXCEPT ![d] = <<>>] ELSE p[s]]
    /\ backlog' = [backlog EXCEPT ![d] = <<>>,
                                  ![Tcp] = IF d = Server THEN <<>> ELSE @]
    /\ listening' = (listening /\ d # Server)
    /\ evq' = [k \in Devices |-> IF OwnerOf(k) = d THEN <<>> ELSE evq[k]]
    /\ virt' = IF d = Server THEN {} ELSE virt
    /\ UNCHANGED <<exiting, state, peerState, peerStream, relay, down, inputs, unplugged,
                   logVars>>

\* an error anywhere in the event loop, or a fatal signal
Fails(d) == ProcessEnds(d, "failed", pipe)

-----------------------------------------------------------------------------
(* e_epoll_reset_stream after the handler of an entry, and on to the next  *)
(* entry.  ss is what the handler made of the streams.                     *)

Finish(d, s, ss) ==
    /\ streams' = [streams EXCEPT ![d] = Reset(ss, s)]
    /\ batch' = [batch EXCEPT ![d] = @ \ {s}]

\* the entry s of the batch holds a message that has been read completely
HasRead(d, s, h) ==
    /\ s \in batch[d] /\ s \in DOMAIN streams[d]
    /\ streams[d][s].queue = <<>>
    /\ streams[d][s].fallback.state = "COMPLETE"
    /\ streams[d][s].fallback.msg.h = h
=============================================================================
