# A verification project for rcn

rcn captures input devices on one machine and replays them on another. This
directory holds TLA+ models of its daemons and of its command line, TLC
configurations that check them on small instances, and TLAPS proofs about the
streams everything travels over, their memory, the start of daemons, what the
daemons do to each other and what the server is to its clients. File and line references are to the repository's sources
under `src/`.

## 1. The system

| component | source | state | operations |
|---|---|---|---|
| byte stream | `rcn_stream.c` | `epoll_stream`: write queue, fallback item, `next` | queue a write, stream one `read`/`write`, collect, set default, close |
| epoll set | `rcn_epoll.c` | `epoll_context.stream_ptrs`, the kernel's masks | add, sync, reset, close and remove |
| event loop | `rcn_daemon.c` | `d_context`: `state`, `exit` | accept peer or relay, dispatch, resolve, exit, initialise |
| peer protocol | `rcn_peer.c` | `peer_context`: peer and listening stream, connection state | six handlers: create device, update grab, event, pause, resume, stop |
| relay protocol | `rcn_relay.c` | `relay_context.relay_streams`; the relay process | seven requests; broadcast; connect, send, wait, shut down |
| devices | `rcn_device.c` | `device_context.devices` | open, drain, grab, release, emit, release keys |
| containers | `rcn_util.c` | arrays, queues | push, pop, add, remove, close a connection |
| start | `rcn_daemon.c`, `rcn_relay.c`, `rcn.c` | processes, eventfd, socket file, port | fork, initialise step by step, report, wait, connect, find a daemon by name |
| command line | `rcn_arg.c`, `rcn.c` | `arg_ctx` and one index into `argv` | one handler for each flag and subaction |

A **client** daemon opens evdev files, grabs them and sends every event over one
TCP connection, the peer stream. The **server** daemon makes one uinput device
for each and writes the events to it. Users run short-lived **relay** processes
(`rcn pause`, `rcn list`, ...), each of which connects to a daemon's unix socket,
sends one header and waits for one answer. Inside a daemon there is one thread:
`d_loop` calls `epoll_wait`, streams every ready file once (`dispatch_epoll`) and
then runs the handlers of what is complete (`resolve_fd_streams`). A handler may
queue messages on any stream of the daemon, its own, the peer's, or all relays'.

What is hard here:

* reads and writes are cut anywhere, and a stream has one item for both
  directions: queueing a write moves `next` away from a read that is under way;
* entries of one `epoll_wait` are resolved one after the other, and each handler
  changes what the later entries find: a stream may be re-armed, removed from the
  epoll set, or freed;
* pause and resume may start at either daemon, at several relays, and cross;
* an event passes through the evdev buffer, the client's peer queue, the socket
  and the uinput queue while the capture is paused, resumed or stopped;
* exit waits for relays, relays wait for answers, and answers are broadcast;
* relays can be killed, daemons fail on any error and leave the other one behind;
* a client that leaves in any way but a stop leaves its devices on the server;
* pointers into a queue are kept while the queue's memory moves, and an item of a
  device has an event where that of a socket has the buffer that is freed;
* two daemons of one type may be started at once, on one port and one socket path,
  while a third process waits five seconds for either.

`PROJECT.json` lists these hazards one by one with the line where each bites and
the properties that watch it.

## 2. Modules

    MessageQueue                    abstract: an exactly-once FIFO queue
      ^ implemented by
    RcnStream   <- MCRcnStream      one stream, byte by byte
      ^ RcnStreamProofs
    RcnUtil <- RcnMemory <- MCRcnMemory     arrays, pointers and buffers of all streams
                 ^ RcnMemoryProofs
    RcnSession                      abstract: the server and its clients
      ^ implemented by
    RcnCore <- RcnDevice <- RcnPeer <- RcnRelay <- RcnDaemon <- MCRcnDaemon, MCSessions
                 ^ RcnDaemonProofs <- RcnTrafficProofs <- RcnSessionProofs <- RcnDeliveryProofs
    RcnStart    <- MCRcnStart       starting, finding and stopping daemons
      ^ RcnStartProofs
    RcnArg      <- MCRcnArg         the command line
      ^ RcnArgProofs

**RcnStream** is one socket stream. `StreamWrite` and `StreamRead` are
`stream_stream` with every possible return value of `write` and `read`;
`QueueWriting` is `stream_queue_writing` and may happen at any moment between
them; `ResolveWritten`, `ResolveRead`, `ResolveIncomplete` and `ResolveClosed` are
the four ways an entry leaves `resolve_fd_streams` (collect, handle, reset; skip;
close). A byte is the pair of its message and its position, so that a byte read
out of place can be told: it leads to the phase `garbled`, after which the model
says nothing. `overlap` is a history variable: it records that a write was queued
while a read was under way.

**MessageQueue** is what the writing side promises: a message handed over arrives
exactly once, whole, in order. `RcnStream!ImplementsQueue` maps `received` to the
messages whose last byte is on the wire.

**RcnUtil** has the operators of `u_array` (add with growth, remove, find) and of
`u_queue`. **RcnMemory** is what they hold for the streams of one daemon: the
array of stream pointers (`registry`), each stream's `queue`, `fallback` and
`next`, and the heap. An array has cells in use, a capacity and the block it lies
in; `realloc` may return another block at every growth, and `next` names the block
it points into. Actions are the calls the event loop and its handlers make:
opening a stream, queueing a socket message or a device event, reading a body,
collecting what was written or read, the reset after a handler, closing. `owed`
and `lost` are history variables: the messages queued and not yet written, and
the buffers nothing points to any more.

**The daemon family** models whole daemons. It uses what RcnStream establishes:
`next` and the epoll mask are functions of the queue (`ArmedForQueue`), so a stream
is a queue, a fallback item and a mask, and a header or a body goes through a
socket in one piece.

* `RcnCore`: streams by name, `PushAll` (queue messages), `Reset`, and the end of
  a process. A name outside `DOMAIN streams[d]` is a stream that was freed, so that
  a dangling pointer can be seen.
* `RcnDevice`: the user, the kernel's evdev buffer, draining, EVIOCGRAB (which
  fails with EBUSY or EINVAL when repeated), grab messages, key release,
  `dev_find_by_id`, `dev_handler`, unplugging.
* `RcnPeer`: one action for each handler of `p_handler`.
* `RcnRelay`: one action for each handler of `r_handler` (pause and resume have
  one for "again"), and the relay process.
* `RcnDaemon`: `Dispatch` is one `dispatch_epoll` over everything that is ready,
  accepts included; `Resolve` takes the entries of `batch` in any order. `Exit` is
  `can_exit` and `cleanup`. `DispatchFails` and `Fails` are the error paths, all of
  which end the daemon; `Kill` is a fatal signal, `ClientStart` is `d_init` of a
  client that finds a listening server.

| code | model |
|---|---|
| `epoll_buff` after `epoll_wait` | `batch[d]`, a set |
| `stream->queue`, `->fallback`, epoll mask | `streams[d][s].queue`, `.fallback`, `.interest` |
| `d_ctx->state`, `->exit` | `state[d]`, `exiting[d]` |
| `peer_ctx->peer_stream`, `->peer_state` | `peerStream[d]`, `peerState[d]` |
| `relay_ctx->relay_streams` | `relayStreams[d]` |
| `device_ctx->devices` | `devices[d]`, with `grabbed` |
| files of a client in the epoll set | `polled[d]` |
| socket buffers, FIN, RST, listen queue | `pipe`, `open`, `reset`, `backlog`, `listening` |
| evdev buffer, physical keys, uinput keys | `evq`, `down`, `virt` |

**RcnSession** is what the server is to its clients: it serves one guest at a
time, copies that guest's devices one by one, and lets the next one in only when
the copies have gone all at once. `RcnDaemon!ImplementsSession` maps the guest to
the client whose connection the server accepted last, unless it listens again.

**RcnStart** is one machine on which daemons are started. `rcn start` and
`rcn connect` fork; the child runs `d_init` (`Named`, `Listens` or `Connects`,
`Unlinks`, `Binds`, `ListensLocally`, `Reports`) and each step may fail; the
parent polls the eventfd (`Polled`, with the timeout), connects as a relay and
waits. Each start is given a port (`-p`), and `listener` says by port who listens;
the path of the unix socket is one for all servers. `rcn stop` looks for a process
name, then connects. The socket file leads to whoever bound it last, alive or not;
the eventfd adds up what is written to it, so that "ok" and an errno make
"overflow". `check_daemon_status` prints "cannot start daemon because" with any of
`Reasons`: an errno of the daemon, or the ETIMEDOUT it makes of a poll that found
nothing, whose daemon may be anywhere on its way and often runs later.

**RcnArg** is `parse_args` with the index that it and its handlers move, one
action per handler, and `main` with the checks of each action. Words are strings
that are compared as a whole, but for the names of filters, which `strcasecmp`
compares: `Spellings` maps each spelling to the filter it means. `Legal` is the
grammar the handlers accept, derived from the code and stated without an index: a
command line can be cut into groups, each begun by a flag, that are what the action
needs.

Abstractions of the daemon family:

* A device has one key and movements. Each event is followed in the evdev file by its
  SYN_REPORT; the two are read, sent and replayed one by one, as in `dev_handler`, and
  the server puts a SYN_REPORT of its own behind a movement ("report",
  `dev_emit_event_msg`). A uinput stream with nothing queued stays armed for EPOLLOUT
  (`rcn_epoll.c:84`) and writes its last event again in every pass (`AfterIo`,
  `Replays`); `emitted` logs what is taken from the queue, and `RepeatsHarmless` is about
  what is written again.
* An item of a device stream has an event where that of a socket has its buffer, and
  `stream_close` frees it, in the queue and in the fallback (`FreesEvent`). That ends the
  daemon unless the event is a SYN_REPORT, which is all zeros there: on PEER_STOP
  (`PeerStopCrashes`), in `cleanup` (`CleanupWorks`), and on the client when a device is
  unplugged between an event and its SYN_REPORT (`CloseCrashes`).
* `drain_events` blocks the whole loop until no key is down; its handler is
  disabled until then. Its EVIOCGKEY drops the key events waiting in the file and
  no others: that is what the kernel does.
* Draining and grabbing are one step: a key pressed in the instant between
  `drain_events` and EVIOCGRAB is not modelled. With several devices they are one step
  for all, at the moment when no key of any of them is down. The code goes device by
  device (`rcn_device.c:373`-`392`) and may wait for a key of the second when the first
  has changed already: keys pressed on the first meanwhile, which nobody reads before
  the handler returns, are not modelled either.
* Entries of a batch are resolved in any order. The kernel's order is that in
  which the files became ready, with ready files re-queued at the tail.
* An access to a freed stream ends the daemon, or, for the one that is only reset
  (`ResolveFreed`), may go unnoticed. That the memory was used again for another
  stream is not modelled.
* A body taken for a header ends the daemon (calloc of the size fails) or swallows
  all that follows as a body.
* `Quiet`: while a daemon resolves a batch, no other daemon dispatches, no client
  starts and no relay connects or gives up. Resolving touches nothing outside the
  daemon but closing a connection, so the other order gives the same states; it
  keeps the state space small.
* A process that ends resets a connection on which it left something unread.
* A failing ioctl, calloc or epoll_ctl other than those named ends the daemon, like
  every error in the code, and is not enumerated.

In RcnStart a daemon that runs serves or does not, is stopped, fails or is killed:
what else it does is in RcnDaemon. In RcnMemory the bytes of a message are left
out, and `free` of an event ends the program, so that `Close` is disabled there.
In RcnArg numbers have no width.

## 3. Runs

| run | instance | shows |
|---|---|---|
| `RcnStream` | headers of 2 bytes, bodies of 0 and 2, 3 messages each way, fair | framing, arming, no item streamed twice, order of handling, refinement of MessageQueue, no lost wake-up; reads are exact as long as no write overlaps them |
| `RcnMemory` | 2 sockets, 1 evdev and 1 uinput stream; capacity 1, queues up to 2, 3 buffers, 2 blocks | no pointer into a freed block, queues are FIFO through every growth, the registry is exact, every buffer has one owner |
| `ClientCommands` | 2 relays at the client: pause, switch, stop and resume, switch; fair | grab, epoll set and state agree; both daemons agree once all is handled; answers arrive, the stop ends, the pause reaches the server |
| `Capture` | 1 input (and the release of the key), a pause and a resume at the client | no event of a device between its release and its next grab; no virtual key stays down; what the uinput streams take from their queues is a prefix of what was captured; what an idle one writes again is a SYN_REPORT or the last key event, never a movement |
| `BothSides` | a relay at each daemon, killed or not; all commands at the server | types, grab, registry of relays, exit strands nobody, a stop announced is a stop |
| `Sessions` | 2 clients with a device each, a relay that pauses or stops, one client may be killed, its device unplugged | `peer_stream` is good whenever it is used, a server that listens has nothing left of its last client, refinement of RcnSession |
| `RcnStart` | 2 servers on one port or on two, 1 client, 1 stop; one server may be killed; fair | an errno printed is of a daemon that failed, a daemon that reported is found, a start does not take the socket of a server that listens on the same port, every start ends |
| `RcnArg` | every command line of an action and up to 4 pieces, filters in either case; fair | the index accepts exactly the grammar, what is stored is what was written, parsing ends |

Bounds. Three messages each way give every overlap of a queued write with a
partial read and one more message behind it; header and body of two bytes give
every cut. Capacity 1 grows at each addition, and two blocks are enough to tell a
pointer into a freed one; a queue of two has a first, a last and, after a
removal, a move. Two relays are the least that race; a third repeats what the
first two do. One device: the peer protocol addresses devices one by one. Two
clients are the least of which one meets what the other has left; each is stopped at
most once there, which matters (see the second stop below). Two servers race
for one path, for one port too or not, and one stop may reach either. Four pieces are a needed flag for
each need of `connect` and one more. `MaxInput` bounds key presses and movements;
a key that is down may always be released. An input is two events, four when it is a key
that is released, and the server makes three of a movement: enough to be read one by one
on either side of a pause and a resume, and to be lost, swapped or written twice on the
way. Two inputs with both relays are beyond TLC; the theorems have no bound.

`CHECK_DEADLOCK FALSE` is in every configuration because each system may come to
rest: all relays have run, all starts have ended, the bounds on messages and
inputs are used up, the command line is parsed.

Fairness. `RcnStream`: the loop runs, so a file that stays ready is streamed and
what was streamed is resolved (weak fairness); there is none on the environment.
`RcnDaemon`: daemons and relays are processes that the kernel schedules, and no
key is held for ever, without which `drain_events` never returns. `Dispatch` has
strong fairness only because `Quiet` disables it while another daemon resolves.
There is no fairness on users, on relays starting, on kills or on a relay giving
up. `RcnStart`: no child, parent or stop rests in the middle of its code; nobody
has to start one and nobody has to be killed. `RcnArg`: the program runs.

Each property of a passing run has a mutant in `PROJECT.json`: a faulty variant of
a definition (short reads taken for complete, a reset forgotten, a full array not
grown, a relay not taken off the list, ...) with which TLC finds that property
violated.

### Disagreements between the code and its documentation

Each is a run that ends in a violation.

| run | property | README.md | what happens |
|---|---|---|---|
| `PauseLost` | `PausedMeansReleased` | 191, "The client un-grabs the devices" | PEER_PAUSE has been read on the client and an event in the same batch is handled first; queueing it and collecting it overwrites the pause. The server is paused, the client runs with its devices grabbed |
| `ClientStop` | `ClientStopLeavesServer` | 207, the server is ready for another client | the virtual device still has an event to write when PEER_STOP is handled; `stream_close` takes the event for a buffer and frees it, which ends the server |
| `CrossedPause` | `PauseSurvived` | 191, the client un-grabs the devices | a pause at both daemons: the client gets PEER_PAUSE when it is paused already, releases again, EVIOCGRAB fails with EINVAL and the client daemon dies |
| `StopLost` | `StopIsSent` | 207, the server deletes all virtual devices | the client exits as soon as no relay is left, with PEER_STOP still queued; the server sees an end of file and keeps the devices |

Others were met on the way and have no run, because they are one step long, or
because they are part of the model as it is:

* a client that two relays stop sends PEER_STOP twice. The second one, read while the
  server listens again, makes `bind` fail and ends the server; read after another
  client has connected, it deletes that client's devices and makes the server listen
  while it serves (`rcn_peer.c:83`; README.md:207). `ListeningIsFresh` and
  `ImplementsSession` therefore hold with one stop for each client only (`StopsOnce`);
* movements made while paused wait in the evdev file and are replayed after the
  resume (`rcn_device.c:191`);
* "cannot start daemon because" is also printed, with ETIMEDOUT, of a daemon that takes
  more than five seconds (`rcn_relay.c:107`), a client, for instance, that waits in
  `drain_events` for a held key; nothing ends it, and it runs later;
* a server that is stopped before its first client writes through a NULL
  `peer_stream` (`rcn_relay.c:283`); pause and resume ask for `peer_state` first;
* a server that is started on another port than the one that listens passes
  `d_init_inet_sock` and unlinks its unix socket (`rcn_relay.c:51`): relays reach the
  new one from then on (`PathKept` names the case);
* the last event of a uinput stream is written again in every pass of the server's loop,
  which never sleeps from the first event on (`rcn_epoll.c:84`);
* `handler_stop` of the server writes the new socket into `isock_stream`
  (`rcn_peer.c:81`), which `accept_isock` has freed;
* a device that is unplugged between an event and its SYN_REPORT ends the client, which
  frees the event (`CloseCrashes`);
* a client that is killed leaves a server that neither listens nor forgets its
  devices; only its own stop ends that;
* `request_list` moves its index twice and prints every other device
  (`rcn_relay.c:128`);
* `--help` as the first word is taken for a subaction, and no flag is accepted
  before the action (`rcn.c:184`-`204`); `-d` may be followed by no device at all;
  a comment (`rcn.c:78`) has `-h` for the host;
* the parent of `rcn connect` is answered only when the daemon ends; `log` has no
  relay header;
* a second server may take port and path while the first one serves a client,
  for a server does not listen then;
* the buffer of a message that was read and not yet handled is lost when a written
  item is collected over it (`lost` in RcnMemory).

## 4. Proofs

The theorems hold for every value of the constants. Each rests on an inductive
invariant. Those that speak of the variables alone were checked by TLC before they were
proved; those of RcnDeliveryProofs and RcnArgProofs say that a log or a cut exists, which
no variable holds, and for them TLC checked what they imply, the property itself.

**RcnStreamProofs**, for all sets of messages, header and body lengths and bounds
(assumptions: the header has at least one byte, body lengths and bounds are
naturals):

* `TypeCorrect`, `WritesAreFramed`, `StreamArmed`, `NoItemRestreamed`: the
  invariants `TypeOK`, `WriteFraming`, `ArmedForQueue`, `NeverRestreamed`;
* `StreamImplementsQueue`: `Spec => ImplementsQueue`;
* and of the reading side `MessagesHandledInOrder`, `ReadsAreExact`: `HandledInOrder`,
  `ReadsExactUnlessOverlapped`.

The writing side rests on one inductive invariant, `OutInv` (theorem `OutInvariant`).
Framing alone is not inductive: that the next byte written follows the last one depends
on how far the head of the queue has got. `OutInv` adds that the queue holds the
messages from the first unwritten one to the last one sent, in order, that only its
head is under way, and that the length of the wire's last message agrees with the
head's offset. Every action that writes nothing is dealt with by `OtherStepsLemma`;
`WriteLemma` is the one hard step; `QueueStep`, `ArmedStep` and `WireStep` take the
three parts of the invariant through the steps that change them. The refinement
then needs that `WrittenCount` grows by at most one in a step, which is
`WrittenCountLemma`.

The invariant of the reading side, `InInv`, has four parts beside the order itself.
`InboxInv`: the socket holds the rest of a message and then whole ones, in the order of
sending.
`FallbackInv`: the message under way goes on where the socket does. `HandledInv`:
what was handled comes before whatever is still to come, which is all that is left
when a write has overwritten a read. `ExactInv`: otherwise it is exactly what comes
before. `ArrivalLemma` is a message that arrives, `ReadLemma` one read of any length.

**RcnMemoryProofs**, for all numbers of streams, buffers, blocks and all capacities
(assumptions: socket streams are none of the device streams, the capacity is at
least one, Null is no buffer and no event, calloc returns a block):

* `TypeCorrect`, `NextIsCurrent`, `QueuesAreFifo`, `RegistryIsExact`,
  `BuffersAreOwned`: the five invariants of the run.

`AddedLemma`, `RemovedLemma` and `PoppedLemma` say what adding with growth, removal
and popping do to an array, cell by cell. The invariant is the conjunction of the
five, each inductive with those before it: `NextCurrent` says which item a collect
takes, `QueueIsFifo` needs that to say that it is the oldest, and the ownership of
buffers needs both. Ownership is carried by three lemmas: a step that leaves
buffers and items alone (`Untouched`), one by which an item takes a fresh buffer
(`Takes`), and one that frees what some items held (`Releases`).

**RcnStartProofs**, for any number of starts, ports, stops and kills (assumptions: None
is no start, each start is of a server or of a client, its ports are ports):

* `TypeCorrect`, `ErrorsAreTrue`, `DaemonFound`, `PathIsKept`: `TypeOK`,
  `ErrorIsTrue`, `ConnectFindsDaemon`, `PathKept`.

An errno that is printed is true because of `StatusInv`: what the eventfd may hold in
each state of the child; it is "ok" only once the child has run, and an errno added to
it can only make it overflow. Nothing is claimed of ETIMEDOUT, which is printed of
daemons that live. A daemon is found because of `PathInv`: between binding and
its end, a daemon that is the only one ever started of its type is where the file
leads. A path is kept, but for a clean-up or a start on another port, because of
`PortInv`: a server on its way from the port to the socket holds its port, so that
nobody else does. The actions are used through
`Moves`, six short facts about what a step may do to each variable, proved once for
all of them.

**RcnDaemonProofs**, for all sets of clients, devices and relays,
any list of devices for each client, any commands of each relay and any of the faults
(assumptions of RcnCore: the names of server, clients, relays and of the TCP port
differ, None is no client; the other constants are of their types):

* `TypeCorrect`: `TypeOK`. Its invariant `TypeInv` also says what may lie in each
  stream: control messages towards a client, device messages of known devices towards
  the server, requests and answers on relay streams, and RELAY_STOP only when the
  daemon is exiting. Handlers rest on that, so it comes first.
* `PeerPointerIsValid`, `StopAnswerIsTrue`, `RelayRegistryIsExact`,
  `GrabFollowsState`, `ExitIsPolite`: `PeerPointerValid`, `StopAnswerTrue`,
  `RelayRegistry`, `GrabMatchesState`, `ExitLeavesNobodyWaiting`.

It proves one lemma for each handler (`...Moves`) that it does what
`Resolved` allows: what it may change of streams, peer, devices and relays, in a few
facts. The properties are then taken through `Resolved` once, and through the steps
of the loop, the relays and the user, instead of through every handler.
`PeerPointerValid` and `StopAnswerTrue` are inductive beside `TypeInv`. A registry is
exact because of `Registered` (each open relay stream once, none twice in a backlog),
which needs `Stopped` (a daemon that has ended holds no stream). The grab agrees with
the state because of `Capturing`, which also says which device streams are open. An
exit is polite because of `Heard`: a relay that waits keeps its end open, a daemon
that runs has the other end among its streams or in its backlog, and no end of file
is read from it.

**RcnTrafficProofs**, under the same assumptions:

* `EventsFollowGrabs`: `EventsOnlyWhileGrabbed`.

What a client has said and the server has still to read is one sequence of messages,
those in the pipe and then those in the queue (`Flight`), in which the message under
way may be there twice. The property says that it is `Sound`; that is not inductive,
for an event may be queued behind a release. `Carried` adds that the last the sequence
tells of each device in the epoll set is not its release (`Regrabbed`), and that only
the head of the queue may be half written and then ends the pipe (`Joint`). `Moves`
names the five ways in which a step changes the sequence: it is cut at its front, its
next message is written, written for nobody, taken off the queue, or the client queues
more. `NextMoves` shows that every step is one of them, handler by handler, and
`MovesKeep` that they keep `Carried`, from lemmas about sequences alone (`CutKeeps`,
`WriteKeeps`, `WrittenKeeps`, `SayKeeps`). `Linked` is needed beside it: nothing waits
in a connection whose reader has closed it, so that a piece lost in writing is not
followed by one that is read.

**RcnSessionProofs**, under the same assumptions and `StopsOnce`, that no two relays may
stop the same client (the first of the divergences above without a run is what happens
when they do):

* `ListeningServerIsFresh`: `ListeningIsFresh`;
* `ServerServesSessions`: `Spec => ImplementsSession`, the refinement of RcnSession.

That a server which listens has nothing left is not inductive: a device or a second stop
of the client that left may still be on its way, or the message of a client that the
server has forgotten while its connection is still open. The argument goes back from the
server to the relays.

* `Single` and `Spent`: a relay asks once, so that under `StopsOnce` nobody is left to stop
  a client that has been stopped (`StopSpends`).
* `Parting`, with `Orderly`: from the client's queue through the pipe to the message the
  server has read there is one stop at most, but for the copy that is being written; every
  device comes before it and is one that the client captures; a client that has sent a
  stop is `Spent`. `PartingStep` takes this through the five ways in which the sequence
  changes, from lemmas about sequences alone (`HeardOrderly`, `LostOrderly`,
  `WrittenOrderly`, `QueuedOrderly`).
* `Silent`, with `Harmless`: a client whose stop was read has neither a stop nor a device
  to come, and stays so (`SilentStep`).
* `ServerStep`: whatever happens, the server `Keeps` what it has, accepts a client, copies a
  device, forgets a client, or ends. The rest of the proof looks at these five kinds of
  step only.
* `Serving`: a client that is connected and not served is `Silent` (`Guests`), so that a
  device or a stop always comes from the client that is served (`GuestSpeaks`); a uinput
  stream belongs to a device (`Copied`); a server that has ended holds nothing
  (`Emptied`). With these `ListeningIsFresh` is inductive.

For the refinement each of the five kinds of step is a step of RcnSession or leaves its
three variables alone (`SessionStep`). Copying needs `Parting`, which says that the device
is one of the guest's; leaving needs `Guests`, by which the stop is the guest's too; the
end of a server that has ended already changes nothing because of `Emptied`.

**RcnDeliveryProofs**, for any list of devices, any keys, any of the faults, and any number
of relays, each with any commands, under two hypotheses and for the first theorem a third:

* `SidesAgree`, `PauseLiftsKeys`: `PeersAgree`, `PausedKeysUp`;
* `ReplayIsInOrder`: `ReplayInOrder`, from the evdev file of the client to what the uinput
  streams of the server take from their queues;
* `RepeatsAreHarmless`: `RepeatsHarmless`, about what these streams write beyond that, the
  last event once more for as long as they are idle.

The hypotheses are what the properties need, and the code does not see to them:

* `ServerListens`: no relay pauses, resumes, switches or stops the server. If one does,
  `PeersAgree` fails (the run `PauseLost`: what the server is told is written over what
  the client is reading), a server that is paused itself still replays what its client sends,
  and one that has something to write while it reads misreads what follows.
* `OneGuest`: there is one client. A client goes on sending behind its own PEER_STOP, and the
  proof does not follow what that does to the client the server accepts next; what it leaves
  behind is the subject of RcnSessionProofs.
* `DevicesOnce`, for `PeersAgree` alone: no client is told to capture a device twice. A grab
  message changes the first of two entries only.

The runs `Capture` and `ClientCommands`, which check the four properties, satisfy
all three.

The argument keeps a log: all the messages `H` the client has said since it connected. It is
not in the model, so the invariant (`Delivered`) says that there is one. Four things are said
of it, each by a part of the invariant that has lemmas of its own:

* `Channel`: where the log is. What the server has read of it, what lies in the pipe and what
  the client still queues are consecutive stretches of the log, cut where a header is away from
  its body (`Carries`, `EndOf`, `Matched`). Nothing is written in the other direction (`Mute`,
  from `ServerListens`), so the item being read is never overwritten; `Tuned` and, from
  RcnTrafficProofs, `Linked` say that nothing waits where nobody reads.
* `Story`: what the log means. After each prefix, `T[i]` is what somebody who has heard it
  knows: the devices announced, those grabbed, whether the client is paused or has stopped, and
  how many events of each device were told. Each message is `Proper` after those before it: the
  devices come first and in order, and an event is the next one captured of a device that is
  captured, and not told while paused. `Spoken` says that the end of the story is the client as
  it is, and the events told are all it has captured.
* `Serves`: the server, which has handled `n` messages of the log, is as `T[n]` tells it:
  state and list of devices (`Mirrors`), and for each device the uinput queue continues what was
  written with the events told so far (`Plays`); once paused, a key that is down has its
  release at the end of that queue (`Lifted`), and what an idle stream would write again
  `Echoes` what it wrote last. A server that has ended or was stopped keeps only
  that what it wrote is a beginning of what was captured (`Over`).
* `Tale` joins the first two. Every step extends the log and its story at the end
  (`StoryJoins`), moves `n` by one when the server handles a message (`HandledCopies` to
  `HandlesStop`), or leaves both.

`PeersAgree` then follows because everything the client said has been handled, `n = Len(H)`
(`AllHandled`), so that the server is as the client says it is. A device is found in the list by
its first entry (`FindLemma`), which needs a smallest index; it is taken from the well-founded
order of the naturals (`FirstOf`) because induction itself is out of reach.

**RcnArgProofs**, for any command lines of any length and any reading of numerals
(assumptions: a command line is a sequence of strings, `atoi` gives naturals):

* `ParserAcceptsGrammar`, `ValuesAreWritten`: `AcceptsGrammar`, `ValuesAsWritten`.

`PieceKind` says what kind of group the words from one place up to another are, and
`GroupKind` that this is all a group's kind depends on. Each handler then either takes the one
piece that can begin at the index or refuses because nothing can (`Takes`, `Refuses`, one lemma
for each handler, `HandledPieces`). The invariant is that there is a cut of what was read
(`Walked`), that every cut which reads the whole command line begins with it (`Sole`), and that
the values are those of its groups (`Stored`). `Sole` is what makes a refusal right:
`RefusedIsIllegal`. `GroupsStay` says that a group that was read keeps its words and its kind
whatever comes behind it, and `ListEnds` that the end of a list exists, again by a smallest
element.

Only model-checked, and why: liveness, since fairness and ENABLED are beyond the prover
(`QueuedIsWritten`, `ArrivedIsRead`, `RelayAnswered`, `StopEnds`, `PauseReachesServer`,
`StartEnds`, `ParseEnds`). Every invariant and every safety property of the passing runs
is a theorem; of the daemon family `PeersAgree`, `PausedKeysUp`, `ReplayInOrder`,
`RepeatsHarmless`, `ListeningIsFresh` and `ImplementsSession` are so under the hypotheses named above,
without which they do not hold or are not known to.

## 5. Not modelled

* Copying the capabilities of a device to uinput and `rcn show` (`rcn_device.c`):
  ioctls in a row, without a state that outlives them.
* Log file, directory, permissions and host lookup are one step of the start that
  may fail (`Named`); what they print is left out, as is `d_print_log`.
* `u_array_set` and `u_array_delete`: the event loop calls neither.
* The wording of help and lists; numbers that overflow their width.
* Reuse of freed memory by another stream, and the stream of the listening socket,
  which is freed while its entry is in the batch (`rcn_daemon.c:29`) and written to when
  the server listens again (`rcn_peer.c:81`).
* Packaging and build files have no behaviour.

## 6. Plan

1. (done) RcnStream, MessageQueue, the daemon family, the proofs of the writing side.
2. (done) RcnUtil and RcnMemory with their proofs; RcnStart with its proofs; two
   clients, kills and unplugging; RcnSession; RcnArg.
3. (done) Theorems about the reading side of RcnStream.
4. (done) Theorems about the daemon family for any number of clients, devices and
   relays: types, peer pointer, answers, registry, grab, exit.
5. (done) `EventsOnlyWhileGrabbed` as a theorem.
6. (done) The refinement of RcnSession and `ListeningIsFresh`, with one stop per client.
7. (done) `PeersAgree`, `PausedKeysUp`, `ReplayInOrder` and `RepeatsHarmless`, where nobody
   commands the server.
8. (done) The command line: `AcceptsGrammar` and `ValuesAsWritten` as theorems.
9. (open) Item 7 with several clients: a second log, and what a client may say behind its stop.
