------------------------------ MODULE RcnDevice ------------------------------
(***************************************************************************)
(* rcn_device.c: the devices a daemon captures or replays.                 *)
(*                                                                         *)
(* The devices of a client are evdev files.  The kernel puts what happens  *)
(* on a device into the file whether it is grabbed or not, each event with *)
(* a SYN_REPORT behind it; they are read one by one.  What the file holds  *)
(* when the capture is paused is still there afterwards, but for the key   *)
(* events: EVIOCGKEY, with which drain_events waits until no key is down,  *)
(* drops them.                                                             *)
(***************************************************************************)
EXTENDS RcnCore

KeyEvents  == {"down", "up"}
Movements  == {"move"}
Events     == KeyEvents \cup Movements \cup {"syn"}
\* the SYN_REPORT of the device and the one that the server adds to a movement
Reports    == {"syn", "report"}

DevStream(k)  == <<"dev", k>>
UdevStream(k) == <<"udev", k>>

DeviceIds(d) == {devices[d][i].id : i \in DOMAIN devices[d]}
UdevStreams(d) == {UdevStream(k) : k \in DeviceIds(d)}

\* fault: the state from before the ioctl is sent
OldGrabMsg(k, grab) == DevMsg("PEER_GRAB", k, IF grab THEN "ungrabbed" ELSE "grabbed")

\* PEER_HEADER_DEV_UPD_GRAB
GrabMsg(k, grab) == DevMsg("PEER_GRAB", k, IF grab THEN "grabbed" ELSE "ungrabbed")

-----------------------------------------------------------------------------
(* The client's side. *)

\* drain_events returns for none of the devices while its key is down
Drained(ids) == ids \cap down = {}

\* what is left of q without its key events: the movements, each with its SYN_REPORT,
\* and the SYN_REPORT of a packet that was read in part, or of which the first was a key
Flushed(q) ==
    LET moves == Cardinality({j \in DOMAIN q : q[j] \in Movements})
    IN  (IF q # <<>> /\ q[1] \notin Movements THEN <<"syn">> ELSE <<>>)
           \o [j \in 1..(2 * moves) |-> IF j % 2 = 1 THEN "move" ELSE "syn"]

\* the ioctl of drain_events drops the key events that were not read
FlushKeys(ids) == [k \in Devices |-> IF k \in ids THEN Flushed(evq[k]) ELSE evq[k]]

\* dev_ctrl_devices: for each device, drain, (un)grab, tell the server, and
\* put the file into the epoll set or take it out
ControlDevices(c, ss, grab) ==
    PushAll(ss, peerStream[c],
            [i \in DOMAIN devices[c] |-> GrabMsg(devices[c][i].id, grab)])

\* fault: the file is left in the epoll set
StillPolled(c, grab) ==
    /\ devices' = [devices EXCEPT ![c] =
                      [i \in DOMAIN @ |-> [@[i] EXCEPT !.grabbed = grab]]]
    /\ evq' = FlushKeys(DeviceIds(c))
    /\ UNCHANGED polled

ControlledDevices(c, grab) ==
    /\ devices' = [devices EXCEPT ![c] =
                      [i \in DOMAIN @ |-> [@[i] EXCEPT !.grabbed = grab]]]
    /\ polled' = [polled EXCEPT ![c] = IF grab THEN DeviceIds(c) ELSE {}]
    /\ evq' = FlushKeys(DeviceIds(c))

-----------------------------------------------------------------------------
(* The server's side. *)

\* fault: no key is released
KeysStayDown(d, ss) == ss

\* dev_release_virt_keys_all
ReleaseVirtKeys(d, ss) ==
    [s \in DOMAIN ss |->
        IF s \in UdevStreams(d)
        THEN PushAll(ss, s, <<DevMsg("UINPUT", s[2], "release"), DevMsg("UINPUT", s[2], "report")>>)[s]
        ELSE ss[s]]

\* stream_close frees the buffer of every item of the queue and of the fallback.  In
\* an item of a device stream there is an event at its place, and free() of it ends
\* the daemon, unless it is a SYN_REPORT, which is all zeros there.
FreesEvent(stream) ==
    \/ stream.fallback.msg.val \notin Reports \cup {None}
    \/ \E i \in DOMAIN stream.queue : stream.queue[i].msg.val \notin Reports

\* dev_close_device_ctx comes to such a stream
HoldsEvents(d) == \E s \in DOMAIN streams[d] : ~IsSocket(s) /\ FreesEvent(streams[d][s])

\* dev_find_by_id: the device of that id, else the last one
FindById(d, k) ==
    IF k \in DeviceIds(d)
    THEN CHOOSE i \in DOMAIN devices[d] :
            devices[d][i].id = k /\ \A j \in 1..(i - 1) : devices[d][j].id # k
    ELSE Len(devices[d])

-----------------------------------------------------------------------------
(* What pause and resume do to the inputs of a daemon, whichever it is:    *)
(* dev_ctrl_devices on a client, dev_release_virt_keys_all on the server.  *)

InputsReady(d) == d # Server => Drained(DeviceIds(d))

\* EVIOCGRAB fails on a device that is grabbed already (EBUSY), or released
\* already (EINVAL); EVIOCGKEY fails on one that is gone (ENODEV, or EBADF once
\* its stream is freed); the message about it needs the peer stream
InputsControllable(d, grab) ==
    d # Server => \A i \in DOMAIN devices[d] :
        PeerThere(d) /\ devices[d][i].grabbed # grab /\ devices[d][i].id \notin unplugged

ControlInputs(d, ss, grab) ==
    IF d = Server THEN ReleaseVirtKeys(d, ss) ELSE ControlDevices(d, ss, grab)

ControlledInputs(d, grab) ==
    IF d = Server THEN UNCHANGED <<devices, polled, evq>> ELSE ControlledDevices(d, grab)

-----------------------------------------------------------------------------
(* dev_handler: an event was read from an evdev file.  Its stream is put   *)
(* back with EPOLL_CTL_MOD, which fails if the file left the epoll set     *)
(* after it was reported: paused by an entry before this one.              *)

\* fault: an event is dropped while something else waits to be sent
DropsWhenBusy(d, m) ==
    IF streams[d][peerStream[d]].queue # <<>> THEN streams[d]
    ELSE Push(streams[d], peerStream[d], m)

\* PEER_HEADER_EVENT, queued behind all the daemon has to tell its peer
SendEvent(d, m) == Push(streams[d], peerStream[d], m)

DevHandler(d, s) ==
    /\ HasRead(d, s, "PEER_EVENT") /\ s[1] = "dev"
    /\ IF PeerThere(d) /\ s[2] \in polled[d]
       THEN /\ Finish(d, s, SendEvent(d, streams[d][s].fallback.msg))
            /\ captured' = [captured EXCEPT ![s[2]] = Append(@, streams[d][s].fallback.msg.val)]
            /\ UNCHANGED <<proc, exiting, state, peerState, peerStream, devices, polled,
                           relayStreams, socketVars, relay, inputVars, emitted>>
       ELSE Fails(d)

-----------------------------------------------------------------------------
(* The user. *)

\* the file is open: the kernel queues what happens on the device
Arrive(k, e) ==
    evq' = [evq EXCEPT ![k] = IF proc[OwnerOf(k)] = "running" THEN @ \o <<e, "syn">> ELSE @]

UserUnchanged == UNCHANGED <<daemonVars, socketVars, relay, virt, unplugged, logVars>>

KeyDown(k) ==
    /\ inputs < MaxInput /\ k \notin down /\ k \notin unplugged
    /\ inputs' = inputs + 1
    /\ down' = down \cup {k}
    /\ Arrive(k, "down")
    /\ UserUnchanged

KeyUp(k) ==
    /\ k \in down
    /\ down' = down \ {k}
    /\ Arrive(k, "up")
    /\ UNCHANGED inputs
    /\ UserUnchanged

Move(k) ==
    /\ inputs < MaxInput /\ k \notin unplugged
    /\ inputs' = inputs + 1
    /\ Arrive(k, "move")
    /\ UNCHANGED down
    /\ UserUnchanged

\* the file returns ENODEV from now on, whatever it held
Unplug(k) ==
    /\ k \in Unpluggable \ unplugged
    /\ unplugged' = unplugged \cup {k}
    /\ down' = down \ {k}
    /\ evq' = [evq EXCEPT ![k] = <<>>]
    /\ UNCHANGED <<daemonVars, socketVars, relay, virt, inputs, logVars>>
=============================================================================
