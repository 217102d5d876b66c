------------------------------- MODULE RcnPeer -------------------------------
(***************************************************************************)
(* rcn_peer.c: what a daemon does with a message of its peer.  Each action *)
(* is one handler of p_handler together with the collect before it and the *)
(* reset after it in resolve_fd_streams.                                   *)
(***************************************************************************)
EXTENDS RcnDevice

\* r_broadcast_relay_header
Broadcast(d, ss, h) == PushEach(ss, RelaySet(d), Msg(h))

PeerUnchanged == UNCHANGED <<proc, relayStreams, relay, down, inputs, unplugged, logVars>>

\* handler_dev_crt: a new uinput device; its stream asks for EPOLLIN, which
\* never comes, until something is queued
PeerDevCrt(d, s) ==
    /\ HasRead(d, s, "PEER_DEV_CRT") /\ s[1] = "peer"
    /\ LET k == streams[d][s].fallback.msg.dev
       IN  /\ Finish(d, s, Opened(streams[d], {UdevStream(k)}))
           /\ devices' = [devices EXCEPT ![d] = Append(@, [id |-> k, grabbed |-> FALSE])]
    /\ UNCHANGED <<exiting, state, peerState, peerStream, polled, socketVars, evq, virt>>
    /\ PeerUnchanged

\* handler_dev_upd_grab: with no device at all it writes through NULL
PeerUpdGrab(d, s) ==
    /\ HasRead(d, s, "PEER_GRAB") /\ s[1] = "peer"
    /\ IF devices[d] = <<>> THEN Fails(d)
       ELSE LET m == streams[d][s].fallback.msg
            IN  /\ devices' = [devices EXCEPT ![d][FindById(d, m.dev)].grabbed = (m.val = "grabbed")]
                /\ Finish(d, s, streams[d])
                /\ UNCHANGED <<exiting, state, peerState, peerStream, polled, socketVars, evq, virt>>
                /\ PeerUnchanged

\* fault: the SYN_REPORT is left to the device
EventAlone(d, k, e) == Push(streams[d], UdevStream(k), DevMsg("UINPUT", k, e))

\* dev_emit_event_msg: the event is queued on the uinput copy of k, a movement with
\* a SYN_REPORT of the server's own
EmitEvent(d, k, e) ==
    PushAll(streams[d], UdevStream(k),
            <<DevMsg("UINPUT", k, e)>>
               \o (IF e \in Movements THEN <<DevMsg("UINPUT", k, "report")>> ELSE <<>>))

\* handler_event: replayed whatever the state of the daemon
PeerEvent(d, s) ==
    /\ HasRead(d, s, "PEER_EVENT") /\ s[1] = "peer"
    /\ IF devices[d] = <<>> THEN Fails(d)
       ELSE LET m == streams[d][s].fallback.msg
                k == devices[d][FindById(d, m.dev)].id
            IN  /\ Finish(d, s, EmitEvent(d, k, m.val))
                /\ UNCHANGED <<exiting, state, peerState, peerStream, devices, polled,
                               socketVars, evq, virt>>
                /\ PeerUnchanged

\* handler_pause and handler_resume
PeerControl(d, s, h, grab, reply, newState) ==
    /\ HasRead(d, s, h) /\ s[1] = "peer"
    /\ InputsReady(d)
    /\ IF ~InputsControllable(d, grab) THEN Fails(d)
       ELSE /\ Finish(d, s, Broadcast(d, ControlInputs(d, streams[d], grab), reply))
            /\ ControlledInputs(d, grab)
            /\ state' = [state EXCEPT ![d] = newState]
            /\ UNCHANGED <<exiting, peerState, peerStream, socketVars, virt>>
            /\ PeerUnchanged

\* faults: the state is left as it was, set to a constant of another enum, or
\* the relays are told something else
PauseForgotten(d, s)   == PeerControl(d, s, "PEER_PAUSE", FALSE, "RELAY_PAUSE", state[d])
PauseWrongEnum(d, s)   == PeerControl(d, s, "PEER_PAUSE", FALSE, "RELAY_PAUSE", "DISCONNECTED")
PauseSaysStopped(d, s) == PeerControl(d, s, "PEER_PAUSE", FALSE, "RELAY_STOP", "PAUSED")

PeerPause(d, s)  == PeerControl(d, s, "PEER_PAUSE", FALSE, "RELAY_PAUSE", "PAUSED")
PeerResume(d, s) == PeerControl(d, s, "PEER_RESUME", TRUE, "RELAY_RESUME", "RUNNING")

\* handler_stop on a client: exit as soon as no relay is left
PeerStopClient(d, s) ==
    /\ d # Server /\ HasRead(d, s, "PEER_STOP") /\ s[1] = "peer"
    /\ exiting' = [exiting EXCEPT ![d] = TRUE]
    /\ Finish(d, s, Broadcast(d, streams[d], "RELAY_STOP"))
    /\ UNCHANGED <<state, peerState, peerStream, devices, polled, socketVars, evq, virt>>
    /\ PeerUnchanged

\* fault: the list of devices is not emptied
KeepsDevices(d) == devices

\* dev_close_device_ctx and dev_init_device_ctx
NoDevices(d) == [devices EXCEPT ![d] = <<>>]

\* handler_stop on the server: the uinput devices go, and it listens again
\* for another client.  On the way it stores the new socket in isock_stream, which
\* was freed when the client was accepted; what is at that place is not modelled.
PeerStopServer(d, s) ==
    /\ d = Server /\ HasRead(d, s, "PEER_STOP") /\ s[1] = "peer"
    /\ ~HoldsEvents(d) /\ ~listening
    /\ Finish(d, s, Without(streams[d], UdevStreams(d)))
    /\ devices' = NoDevices(d)
    /\ virt' = {}
    /\ peerStream' = [peerStream EXCEPT ![d] = NoStream]
    /\ peerState' = [peerState EXCEPT ![d] = "DISCONNECTED"]
    /\ state' = [state EXCEPT ![d] = "RUNNING"]
    /\ listening' = TRUE
    /\ UNCHANGED <<exiting, polled, pipe, open, reset, backlog, evq>>
    /\ PeerUnchanged

\* an event is freed for a buffer, or the port is bound: a client that is
\* stopped by two relays sends PEER_STOP twice, and the server listens already
PeerStopCrashes(d, s) ==
    /\ d = Server /\ HasRead(d, s, "PEER_STOP") /\ s[1] = "peer"
    /\ HoldsEvents(d) \/ listening
    /\ Fails(d)

PeerHandler(d, s) ==
    \/ PeerDevCrt(d, s) \/ PeerUpdGrab(d, s) \/ PeerEvent(d, s)
    \/ PeerPause(d, s) \/ PeerResume(d, s)
    \/ PeerStopClient(d, s) \/ PeerStopServer(d, s) \/ PeerStopCrashes(d, s)
=============================================================================
