------------------------------- MODULE RcnRelay -------------------------------
(***************************************************************************)
(* rcn_relay.c: the handlers a daemon runs for the request of a relay, and *)
(* the relay process itself: connect, send one header, wait for one        *)
(* answer, shut down, read until the daemon closes.                        *)
(***************************************************************************)
EXTENDS RcnPeer

RelayUnchanged ==
    UNCHANGED <<proc, peerState, peerStream, relayStreams, socketVars, relay,
                down, virt, inputs, unplugged, logVars>>

\* fault: the answer is not queued
NoAnswer(d, s, m) ==
    /\ Finish(d, s, streams[d])
    /\ UNCHANGED <<exiting, state, devices, polled, evq>>
    /\ RelayUnchanged

\* a handler that only answers the relay that asked
Answer(d, s, m) ==
    /\ Finish(d, s, Push(streams[d], s, m))
    /\ UNCHANGED <<exiting, state, devices, polled, evq>>
    /\ RelayUnchanged

\* RELAY_HEADER_IDLE: nothing, "so the relay hangs on read()"
RelayIdle(d, s) ==
    /\ HasRead(d, s, "RELAY_IDLE")
    /\ Finish(d, s, streams[d])
    /\ UNCHANGED <<exiting, state, devices, polled, evq>>
    /\ RelayUnchanged

RelayStart(d, s) == HasRead(d, s, "RELAY_START") /\ Answer(d, s, Msg("RELAY_START"))

\* handler_list: a body only if there is a device
RelayList(d, s) ==
    /\ HasRead(d, s, "RELAY_LIST")
    /\ Answer(d, s, IF devices[d] = <<>> THEN Msg("RELAY_LIST")
                    ELSE DevMsg("RELAY_LIST", None, "devices"))

AsksToPause(d, s) ==
    HasRead(d, s, "RELAY_PAUSE") \/ (HasRead(d, s, "RELAY_SWITCH") /\ state[d] = "RUNNING")
AsksToResume(d, s) ==
    HasRead(d, s, "RELAY_RESUME") \/ (HasRead(d, s, "RELAY_SWITCH") /\ state[d] = "PAUSED")

RelayPauseAgain(d, s) ==
    /\ AsksToPause(d, s) /\ state[d] = "PAUSED"
    /\ Answer(d, s, Msg("RELAY_PAUSE_AGAIN"))

\* handler_pause
RelayPause(d, s) ==
    /\ AsksToPause(d, s) /\ state[d] = "RUNNING"
    /\ InputsReady(d)
    /\ LET connected == peerState[d] = "CONNECTED"
           held      == ControlInputs(d, streams[d], FALSE)
       IN  IF ~InputsControllable(d, FALSE) \/ (connected /\ ~PeerThere(d)) THEN Fails(d)
           ELSE /\ IF connected
                   THEN /\ Finish(d, s, Push(Broadcast(d, held, "RELAY_PAUSE"),
                                             peerStream[d], Msg("PEER_PAUSE")))
                        /\ state' = [state EXCEPT ![d] = "PAUSED"]
                   ELSE /\ Finish(d, s, Broadcast(d, held, "RELAY_NO_PEER"))
                        /\ UNCHANGED state
                /\ ControlledInputs(d, FALSE)
                /\ UNCHANGED exiting
                /\ RelayUnchanged

RelayResumeAgain(d, s) ==
    /\ AsksToResume(d, s) /\ state[d] = "RUNNING"
    /\ Answer(d, s, Msg("RELAY_RESUME_AGAIN"))

\* handler_resume: no answer to the relay
RelayResume(d, s) ==
    /\ AsksToResume(d, s) /\ state[d] = "PAUSED"
    /\ InputsReady(d)
    /\ IF ~InputsControllable(d, TRUE) \/ ~PeerThere(d) THEN Fails(d)
       ELSE /\ Finish(d, s, Push(ControlInputs(d, streams[d], TRUE),
                                 peerStream[d], Msg("PEER_RESUME")))
            /\ ControlledInputs(d, TRUE)
            /\ state' = [state EXCEPT ![d] = "RUNNING"]
            /\ UNCHANGED exiting
            /\ RelayUnchanged

\* handler_stop
RelayStop(d, s) ==
    /\ HasRead(d, s, "RELAY_STOP")
    /\ IF ~PeerThere(d) THEN Fails(d)
       ELSE /\ exiting' = [exiting EXCEPT ![d] = TRUE]
            /\ Finish(d, s, Push(Broadcast(d, streams[d], "RELAY_STOP"),
                                 peerStream[d], Msg("PEER_STOP")))
            /\ UNCHANGED <<state, devices, polled, evq>>
            /\ RelayUnchanged

RelayHandler(d, s) ==
    \/ RelayIdle(d, s) \/ RelayStart(d, s) \/ RelayList(d, s)
    \/ RelayPause(d, s) \/ RelayPauseAgain(d, s)
    \/ RelayResume(d, s) \/ RelayResumeAgain(d, s)
    \/ RelayStop(d, s)

-----------------------------------------------------------------------------
(* The relay process.  relay[r].pc is "off" before it runs, "waiting" for  *)
(* its answer, in the "body" of one, "draining" after shutdown, "closed"   *)
(* or "failed".                                                            *)

Unit(item) ==
    [msg |-> item.msg, part |-> IF item.state = "HEADER" THEN "header" ELSE "body"]

Others == UNCHANGED <<daemonVars, listening, inputVars, logVars>>

Waiting(r) == relay[r].pc \in {"waiting", "body"}

RelayConnect(r, h) ==
    /\ relay[r].pc = "off" /\ h \in Commands[r] /\ Quiet
    /\ LET d == Target[r]
           s == RelayConn(r)
       IN  /\ proc[d] = "running"
           /\ open' = [open EXCEPT ![s] = {r, d}]
           /\ pipe' = [pipe EXCEPT ![s][d] = <<Unit(Item(Msg(h)))>>]
           /\ backlog' = [backlog EXCEPT ![d] = Append(@, s)]
    /\ relay' = [relay EXCEPT ![r].pc = "waiting", ![r].sent = h]
    /\ UNCHANGED reset
    /\ Others

\* the answer is what arrives first, be it for another relay's request
RelayRead(r) ==
    /\ Waiting(r)
    /\ LET s == RelayConn(r)
       IN  /\ pipe[s][r] # <<>>
           /\ LET u == Head(pipe[s][r])
                  more == u.part = "header" /\ HasBody(u.msg)
              IN  relay' = IF more THEN [relay EXCEPT ![r].pc = "body"]
                           ELSE [relay EXCEPT ![r].pc = "draining", ![r].answer = u.msg.h]
           /\ pipe' = [pipe EXCEPT ![s][r] = Tail(@)]
    /\ UNCHANGED <<open, reset, backlog>>
    /\ Others

\* u_close_connection reads on until the daemon has closed its end
RelayDrain(r) ==
    /\ relay[r].pc = "draining"
    /\ pipe[RelayConn(r)][r] # <<>>
    /\ pipe' = [pipe EXCEPT ![RelayConn(r)][r] = Tail(@)]
    /\ UNCHANGED <<open, reset, backlog, relay>>
    /\ Others

RelayEnds(r, how) ==
    /\ relay' = [relay EXCEPT ![r].pc = how]
    /\ open' = [open EXCEPT ![RelayConn(r)] = @ \ {r}]
    /\ UNCHANGED <<pipe, backlog>>
    /\ Others

\* the daemon closed: normal after an answer, an error before it
RelayEof(r) ==
    /\ Waiting(r) \/ relay[r].pc = "draining"
    /\ pipe[RelayConn(r)][r] = <<>> /\ Target[r] \notin open[RelayConn(r)]
    /\ RelayEnds(r, IF Waiting(r) THEN "failed" ELSE "closed")
    /\ UNCHANGED reset

\* SIGINT, or one second in u_close_connection without the daemon's FIN;
\* closing a socket with unread data resets the connection
RelayGivesUp(r) ==
    /\ Interrupts /\ Quiet
    /\ Waiting(r) \/ relay[r].pc = "draining"
    /\ RelayEnds(r, "closed")
    /\ reset' = reset \cup {s \in {RelayConn(r)} : pipe[s][r] # <<>>}

RelayProcess(r) == RelayRead(r) \/ RelayDrain(r) \/ RelayEof(r)
=============================================================================
