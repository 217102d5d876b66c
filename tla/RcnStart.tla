------------------------------ MODULE RcnStart ------------------------------
(***************************************************************************)
(* The start of daemons on one machine: daemon_start and d_init            *)
(* (rcn_daemon.c), the process that waits for them in check_daemon_status  *)
(* and then becomes a relay (rcn_relay.c), and subactions that look for a  *)
(* daemon by its name (rcn.c).                                             *)
(*                                                                         *)
(* `rcn start` and `rcn connect` fork: the child becomes the daemon and    *)
(* reports over an eventfd, the parent waits five seconds for that and     *)
(* then asks the daemon, over its unix socket, as a relay does.  Nothing   *)
(* stops two of them from running at once, or a daemon from being killed   *)
(* with its socket file left behind.                                       *)
(*                                                                         *)
(* What a daemon does while it runs is in RcnDaemon; here it serves or     *)
(* does not, is stopped, fails or is killed.  Every start has a port of    *)
(* its user's choice (-p), and all share one path for each type of daemon; *)
(* clients connect to the server of their own machine.                     *)
(***************************************************************************)
EXTENDS Naturals, FiniteSets

CONSTANTS
    Starts,      \* invocations of `rcn start` and `rcn connect`
    TypeOf,      \* the daemon each of them starts
    Ports,
    PortsOf,     \* those that each of them may be given with -p
    Stops,       \* invocations of `rcn stop`
    Killable     \* daemons that may be killed

Types == {"server", "client"}

ASSUME StartsAssumption == "none" \notin Starts
ASSUME TypeOfAssumption == TypeOf \in [Starts -> Types]
ASSUME PortsAssumption == PortsOf \in [Starts -> SUBSET Ports]
ASSUME KillableAssumption == Killable \subseteq Starts

VARIABLES
    child,     \* where the daemon of a start is
    parent,    \* where the process that waits for it is
    status,    \* what the eventfd between them holds
    asked,     \* the daemon whose socket a parent, or a stop, is connected to
    stop,      \* where each `rcn stop` is
    told,      \* who told a daemon to stop: "relay", its "server", or None
    port,      \* the port that each start was given
    listener,  \* by port, the server that listens on it, or None
    servedBy,  \* the server that each client is connected to, until the server
               \* has noticed its end, or None
    path       \* by type, the daemon whose socket the file leads to, or None

vars == <<child, parent, status, asked, stop, told, port, listener, servedBy, path>>

None == "none"

Alive(s)  == child[s] \notin {"off", "exited", "failed"}
\* listen() was called on its unix socket, which it has not closed
Hears(s)  == child[s] \in {"listening", "running"}
Served(d) == {c \in Starts : servedBy[c] = d}

\* what the eventfd holds once an errno is added to it
WithErrno(st) == IF st = "ok" THEN "overflow" ELSE "errno"

\* a child ends so, and reports errno or not: its sockets close, but the file
\* of the unix socket stays
Ends(s, how, reports) ==
    /\ child' = [child EXCEPT ![s] = how]
    /\ status' = IF reports THEN [status EXCEPT ![s] = WithErrno(@)] ELSE status
    /\ listener' = [p \in Ports |-> IF listener[p] = s THEN None ELSE listener[p]]
    /\ UNCHANGED <<parent, asked, stop, port, servedBy>>

Fails(s) == Ends(s, "failed", TRUE) /\ UNCHANGED <<told, path>>

-----------------------------------------------------------------------------
(* The child: d_init *)

Step(s, from, to) == child[s] = from /\ child' = [child EXCEPT ![s] = to]

\* daemon_start
Fork(s) ==
    /\ parent[s] = "off"
    /\ parent' = [parent EXCEPT ![s] = "polling"]
    /\ Step(s, "off", "forked")
    /\ UNCHANGED <<status, asked, stop, told, port, listener, servedBy, path>>

\* the process name, then the directory, the log file and the permissions
Named(s) ==
    \/ Step(s, "forked", "named")
       /\ UNCHANGED <<parent, status, asked, stop, told, port, listener, servedBy, path>>
    \/ child[s] = "forked" /\ Fails(s)

\* d_init_inet_sock: EADDRINUSE only while another listens on that port, for an
\* address in use by connections alone may be reused
Listens(s) ==
    /\ child[s] = "named" /\ TypeOf[s] = "server"
    /\ IF listener[port[s]] # None THEN Fails(s)
       ELSE /\ Step(s, "named", "net") /\ listener' = [listener EXCEPT ![port[s]] = s]
            /\ UNCHANGED <<parent, status, asked, stop, told, port, servedBy, path>>

\* init_peer_sock: one client fits the queue of listen(fd, 0)
Connects(s) ==
    /\ child[s] = "named" /\ TypeOf[s] = "client"
    /\ LET d == listener[port[s]]
       IN  IF d = None \/ Served(d) # {} THEN Fails(s)
           ELSE /\ Step(s, "named", "net") /\ servedBy' = [servedBy EXCEPT ![s] = d]
                /\ UNCHANGED <<parent, status, asked, stop, told, port, listener, path>>

\* fault: the file may be removed before the port is known to be free
UnlinksFirst(s) == child[s] \in {"named", "net"}

\* r_init_usock begins once the port, or the server, is taken
MayUnlink(s) == child[s] = "net"

\* r_init_usock: unlink, whoever's file it is
Unlinks(s) ==
    /\ MayUnlink(s)
    /\ child' = [child EXCEPT ![s] = IF @ = "net" THEN "unlinked" ELSE @]
    /\ path' = [path EXCEPT ![TypeOf[s]] = None]
    /\ UNCHANGED <<parent, status, asked, stop, told, port, listener, servedBy>>

\* then bind, which fails if another made the file meanwhile
Binds(s) ==
    /\ child[s] = "unlinked"
    /\ IF path[TypeOf[s]] # None THEN Fails(s)
       ELSE /\ Step(s, "unlinked", "bound") /\ path' = [path EXCEPT ![TypeOf[s]] = s]
            /\ UNCHANGED <<parent, status, asked, stop, told, port, listener, servedBy>>

ListensLocally(s) ==
    /\ Step(s, "bound", "listening")
    /\ UNCHANGED <<parent, status, asked, stop, told, port, listener, servedBy, path>>

\* fault: the daemon reports before it listens
ReportsEarly(s) ==
    /\ Step(s, "unlinked", "running")
    /\ status' = [status EXCEPT ![s] = "ok"]
    /\ UNCHANGED <<parent, asked, stop, told, port, listener, servedBy, path>>

\* DAEMON_STATUS_OK is written when all else has worked
Reports(s) ==
    /\ Step(s, "listening", "running")
    /\ status' = [status EXCEPT ![s] = "ok"]
    /\ UNCHANGED <<parent, asked, stop, told, port, listener, servedBy, path>>

\* dev_init_device_ctx of a client: no such device, or somebody has grabbed it
DeviceFails(s) == child[s] = "listening" /\ TypeOf[s] = "client" /\ Fails(s)

\* a signal: nothing is reported, nothing removed
Killed(s) ==
    /\ s \in Killable /\ Alive(s)
    /\ Ends(s, "failed", FALSE)
    /\ UNCHANGED <<told, path>>

-----------------------------------------------------------------------------
(* The daemon that runs *)

\* the server takes its client from the queue and listens no more
Accepts(d) ==
    /\ child[d] = "running" /\ listener[port[d]] = d /\ Served(d) # {}
    /\ listener' = [listener EXCEPT ![port[d]] = None]
    /\ UNCHANGED <<child, parent, status, asked, stop, told, port, servedBy, path>>

\* the server is rid of its client by an end of file, which changes nothing else,
\* or by the PEER_STOP of a client that a relay has stopped, be it still waiting
\* for its relays or gone: then it listens again, or fails where another does
ClientGone(d, c) ==
    /\ child[d] = "running" /\ listener[port[d]] # d /\ servedBy[c] = d
    /\ servedBy' = [servedBy EXCEPT ![c] = None]
    /\ \/ ~Alive(c) /\ UNCHANGED <<child, status, listener>>
       \/ told[c] = "relay" /\ listener[port[d]] = None
          /\ listener' = [listener EXCEPT ![port[d]] = d] /\ UNCHANGED <<child, status>>
       \/ told[c] = "relay" /\ listener[port[d]] # None
          /\ child' = [child EXCEPT ![d] = "failed"]
          /\ status' = [status EXCEPT ![d] = WithErrno(@)]
          /\ UNCHANGED listener
    /\ UNCHANGED <<parent, asked, stop, told, port, path>>

\* cleanup unlinks the path of its type: what it removes need not be its own,
\* and where there is nothing to remove it fails
CleansUp(s) ==
    LET gone == path[TypeOf[s]] = None
    IN  /\ Ends(s, IF gone THEN "failed" ELSE "exited", gone)
        /\ path' = [path EXCEPT ![TypeOf[s]] = None]

Crashes(s) == Ends(s, "failed", FALSE) /\ UNCHANGED <<told, path>>

\* told by a relay, a server without a client writes to a null peer stream;
\* else its client gets PEER_STOP, or the end of the connection alone
ServerStops(s) ==
    /\ child[s] = "running" /\ TypeOf[s] = "server" /\ told[s] = "relay"
    /\ IF listener[port[s]] = s \/ Served(s) = {} THEN Crashes(s)
       ELSE /\ CleansUp(s)
            /\ \E C \in SUBSET Served(s) :
                  told' = [x \in Starts |-> IF x \in C /\ Alive(x) THEN "server" ELSE told[x]]

\* a client that a relay stops after it saw its server go writes to a freed stream;
\* one whose PEER_STOP the server has handled wrote it before
ClientStops(s) ==
    /\ child[s] = "running" /\ TypeOf[s] = "client" /\ told[s] # None
    /\ \/ CleansUp(s) /\ UNCHANGED told
       \/ told[s] = "relay" /\ servedBy[s] # None /\ ~Alive(servedBy[s]) /\ Crashes(s)

-----------------------------------------------------------------------------
(* The parent: relay_start *)

ParentStep(s, from, to) == parent[s] = from /\ parent' = [parent EXCEPT ![s] = to]

\* fault: the value is not looked at
RawStatus(st) == st

\* fault: what is printed is errno, EAGAIN where the read found nothing
ReadErrno(st) == IF st = "ok" THEN "connecting" ELSE "errno"

\* check_daemon_status: "cannot start daemon because" with one of these
Reasons == {"ETIMEDOUT", "errno", "overflow"}

\* what it makes of the value it read, which is zero when nothing was there
Verdict(st) ==
    IF st = "ok" THEN "connecting" ELSE IF st = "zero" THEN "ETIMEDOUT" ELSE st

\* fault: the poll has no timeout
WaitsForEver(s) ==
    /\ status[s] # "zero"
    /\ ParentStep(s, "polling", Verdict(status[s]))
    /\ status' = [status EXCEPT ![s] = "zero"]
    /\ UNCHANGED <<child, asked, stop, told, port, listener, servedBy, path>>

\* the poll returns because the eventfd was written, or after five seconds
Polled(s) ==
    /\ ParentStep(s, "polling", Verdict(status[s]))
    /\ status' = [status EXCEPT ![s] = "zero"]
    /\ UNCHANGED <<child, asked, stop, told, port, listener, servedBy, path>>

\* connect_usock: ENOENT, or ECONNREFUSED from a socket that does not listen
ParentConnects(s) ==
    LET d == path[TypeOf[s]]
    IN  /\ ParentStep(s, "connecting", IF d # None /\ Hears(d) THEN "asking" ELSE "unconnected")
        /\ asked' = [asked EXCEPT ![s] = IF d # None /\ Hears(d) THEN d ELSE @]
        /\ UNCHANGED <<child, status, stop, told, port, listener, servedBy, path>>

\* RELAY_START is answered; RELAY_IDLE, which `rcn connect` sends, is not
ParentAnswered(s) ==
    /\ ParentStep(s, "asking", "done")
    /\ TypeOf[s] = "server" /\ child[asked[s]] = "running"
    /\ UNCHANGED <<child, status, asked, stop, told, port, listener, servedBy, path>>

\* the daemon is gone
ParentClosed(s) ==
    /\ parent[s] = "asking" /\ ~Alive(asked[s])
    /\ ParentStep(s, "asking", "closed")
    /\ UNCHANGED <<child, status, asked, stop, told, port, listener, servedBy, path>>

-----------------------------------------------------------------------------
(* `rcn stop`: auto_subaction, then relay_start *)

\* daemon_is_running looks for a process of that name
IsRunning(t) == \E s \in Starts : Alive(s) /\ child[s] # "forked" /\ TypeOf[s] = t

StopLooks(u) ==
    /\ stop[u] = "off"
    /\ stop' = [stop EXCEPT ![u] = IF IsRunning("client") THEN "client"
                                   ELSE IF IsRunning("server") THEN "server" ELSE "no daemon"]
    /\ UNCHANGED <<child, parent, status, asked, told, port, listener, servedBy, path>>

StopConnects(u) ==
    /\ stop[u] \in Types
    /\ LET d == path[stop[u]]
       IN  IF d # None /\ Hears(d)
           THEN /\ stop' = [stop EXCEPT ![u] = "asking"]
                /\ asked' = [asked EXCEPT ![u] = d]
           ELSE /\ stop' = [stop EXCEPT ![u] = "unconnected"]
                /\ UNCHANGED asked
    /\ UNCHANGED <<child, parent, status, told, port, listener, servedBy, path>>

StopHandled(u) ==
    LET d == asked[u]
    IN  /\ stop[u] = "asking"
        /\ child[d] = "running" \/ ~Alive(d)
        /\ stop' = [stop EXCEPT ![u] = IF Alive(d) THEN "told" ELSE "closed"]
        /\ told' = IF Alive(d) THEN [told EXCEPT ![d] = "relay"] ELSE told
        /\ UNCHANGED <<child, parent, status, asked, port, listener, servedBy, path>>

-----------------------------------------------------------------------------
Init ==
    /\ child = [s \in Starts |-> "off"] /\ parent = [s \in Starts |-> "off"]
    /\ status = [s \in Starts |-> "zero"]
    /\ asked = [x \in Starts \cup Stops |-> None]
    /\ stop = [u \in Stops |-> "off"] /\ told = [s \in Starts |-> None]
    /\ port \in [Starts -> Ports] /\ \A s \in Starts : port[s] \in PortsOf[s]
    /\ listener = [p \in Ports |-> None] /\ servedBy = [s \in Starts |-> None]
    /\ path = [t \in Types |-> None]

Child(s) ==
    \/ Named(s) \/ Listens(s) \/ Connects(s) \/ Unlinks(s) \/ Binds(s) \/ ListensLocally(s)
    \/ Reports(s) \/ DeviceFails(s) \/ Accepts(s) \/ \E c \in Starts : ClientGone(s, c)
    \/ ServerStops(s) \/ ClientStops(s)
Parent(s) == Polled(s) \/ ParentConnects(s) \/ ParentAnswered(s) \/ ParentClosed(s)
Stop(u)   == StopLooks(u) \/ StopConnects(u) \/ StopHandled(u)

Next ==
    \/ \E s \in Starts : Fork(s) \/ Child(s) \/ Killed(s) \/ Parent(s)
    \/ \E u \in Stops : Stop(u)

\* no process stops in the middle of its code; nobody has to start one
Fairness ==
    /\ \A s \in Starts : WF_vars(Child(s)) /\ WF_vars(Parent(s))
    /\ \A u \in Stops : WF_vars(StopConnects(u) \/ StopHandled(u))

Spec == Init /\ [][Next]_vars

FairSpec == Spec /\ Fairness

-----------------------------------------------------------------------------
(* Properties *)

TypeOK ==
    /\ child \in [Starts -> {"off", "forked", "named", "net", "unlinked", "bound",
                              "listening", "running", "exited", "failed"}]
    /\ parent \in [Starts -> Reasons \cup {"off", "polling", "connecting", "unconnected",
                                          "asking", "done", "closed"}]
    /\ status \in [Starts -> {"zero", "ok", "errno", "overflow"}]
    /\ stop \in [Stops -> Types \cup {"off", "no daemon", "unconnected", "asking",
                                       "told", "closed"}]
    /\ asked \in [Starts \cup Stops -> Starts \cup {None}]
    /\ told \in [Starts -> {None, "relay", "server"}]
    /\ port \in [Starts -> Ports]
    /\ listener \in [Ports -> Starts \cup {None}]
    /\ servedBy \in [Starts -> Starts \cup {None}]
    /\ path \in [Types -> Starts \cup {None}]

\* The errno that "cannot start daemon because [...]" prints is one of a daemon that
\* has failed, however slow the start and whatever the eventfd has added up.  Of the
\* ETIMEDOUT that check_daemon_status makes of a value of zero nothing is said here:
\* the daemon may be anywhere, and often gets ready later and runs.
ErrorIsTrue == \A s \in Starts : parent[s] \in {"errno", "overflow"} => child[s] = "failed"

\* The daemon that has reported its start can be reached: the process that waited
\* for the report finds its socket, unless the daemon has ended since or another
\* of its type was started.
ConnectFindsDaemon ==
    [][\A s \in Starts : parent[s] = "connecting" /\ parent'[s] = "unconnected" =>
          \/ ~Alive(s)
          \/ \E x \in Starts \ {s} : TypeOf[x] = TypeOf[s] /\ child[x] # "off"]_vars

\* A start on the port of a server that runs and listens does not take the unix
\* socket from it: the file is only removed by the clean-up of a server, or by the
\* start of one on another port.
PathKept ==
    [][\A d \in Starts :
          path["server"] = d /\ child[d] = "running" /\ listener[port[d]] = d
          => \/ path'["server"] = d
             \/ \E x \in Starts :
                   /\ TypeOf[x] = "server"
                   /\ \/ child[x] = "running" /\ child'[x] = "exited"
                      \/ child[x] = "net" /\ port[x] # port[d]]_vars

\* `rcn start` comes to its end, whatever becomes of the daemon.
StartEnds ==
    \A s \in Starts : TypeOf[s] = "server" =>
        (parent[s] = "polling" ~> parent[s] \in Reasons \cup {"unconnected", "done", "closed"})
=============================================================================
