---------------------------- MODULE RcnStartProofs ----------------------------
(***************************************************************************)
(* Theorems about RcnStart, for any number of starts of servers and        *)
(* clients, of stops, and any daemons that may be killed.                  *)
(*                                                                         *)
(* What the parent is told rests on what the eventfd may hold while its    *)
(* child is where it is (StatusInv); that the socket of a daemon is found  *)
(* on the order of its start (PathInv), and that it is kept on the port    *)
(* being taken before the path is (PortInv).                               *)
(***************************************************************************)
EXTENDS RcnStart, TLAPS

StatusInv ==
    \A s \in Starts :
        /\ status[s] \in {"errno", "overflow"} => child[s] = "failed"
        /\ status[s] = "ok" \/ parent[s] = "connecting"
              => child[s] \in {"running", "exited", "failed"}

\* no other daemon of its type was started
Alone(s) == \A x \in Starts \ {s} : TypeOf[x] = TypeOf[s] => child[x] = "off"

PathInv ==
    \A s \in Starts :
        child[s] \in {"bound", "listening", "running"} /\ Alone(s) => path[TypeOf[s]] = s

\* between the port and the report
Starting == {"net", "unlinked", "bound", "listening"}

PortInv ==
    \A s \in Starts :
        TypeOf[s] = "server" /\ child[s] \in Starting => listener[port[s]] = s

-----------------------------------------------------------------------------
\* Every action of a daemon, a parent or a stop, one by one.
LEMMA StepCases ==
    ASSUME Next, NEW G,
           \A s \in Starts :
              /\ Fork(s) => G
              /\ Named(s) => G
              /\ Listens(s) => G
              /\ Connects(s) => G
              /\ Unlinks(s) => G
              /\ Binds(s) => G
              /\ ListensLocally(s) => G
              /\ Reports(s) => G
              /\ DeviceFails(s) => G
              /\ Accepts(s) => G
              /\ \A c \in Starts : ClientGone(s, c) => G
              /\ ServerStops(s) => G
              /\ ClientStops(s) => G
              /\ Killed(s) => G
              /\ Polled(s) => G
              /\ ParentConnects(s) => G
              /\ ParentAnswered(s) => G
              /\ ParentClosed(s) => G,
           \A u \in Stops :
              /\ StopLooks(u) => G
              /\ StopConnects(u) => G
              /\ StopHandled(u) => G
    PROVE  G
  BY DEF Next, Child, Parent, Stop

\* Whatever ends a daemon, the rest keeps its type.
LEMMA EndsType ==
    ASSUME TypeOK, NEW s \in Starts, NEW how \in {"exited", "failed"}, NEW reports,
           Ends(s, how, reports)
    PROVE  /\ child' \in [Starts -> {"off", "forked", "named", "net", "unlinked", "bound",
                                     "listening", "running", "exited", "failed"}]
           /\ UNCHANGED <<parent, asked, stop, port, servedBy>>
           /\ status' \in [Starts -> {"zero", "ok", "errno", "overflow"}]
           /\ listener' \in [Ports -> Starts \cup {None}]
  BY DEF TypeOK, Ends, WithErrno

\* errors and signals
LEMMA FailsType ==
    ASSUME TypeOK, NEW s \in Starts, Fails(s) \/ Crashes(s) PROVE TypeOK'
<1>1. \E r \in BOOLEAN : Ends(s, "failed", r) /\ UNCHANGED <<told, path>>
  BY DEF Fails, Crashes
<1> QED
  BY <1>1, EndsType DEF TypeOK

\* cleanup
LEMMA CleansUpType ==
    ASSUME TypeOK, NEW s \in Starts, CleansUp(s),
           told' \in [Starts -> {None, "relay", "server"}]
    PROVE  TypeOK'
<1>1. PICK how \in {"exited", "failed"} : \E r \in BOOLEAN : Ends(s, how, r)
  BY DEF CleansUp
<1>2. PICK r \in BOOLEAN : Ends(s, how, r)
  BY <1>1
<1>3. path' \in [Types -> Starts \cup {None}]
  BY DEF CleansUp, TypeOK
<1>4. /\ child' \in [Starts -> {"off", "forked", "named", "net", "unlinked", "bound",
                               "listening", "running", "exited", "failed"}]
      /\ UNCHANGED <<parent, asked, stop, port, servedBy>>
      /\ status' \in [Starts -> {"zero", "ok", "errno", "overflow"}]
      /\ listener' \in [Ports -> Starts \cup {None}]
  BY <1>2, EndsType
<1> QED
  BY <1>3, <1>4 DEF TypeOK

\* one step of d_init
LEMMA StepType ==
    ASSUME TypeOK, NEW s \in Starts, NEW from,
           NEW to \in {"forked", "named", "net", "unlinked", "bound", "listening", "running"},
           Step(s, from, to)
    PROVE  child' \in [Starts -> {"off", "forked", "named", "net", "unlinked", "bound",
                                  "listening", "running", "exited", "failed"}]
  BY DEF Step, TypeOK

\* The variables keep their types: the states and answers of relay_start and d_init.
THEOREM TypeCorrect == Spec => []TypeOK
<1>1. Init => TypeOK
  BY TypeOfAssumption DEF Init, TypeOK, Types
<1>2. TypeOK /\ [Next]_vars => TypeOK'
  <2> SUFFICES ASSUME TypeOK, Next PROVE TypeOK'
    BY DEF vars, TypeOK
  <2>1. ASSUME NEW s \in Starts, Fork(s) PROVE TypeOK'
    <3>1. Step(s, "off", "forked") /\ parent' = [parent EXCEPT ![s] = "polling"]
          /\ UNCHANGED <<status, asked, stop, told, port, listener, servedBy, path>>
      BY <2>1 DEF Fork
    <3> QED
      BY <3>1, StepType DEF TypeOK
  <2>2. ASSUME NEW s \in Starts, Named(s) PROVE TypeOK'
    <3>1. CASE Fails(s)
      BY <3>1, FailsType
    <3>2. CASE ~Fails(s)
      BY <2>2, <3>2, StepType DEF Named, TypeOK
    <3> QED
      BY <3>1, <3>2
  <2>3. ASSUME NEW s \in Starts, Listens(s) PROVE TypeOK'
    <3>1. CASE Fails(s)
      BY <3>1, FailsType
    <3>2. CASE ~Fails(s)
      BY <2>3, <3>2, StepType DEF Listens, TypeOK
    <3> QED
      BY <3>1, <3>2
  <2>4. ASSUME NEW s \in Starts, Connects(s) PROVE TypeOK'
    <3>1. CASE Fails(s)
      BY <3>1, FailsType
    <3>2. CASE ~Fails(s)
      BY <2>4, <3>2, StepType DEF Connects, TypeOK
    <3> QED
      BY <3>1, <3>2
  <2>5. ASSUME NEW s \in Starts, Unlinks(s) PROVE TypeOK'
    BY <2>5 DEF Unlinks, TypeOK
  <2>6. ASSUME NEW s \in Starts, Binds(s) PROVE TypeOK'
    <3>1. CASE Fails(s)
      BY <3>1, FailsType
    <3>2. CASE ~Fails(s)
      <4>1. /\ child' = [child EXCEPT ![s] = "bound"] /\ path' = [path EXCEPT ![TypeOf[s]] = s]
            /\ UNCHANGED <<parent, status, asked, stop, told, port, listener, servedBy>>
        BY <2>6, <3>2 DEF Binds, Step
      <4>2. path' \in [Types -> Starts \cup {None}]
        BY <4>1 DEF TypeOK
      <4> QED
        BY <4>1, <4>2 DEF TypeOK
    <3> QED
      BY <3>1, <3>2
  <2>7. ASSUME NEW s \in Starts, ListensLocally(s) PROVE TypeOK'
    BY <2>7, StepType DEF ListensLocally, TypeOK
  <2>8. ASSUME NEW s \in Starts, Reports(s) PROVE TypeOK'
    BY <2>8 DEF Reports, Step, TypeOK
  <2>9. ASSUME NEW s \in Starts, DeviceFails(s) PROVE TypeOK'
    BY <2>9, FailsType DEF DeviceFails
  <2>10. ASSUME NEW s \in Starts, Accepts(s) PROVE TypeOK'
    BY <2>10 DEF Accepts, TypeOK
  <2>11. ASSUME NEW s \in Starts, NEW c \in Starts, ClientGone(s, c) PROVE TypeOK'
    <3>1. servedBy' \in [Starts -> Starts \cup {None}]
      BY <2>11 DEF ClientGone, TypeOK
    <3>2. /\ child' = child \/ child' = [child EXCEPT ![s] = "failed"]
          /\ status' = status \/ status' = [status EXCEPT ![s] = WithErrno(@)]
          /\ listener' = listener \/ listener' = [listener EXCEPT ![port[s]] = s]
          /\ UNCHANGED <<parent, asked, stop, told, port, path>>
      BY <2>11 DEF ClientGone, TypeOK
    <3>3. status' \in [Starts -> {"zero", "ok", "errno", "overflow"}]
      <4>1. status \in [Starts -> {"zero", "ok", "errno", "overflow"}]
        BY DEF TypeOK
      <4> QED
        BY <3>2, <4>1 DEF WithErrno
    <3>4. child' \in [Starts -> {"off", "forked", "named", "net", "unlinked", "bound",
                                 "listening", "running", "exited", "failed"}]
      BY <3>2 DEF TypeOK
    <3>5. listener' \in [Ports -> Starts \cup {None}]
      BY <3>2 DEF TypeOK
    <3> QED
      BY <3>1, <3>2, <3>3, <3>4, <3>5 DEF TypeOK
  <2>12. ASSUME NEW s \in Starts, ServerStops(s) PROVE TypeOK'
    <3>1. CASE Crashes(s)
      BY <3>1, FailsType
    <3>2. CASE ~Crashes(s)
      <4>1. CleansUp(s) /\ told' \in [Starts -> {None, "relay", "server"}]
        <5>1. CleansUp(s) /\ \E C \in SUBSET Served(s) :
                 told' = [x \in Starts |-> IF x \in C /\ Alive(x) THEN "server" ELSE told[x]]
          BY <2>12, <3>2 DEF ServerStops
        <5>2. PICK C \in SUBSET Served(s) :
                 told' = [x \in Starts |-> IF x \in C /\ Alive(x) THEN "server" ELSE told[x]]
          BY <5>1
        <5> QED
          BY <5>1, <5>2, Zenon DEF TypeOK
      <4> QED
        BY <4>1, CleansUpType
    <3> QED
      BY <3>1, <3>2
  <2>13. ASSUME NEW s \in Starts, ClientStops(s) PROVE TypeOK'
    <3>1. CASE Crashes(s)
      BY <3>1, FailsType
    <3>2. CASE ~Crashes(s)
      <4>1. CleansUp(s) /\ told' = told
        BY <2>13, <3>2 DEF ClientStops
      <4>2. told' \in [Starts -> {None, "relay", "server"}]
        BY <4>1 DEF TypeOK
      <4> QED
        BY <4>1, <4>2, CleansUpType
    <3> QED
      BY <3>1, <3>2
  <2>14. ASSUME NEW s \in Starts, Killed(s) PROVE TypeOK'
    BY <2>14, FailsType DEF Killed, Crashes
  <2>15. ASSUME NEW s \in Starts, Polled(s) PROVE TypeOK'
    BY <2>15 DEF Polled, ParentStep, Verdict, Reasons, TypeOK
  <2>16. ASSUME NEW s \in Starts, ParentConnects(s) PROVE TypeOK'
    BY <2>16, TypeOfAssumption DEF ParentConnects, ParentStep, TypeOK
  <2>17. ASSUME NEW s \in Starts, ParentAnswered(s) PROVE TypeOK'
    BY <2>17 DEF ParentAnswered, ParentStep, TypeOK
  <2>18. ASSUME NEW s \in Starts, ParentClosed(s) PROVE TypeOK'
    BY <2>18 DEF ParentClosed, ParentStep, TypeOK
  <2>19. ASSUME NEW u \in Stops, StopLooks(u) PROVE TypeOK'
    BY <2>19 DEF StopLooks, Types, TypeOK
  <2>20. ASSUME NEW u \in Stops, StopConnects(u) PROVE TypeOK'
    <3> DEFINE d == path[stop[u]]
    <3>1. d \in Starts \cup {None}
      BY <2>20 DEF StopConnects, TypeOK
    <3> HIDE DEF d
    <3>2. \/ d \in Starts /\ stop' = [stop EXCEPT ![u] = "asking"] /\ asked' = [asked EXCEPT ![u] = d]
          \/ stop' = [stop EXCEPT ![u] = "unconnected"] /\ asked' = asked
      BY <2>20, <3>1 DEF StopConnects, d, TypeOK
    <3>3. UNCHANGED <<child, parent, status, told, port, listener, servedBy, path>>
      BY <2>20 DEF StopConnects, TypeOK
    <3>4. stop' \in [Stops -> Types \cup {"off", "no daemon", "unconnected",
                                           "asking", "told", "closed"}]
      BY <3>2 DEF TypeOK
    <3>5. asked' \in [Starts \cup Stops -> Starts \cup {None}]
      BY <3>2 DEF TypeOK
    <3> QED
      BY <3>3, <3>4, <3>5 DEF TypeOK
  <2>21. ASSUME NEW u \in Stops, StopHandled(u) PROVE TypeOK'
    BY <2>21 DEF StopHandled, TypeOK
  <2> QED
    BY <2>1, <2>2, <2>3, <2>4, <2>5, <2>6, <2>7, <2>8, <2>9, <2>10, <2>11, <2>12, <2>13,
       <2>14, <2>15, <2>16, <2>17, <2>18, <2>19, <2>20, <2>21, StepCases
<1> QED
  BY <1>1, <1>2, PTL DEF Spec

-----------------------------------------------------------------------------
(* What a step may do to a daemon, to what is reported of it and to what it *)
(* holds: all that the invariants need to know of the actions.              *)

ChildMoves ==
    \A s \in Starts :
        /\ child'[s] = "off" => child[s] = "off"
        /\ child[s] = "failed" => child'[s] = "failed"
        /\ child[s] \in {"running", "exited"} => child'[s] \in {"running", "exited", "failed"}

StatusMoves ==
    \A s \in Starts :
        \/ status'[s] \in {status[s], "zero"}
        \/ status'[s] = "ok" /\ child'[s] = "running"
        \/ status'[s] \in {"errno", "overflow"} /\ child'[s] = "failed"

\* what connect_usock comes to
Sought(s) ==
    LET d == path[TypeOf[s]] IN IF d # None /\ Hears(d) THEN "asking" ELSE "unconnected"

ParentMoves ==
    \A s \in Starts :
        \/ parent'[s] = parent[s]
        \/ parent[s] = "polling" /\ parent'[s] = Verdict(status[s])
        \/ parent[s] = "connecting" /\ parent'[s] = Sought(s)
        \/ parent[s] \in {"off", "asking"} /\ parent'[s] \in {"polling", "done", "closed"}

\* the path of a type changes by a daemon of it, as it starts or cleans up
PathMoves ==
    \A t \in Types :
        \/ path'[t] = path[t]
        \/ \E x \in Starts :
              /\ TypeOf[x] = t
              /\ \/ child[x] = "net" /\ child'[x] = "unlinked"
                 \/ /\ child[x] = "unlinked" /\ child'[x] = "bound"
                    /\ path[t] = None /\ path'[t] = x
                 \/ child[x] = "running" /\ child'[x] = "exited"

BoundMoves ==
    \A s \in Starts :
        child'[s] \in {"bound", "listening", "running"}
            => child[s] \in {"bound", "listening", "running"} \/ path'[TypeOf[s]] = s

PortMoves ==
    /\ port' = port
    /\ \A s \in Starts :
          TypeOf[s] = "server" /\ child'[s] \in Starting
              => child[s] \in Starting \/ listener'[port[s]] = s
    /\ \A p \in Ports :
          \/ listener'[p] = listener[p]
          \/ listener[p] = None
          \/ child'[listener[p]] \notin Starting

Moves ==
    ChildMoves /\ StatusMoves /\ ParentMoves /\ PathMoves /\ BoundMoves /\ PortMoves

\* The end of a daemon that reports its errno only where it fails.
LEMMA EndsMoves ==
    ASSUME TypeOK, NEW s \in Starts, NEW how \in {"exited", "failed"}, NEW reports \in BOOLEAN,
           Ends(s, how, reports), Alive(s), reports => how = "failed",
           \/ path' = path
           \/ how = "exited" /\ child[s] = "running" /\ path' = [path EXCEPT ![TypeOf[s]] = None]
    PROVE  Moves
<1>1. ChildMoves
  BY DEF Ends, TypeOK, Alive, ChildMoves
<1>2. StatusMoves
  BY DEF Ends, TypeOK, StatusMoves, WithErrno
<1>3. ParentMoves
  BY DEF Ends, ParentMoves
<1>4. PathMoves
  BY DEF Ends, TypeOK, PathMoves
<1>5. BoundMoves
  BY DEF Ends, TypeOK, BoundMoves
<1>6. PortMoves
  BY DEF Ends, TypeOK, PortMoves, Starting
<1> QED
  BY <1>1, <1>2, <1>3, <1>4, <1>5, <1>6 DEF Moves

\* errors and signals
LEMMA FailsMoves ==
    ASSUME TypeOK, NEW s \in Starts, Alive(s), Fails(s) \/ Crashes(s) PROVE Moves
<1>1. \E r \in BOOLEAN : Ends(s, "failed", r) /\ path' = path
  BY DEF Fails, Crashes
<1> QED
  BY <1>1, EndsMoves

\* cleanup, with its file or without
LEMMA CleansUpMoves ==
    ASSUME TypeOK, NEW s \in Starts, child[s] = "running", CleansUp(s) PROVE Moves
<1>1. Alive(s)
  BY DEF Alive
<1>2. CASE path[TypeOf[s]] = None
  <2>1. path' = path
    BY <1>2 DEF CleansUp, TypeOK
  <2>2. Ends(s, "failed", TRUE)
    BY <1>2 DEF CleansUp
  <2> QED
    BY <1>1, <2>1, <2>2, EndsMoves
<1>3. CASE path[TypeOf[s]] # None
  <2>1. Ends(s, "exited", FALSE) /\ path' = [path EXCEPT ![TypeOf[s]] = None]
    BY <1>3 DEF CleansUp
  <2> QED
    BY <1>1, <2>1, EndsMoves
<1> QED
  BY <1>2, <1>3

\* Every action is such a move.
LEMMA StepMoves == ASSUME TypeOK, Next PROVE Moves
<1>1. ASSUME NEW s \in Starts, Fork(s) PROVE Moves
  <2>1. ChildMoves /\ StatusMoves /\ ParentMoves
    BY <1>1 DEF Fork, Step, TypeOK, ChildMoves, StatusMoves, ParentMoves
  <2>2. PathMoves /\ BoundMoves
    BY <1>1 DEF Fork, Step, TypeOK, PathMoves, BoundMoves
  <2>3. PortMoves
    BY <1>1 DEF Fork, Step, TypeOK, PortMoves, Starting
  <2> QED
    BY <2>1, <2>2, <2>3 DEF Moves
<1>2. ASSUME NEW s \in Starts, Named(s) PROVE Moves
  <2>1. CASE Fails(s)
    <3>1. Alive(s)
      BY <1>2 DEF Named, Step, Alive
    <3> QED
      BY <2>1, <3>1, FailsMoves
  <2>2. CASE ~Fails(s)
    <3>1. ChildMoves /\ StatusMoves /\ ParentMoves
      BY <1>2, <2>2 DEF Named, Step, TypeOK, ChildMoves, StatusMoves, ParentMoves
    <3>2. PathMoves /\ BoundMoves
      BY <1>2, <2>2 DEF Named, Step, TypeOK, PathMoves, BoundMoves
    <3>3. PortMoves
      BY <1>2, <2>2 DEF Named, Step, TypeOK, PortMoves, Starting
    <3> QED
      BY <3>1, <3>2, <3>3 DEF Moves
  <2> QED
    BY <2>1, <2>2
<1>3. ASSUME NEW s \in Starts, Listens(s) PROVE Moves
  <2>1. CASE Fails(s)
    <3>1. Alive(s)
      BY <1>3 DEF Listens, Step, Alive
    <3> QED
      BY <2>1, <3>1, FailsMoves
  <2>2. CASE ~Fails(s)
    <3>1. ChildMoves /\ StatusMoves /\ ParentMoves
      BY <1>3, <2>2 DEF Listens, Step, TypeOK, ChildMoves, StatusMoves, ParentMoves
    <3>2. PathMoves /\ BoundMoves
      BY <1>3, <2>2 DEF Listens, Step, TypeOK, PathMoves, BoundMoves
    <3>3. PortMoves
      <4>1. /\ child[s] = "named" /\ child' = [child EXCEPT ![s] = "net"]
            /\ listener[port[s]] = None /\ listener' = [listener EXCEPT ![port[s]] = s]
            /\ port' = port /\ port[s] \in Ports
        BY <1>3, <2>2 DEF Listens, Step, TypeOK
      <4>2. child = [x \in Starts |-> child[x]] /\ listener \in [Ports -> Starts \cup {None}]
        BY DEF TypeOK
      <4> QED
        BY <4>1, <4>2 DEF PortMoves, Starting
    <3> QED
      BY <3>1, <3>2, <3>3 DEF Moves
  <2> QED
    BY <2>1, <2>2
<1>4. ASSUME NEW s \in Starts, Connects(s) PROVE Moves
  <2>1. CASE Fails(s)
    <3>1. Alive(s)
      BY <1>4 DEF Connects, Step, Alive
    <3> QED
      BY <2>1, <3>1, FailsMoves
  <2>2. CASE ~Fails(s)
    <3>1. ChildMoves /\ StatusMoves /\ ParentMoves
      BY <1>4, <2>2 DEF Connects, Step, TypeOK, ChildMoves, StatusMoves, ParentMoves
    <3>2. PathMoves /\ BoundMoves
      BY <1>4, <2>2 DEF Connects, Step, TypeOK, PathMoves, BoundMoves
    <3>3. PortMoves
      BY <1>4, <2>2 DEF Connects, Step, TypeOK, PortMoves, Starting
    <3> QED
      BY <3>1, <3>2, <3>3 DEF Moves
  <2> QED
    BY <2>1, <2>2
<1>5. ASSUME NEW s \in Starts, Unlinks(s) PROVE Moves
  <2>1. ChildMoves /\ StatusMoves /\ ParentMoves
    BY <1>5 DEF Unlinks, MayUnlink, TypeOK, ChildMoves, StatusMoves, ParentMoves
  <2>2. PathMoves /\ BoundMoves
    BY <1>5 DEF Unlinks, MayUnlink, TypeOK, PathMoves, BoundMoves
  <2>3. PortMoves
    BY <1>5 DEF Unlinks, MayUnlink, TypeOK, PortMoves, Starting
  <2> QED
    BY <2>1, <2>2, <2>3 DEF Moves
<1>6. ASSUME NEW s \in Starts, Binds(s) PROVE Moves
  <2>1. CASE Fails(s)
    <3>1. Alive(s)
      BY <1>6 DEF Binds, Step, Alive
    <3> QED
      BY <2>1, <3>1, FailsMoves
  <2>2. CASE ~Fails(s)
    <3>1. /\ child[s] = "unlinked" /\ child' = [child EXCEPT ![s] = "bound"]
          /\ path' = [path EXCEPT ![TypeOf[s]] = s]
          /\ path[TypeOf[s]] = None
          /\ UNCHANGED <<parent, status, port, listener>>
      BY <1>6, <2>2 DEF Binds, Step
    <3>2. ChildMoves /\ StatusMoves /\ ParentMoves
      BY <3>1 DEF TypeOK, ChildMoves, StatusMoves, ParentMoves
    <3>3. PathMoves
      BY <3>1 DEF TypeOK, PathMoves
    <3>4. BoundMoves /\ PortMoves
      BY <3>1, TypeOfAssumption DEF TypeOK, BoundMoves, PortMoves, Starting
    <3> QED
      BY <3>2, <3>3, <3>4 DEF Moves
  <2> QED
    BY <2>1, <2>2
<1>7. ASSUME NEW s \in Starts, ListensLocally(s) PROVE Moves
  <2>1. ChildMoves /\ StatusMoves /\ ParentMoves
    BY <1>7 DEF ListensLocally, Step, TypeOK, ChildMoves, StatusMoves, ParentMoves
  <2>2. PathMoves /\ BoundMoves
    BY <1>7 DEF ListensLocally, Step, TypeOK, PathMoves, BoundMoves
  <2>3. PortMoves
    BY <1>7 DEF ListensLocally, Step, TypeOK, PortMoves, Starting
  <2> QED
    BY <2>1, <2>2, <2>3 DEF Moves
<1>8. ASSUME NEW s \in Starts, Reports(s) PROVE Moves
  <2>1. ChildMoves /\ StatusMoves /\ ParentMoves
    BY <1>8 DEF Reports, Step, TypeOK, ChildMoves, StatusMoves, ParentMoves
  <2>2. PathMoves /\ BoundMoves
    BY <1>8 DEF Reports, Step, TypeOK, PathMoves, BoundMoves
  <2>3. PortMoves
    BY <1>8 DEF Reports, Step, TypeOK, PortMoves, Starting
  <2> QED
    BY <2>1, <2>2, <2>3 DEF Moves
<1>9. ASSUME NEW s \in Starts, DeviceFails(s) PROVE Moves
  BY <1>9, FailsMoves DEF DeviceFails, Alive
<1>10. ASSUME NEW s \in Starts, Accepts(s) PROVE Moves
  <2>1. ChildMoves /\ StatusMoves /\ ParentMoves
    BY <1>10 DEF Accepts, TypeOK, ChildMoves, StatusMoves, ParentMoves
  <2>2. PathMoves /\ BoundMoves
    BY <1>10 DEF Accepts, TypeOK, PathMoves, BoundMoves
  <2>3. PortMoves
    BY <1>10 DEF Accepts, TypeOK, PortMoves, Starting
  <2> QED
    BY <2>1, <2>2, <2>3 DEF Moves
<1>11. ASSUME NEW s \in Starts, NEW c \in Starts, ClientGone(s, c) PROVE Moves
  <2>0. /\ child[s] = "running" /\ UNCHANGED <<parent, port, path>>
        /\ \/ UNCHANGED <<child, status, listener>>
           \/ /\ listener[port[s]] = None /\ listener' = [listener EXCEPT ![port[s]] = s]
              /\ UNCHANGED <<child, status>>
           \/ /\ child' = [child EXCEPT ![s] = "failed"]
              /\ status' = [status EXCEPT ![s] = WithErrno(@)]
              /\ listener' = listener
    BY <1>11 DEF ClientGone
  <2>1. ChildMoves /\ StatusMoves /\ ParentMoves
    <3>1. ChildMoves
      BY <2>0 DEF TypeOK, ChildMoves
    <3>2. StatusMoves
      BY <2>0 DEF WithErrno, TypeOK, StatusMoves
    <3>3. ParentMoves
      BY <2>0 DEF ParentMoves
    <3> QED
      BY <3>1, <3>2, <3>3
  <2>2. PathMoves /\ BoundMoves
    BY <2>0 DEF TypeOK, PathMoves, BoundMoves
  <2>3. PortMoves
    BY <2>0 DEF TypeOK, PortMoves, Starting
  <2> QED
    BY <2>1, <2>2, <2>3 DEF Moves
<1>12. ASSUME NEW s \in Starts, ServerStops(s) PROVE Moves
  <2>1. child[s] = "running" /\ Alive(s) /\ (CleansUp(s) \/ Crashes(s))
    BY <1>12 DEF ServerStops, Alive
  <2> QED
    BY <2>1, FailsMoves, CleansUpMoves
<1>13. ASSUME NEW s \in Starts, ClientStops(s) PROVE Moves
  <2>1. child[s] = "running" /\ Alive(s) /\ (CleansUp(s) \/ Crashes(s))
    BY <1>13 DEF ClientStops, Alive
  <2> QED
    BY <2>1, FailsMoves, CleansUpMoves
<1>14. ASSUME NEW s \in Starts, Killed(s) PROVE Moves
  BY <1>14, FailsMoves DEF Killed, Crashes
<1>15. ASSUME NEW s \in Starts, Polled(s) PROVE Moves
  BY <1>15 DEF Polled, ParentStep, TypeOK, Moves, ChildMoves, StatusMoves, ParentMoves,
       PathMoves, BoundMoves, PortMoves, Starting
<1>16. ASSUME NEW s \in Starts, ParentConnects(s) PROVE Moves
  BY <1>16 DEF ParentConnects, ParentStep, Sought, TypeOK, Moves, ChildMoves, StatusMoves,
       ParentMoves, PathMoves, BoundMoves, PortMoves, Starting
<1>17. ASSUME NEW s \in Starts, ParentAnswered(s) PROVE Moves
  BY <1>17 DEF ParentAnswered, ParentStep, TypeOK, Moves, ChildMoves, StatusMoves,
       ParentMoves, PathMoves, BoundMoves, PortMoves, Starting
<1>18. ASSUME NEW s \in Starts, ParentClosed(s) PROVE Moves
  BY <1>18 DEF ParentClosed, ParentStep, TypeOK, Moves, ChildMoves, StatusMoves,
       ParentMoves, PathMoves, BoundMoves, PortMoves, Starting
<1>19. ASSUME NEW u \in Stops, StopLooks(u) PROVE Moves
  BY <1>19 DEF StopLooks, Moves, ChildMoves, StatusMoves, ParentMoves, PathMoves,
       BoundMoves, PortMoves, Starting
<1>20. ASSUME NEW u \in Stops, StopConnects(u) PROVE Moves
  BY <1>20 DEF StopConnects, Moves, ChildMoves, StatusMoves, ParentMoves, PathMoves,
       BoundMoves, PortMoves, Starting
<1>21. ASSUME NEW u \in Stops, StopHandled(u) PROVE Moves
  BY <1>21 DEF StopHandled, Moves, ChildMoves, StatusMoves, ParentMoves, PathMoves,
       BoundMoves, PortMoves, Starting
<1> QED
  BY <1>1, <1>2, <1>3, <1>4, <1>5, <1>6, <1>7, <1>8, <1>9, <1>10, <1>11, <1>12, <1>13,
       <1>14, <1>15, <1>16, <1>17, <1>18, <1>19, <1>20, <1>21, StepCases

-----------------------------------------------------------------------------
\* Every conjunct is inductive with those before it.
IInv == TypeOK /\ StatusInv /\ ErrorIsTrue /\ PathInv /\ PortInv

\* The inductive invariant holds.
LEMMA IInvCorrect == Spec => []IInv
<1>1. Init => StatusInv /\ ErrorIsTrue /\ PathInv /\ PortInv
  BY DEF Init, StatusInv, ErrorIsTrue, PathInv, PortInv, Starting
<1>2. TypeOK /\ StatusInv /\ ErrorIsTrue /\ PathInv /\ PortInv /\ [Next]_vars
         => (StatusInv /\ ErrorIsTrue /\ PathInv /\ PortInv)'
  <2> SUFFICES ASSUME TypeOK, StatusInv, ErrorIsTrue, PathInv, PortInv, [Next]_vars
               PROVE  (StatusInv /\ ErrorIsTrue /\ PathInv /\ PortInv)'
    OBVIOUS
  <2>1. CASE UNCHANGED vars
    BY <2>1 DEF vars, StatusInv, ErrorIsTrue, PathInv, PortInv, Alone, Starting
  <2>2. CASE Next
    <3>1. Moves
      BY <2>2, StepMoves
    <3>2. StatusInv'
      BY <3>1 DEF Moves, ChildMoves, StatusMoves, ParentMoves, StatusInv, Verdict, Sought, TypeOK
    <3>3. ErrorIsTrue'
      BY <3>1 DEF Moves, ChildMoves, ParentMoves, StatusInv, ErrorIsTrue, Verdict, Sought, TypeOK
    <3>4. PathInv'
      <4> SUFFICES ASSUME NEW s \in Starts,
                          child'[s] \in {"bound", "listening", "running"}, Alone(s)'
                   PROVE  path'[TypeOf[s]] = s
        BY DEF PathInv
      <4>1. CASE child[s] \notin {"bound", "listening", "running"}
        BY <3>1, <4>1 DEF Moves, BoundMoves
      <4>2. CASE child[s] \in {"bound", "listening", "running"}
        <5>1. Alone(s)
          BY <3>1 DEF Moves, ChildMoves, Alone
        <5>2. path[TypeOf[s]] = s
          BY <4>2, <5>1 DEF PathInv
        <5>3. \A x \in Starts : TypeOf[x] = TypeOf[s] /\ child[x] # "off" => x = s
          BY <5>1 DEF Alone
        <5> QED
          BY <3>1, <4>2, <5>2, <5>3, TypeOfAssumption DEF Moves, PathMoves
      <4> QED
        BY <4>1, <4>2
    <3>5. PortInv'
      <4> SUFFICES ASSUME NEW s \in Starts, TypeOf[s] = "server", child'[s] \in Starting
                   PROVE  listener'[port'[s]] = s
        BY DEF PortInv
      <4>1. s # None /\ port[s] \in Ports
        BY StartsAssumption DEF None, TypeOK
      <4> QED
        BY <3>1, <4>1 DEF Moves, PortMoves, PortInv
    <3> QED
      BY <3>2, <3>3, <3>4, <3>5
  <2> QED
    BY <2>1, <2>2
<1> QED
  BY <1>1, <1>2, TypeCorrect, PTL DEF Spec, IInv

\* An errno that "cannot start daemon because [...]" prints is that of a daemon that
\* has failed, whatever the eventfd has added up; the ETIMEDOUT that stands for
\* nothing read is none (check_daemon_status).
THEOREM ErrorsAreTrue == Spec => []ErrorIsTrue
  BY IInvCorrect, PTL DEF IInv

\* What is reported as started can be reached: between listen() and the end of a
\* daemon its path leads to it, if no other of its type was started.
THEOREM DaemonFound == Spec => ConnectFindsDaemon
<1> DEFINE Found ==
       \A s \in Starts : parent[s] = "connecting" /\ parent'[s] = "unconnected" =>
          \/ ~Alive(s)
          \/ \E x \in Starts \ {s} : TypeOf[x] = TypeOf[s] /\ child[x] # "off"
<1>1. IInv /\ [Next]_vars => [Found]_vars
  <2> SUFFICES ASSUME IInv, Next, NEW s \in Starts,
                      parent[s] = "connecting", parent'[s] = "unconnected", Alive(s), Alone(s)
               PROVE  FALSE
    BY DEF Alone
  <2>1. child[s] = "running" /\ path[TypeOf[s]] = s
    BY DEF IInv, StatusInv, PathInv, Alive
  <2>2. s # None /\ Hears(s)
    BY <2>1, StartsAssumption DEF None, Hears
  <2>3. ParentMoves
    BY StepMoves DEF IInv, Moves
  <2> QED
    BY <2>1, <2>2, <2>3 DEF ParentMoves, Sought
<1>2. [][Found]_vars => ConnectFindsDaemon
  BY DEF ConnectFindsDaemon, Found
<1> QED
  BY <1>1, <1>2, IInvCorrect, PTL DEF Spec

\* While a server runs and listens no start on its port takes its unix socket:
\* whoever removes or replaces a server's file has a port of its own by then.
THEOREM PathIsKept == Spec => PathKept
<1> DEFINE Kept ==
       \A d \in Starts :
          path["server"] = d /\ child[d] = "running" /\ listener[port[d]] = d
          => \/ path'["server"] = d
             \/ \E x \in Starts :
                   /\ TypeOf[x] = "server"
                   /\ \/ child[x] = "running" /\ child'[x] = "exited"
                      \/ child[x] = "net" /\ port[x] # port[d]
<1>1. IInv /\ [Next]_vars => [Kept]_vars
  <2> SUFFICES ASSUME IInv, Next, NEW d \in Starts,
                      path["server"] = d, child[d] = "running", listener[port[d]] = d,
                      path'["server"] # d
               PROVE  \E x \in Starts :
                         /\ TypeOf[x] = "server"
                         /\ \/ child[x] = "running" /\ child'[x] = "exited"
                            \/ child[x] = "net" /\ port[x] # port[d]
    OBVIOUS
  <2>1. PathMoves
    BY StepMoves DEF IInv, Moves
  <2>2. d # None
    BY StartsAssumption DEF None
  <2>3. \A x \in Starts : TypeOf[x] = "server" /\ child[x] = "net" => port[x] # port[d]
    BY DEF IInv, PortInv, Starting
  <2> QED
    BY <2>1, <2>2, <2>3 DEF PathMoves, Types
<1>2. [][Kept]_vars => PathKept
  BY DEF PathKept, Kept
<1> QED
  BY <1>1, <1>2, IInvCorrect, PTL DEF Spec
=============================================================================
