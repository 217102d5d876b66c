--------------------------- MODULE RcnSessionProofs ---------------------------
(***************************************************************************)
(* The server serves one client at a time: what ListeningIsFresh and       *)
(* ImplementsSession of RcnDaemon say, for any number of clients, devices  *)
(* and relays, if no client is stopped by two relays.                      *)
(***************************************************************************)
EXTENDS RcnTrafficProofs

-----------------------------------------------------------------------------
(* Devices come before the stop.  P is the pipe from a client to the       *)
(* server, Q the queue behind it, f the message the server reads or has    *)
(* read; K are the devices the client captures.                            *)

NoStop(q)    == \A i \in DOMAIN q : ~IsStop(q[i].msg)
NoCrt(q)     == \A i \in DOMAIN q : ~IsCrt(q[i].msg)
OneStop(q)   == \A i, j \in DOMAIN q : IsStop(q[i].msg) /\ IsStop(q[j].msg) => i = j
CrtsFirst(q) == \A i, j \in DOMAIN q : i < j => ~(IsStop(q[i].msg) /\ IsCrt(q[j].msg))

\* a stop that is in the queue has been written already
StopWritten(q) == \A i \in DOMAIN q : IsStop(q[i].msg) => q[i].state = "COMPLETE"

\* a device is one of K, and a stop is that and nothing else
Fit(m, K) == (IsCrt(m) => m.dev \in K) /\ (IsStop(m) => m = Msg("PEER_STOP"))

\* there is one stop at most, but for the copy of it that is being written, and no
\* device after it
Orderly(f, P, Q, K) ==
    /\ OneStop(P) /\ OneStop(Q) /\ CrtsFirst(P) /\ CrtsFirst(Q)
    /\ IsStop(f) => NoStop(P) /\ NoCrt(P)
    /\ IsStop(f) \/ ~NoStop(P) => NoCrt(Q) /\ StopWritten(Q)
    /\ Fit(f, K) /\ (\A i \in DOMAIN P : Fit(P[i].msg, K)) /\ \A i \in DOMAIN Q : Fit(Q[i].msg, K)

\* neither a device nor a stop is to come
Harmless(f, P, Q) ==
    /\ ~IsStop(f) /\ ~IsCrt(f) /\ NoCrt(P) /\ NoCrt(Q) /\ NoStop(P) /\ StopWritten(Q)

\* lengths and places in a pipe and in a queue
LEMMA PlacesLemma ==
  ASSUME NEW S, NEW q \in Seq(S)
  PROVE  /\ Len(q) \in Nat /\ DOMAIN q = 1..Len(q)
         /\ q # <<>> => /\ DOMAIN Tail(q) = 1..(Len(q) - 1) /\ 1 \in DOMAIN q /\ Head(q) = q[1]
                        /\ \A i \in 1..(Len(q) - 1) : Tail(q)[i] = q[i + 1] /\ i + 1 \in DOMAIN q
  OBVIOUS

\* what is left of a list of messages
LEMMA TailParting ==
  ASSUME NEW S, NEW q \in Seq(S), q # <<>>, NEW K
  PROVE  LET t == Tail(q)
         IN  /\ NoStop(q) => NoStop(t)
             /\ NoCrt(q) => NoCrt(t)
             /\ OneStop(q) => OneStop(t)
             /\ CrtsFirst(q) => CrtsFirst(t)
             /\ StopWritten(q) => StopWritten(t)
             /\ (\A i \in DOMAIN q : Fit(q[i].msg, K)) => \A i \in DOMAIN t : Fit(t[i].msg, K)
             /\ OneStop(q) /\ CrtsFirst(q) /\ IsStop(Head(q).msg) => NoStop(t) /\ NoCrt(t)
             /\ IsStop(Head(q).msg) => ~NoStop(q)
  <1> DEFINE t == Tail(q)
             n == Len(q)
  <1>1. /\ n \in Nat /\ DOMAIN q = 1..n /\ DOMAIN t = 1..(n - 1) /\ 1 \in DOMAIN q /\ Head(q) = q[1]
        /\ \A i \in 1..(n - 1) : t[i] = q[i + 1] /\ i + 1 \in DOMAIN q
    BY PlacesLemma
  <1> HIDE DEF t, n
  <1>2. OneStop(q) => OneStop(t)
    <2> SUFFICES ASSUME OneStop(q), NEW i \in 1..(n - 1), NEW j \in 1..(n - 1),
                        IsStop(t[i].msg), IsStop(t[j].msg)
                 PROVE  i = j
      BY <1>1 DEF OneStop
    <2>1. i + 1 = j + 1
      BY <1>1 DEF OneStop
    <2> QED BY <2>1
  <1>3. CrtsFirst(q) => CrtsFirst(t)
    <2> SUFFICES ASSUME CrtsFirst(q), NEW i \in 1..(n - 1), NEW j \in 1..(n - 1), i < j
                 PROVE  ~(IsStop(t[i].msg) /\ IsCrt(t[j].msg))
      BY <1>1 DEF CrtsFirst
    <2>1. i + 1 < j + 1
      OBVIOUS
    <2> QED BY <1>1, <2>1 DEF CrtsFirst
  <1>4. ASSUME OneStop(q), CrtsFirst(q), IsStop(Head(q).msg) PROVE NoStop(t) /\ NoCrt(t)
    <2> SUFFICES ASSUME NEW i \in 1..(n - 1) PROVE ~IsStop(t[i].msg) /\ ~IsCrt(t[i].msg)
      BY <1>1 DEF NoStop, NoCrt
    <2>1. i + 1 # 1 /\ 1 < i + 1
      OBVIOUS
    <2> QED BY <1>1, <1>4, <2>1 DEF OneStop, CrtsFirst
  <1> QED BY <1>1, <1>2, <1>3, <1>4 DEF NoStop, NoCrt, StopWritten, t

\* reading takes the oldest
LEMMA HeardOrderly ==
  ASSUME NEW S, NEW P \in Seq(S), P # <<>>, NEW f, NEW Q, NEW K
  PROVE  /\ Orderly(f, P, Q, K) => Orderly(Head(P).msg, Tail(P), Q, K)
         /\ Harmless(f, P, Q) => Harmless(Head(P).msg, Tail(P), Q)
  <1>1. 1 \in DOMAIN P /\ Head(P) = P[1]
    BY PlacesLemma
  <1>2. ASSUME Orderly(f, P, Q, K) PROVE Orderly(Head(P).msg, Tail(P), Q, K)
    BY <1>1, <1>2, TailParting DEF Orderly
  <1>3. ASSUME Harmless(f, P, Q) PROVE Harmless(Head(P).msg, Tail(P), Q)
    BY <1>1, <1>3, TailParting DEF Harmless, NoStop, NoCrt
  <1> QED BY <1>2, <1>3

\* what is lost, read by nobody, or collected after it was written is missed by nobody,
LEMMA LostOrderly ==
  ASSUME NEW S, NEW P \in Seq(S), NEW T, NEW Q \in Seq(T), NEW f, NEW K, NEW g, NEW R, NEW V,
         g = f \/ ~(IsStop(g) \/ IsCrt(g)),
         R = P \/ R = <<>> \/ (P # <<>> /\ R = Tail(P)),
         V = Q \/ V = <<>> \/ (Q # <<>> /\ V = Tail(Q))
  PROVE  /\ Orderly(f, P, Q, K) => Orderly(g, R, V, K)
         /\ Harmless(f, P, Q) => Harmless(g, R, V)
  <1>1. /\ OneStop(<<>>) /\ CrtsFirst(<<>>) /\ NoStop(<<>>) /\ NoCrt(<<>>) /\ StopWritten(<<>>)
        /\ \A i \in DOMAIN <<>> : FALSE
    BY DEF OneStop, CrtsFirst, NoStop, NoCrt, StopWritten
  <1>2. /\ NoStop(P) => NoStop(R)
        /\ NoCrt(P) => NoCrt(R)
        /\ OneStop(P) => OneStop(R)
        /\ CrtsFirst(P) => CrtsFirst(R)
        /\ (\A i \in DOMAIN P : Fit(P[i].msg, K)) => \A i \in DOMAIN R : Fit(R[i].msg, K)
    <2>1. CASE R = P
      BY <2>1
    <2>2. CASE R = <<>>
      BY <1>1, <2>2
    <2>3. CASE P # <<>> /\ R = Tail(P)
      BY <2>3, TailParting
    <2> QED BY <2>1, <2>2, <2>3
  <1>3. /\ NoCrt(Q) => NoCrt(V)
        /\ OneStop(Q) => OneStop(V)
        /\ CrtsFirst(Q) => CrtsFirst(V)
        /\ StopWritten(Q) => StopWritten(V)
        /\ (\A i \in DOMAIN Q : Fit(Q[i].msg, K)) => \A i \in DOMAIN V : Fit(V[i].msg, K)
    <2>1. CASE V = Q
      BY <2>1
    <2>2. CASE V = <<>>
      BY <1>1, <2>2
    <2>3. CASE Q # <<>> /\ V = Tail(Q)
      BY <2>3, TailParting
    <2> QED BY <2>1, <2>2, <2>3
  <1>4. g = f \/ (~IsStop(g) /\ Fit(g, K))
    BY DEF Fit
  <1>5. ASSUME Orderly(f, P, Q, K) PROVE Orderly(g, R, V, K)
    BY <1>2, <1>3, <1>4, <1>5 DEF Orderly
  <1>6. ASSUME Harmless(f, P, Q) PROVE Harmless(g, R, V)
    BY <1>2, <1>3, <1>6 DEF Harmless
  <1> QED BY <1>5, <1>6

\* a piece of the first item is written, to the pipe or to nobody: a stop has one piece,
LEMMA WrittenOrderly ==
  ASSUME NEW P \in Seq(Pieces), NEW Q \in Seq(Waits), NEW f, NEW K, NEW R, NEW V,
         Q # <<>>, Q[1].state # "COMPLETE", V = <<>> \/ (V \in Seq(Waits) /\ Ahead(Q, V)),
         R = Append(P, Unit(Q[1])) \/ R = P
  PROVE  /\ Orderly(f, P, Q, K) => Orderly(f, R, V, K)
         /\ Harmless(f, P, Q) => Harmless(f, R, V)
  <1> DEFINE n == Len(P)
             l == Len(Q)
             m == Q[1].msg
  <1>1. n \in Nat /\ DOMAIN P = 1..n /\ l \in Nat /\ DOMAIN Q = 1..l /\ 1 \in 1..l
    BY PlacesLemma
  <1>2. Q[1] \in Waits
    BY HeadsLemma
  <1>3. ASSUME V # <<>>
        PROVE  /\ DOMAIN V = 1..l /\ \A i \in 1..l : V[i].msg = Q[i].msg
               /\ \A i \in 1..l : i # 1 => V[i] = Q[i]
               /\ m = Msg("PEER_STOP") => V[1].state = "COMPLETE"
    <2>1. V \in Seq(Waits) /\ Ahead(Q, V)
      BY <1>3
    <2>2. DOMAIN V = 1..l
      BY <2>1 DEF Ahead
    <2>3. V[1].msg = Q[1].msg
      BY <2>1, AheadText
    <2>4. ASSUME m = Msg("PEER_STOP") PROVE V[1].state = "COMPLETE"
      <3>1. ~HasBody(m)
        BY <2>4 DEF HasBody, Msg
      <3>2. V[1] = [Q[1] EXCEPT !.state = "COMPLETE"]
        BY <2>1, <3>1 DEF Ahead, Streamed
      <3> QED BY <1>2, <3>2 DEF Waits
    <2> QED BY <1>1, <2>1, <2>2, <2>3, <2>4 DEF Ahead
  <1>4. /\ NoCrt(Q) => NoCrt(V)
        /\ OneStop(Q) => OneStop(V)
        /\ CrtsFirst(Q) => CrtsFirst(V)
        /\ (\A i \in DOMAIN Q : Fit(Q[i].msg, K)) => \A i \in DOMAIN V : Fit(V[i].msg, K)
    <2>1. CASE V = <<>>
      BY <2>1 DEF NoCrt, OneStop, CrtsFirst
    <2>2. CASE V # <<>>
      BY <1>1, <1>3, <2>2 DEF NoCrt, OneStop, CrtsFirst
    <2> QED BY <2>1, <2>2
  <1>5. /\ StopWritten(Q) => ~IsStop(m) /\ StopWritten(V)
        /\ IsStop(m) /\ Fit(m, K) /\ OneStop(Q) => StopWritten(V)
    <2>1. StopWritten(Q) => ~IsStop(m)
      BY <1>1 DEF StopWritten
    <2>2. CASE V = <<>>
      BY <2>1, <2>2 DEF StopWritten
    <2>3. CASE V # <<>>
      <3>1. ASSUME StopWritten(Q) PROVE StopWritten(V)
        BY <1>1, <1>3, <2>1, <2>3, <3>1 DEF StopWritten
      <3>2. ASSUME IsStop(m), Fit(m, K), OneStop(Q) PROVE StopWritten(V)
        BY <1>1, <1>3, <2>3, <3>2 DEF StopWritten, OneStop, Fit
      <3> QED BY <2>1, <3>1, <3>2
    <2> QED BY <2>2, <2>3
  <1>6. IsStop(m) /\ CrtsFirst(Q) => NoCrt(Q)
    <2>1. \A j \in 1..l : j # 1 => 1 < j
      BY <1>1
    <2> QED BY <1>1, <2>1 DEF CrtsFirst, NoCrt, IsStop, IsCrt
  <1>7. NoCrt(Q) => ~IsCrt(m)
    BY <1>1 DEF NoCrt
  <1>8. ASSUME R # P
        PROVE  /\ NoStop(R) <=> NoStop(P) /\ ~IsStop(m)
               /\ NoCrt(P) /\ ~IsCrt(m) => NoCrt(R)
               /\ OneStop(P) /\ (IsStop(m) => NoStop(P)) => OneStop(R)
               /\ CrtsFirst(P) /\ (IsCrt(m) => NoStop(P)) => CrtsFirst(R)
               /\ (\A i \in DOMAIN P : Fit(P[i].msg, K)) /\ Fit(m, K) => \A i \in DOMAIN R : Fit(R[i].msg, K)
    <2> DEFINE u == Unit(Q[1])
    <2>1. R = Append(P, u) /\ u \in Pieces /\ u.msg = m
      BY <1>2, <1>8 DEF Unit, Waits, Pieces
    <2> HIDE DEF u, m
    <2>2. /\ DOMAIN R = 1..(n + 1) /\ R[n + 1].msg = m
          /\ \A i \in 1..n : R[i] = P[i] /\ i # n + 1 /\ i \in 1..(n + 1)
          /\ \A i \in 1..(n + 1) : i = n + 1 \/ i \in 1..n
          /\ \A i, j \in 1..(n + 1) : i < j => i \in 1..n
      <3>1. Append(P, u) \in Seq(Pieces) /\ Len(Append(P, u)) = n + 1 /\ Append(P, u)[n + 1] = u
        BY <2>1
      <3>2. \A i \in 1..n : Append(P, u)[i] = P[i]
        <4>1. P \in Seq(Pieces) /\ u \in Pieces
          BY <2>1
        <4> QED BY <4>1, AppendProperties
      <3>3. DOMAIN R = 1..(n + 1) /\ R[n + 1] = u
        BY <2>1, <3>1, PlacesLemma
      <3> HIDE DEF n
      <3>4. \A i \in 1..n : i # n + 1 /\ i \in 1..(n + 1)
        BY <1>1
      <3>5. \A i \in 1..(n + 1) : i = n + 1 \/ i \in 1..n
        BY <1>1
      <3>6. \A i, j \in 1..(n + 1) : i < j => i \in 1..n
        BY <1>1
      <3> QED BY <2>1, <3>2, <3>3, <3>4, <3>5, <3>6
    <2> HIDE DEF n
    <2>3. NoStop(R) <=> NoStop(P) /\ ~IsStop(m)
      BY <1>1, <2>2 DEF NoStop
    <2>4. NoCrt(P) /\ ~IsCrt(m) => NoCrt(R)
      BY <1>1, <2>2 DEF NoCrt
    <2>5. ASSUME OneStop(P), IsStop(m) => NoStop(P) PROVE OneStop(R)
      BY <1>1, <2>2, <2>5 DEF OneStop, NoStop
    <2>6. ASSUME CrtsFirst(P), IsCrt(m) => NoStop(P) PROVE CrtsFirst(R)
      BY <1>1, <2>2, <2>6 DEF CrtsFirst, NoStop
    <2> QED BY <1>1, <2>2, <2>3, <2>4, <2>5, <2>6
  <1>9. ~(IsStop(m) /\ IsCrt(m)) /\ ((\A i \in DOMAIN Q : Fit(Q[i].msg, K)) => Fit(m, K))
    BY <1>1 DEF IsStop, IsCrt
  <1> HIDE DEF m
  <1>10. ASSUME Orderly(f, P, Q, K) PROVE Orderly(f, R, V, K)
    <2>1. OneStop(V) /\ CrtsFirst(V) /\ (\A i \in DOMAIN V : Fit(V[i].msg, K)) /\ Fit(m, K)
      BY <1>4, <1>9, <1>10 DEF Orderly
    <2>2. IsStop(m) => ~IsStop(f) /\ NoStop(P) /\ NoCrt(V) /\ StopWritten(V)
      BY <1>4, <1>5, <1>6, <1>9, <1>10 DEF Orderly
    <2>3. IsCrt(m) => ~IsStop(f) /\ NoStop(P)
      BY <1>7, <1>10 DEF Orderly
    <2>4. IsStop(f) \/ ~NoStop(P) => NoCrt(V) /\ StopWritten(V)
      BY <1>4, <1>5, <1>10 DEF Orderly
    <2>5. CASE R = P
      BY <1>10, <2>1, <2>4, <2>5 DEF Orderly
    <2>6. CASE R # P
      BY <1>8, <1>10, <2>1, <2>2, <2>3, <2>4, <2>6 DEF Orderly
    <2> QED BY <2>5, <2>6
  <1>11. ASSUME Harmless(f, P, Q) PROVE Harmless(f, R, V)
    BY <1>4, <1>5, <1>7, <1>8, <1>11 DEF Harmless
  <1> QED BY <1>10, <1>11

\* and queueing adds behind, a device only when there is nothing yet and a stop only if
\* there is none.
LEMMA QueuedOrderly ==
  ASSUME NEW P, NEW Q \in Seq(Waits), NEW f, NEW K, NEW ms \in Seq(ToServer),
         \A i, j \in DOMAIN ms : IsStop(ms[i]) /\ IsStop(ms[j]) => i = j
  PROVE  LET V == Q \o Items(ms)
         IN  /\ Orderly(f, P, Q, K)
                /\ (\A i \in DOMAIN ms : IsStop(ms[i]) =>
                       ms[i] = Msg("PEER_STOP") /\ ~IsStop(f) /\ NoStop(P) /\ NoStop(Q)
                       /\ \A j \in DOMAIN ms : ~IsCrt(ms[j]))
                /\ (\A i \in DOMAIN ms : IsCrt(ms[i]) =>
                       ms[i].dev \in K /\ ~IsStop(f) /\ NoStop(P) /\ NoStop(Q))
                => Orderly(f, P, V, K)
             /\ Harmless(f, P, Q) /\ (\A i \in DOMAIN ms : ~IsStop(ms[i]) /\ ~IsCrt(ms[i]))
                => Harmless(f, P, V)
  <1> DEFINE N == Items(ms)
             V == Q \o N
             b == Len(Q)
             e == Len(ms)
  <1>1. b \in Nat /\ DOMAIN Q = 1..b /\ e \in Nat /\ DOMAIN ms = 1..e
    BY PlacesLemma
  <1>2. \A m \in ToServer : Item(m) \in Waits
    BY DEF Item, Waits, ItemStates
  <1>3. N \in Seq(Waits) /\ Len(N) = e
    BY <1>2, ItemsLemma
  <1>4. \A i \in 1..e : N[i].msg = ms[i]
    BY <1>1 DEF Items, Item
  <1> HIDE DEF N
  <1>5. /\ DOMAIN V = 1..(b + e)
        /\ \A i \in 1..b : V[i] = Q[i] /\ i \in 1..(b + e)
        /\ \A i \in 1..(b + e) : i \in 1..b \/ (i - b \in 1..e /\ V[i] = N[i - b])
    <2> DEFINE z == Len(N)
    <2>1. /\ V \in Seq(Waits) /\ Len(V) = b + z
          /\ \A i \in 1..(b + z) : V[i] = IF i <= b THEN Q[i] ELSE N[i - b]
      BY <1>3, ConcatProperties
    <2>2. z = e
      BY <1>3
    <2>3. DOMAIN V = 1..Len(V)
      BY <2>1, PlacesLemma
    <2> HIDE DEF V, b, e, z
    <2>4. \A i \in 1..(b + e) : i \in 1..b \/ (~(i <= b) /\ i - b \in 1..e)
      BY <1>1
    <2>5. \A i \in 1..b : i <= b /\ i \in 1..(b + e)
      BY <1>1
    <2> QED BY <2>1, <2>2, <2>3, <2>4, <2>5
  <1>6. \A i \in 1..(b + e) : i \in 1..b \/ (i - b \in 1..e /\ V[i].msg = ms[i - b])
    BY <1>4, <1>5
  <1> HIDE DEF V, b, e
  <1>7. ASSUME \A i \in DOMAIN ms : ~IsCrt(ms[i]), NoCrt(Q) PROVE NoCrt(V)
    BY <1>1, <1>5, <1>6, <1>7 DEF NoCrt
  <1>8. ASSUME \A i \in DOMAIN ms : ~IsStop(ms[i]), StopWritten(Q) PROVE StopWritten(V)
    BY <1>1, <1>5, <1>6, <1>8 DEF StopWritten
  <1>9. ASSUME OneStop(Q), \A i \in DOMAIN ms : IsStop(ms[i]) => NoStop(Q) PROVE OneStop(V)
    <2> SUFFICES ASSUME NEW i \in 1..(b + e), NEW j \in 1..(b + e), IsStop(V[i].msg), IsStop(V[j].msg)
                 PROVE  i = j
      BY <1>5 DEF OneStop
    <2>1. CASE i \in 1..b /\ j \in 1..b
      BY <1>1, <1>5, <1>9, <2>1 DEF OneStop
    <2>2. CASE i \notin 1..b \/ j \notin 1..b
      <3>1. NoStop(Q)
        BY <1>1, <1>6, <1>9, <2>2
      <3>2. i - b \in 1..e /\ j - b \in 1..e /\ IsStop(ms[i - b]) /\ IsStop(ms[j - b])
        BY <1>1, <1>5, <1>6, <3>1 DEF NoStop
      <3>3. i - b = j - b
        BY <1>1, <3>2
      <3> QED BY <1>1, <3>3
    <2> QED BY <2>1, <2>2
  <1>10. ASSUME CrtsFirst(Q), \A i \in DOMAIN ms : IsCrt(ms[i]) => NoStop(Q),
                \A i, j \in DOMAIN ms : ~(IsStop(ms[i]) /\ IsCrt(ms[j]))
         PROVE  CrtsFirst(V)
    <2> SUFFICES ASSUME NEW i \in 1..(b + e), NEW j \in 1..(b + e), i < j,
                        IsStop(V[i].msg), IsCrt(V[j].msg)
                 PROVE  FALSE
      BY <1>5 DEF CrtsFirst
    <2>1. CASE j \in 1..b
      <3>1. i \in 1..b
        BY <1>1, <2>1
      <3> QED BY <1>1, <1>5, <1>10, <2>1, <3>1 DEF CrtsFirst
    <2>2. CASE j \notin 1..b
      <3>1. j - b \in 1..e /\ IsCrt(ms[j - b])
        BY <1>6, <2>2
      <3>2. NoStop(Q)
        BY <1>1, <1>10, <3>1
      <3>3. i - b \in 1..e /\ IsStop(ms[i - b])
        BY <1>1, <1>5, <1>6, <3>2 DEF NoStop
      <3> QED BY <1>1, <1>10, <3>1, <3>3
    <2> QED BY <2>1, <2>2
  <1>11. ASSUME \A i \in DOMAIN Q : Fit(Q[i].msg, K), \A i \in DOMAIN ms : Fit(ms[i], K)
         PROVE  \A i \in DOMAIN V : Fit(V[i].msg, K)
    BY <1>1, <1>5, <1>6, <1>11
  <1>12. ASSUME Orderly(f, P, Q, K),
                \A i \in DOMAIN ms : IsStop(ms[i]) =>
                       ms[i] = Msg("PEER_STOP") /\ ~IsStop(f) /\ NoStop(P) /\ NoStop(Q)
                       /\ \A j \in DOMAIN ms : ~IsCrt(ms[j]),
                \A i \in DOMAIN ms : IsCrt(ms[i]) =>
                       ms[i].dev \in K /\ ~IsStop(f) /\ NoStop(P) /\ NoStop(Q)
         PROVE  Orderly(f, P, V, K)
    <2>1. \A i \in DOMAIN ms : Fit(ms[i], K)
      BY <1>12 DEF Fit
    <2>2. OneStop(V) /\ CrtsFirst(V) /\ \A i \in DOMAIN V : Fit(V[i].msg, K)
      BY <1>9, <1>10, <1>11, <1>12, <2>1 DEF Orderly
    <2>3. IsStop(f) \/ ~NoStop(P) => NoCrt(V) /\ StopWritten(V)
      BY <1>7, <1>8, <1>12 DEF Orderly
    <2> QED BY <1>12, <2>2, <2>3 DEF Orderly
  <1>13. ASSUME Harmless(f, P, Q), \A i \in DOMAIN ms : ~IsStop(ms[i]) /\ ~IsCrt(ms[i])
         PROVE  Harmless(f, P, V)
    BY <1>7, <1>8, <1>13 DEF Harmless
  <1> QED BY <1>12, <1>13 DEF V, N
-----------------------------------------------------------------------------
(* What daemons read *)

\* the message that daemon d has read on s, or is reading
Got(d, s) == IF s \in DOMAIN streams[d] THEN streams[d][s].fallback.msg ELSE Msg(None)

\* d takes the oldest of what arrived on s
Takes(d, s) ==
    /\ Dispatch(d) /\ pipe[s][d] # <<>>
    /\ Got(d, s)' = Head(pipe[s][d]).msg /\ pipe'[s][d] = Tail(pipe[s][d])

\* an item goes through a socket in one piece or in two, and stays of its message
LEMMA StreamedMsg == \A m, x : Streamed([msg |-> m, state |-> x]).msg = m
  BY DEF Streamed

\* What a daemon has read of a socket stays, goes, is misread, or is what arrived first.
LEMMA GotStep ==
  ASSUME TypeInv, Next, NEW d \in Daemons, NEW s \in NamesOf(d), IsSocket(s)
  PROVE  Got(d, s)' \in {Got(d, s), Msg(None), Garbage.msg} \/ Takes(d, s)
  <1>1. /\ DOMAIN streams = Daemons /\ s \in Connections /\ d \in Ends(s) /\ DOMAIN pipe[s] = Ends(s)
        /\ s[1] # "dev" /\ s[1] # "udev"
    BY ConnectionsLemma DEF TypeInv, TypedPipes, IsSocket
  <1>2. CASE streams'[d] = streams[d]
    BY <1>2 DEF Got
  <1>3. CASE Gone(d)
    <2>1. DOMAIN streams'[d] = {}
      BY <1>1, <1>3 DEF Gone, ProcessEnds
    <2> QED BY <2>1 DEF Got
  <1>4. CASE Dispatch(d)
    <2>1. /\ DOMAIN streams'[d] = DOMAIN streams[d] \cup NewStreams(d)
          /\ s \in DOMAIN streams[d] =>
                streams'[d][s] = IF s \in ReadySet(d) THEN AfterIo(d, s) ELSE streams[d][s]
          /\ s \in NewStreams(d) \ DOMAIN streams[d] => streams'[d][s] = FreshStream
      BY <1>4, PassStreams
    <2>2. CASE s \in NewStreams(d) \ DOMAIN streams[d]
      BY <2>1, <2>2 DEF Got, FreshStream, Idle, Item
    <2>3. CASE s \notin DOMAIN streams'[d]
      BY <2>3 DEF Got
    <2>4. CASE s \in DOMAIN streams[d] /\ s \notin ReadySet(d)
      BY <2>1, <2>4 DEF Got
    <2>5. CASE s \in ReadySet(d) /\ s \in DOMAIN streams[d]
      <3> DEFINE t == streams[d][s]
                 z == AfterIo(d, s)
                 m == Head(pipe[s][d]).msg
      <3>1. Got(d, s)' = z.fallback.msg /\ Got(d, s) = t.fallback.msg
        BY <2>1, <2>5 DEF Got
      <3>2. t \in StreamsOf(d, s, exiting)
        BY <2>5, StreamFacts
      <3>3. CASE Reads(d, s) /\ ~Misreads(d, s)
        <4>1. ~Writes(d, s)
          BY <3>3 DEF Reads, Writes
        <4>2. z = [t EXCEPT !.fallback = Streamed([msg |-> m, state |-> t.fallback.state])]
          BY <1>1, <3>3, <4>1 DEF AfterIo
        <4>3. z.fallback.msg = m
          BY <3>2, <4>2, StreamedMsg DEF StreamsOf, Records
        <4>4. pipe'[s] = [pipe[s] EXCEPT ![d] = Tail(@)]
          BY <1>1, <1>4, <2>5, <3>3 DEF Dispatch, PipeAfter
        <4>5. pipe[s][d] # <<>>
          BY <3>3 DEF Reads
        <4> QED BY <1>1, <1>4, <3>1, <4>3, <4>4, <4>5 DEF Takes
      <3>4. CASE Misreads(d, s)
        <4>1. ~Writes(d, s) /\ Reads(d, s)
          BY <3>4 DEF Misreads, Reads, Writes
        <4>2. z = [t EXCEPT !.fallback = Garbage]
          BY <1>1, <3>4, <4>1 DEF AfterIo
        <4> QED BY <3>1, <3>2, <4>2 DEF StreamsOf, Records
      <3>5. CASE ~Reads(d, s)
        <4>1. z \in {[t EXCEPT !.queue[1] = Streamed(@)], [t EXCEPT !.fallback.state = "CLOSED"]}
          BY <1>1, <3>5 DEF AfterIo
        <4>2. z.fallback.msg = t.fallback.msg
          BY <3>2, <4>1 DEF StreamsOf, Records, FallbackItems
        <4> QED BY <3>1, <4>2
      <3> QED BY <3>3, <3>4, <3>5
    <2> QED BY <2>1, <2>2, <2>3, <2>4, <2>5
  <1>5. ASSUME NEW x, ResolveClosed(d, x) PROVE Got(d, s)' \in {Got(d, s), Msg(None)}
    <2>1. streams'[d] = Without(streams[d], {x})
      BY <1>1, <1>5 DEF ResolveClosed
    <2> QED BY <2>1 DEF Got, Without
  <1>6. ASSUME NEW x, Resolved(d, x) PROVE Got(d, s)' \in {Got(d, s), Msg(None)}
    <2>1. /\ s \in DOMAIN streams[d] <=> s \in DOMAIN streams'[d]
          /\ s \in DOMAIN streams[d] \cap DOMAIN streams'[d] =>
                streams'[d][s].fallback \in {streams[d][s].fallback, Idle}
      BY <1>1, <1>6 DEF Resolved, StreamsResolved
    <2> QED BY <2>1 DEF Got, Idle, Item
  <1>7. CASE d \in Clients /\ ClientStart(d)
    <2>1. \A x \in DOMAIN streams'[d] : streams'[d][x].fallback = Idle
      BY <1>7, StartStreams
    <2> QED BY <2>1 DEF Got, Idle, Item
  <1>8. ASSUME NEW r \in Relays, NEW h, RelayConnect(r, h) PROVE streams'[d] = streams[d]
    BY <1>8 DEF RelayConnect, Others, daemonVars
  <1>9. Local(d)' = Local(d) => streams'[d] = streams[d]
    BY DEF Local
  <1> QED BY <1>2, <1>3, <1>4, <1>5, <1>6, <1>7, <1>8, <1>9, WhoseStep

-----------------------------------------------------------------------------
(* Who asks a client to stop *)

\* what relay r asks, before and after its daemon reads it
Request(r) == pipe[RelayConn(r)][Target[r]]
Taken(r)   == Got(Target[r], RelayConn(r))

AsksStop(m) == m.h = "RELAY_STOP"

\* A relay asks for one thing, once.
Single(r) ==
    /\ Request(r) # <<>> => /\ relay[r].pc # "off" /\ Len(Request(r)) = 1
                            /\ Head(Request(r)).msg.h \in Commands[r]
    /\ AsksStop(Taken(r)) => /\ relay[r].pc # "off" /\ Request(r) = <<>>
                             /\ "RELAY_STOP" \in Commands[r]

\* Every relay that may stop client c has asked for it, or will not.
Spent(c) ==
    \A r \in Relays : Target[r] = c /\ "RELAY_STOP" \in Commands[r] =>
        relay[r].pc # "off" /\ Request(r) = <<>> /\ ~AsksStop(Taken(r))

\* a pass of d reads the request of r, and never writes to it
LEMMA PipeAfterRequest ==
  ASSUME TypeInv, NEW r \in Relays, NEW d \in Daemons, NEW S \in SUBSET ReadySet(d)
  PROVE  LET R == PipeAfter(d, S)[RelayConn(r)][Target[r]]
         IN  R = Request(r) \/ (Request(r) # <<>> /\ R = Tail(Request(r)))
  <1> DEFINE s == RelayConn(r)
             p == PipeAfter(d, S)
  <1>1. s \in Connections /\ Ends(s) = {r, Target[r]} /\ r # Target[r] /\ s[1] = "relay" /\ s[2] = r
    BY RelayEndsLemma
  <1>2. DOMAIN pipe[s] = {r, Target[r]}
    BY <1>1 DEF TypeInv, TypedPipes
  <1>3. p[s] = IF s \notin S THEN pipe[s]
               ELSE IF Reads(d, s) THEN [pipe[s] EXCEPT ![d] = Tail(@)]
               ELSE IF Writes(d, s) /\ OtherEnd(s, d) \in open[s]
               THEN [pipe[s] EXCEPT ![OtherEnd(s, d)] = Append(@, Unit(streams[d][s].queue[1]))]
               ELSE pipe[s]
    BY <1>1 DEF PipeAfter
  <1>4. CASE s \notin S
    BY <1>3, <1>4 DEF Request
  <1>5. CASE s \in S
    <2>1. s \in NamesOf(d)
      BY <1>5, StreamFacts DEF ReadySet
    <2>2. d = Target[r]
      BY <1>1, <2>1, NamesLemma
    <2>3. OtherEnd(s, d) = r
      BY <1>1, <2>2 DEF OtherEnd
    <2>4. CASE Reads(d, s)
      <3>1. p[s][d] = Tail(pipe[s][d]) /\ pipe[s][d] # <<>>
        BY <1>2, <1>3, <1>5, <2>2, <2>4 DEF Reads
      <3> QED BY <2>2, <3>1 DEF Request
    <2>5. CASE ~Reads(d, s)
      <3>1. p[s] = pipe[s] \/ \E v : p[s] = [pipe[s] EXCEPT ![r] = v]
        BY <1>3, <2>3, <2>5
      <3>2. p[s][Target[r]] = pipe[s][Target[r]]
        BY <1>1, <1>2, <3>1
      <3> QED BY <3>2 DEF Request
    <2> QED BY <2>4, <2>5
  <1> QED BY <1>4, <1>5

\* a request is made when the relay connects, and read
LEMMA RequestStep ==
  ASSUME TypeInv, Next, NEW r \in Relays
  PROVE  \/ Request(r)' \in {Request(r), <<>>}
         \/ Request(r) # <<>> /\ Request(r)' = Tail(Request(r))
         \/ \E h \in Commands[r] : RelayConnect(r, h)
  <1> DEFINE s == RelayConn(r)
             t == Target[r]
  <1>1. /\ s \in Connections /\ Ends(s) = {r, t} /\ r # t /\ t \in Daemons /\ DOMAIN pipe = Connections
        /\ DOMAIN pipe[s] = {r, t}
    BY RelayEndsLemma DEF TypeInv, TypedPipes
  <1>2. CASE pipe'[s] = pipe[s]
    BY <1>2 DEF Request
  <1>3. ASSUME NEW d \in Daemons, Departs(d)
        PROVE  \/ Request(r)' \in {Request(r), <<>>}
               \/ Request(r) # <<>> /\ Request(r)' = Tail(Request(r))
    <2>1. PICK p : /\ \E how : ProcessEnds(d, how, p)
                   /\ p = pipe \/ \E S \in SUBSET ReadySet(d) : p = PipeAfter(d, S)
      BY <1>3 DEF Departs
    <2>2. p[s][t] = Request(r) \/ (Request(r) # <<>> /\ p[s][t] = Tail(Request(r)))
      BY <2>1, PipeAfterRequest DEF Request
    <2>3. DOMAIN p[s] = {r, t}
      <3>1. ReadySet(d) \subseteq DOMAIN streams[d]
        BY DEF ReadySet
      <3>2. \A S \in SUBSET ReadySet(d) : TypedPipes(PipeAfter(d, S), exiting)
        BY <3>1, PipeAfterTyped
      <3> QED BY <1>1, <2>1, <3>2 DEF TypedPipes
    <2>4. pipe'[s] = IF d \in open[s] THEN [p[s] EXCEPT ![d] = <<>>] ELSE p[s]
      BY <1>1, <2>1 DEF ProcessEnds, HeldBy
    <2>5. Request(r)' \in {p[s][t], <<>>}
      BY <1>1, <2>3, <2>4 DEF Request
    <2> QED BY <2>2, <2>5
  <1>4. ASSUME NEW d \in Daemons, Dispatch(d)
        PROVE  Request(r)' = Request(r) \/ (Request(r) # <<>> /\ Request(r)' = Tail(Request(r)))
    <2>1. pipe' = PipeAfter(d, ReadySet(d))
      BY <1>4 DEF Dispatch
    <2> QED BY <2>1, PipeAfterRequest DEF Request
  <1>5. ASSUME NEW d \in Daemons, Resolve(d)
        PROVE  pipe'[s] = pipe[s] \/ Departs(d)
    <2>1. Fails(d) => Departs(d)
      BY DEF Fails, Departs
    <2>2. ASSUME NEW x, ResolveClosed(d, x) \/ Resolved(d, x) PROVE pipe' = pipe
      BY <2>2 DEF ResolveClosed, Resolved
    <2> QED BY <1>5, <2>1, <2>2, ResolveMoves
  <1>6. ASSUME NEW c \in Clients, ClientStart(c) PROVE pipe' = pipe
    BY <1>6 DEF ClientStart
  <1>7. User => pipe' = pipe
    BY DEF User, KeyDown, KeyUp, Move, Unplug, UserUnchanged, socketVars
  <1>8. ASSUME NEW q \in Relays,
               \/ RelayRead(q) \/ RelayDrain(q) \/ \E how \in {"closed", "failed"} : RelayEnds(q, how)
        PROVE  Request(r)' = Request(r)
    <2>1. pipe' = pipe \/ \E v : pipe' = [pipe EXCEPT ![RelayConn(q)][q] = v]
      BY <1>8 DEF RelayRead, RelayDrain, RelayEnds
    <2>2. CASE q = r
      BY <1>1, <2>1, <2>2 DEF Request
    <2>3. CASE q # r
      <3>1. RelayConn(q) # s
        BY <2>3 DEF RelayConn
      <3> QED BY <1>1, <2>1, <3>1 DEF Request
    <2> QED BY <2>2, <2>3
  <1>9. ASSUME NEW q \in Relays, q # r, NEW h, RelayConnect(q, h) PROVE pipe'[s] = pipe[s]
    <2>1. RelayConn(q) # s
      BY <1>9 DEF RelayConn
    <2> QED BY <1>1, <1>9, <2>1 DEF RelayConnect
  <1> QED BY <1>2, <1>3, <1>4, <1>5, <1>6, <1>7, <1>8, <1>9, FineSteps

\* a relay asks once,
LEMMA SingleStep ==
  ASSUME TypeInv, Next, NEW r \in Relays, Single(r) PROVE Single(r)'
  <1> DEFINE s == RelayConn(r)
             t == Target[r]
             q == Request(r)
             u == Request(r)'
  <1>1. /\ t \in Daemons /\ s \in NamesOf(t) /\ IsSocket(s) /\ s \in Connections /\ Ends(s) = {r, t}
        /\ DOMAIN pipe = Connections /\ DOMAIN pipe[s] = {r, t} /\ DOMAIN relay = Relays
        /\ relay[r] \in RelayRecords /\ pipe[s][t] \in Seq(Units(s, t, exiting))
    BY RelayEndsLemma DEF NamesOf, IsSocket, TypeInv, TypedPipes
  <1>2. q \in Seq(Units(s, t, exiting))
    BY <1>1 DEF Request
  <1>3. Len(q) = 1 /\ q # <<>> => Tail(q) = <<>>
    <2> HIDE DEF q
    <2>1. ASSUME Len(q) = 1, q # <<>>
          PROVE  Tail(q) \in Seq(Units(s, t, exiting)) /\ Len(Tail(q)) = 0
      BY <1>2, <2>1, HeadTailProperties
    <2> QED BY <2>1, EmptySeq
  <1>4. ASSUME NEW h \in Commands[r], RelayConnect(r, h)
        PROVE  /\ relay[r].pc = "off" /\ relay'[r].pc # "off" /\ u # <<>> /\ Len(u) = 1
               /\ Head(u).msg.h \in Commands[r] /\ streams'[t] = streams[t]
    <2>1. u = <<Unit(Item(Msg(h)))>>
      BY <1>1, <1>4 DEF RelayConnect, Request
    <2>2. relay[r].pc = "off" /\ relay' = [relay EXCEPT ![r] = [relay[r] EXCEPT !.pc = "waiting", !.sent = h]]
      BY <1>1, <1>4 DEF RelayConnect
    <2>3. relay'[r].pc = "waiting"
      BY <1>1, <2>2 DEF RelayRecords
    <2>4. streams' = streams
      BY <1>4 DEF RelayConnect, Others, daemonVars
    <2>5. Unit(Item(Msg(h))).msg.h = h
      BY DEF Unit, Item, Msg
    <2> QED BY <2>1, <2>2, <2>3, <2>4, <2>5
  <1>5. CASE u \in {q, <<>>} \/ (q # <<>> /\ u = Tail(q))
    <2>1. u # <<>> => relay'[r].pc # "off" /\ Len(u) = 1 /\ Head(u).msg.h \in Commands[r]
      BY <1>3, <1>5, NeverOffAgain DEF Single
    <2>2. ASSUME AsksStop(Taken(r)')
          PROVE  relay'[r].pc # "off" /\ u = <<>> /\ "RELAY_STOP" \in Commands[r]
      <3>1. Taken(r)' \in {Taken(r), Msg(None), Garbage.msg} \/ Takes(t, s)
        BY <1>1, GotStep DEF Taken
      <3>2. CASE Taken(r)' = Taken(r)
        <4>1. relay[r].pc # "off" /\ q = <<>> /\ "RELAY_STOP" \in Commands[r]
          BY <2>2, <3>2 DEF Single
        <4> QED BY <1>5, <4>1, NeverOffAgain
      <3>3. CASE Takes(t, s)
        <4>1. q # <<>> /\ u = Tail(q) /\ Taken(r)' = Head(q).msg
          BY <3>3 DEF Takes, Request, Taken
        <4>2. relay[r].pc # "off" /\ Len(q) = 1 /\ Head(q).msg.h \in Commands[r]
          BY <4>1 DEF Single
        <4> QED BY <1>3, <2>2, <4>1, <4>2, NeverOffAgain DEF AsksStop
      <3>4. ~AsksStop(Msg(None)) /\ ~AsksStop(Garbage.msg)
        BY DEF AsksStop, Msg, DevMsg, Garbage, None
      <3> QED BY <2>2, <3>1, <3>2, <3>3, <3>4
    <2> QED BY <2>1, <2>2 DEF Single
  <1>6. ASSUME NEW h \in Commands[r], RelayConnect(r, h) PROVE Single(r)'
    <2>1. Taken(r)' = Taken(r)
      BY <1>4, <1>6 DEF Taken, Got
    <2>2. ~AsksStop(Taken(r)')
      BY <1>4, <1>6, <2>1 DEF Single
    <2> QED BY <1>4, <1>6, <2>2 DEF Single
  <1> QED BY <1>5, <1>6, RequestStep

\* and what has been asked for is not asked for again.
LEMMA SpentStep ==
  ASSUME TypeInv, Next, NEW c \in Clients, Spent(c) PROVE Spent(c)'
  <1> SUFFICES ASSUME NEW r \in Relays, Target[r] = c, "RELAY_STOP" \in Commands[r]
               PROVE  relay'[r].pc # "off" /\ Request(r)' = <<>> /\ ~AsksStop(Taken(r)')
    BY DEF Spent
  <1>1. relay[r].pc # "off" /\ Request(r) = <<>> /\ ~AsksStop(Taken(r))
    BY DEF Spent
  <1>2. relay'[r].pc # "off"
    BY <1>1, NeverOffAgain
  <1>3. Request(r)' = <<>>
    BY <1>1, RequestStep DEF RelayConnect
  <1>4. c \in Daemons /\ RelayConn(r) \in NamesOf(c) /\ IsSocket(RelayConn(r))
    BY RelayEndsLemma DEF NamesOf, IsSocket
  <1>5. Taken(r)' \in {Taken(r), Msg(None), Garbage.msg} \/ Takes(c, RelayConn(r))
    BY <1>4, GotStep DEF Taken
  <1>6. ~Takes(c, RelayConn(r))
    BY <1>1 DEF Takes, Request
  <1>7. ~AsksStop(Msg(None)) /\ ~AsksStop(Garbage.msg)
    BY DEF AsksStop, Msg, DevMsg, Garbage, None
  <1> QED BY <1>1, <1>2, <1>3, <1>5, <1>6, <1>7

\* No client can be stopped by two relays.
StopsOnce ==
    \A r, q \in Relays : Target[r] = Target[q] /\ "RELAY_STOP" \in Commands[r] \cap Commands[q] => r = q

\* the relay that stops a client is the last one that could
LEMMA StopSpends ==
  ASSUME TypeInv, Next, StopsOnce, \A q \in Relays : Single(q), NEW c \in Clients,
         NEW x, RelayStop(c, x)
  PROVE  ~Spent(c) /\ Spent(c)'
  <1>1. c \in Daemons
    BY ClientLemma
  <1>2. HasRead(c, x, "RELAY_STOP")
    BY DEF RelayStop
  <1>3. /\ x \in DOMAIN streams[c] /\ x \in RelaysOf(c) /\ TypedStreams(c, streams[c], exiting)
        /\ streams[c][x].fallback.msg.h = "RELAY_STOP"
    <2>1. "RELAY_STOP" \in RelayHeaders
      BY DEF RelayHeaders
    <2> QED BY <1>1, <1>2, <2>1, RequestLemma DEF HasRead
  <1>4. PICK r \in Relays : x = RelayConn(r) /\ Target[r] = c
    BY <1>3 DEF RelaysOf
  <1>5. AsksStop(Taken(r))
    BY <1>3, <1>4 DEF Taken, Got, AsksStop
  <1>6. relay[r].pc # "off" /\ Request(r) = <<>> /\ "RELAY_STOP" \in Commands[r]
    BY <1>5 DEF Single
  <1>7. ~Spent(c)
    BY <1>4, <1>5, <1>6 DEF Spent
  <1>8. relay'[r].pc # "off"
    BY <1>6, NeverOffAgain
  <1>9. Request(r)' = <<>>
    BY <1>6, RequestStep DEF RelayConnect
  <1>10. ~AsksStop(Taken(r)')
    <2>1. CASE Fails(c)
      <3>1. streams'[c] = <<>>
        BY <1>1, <2>1 DEF Fails, ProcessEnds, TypeInv
      <3> QED BY <1>4, <3>1 DEF Taken, Got, AsksStop, Msg, None
    <2>2. CASE ~Fails(c)
      <3> DEFINE told == Broadcast(c, streams[c], "RELAY_STOP")
                 ss   == Push(told, peerStream[c], Msg("PEER_STOP"))
      <3>1. Finish(c, x, ss) /\ exiting' = [exiting EXCEPT ![c] = TRUE]
        BY <2>2 DEF RelayStop
      <3>2. /\ exiting' \in [Daemons -> BOOLEAN] /\ \A e \in Daemons : exiting[e] => exiting'[e]
            /\ exiting'[c] /\ c \in DOMAIN streams /\ c \in DOMAIN batch
        BY <1>1, <3>1 DEF TypeInv
      <3>3. TypedStreams(c, streams[c], exiting')
        BY <1>1, <1>3, <3>2, TypedMonotone
      <3>4. DOMAIN told = DOMAIN streams[c] /\ TypedStreams(c, told, exiting')
        BY <1>1, <3>2, <3>3, BroadcastTyped DEF Headers, RelayHeaders
      <3> HIDE DEF told
      <3>5. DOMAIN ss = DOMAIN told /\ TypedStreams(c, ss, exiting')
        BY <1>1, <3>4, ToPeerTyped, MessagesLemma DEF Headers, PeerControls
      <3> HIDE DEF ss
      <3>6. x \in DOMAIN ss
        BY <1>3, <3>4, <3>5
      <3>0. \A item : Cleared(x, item) = Idle
        BY <1>3, <1>4 DEF Cleared, IsSocket, RelayConn
      <3>7. x \in DOMAIN streams'[c] /\ streams'[c][x].fallback = Idle
        BY <1>1, <3>0, <3>1, <3>2, <3>5, <3>6, FinishTyped
      <3>8. Taken(r)' = Msg(None)
        BY <1>4, <3>7 DEF Taken, Got, Idle, Item
      <3> QED BY <3>8 DEF AsksStop, Msg, None
    <2> QED BY <2>1, <2>2
  <1>11. Spent(c)'
    <2> SUFFICES ASSUME NEW q \in Relays, Target[q] = c, "RELAY_STOP" \in Commands[q]
                 PROVE  relay'[q].pc # "off" /\ Request(q)' = <<>> /\ ~AsksStop(Taken(q)')
      BY DEF Spent
    <2>1. q = r
      BY <1>4, <1>6 DEF StopsOnce
    <2> QED BY <1>8, <1>9, <1>10, <2>1
  <1> QED BY <1>7, <1>11

-----------------------------------------------------------------------------
(* What a client has to say to the server, and whether that is its end *)

\* the message of c that the server has read, or is reading
Arrived(c) == Got(Server, PeerConn(c))

\* the server takes the oldest message of c
Hears(c) ==
    /\ Piped(c) # <<>> /\ Piped(c)' = Tail(Piped(c)) /\ Arrived(c)' = Head(Piped(c)).msg
    /\ Queue(c)' = Queue(c)

\* The server hears what arrives first, or nothing new that matters.
LEMMA ArrivedStep ==
  ASSUME TypeInv, Next, NEW c \in Clients
  PROVE  Arrived(c)' \in {Arrived(c), Msg(None), Garbage.msg} \/ Hears(c)
  <1> DEFINE s == PeerConn(c)
  <1>1. Server \in Daemons /\ s \in NamesOf(Server) /\ IsSocket(s) /\ c \in Daemons /\ c # Server
    BY ClientLemma
  <1>2. CASE Takes(Server, s)
    <2>1. Dispatch(Server)
      BY <1>2 DEF Takes
    <2>2. streams'[c] = streams[c]
      BY <1>1, <2>1, PassStreams
    <2> QED BY <1>2, <2>2 DEF Takes, Hears, Arrived, Piped, Queue, Here
  <1> QED BY <1>1, <1>2, GotStep DEF Arrived

\* what client c has to say to the server, in order
Parting(c) ==
    /\ Orderly(Arrived(c), Piped(c), Queue(c), Captures(c))
    /\ IsStop(Arrived(c)) \/ ~NoStop(Piped(c)) \/ ~NoStop(Queue(c)) => Spent(c)
    /\ proc[c] = "off" => Piped(c) = <<>>

\* client c will neither announce a device nor stop
Silent(c) ==
    /\ proc[c] # "off" /\ Spent(c)
    /\ Harmless(Arrived(c), Piped(c), Queue(c))

\* Where there is no stop, losing, writing and queueing make none.
LEMMA LostStops ==
  ASSUME NEW S, NEW P \in Seq(S), NEW R, R = P \/ R = <<>> \/ (P # <<>> /\ R = Tail(P)), NoStop(P)
  PROVE  NoStop(R)
  <1>1. NoStop(<<>>)
    BY DEF NoStop
  <1> QED BY <1>1, TailParting

LEMMA WrittenStops ==
  ASSUME NEW P \in Seq(Pieces), NEW Q \in Seq(Waits), NEW R, NEW V,
         Q # <<>>, V = <<>> \/ (V \in Seq(Waits) /\ Ahead(Q, V)),
         R = Append(P, Unit(Q[1])) \/ R = P, NoStop(P), NoStop(Q)
  PROVE  NoStop(R) /\ NoStop(V)
  <1>1. 1 \in DOMAIN Q /\ Q[1] \in Waits
    BY HeadsLemma
  <1>2. NoStop(V)
    <2>1. CASE V = <<>>
      BY <2>1 DEF NoStop
    <2>2. CASE V # <<>>
      <3>1. V \in Seq(Waits) /\ Ahead(Q, V)
        BY <2>2
      <3>2. DOMAIN V = DOMAIN Q
        BY <3>1 DEF Ahead
      <3>3. V[1].msg = Q[1].msg
        BY <3>1, AheadText
      <3> QED BY <3>1, <3>2, <3>3 DEF NoStop, Ahead
    <2> QED BY <2>1, <2>2
  <1>3. ASSUME R # P PROVE NoStop(R)
    <2> DEFINE u == Unit(Q[1])
               n == Len(P)
    <2>1. u \in Pieces /\ u.msg = Q[1].msg /\ R = Append(P, u)
      BY <1>1, <1>3 DEF Unit, Pieces, Waits
    <2> HIDE DEF u
    <2>2. R \in Seq(Pieces) /\ Len(R) = n + 1 /\ R[n + 1] = u /\ \A i \in 1..n : R[i] = P[i]
      BY <2>1, AppendProperties
    <2>3. n \in Nat /\ DOMAIN P = 1..n /\ DOMAIN R = 1..(n + 1)
      BY <2>2, PlacesLemma
    <2> HIDE DEF n
    <2>4. \A i \in 1..(n + 1) : i = n + 1 \/ i \in 1..n
      BY <2>3
    <2> QED BY <1>1, <2>1, <2>2, <2>3, <2>4 DEF NoStop
  <1> QED BY <1>2, <1>3

LEMMA QueuedStops ==
  ASSUME NEW Q \in Seq(Waits), NEW ms \in Seq(ToServer), \A i \in DOMAIN ms : ~IsStop(ms[i]), NoStop(Q)
  PROVE  NoStop(Q \o Items(ms))
  <1> DEFINE N == Items(ms)
             b == Len(Q)
             e == Len(N)
  <1>1. N \in Seq(Waits) /\ e = Len(ms)
    <2>1. \A m \in ToServer : Item(m) \in Waits
      BY DEF Item, Waits, ItemStates
    <2> QED BY <2>1, ItemsLemma
  <1>2. \A i \in DOMAIN ms : N[i].msg = ms[i]
    BY DEF Items, Item
  <1>3. /\ Q \o N \in Seq(Waits) /\ Len(Q \o N) = b + e
        /\ \A i \in 1..(b + e) : (Q \o N)[i] = IF i <= b THEN Q[i] ELSE N[i - b]
    BY <1>1, ConcatProperties
  <1>4. b \in Nat /\ e \in Nat /\ DOMAIN Q = 1..b /\ DOMAIN ms = 1..e /\ DOMAIN (Q \o N) = 1..(b + e)
    <2>1. DOMAIN ms = 1..Len(ms)
      BY PlacesLemma
    <2> QED BY <1>1, <1>3, <2>1, PlacesLemma
  <1> HIDE DEF N, b, e
  <1>5. \A i \in 1..(b + e) : (i <= b /\ i \in 1..b) \/ (~(i <= b) /\ i - b \in 1..e)
    BY <1>4
  <1> QED BY <1>2, <1>3, <1>4, <1>5 DEF NoStop, N

\* The order of what a client says is kept.
LEMMA PartingStep ==
  ASSUME TypeInv, TypeInv', Stopped, Next, StopsOnce, \A q \in Relays : Single(q),
         NEW c \in Clients, Linked(c), Collected(c), Parting(c)
  PROVE  Parting(c)'
  <1> DEFINE f == Arrived(c)
             g == Arrived(c)'
             P == Piped(c)
             R == Piped(c)'
             Q == Queue(c)
             V == Queue(c)'
             K == Captures(c)
  <1>1. P \in Seq(Pieces) /\ Q \in Seq(Waits)
    <2>1. TypedPipes(pipe, exiting) /\ TypedStreams(c, streams[c], exiting)
      BY ClientLemma DEF TypeInv
    <2> QED BY <2>1, TrafficTyped DEF Piped, Queue, Here
  <1>2. R \in Seq(Pieces) /\ V \in Seq(Waits)
    <2>1. TypedPipes(pipe', exiting') /\ TypedStreams(c, streams'[c], exiting')
      BY ClientLemma DEF TypeInv
    <2> QED BY <2>1, TrafficTyped DEF Piped, Queue, Here
  <1>3. Orderly(f, P, Q, K) /\ (IsStop(f) \/ ~NoStop(P) \/ ~NoStop(Q) => Spent(c))
    BY DEF Parting
  <1>4. K = Captures(c)'
    BY DEF Captures
  <1>5. Spent(c) => Spent(c)'
    BY SpentStep
  <1>6. c \in Daemons /\ Server \in Daemons
    BY ClientLemma
  <1>7. proc'[c] = "off" => proc[c] = "off" /\ P = <<>>
    BY <1>6, SameOrLater DEF Parting
  <1>8. Here(c) => proc[c] = "running" /\ proc'[c] # "off"
    <2>1. Here(c) => proc[c] = "running"
      BY <1>6 DEF Here, Stopped
    <2> QED BY <1>6, <2>1, SameOrLater
  <1>9. CASE Hears(c)
    <2>1. P # <<>> /\ R = Tail(P) /\ g = Head(P).msg /\ V = Q
      BY <1>9 DEF Hears
    <2> HIDE DEF P, Q, R, V, f, g, K
    <2>2. Orderly(g, R, V, K)
      BY <1>1, <1>3, <2>1, HeardOrderly
    <2>3. IsStop(g) \/ ~NoStop(R) => ~NoStop(P)
      BY <1>1, <2>1, TailParting
    <2>4. IsStop(g) \/ ~NoStop(R) \/ ~NoStop(V) => Spent(c)'
      BY <1>3, <1>5, <2>1, <2>3
    <2>5. proc'[c] = "off" => R = <<>>
      BY <1>7, <2>1
    <2> QED BY <1>4, <2>2, <2>4, <2>5 DEF Parting, g, R, V
  <1>10. CASE ~Hears(c)
    <2>1. g = f \/ ~(IsStop(g) \/ IsCrt(g))
      <3>1. g \in {f, Msg(None), Garbage.msg}
        BY <1>10, ArrivedStep
      <3>2. \A m \in {Msg(None), Garbage.msg} : ~(IsStop(m) \/ IsCrt(m))
        BY DEF IsStop, IsCrt, Msg, DevMsg, Garbage, None
      <3> HIDE DEF f, g
      <3> QED BY <3>1, <3>2
    <2>2. SUFFICES /\ Orderly(f, R, V, K)
                   /\ IsStop(f) \/ ~NoStop(R) \/ ~NoStop(V) => Spent(c)'
                   /\ proc'[c] = "off" => R = <<>>
      <3> HIDE DEF P, Q, R, V, f, g, K
      <3>1. Orderly(g, R, V, K)
        BY <1>2, <2>1, <2>2, LostOrderly
      <3>2. IsStop(g) => IsStop(f)
        BY <2>1
      <3> QED BY <1>4, <2>2, <3>1, <3>2 DEF Parting, g, R, V
    <2>3. Moves(c)
      BY NextMoves
    <2>4. ASSUME R = P \/ R = <<>> \/ (P # <<>> /\ R = Tail(P)),
                 V = Q \/ V = <<>> \/ (Q # <<>> /\ V = Tail(Q))
          PROVE  /\ Orderly(f, R, V, K)
                 /\ IsStop(f) \/ ~NoStop(R) \/ ~NoStop(V) => Spent(c)'
                 /\ proc'[c] = "off" => R = <<>>
      <3> HIDE DEF P, Q, R, V, f, g, K
      <3>1. Orderly(f, R, V, K)
        BY <1>1, <1>3, <2>4, LostOrderly
      <3>2. (NoStop(P) => NoStop(R)) /\ (NoStop(Q) => NoStop(V))
        BY <1>1, <2>4, LostStops
      <3> QED BY <1>3, <1>5, <1>7, <2>4, <3>1, <3>2
    <2>5. CASE Cuts(c)
      <3>1. V = Q \/ V = <<>>
        BY <2>5 DEF Cuts, Queue
      <3> QED BY <2>4, <2>5, <3>1 DEF Cuts
    <2>6. CASE Pops(c)
      BY <2>4, <2>6 DEF Pops
    <2>7. CASE Sends(c) \/ Loses(c)
      <3>1. /\ Here(c) /\ Q # <<>> /\ Q[1].state # "COMPLETE" /\ (V = <<>> \/ Ahead(Q, V))
            /\ R = Append(P, Unit(Q[1])) \/ R = P
        BY <2>7 DEF Sends, Loses, Queue
      <3> HIDE DEF P, Q, R, V, f, g, K
      <3>2. Orderly(f, R, V, K)
        BY <1>1, <1>2, <1>3, <3>1, WrittenOrderly
      <3>3. NoStop(P) /\ NoStop(Q) => NoStop(R) /\ NoStop(V)
        BY <1>1, <1>2, <3>1, WrittenStops
      <3> QED BY <1>3, <1>5, <1>8, <3>1, <3>2, <3>3
    <2>8. ASSUME NEW ms \in Seq(ToServer), Queues(c, ms)
          PROVE  /\ Orderly(f, R, V, K)
                 /\ IsStop(f) \/ ~NoStop(R) \/ ~NoStop(V) => Spent(c)'
                 /\ proc'[c] = "off" => R = <<>>
      <3>1. R = P /\ V = Q \o Items(ms) /\ Speaks(c, ms)
        BY <2>8 DEF Queues
      <3>2. ASSUME NEW i \in DOMAIN ms, IsStop(ms[i])
            PROVE  /\ ms[i] = Msg("PEER_STOP") /\ ~IsStop(f) /\ NoStop(P) /\ NoStop(Q)
                   /\ (\A j \in DOMAIN ms : ~IsCrt(ms[j])) /\ Spent(c)'
        <4>1. ms[i] = Msg("PEER_STOP") /\ \E x : RelayStop(c, x)
          BY <3>1, <3>2 DEF Speaks
        <4>2. ~Spent(c) /\ Spent(c)'
          BY <4>1, StopSpends
        <4>3. proc[c] = "running"
          <5>1. DOMAIN streams[c] # {}
            BY <4>1 DEF RelayStop, HasRead
          <5> QED BY <1>6, <5>1 DEF Stopped
        <4>4. \A j \in DOMAIN ms : ~IsCrt(ms[j])
          BY <3>1, <4>3 DEF Speaks
        <4> QED BY <1>3, <4>1, <4>2, <4>4
      <3>3. ASSUME NEW i \in DOMAIN ms, IsCrt(ms[i])
            PROVE  ms[i].dev \in K /\ ~IsStop(f) /\ NoStop(P) /\ NoStop(Q)
        <4>1. proc[c] = "off" /\ ms[i].dev \in K
          BY <3>1, <3>3 DEF Speaks
        <4>2. P = <<>>
          BY <4>1 DEF Parting
        <4>3. Q = <<>>
          BY <1>8, <4>1 DEF Queue
        <4>4. f = Msg(None)
          BY <4>1 DEF Linked, Arrived, Got
        <4> QED BY <4>1, <4>2, <4>3, <4>4 DEF NoStop, IsStop, Msg, None
      <3>4. \A i, j \in DOMAIN ms : IsStop(ms[i]) /\ IsStop(ms[j]) => i = j
        BY <3>1 DEF Speaks
      <3> HIDE DEF P, Q, R, V, f, g, K
      <3>5. Orderly(f, R, V, K)
        BY <1>1, <1>3, <3>1, <3>2, <3>3, <3>4, QueuedOrderly
      <3>6. (\A i \in DOMAIN ms : ~IsStop(ms[i])) /\ NoStop(Q) => NoStop(V)
        BY <1>1, <3>1, QueuedStops
      <3> QED BY <1>3, <1>5, <1>7, <3>1, <3>2, <3>5, <3>6
    <2> QED BY <2>3, <2>5, <2>6, <2>7, <2>8 DEF Moves, Gathers
  <1> QED BY <1>9, <1>10

\* What a client has not to say, it will not say.
LEMMA SilentStep ==
  ASSUME TypeInv, TypeInv', Stopped, Next, StopsOnce, \A q \in Relays : Single(q),
         NEW c \in Clients, Linked(c), Collected(c), Silent(c)
  PROVE  Silent(c)'
  <1> DEFINE f == Arrived(c)
             g == Arrived(c)'
             P == Piped(c)
             R == Piped(c)'
             Q == Queue(c)
             V == Queue(c)'
  <1>1. P \in Seq(Pieces) /\ Q \in Seq(Waits)
    <2>1. TypedPipes(pipe, exiting) /\ TypedStreams(c, streams[c], exiting)
      BY ClientLemma DEF TypeInv
    <2> QED BY <2>1, TrafficTyped DEF Piped, Queue, Here
  <1>2. R \in Seq(Pieces) /\ V \in Seq(Waits)
    <2>1. TypedPipes(pipe', exiting') /\ TypedStreams(c, streams'[c], exiting')
      BY ClientLemma DEF TypeInv
    <2> QED BY <2>1, TrafficTyped DEF Piped, Queue, Here
  <1>3. Harmless(f, P, Q) /\ Spent(c) /\ proc[c] # "off"
    BY DEF Silent
  <1>4. Spent(c)' /\ proc'[c] # "off"
    BY <1>3, SpentStep, SameOrLater, ClientLemma
  <1>5. SUFFICES Harmless(g, R, V)
    BY <1>4 DEF Silent
  <1>6. CASE Hears(c)
    <2>1. P # <<>> /\ R = Tail(P) /\ g = Head(P).msg /\ V = Q
      BY <1>6 DEF Hears
    <2> HIDE DEF P, Q, R, V, f, g
    <2> QED BY <1>1, <1>3, <2>1, HeardOrderly
  <1>7. CASE ~Hears(c)
    <2>1. g = f \/ ~(IsStop(g) \/ IsCrt(g))
      <3>1. g \in {f, Msg(None), Garbage.msg}
        BY <1>7, ArrivedStep
      <3>2. \A m \in {Msg(None), Garbage.msg} : ~(IsStop(m) \/ IsCrt(m))
        BY DEF IsStop, IsCrt, Msg, DevMsg, Garbage, None
      <3> HIDE DEF f, g
      <3> QED BY <3>1, <3>2
    <2>2. SUFFICES Harmless(f, R, V)
      <3> HIDE DEF P, Q, R, V, f, g
      <3> QED BY <1>2, <2>1, <2>2, LostOrderly
    <2>3. Moves(c)
      BY NextMoves
    <2>4. ASSUME R = P \/ R = <<>> \/ (P # <<>> /\ R = Tail(P)),
                 V = Q \/ V = <<>> \/ (Q # <<>> /\ V = Tail(Q))
          PROVE  Harmless(f, R, V)
      <3> HIDE DEF P, Q, R, V, f, g
      <3> QED BY <1>1, <1>3, <2>4, LostOrderly
    <2>5. CASE Cuts(c)
      <3>1. V = Q \/ V = <<>>
        BY <2>5 DEF Cuts, Queue
      <3> QED BY <2>4, <2>5, <3>1 DEF Cuts
    <2>6. CASE Pops(c)
      BY <2>4, <2>6 DEF Pops
    <2>7. CASE Sends(c) \/ Loses(c)
      <3>1. /\ Q # <<>> /\ Q[1].state # "COMPLETE" /\ (V = <<>> \/ Ahead(Q, V))
            /\ R = Append(P, Unit(Q[1])) \/ R = P
        BY <2>7 DEF Sends, Loses, Queue
      <3> HIDE DEF P, Q, R, V, f, g
      <3> QED BY <1>1, <1>2, <1>3, <3>1, WrittenOrderly
    <2>8. ASSUME NEW ms \in Seq(ToServer), Queues(c, ms) PROVE Harmless(f, R, V)
      <3>1. R = P /\ V = Q \o Items(ms) /\ Speaks(c, ms)
        BY <2>8 DEF Queues
      <3>2. \A i \in DOMAIN ms : ~IsStop(ms[i]) /\ ~IsCrt(ms[i])
        BY <1>3, <3>1, StopSpends DEF Speaks
      <3> HIDE DEF P, Q, R, V, f, g
      <3> QED BY <1>1, <1>3, <3>1, <3>2, QueuedOrderly
    <2> QED BY <2>3, <2>5, <2>6, <2>7, <2>8 DEF Moves, Gathers
  <1> QED BY <1>6, <1>7

\* A client whose stop has arrived has nothing more to say.
LEMMA StopIsLast ==
  ASSUME NEW c \in Clients, Parting(c), IsStop(Arrived(c))
  PROVE  Spent(c) /\ Harmless(Msg(None), Piped(c), Queue(c))
  <1>1. ~IsStop(Msg(None)) /\ ~IsCrt(Msg(None))
    BY DEF IsStop, IsCrt, Msg, None
  <1> QED BY <1>1 DEF Parting, Orderly, Harmless

-----------------------------------------------------------------------------
(* What holds of all clients and relays in every reachable state *)

Said ==
    /\ \A r \in Relays : Single(r)
    /\ \A c \in Clients : Linked(c) /\ Collected(c) /\ Parting(c)

LEMMA SaidHolds == ASSUME StopsOnce PROVE Spec => []Said
  <1>1. Init => \A r \in Relays : Single(r)
    <2> SUFFICES ASSUME Init, NEW r \in Relays PROVE Single(r)
      OBVIOUS
    <2>1. Target[r] \in Daemons /\ RelayConn(r) \in Connections /\ Ends(RelayConn(r)) = {r, Target[r]}
      BY RelayEndsLemma
    <2>2. Request(r) = <<>> /\ DOMAIN streams[Target[r]] = {}
      BY <2>1 DEF Init, Request
    <2> QED BY <2>2 DEF Single, Taken, Got, AsksStop, Msg, None
  <1>2. Init => \A c \in Clients : Parting(c)
    <2> SUFFICES ASSUME Init, NEW c \in Clients PROVE Parting(c)
      OBVIOUS
    <2>1. /\ c \in Daemons /\ Server \in Daemons /\ PeerConn(c) \in Connections
          /\ Ends(PeerConn(c)) = {c, Server}
      BY ClientLemma
    <2>2. DOMAIN streams[c] = {} /\ DOMAIN streams[Server] = {} /\ pipe[PeerConn(c)][Server] = <<>>
      BY <2>1 DEF Init
    <2>3. Arrived(c) = Msg(None) /\ Piped(c) = <<>> /\ Queue(c) = <<>>
      BY <2>2 DEF Arrived, Got, Piped, Queue, Here
    <2>4. /\ NoStop(<<>>) /\ NoCrt(<<>>) /\ OneStop(<<>>) /\ CrtsFirst(<<>>)
          /\ ~IsStop(Msg(None)) /\ ~IsCrt(Msg(None)) /\ DOMAIN <<>> = {}
      BY DEF NoStop, NoCrt, OneStop, CrtsFirst, IsStop, IsCrt, Msg, None
    <2> QED BY <2>3, <2>4 DEF Parting, Orderly, Fit
  <1> DEFINE S == \A r \in Relays : Single(r)
             L == \A c \in Clients : Linked(c) /\ Collected(c) /\ Carried(c)
             T == \A c \in Clients : Parting(c)
  <1>3. TypeInv /\ [Next]_vars /\ S => S'
    <2>1. TypeInv /\ Next /\ S => S'
      BY SingleStep
    <2>2. S /\ UNCHANGED vars => S'
      BY DEF Single, Taken, Got, Request, AsksStop, vars, daemonVars, socketVars
    <2> QED BY <2>1, <2>2
  <1>4. TypeInv /\ TypeInv' /\ Stopped /\ S /\ L /\ [Next]_vars /\ T => T'
    <2>1. TypeInv /\ TypeInv' /\ Stopped /\ S /\ L /\ Next /\ T => T'
      BY PartingStep
    <2>2. ASSUME UNCHANGED vars, NEW c \in Clients
          PROVE  /\ Arrived(c)' = Arrived(c) /\ Piped(c)' = Piped(c) /\ Queue(c)' = Queue(c)
                 /\ Captures(c)' = Captures(c) /\ proc'[c] = proc[c] /\ (Spent(c) => Spent(c)')
      <3>1. UNCHANGED <<streams, pipe, relay, proc>>
        BY <2>2 DEF vars, daemonVars, socketVars
      <3>2. \A r \in Relays : Request(r)' = Request(r) /\ Taken(r)' = Taken(r)
        BY <3>1 DEF Request, Taken, Got
      <3>3. Spent(c) => Spent(c)'
        BY <3>1, <3>2 DEF Spent
      <3> QED BY <3>1, <3>3 DEF Arrived, Got, Piped, Queue, Here, Captures
    <2>3. T /\ UNCHANGED vars => T'
      BY <2>2 DEF Parting
    <2> QED BY <2>1, <2>3
  <1>5. S /\ L /\ T => Said
    BY DEF Said
  <1>6. Spec => []L
    BY CarriedHolds
  <1>7. Init => S /\ T
    BY <1>1, <1>2
  <1> HIDE DEF S, L, T
  <1> QED BY <1>3, <1>4, <1>5, <1>6, <1>7, Typed, StoppedHolds, PTL DEF Spec

-----------------------------------------------------------------------------
(* What a step does to the server *)

\* the server accepts client c, opens a copy of the device its client announces, or
\* forgets a client that stops
Accepts(c) == Dispatch(Server) /\ AcceptsPeer(Server) /\ Head(backlog[Tcp]) = PeerConn(c)
Copies     == \E s : PeerDevCrt(Server, s)
Forgets    == \E s : PeerStopServer(Server, s)

\* nothing of that: who it serves stays, and what it has of the client's devices
Keeps ==
    /\ UNCHANGED listening
    /\ proc'[Server] = proc[Server] /\ peerStream'[Server] = peerStream[Server]
    /\ peerState'[Server] \in {peerState[Server], "DISCONNECTED"}
    /\ DeviceIds(Server)' = DeviceIds(Server)
    /\ devices[Server] = <<>> => devices'[Server] = <<>>
    /\ \A x \in DOMAIN streams'[Server] \ DOMAIN streams[Server] : x[1] = "relay"
    /\ virt' = virt \/ \E x \in DOMAIN streams[Server] : x[1] = "udev"

\* what is queued is queued on the streams that are there
LEMMA SameNames ==
  /\ \A ss, s, m : DOMAIN Push(ss, s, m) = DOMAIN ss
  /\ \A ss, s, ms : DOMAIN PushAll(ss, s, ms) = DOMAIN ss
  /\ \A d, ss, h : DOMAIN Broadcast(d, ss, h) = DOMAIN ss
  /\ \A ss, s : DOMAIN Reset(ss, s) = DOMAIN ss
  /\ \A d, ss : DOMAIN ReleaseVirtKeys(d, ss) = DOMAIN ss
  BY DEF Push, PushAll, Broadcast, PushEach, Reset, ReleaseVirtKeys

\* the server's entry of streams after a handler
LEMMA FinishNames ==
  ASSUME TypeInv, NEW d \in Daemons, NEW s, NEW ss, Finish(d, s, ss)
  PROVE  DOMAIN streams'[d] = DOMAIN ss
  BY SameNames DEF Finish, TypeInv

\* a device is grabbed or not, and stays the device it is
LEMMA SameIds ==
  ASSUME TypeInv, NEW d \in Daemons, NEW i, NEW b,
         devices' = [devices EXCEPT ![d][i].grabbed = b]
  PROVE  DeviceIds(d)' = DeviceIds(d)
  <1> DEFINE q == devices[d]
             v == devices'[d]
  <1>1. q \in Seq(Entries) /\ v = [q EXCEPT ![i] = [q[i] EXCEPT !.grabbed = b]]
    BY DEF TypeInv, DeviceLists
  <1>2. DOMAIN v = DOMAIN q
    BY <1>1
  <1> HIDE DEF v
  <1>3. \A j \in DOMAIN q : v[j].id = q[j].id
    <2> SUFFICES ASSUME NEW j \in DOMAIN q PROVE v[j].id = q[j].id
      OBVIOUS
    <2>1. q[j] \in Entries
      BY <1>1
    <2>2. v[j] = IF j = i THEN [q[i] EXCEPT !.grabbed = b] ELSE q[j]
      BY <1>1
    <2> QED BY <2>1, <2>2 DEF Entries
  <1> QED BY <1>2, <1>3 DEF DeviceIds, v

\* Another daemon does nothing to the server.
LEMMA OthersKeep ==
  ASSUME TypeInv, NEW d \in Daemons, d # Server,
         Departs(d) \/ Dispatch(d) \/ \E x : ResolveClosed(d, x) \/ Resolved(d, x)
  PROVE  Keeps
  <1>0. Server \in Daemons
    BY DEF Daemons
  <1>1. CASE Departs(d)
    BY <1>0, <1>1 DEF Departs, ProcessEnds, Keeps, DeviceIds, TypeInv
  <1>2. CASE Dispatch(d)
    <2>1. streams'[Server] = streams[Server] /\ DOMAIN streams[d] \subseteq NamesOf(d)
      BY <1>0, <1>2, PassStreams DEF TypeInv, TypedStreams
    <2>2. \A k, E : ~Replays(d, k, E)
      <3>1. \A k : UdevStream(k) \notin NamesOf(d)
        BY NamesLemma DEF UdevStream
      <3> QED BY <2>1, <3>1 DEF Replays, ReadySet
    <2>3. virt' = virt
      BY <1>2, <2>2 DEF Dispatch
    <2>4. UNCHANGED <<listening, proc, peerStream, peerState, devices>>
      <3>1. ~AcceptsPeer(d)
        BY DEF AcceptsPeer
      <3>2. listening \in BOOLEAN
        BY DEF TypeInv
      <3> QED BY <1>2, <3>1, <3>2 DEF Dispatch, ListeningAfter
    <2> QED BY <2>1, <2>3, <2>4 DEF Keeps, DeviceIds
  <1>3. ASSUME NEW x, ResolveClosed(d, x) PROVE Keeps
    <2>1. streams'[Server] = streams[Server] /\ peerState'[Server] = peerState[Server]
      BY <1>0, <1>3 DEF ResolveClosed, PeerClosed, TypeInv
    <2>2. UNCHANGED <<listening, proc, peerStream, devices, virt>>
      BY <1>3 DEF ResolveClosed, inputVars
    <2> QED BY <2>1, <2>2 DEF Keeps, DeviceIds
  <1>4. ASSUME NEW x, Resolved(d, x) PROVE Keeps
    <2>1. streams'[Server] = streams[Server]
      BY <1>0, <1>4 DEF Resolved, StreamsResolved
    <2>2. devices'[Server] = devices[Server]
      BY <1>0, <1>4 DEF Resolved, InputsResolved, TypeInv
    <2>3. UNCHANGED <<peerState, peerStream, listening, virt>>
      BY <1>4 DEF Resolved, PeerResolved
    <2>4. proc' = proc
      BY <1>4 DEF Resolved
    <2> QED BY <2>1, <2>2, <2>3, <2>4 DEF Keeps, DeviceIds
  <1> QED BY <1>1, <1>2, <1>3, <1>4

\* The server's handlers keep what it has, but for the two that do not.
LEMMA HandlersKeep ==
  ASSUME TypeInv, ~Fails(Server), NEW s,
         PeerHandler(Server, s) \/ RelayHandler(Server, s) \/ DevHandler(Server, s)
  PROVE  Keeps \/ Copies \/ Forgets
  <1>0. Server \in Daemons
    BY DEF Daemons
  <1>1. ASSUME NEW ss, Finish(Server, s, ss), DOMAIN ss = DOMAIN streams[Server],
               UNCHANGED <<proc, listening, peerStream, peerState, virt>>,
               DeviceIds(Server)' = DeviceIds(Server), devices[Server] = <<>> => devices'[Server] = <<>>
        PROVE  Keeps
    <2>1. DOMAIN streams'[Server] = DOMAIN streams[Server]
      BY <1>0, <1>1, FinishNames
    <2> QED BY <1>1, <2>1 DEF Keeps
  <1>2. UNCHANGED devices => DeviceIds(Server)' = DeviceIds(Server) /\ (devices[Server] = <<>> => devices'[Server] = <<>>)
    BY DEF DeviceIds
  <1>3. CASE PeerUpdGrab(Server, s)
    <2>1. /\ Finish(Server, s, streams[Server]) /\ devices[Server] # <<>>
          /\ UNCHANGED <<proc, listening, peerStream, peerState, virt>>
      BY <1>3 DEF PeerUpdGrab, PeerUnchanged, socketVars
    <2> DEFINE m == streams[Server][s].fallback.msg
    <2>2. devices' = [devices EXCEPT ![Server][FindById(Server, m.dev)].grabbed = (m.val = "grabbed")]
      BY <1>3, <2>1 DEF PeerUpdGrab
    <2>3. DeviceIds(Server)' = DeviceIds(Server)
      <3> HIDE DEF m
      <3> QED BY <1>0, <2>2, SameIds
    <2> QED BY <1>1, <2>1, <2>3
  <1>4. CASE PeerEvent(Server, s)
    <2>1. PICK k, ms : Finish(Server, s, PushAll(streams[Server], k, ms))
      BY <1>4 DEF PeerEvent, EmitEvent
    <2>2. UNCHANGED devices /\ UNCHANGED <<proc, listening, peerStream, peerState, virt>>
      BY <1>4 DEF PeerEvent, EmitEvent, PeerUnchanged, socketVars
    <2>3. DOMAIN PushAll(streams[Server], k, ms) = DOMAIN streams[Server]
      BY SameNames
    <2> QED BY <1>1, <1>2, <2>1, <2>2, <2>3
  <1>5. ASSUME NEW h, NEW grab, NEW reply, NEW new, PeerControl(Server, s, h, grab, reply, new)
        PROVE  Keeps
    BY <1>1, <1>2, <1>5, SameNames DEF PeerControl, ControlInputs, ControlledInputs, PeerUnchanged, socketVars
  <1>6. ASSUME NEW m, Answer(Server, s, m) PROVE Keeps
    BY <1>1, <1>2, <1>6, SameNames DEF Answer, RelayUnchanged, socketVars
  <1>7. CASE RelayIdle(Server, s)
    BY <1>1, <1>2, <1>7 DEF RelayIdle, RelayUnchanged, socketVars
  <1>8. CASE \/ RelayStart(Server, s) \/ RelayList(Server, s)
             \/ RelayPauseAgain(Server, s) \/ RelayResumeAgain(Server, s)
    BY <1>6, <1>8 DEF RelayStart, RelayList, RelayPauseAgain, RelayResumeAgain
  <1>9. CASE RelayPause(Server, s)
    <2> DEFINE held == ControlInputs(Server, streams[Server], FALSE)
    <2>1. DOMAIN held = DOMAIN streams[Server]
      BY SameNames DEF ControlInputs
    <2> HIDE DEF held
    <2>2. \E ss : Finish(Server, s, ss) /\ DOMAIN ss = DOMAIN held
      <3>1. PICK h, m : \/ Finish(Server, s, Push(Broadcast(Server, held, h), peerStream[Server], m))
                        \/ Finish(Server, s, Broadcast(Server, held, h))
        BY <1>9 DEF RelayPause, held
      <3> QED BY <3>1, SameNames
    <2>3. UNCHANGED devices /\ UNCHANGED <<proc, listening, peerStream, peerState, virt>>
      BY <1>9 DEF RelayPause, ControlledInputs, RelayUnchanged, socketVars
    <2> QED BY <1>1, <1>2, <2>1, <2>2, <2>3
  <1>10. CASE RelayResume(Server, s)
    <2> DEFINE held == ControlInputs(Server, streams[Server], TRUE)
               ss   == Push(held, peerStream[Server], Msg("PEER_RESUME"))
    <2>1. DOMAIN held = DOMAIN streams[Server]
      BY SameNames DEF ControlInputs
    <2>2. Finish(Server, s, ss)
      BY <1>10 DEF RelayResume
    <2> HIDE DEF held
    <2>3. DOMAIN ss = DOMAIN held
      BY SameNames
    <2> HIDE DEF ss
    <2>4. UNCHANGED devices /\ UNCHANGED <<proc, listening, peerStream, peerState, virt>>
      BY <1>10 DEF RelayResume, ControlledInputs, RelayUnchanged, socketVars
    <2> QED BY <1>1, <1>2, <2>1, <2>2, <2>3, <2>4
  <1>11. CASE RelayStop(Server, s)
    BY <1>1, <1>2, <1>11, SameNames DEF RelayStop, RelayUnchanged, socketVars
  <1>12. ~DevHandler(Server, s)
    <2>1. HasRead(Server, s, "PEER_EVENT") => s \in NamesOf(Server)
      BY <1>0, ReadLemma DEF None
    <2> QED BY <1>0, <2>1, NamesLemma DEF DevHandler
  <1>13. ~PeerStopClient(Server, s) /\ ~PeerStopCrashes(Server, s)
    BY DEF PeerStopClient, PeerStopCrashes
  <1> QED BY <1>3, <1>4, <1>5, <1>7, <1>8, <1>9, <1>10, <1>11, <1>12, <1>13
          DEF PeerHandler, PeerPause, PeerResume, RelayHandler, Copies, Forgets

\* Every step is one that ends the server, accepts a client, copies a device, forgets a
\* client, or keeps what the server has.
LEMMA ServerStep ==
  ASSUME TypeInv, Next
  PROVE  Keeps \/ Copies \/ Forgets \/ Departs(Server) \/ \E c \in Clients : Accepts(c)
  <1>0. Server \in Daemons
    BY DEF Daemons
  <1>1. ASSUME UNCHANGED daemonVars, UNCHANGED listening, UNCHANGED virt PROVE Keeps
    BY <1>1 DEF Keeps, DeviceIds, daemonVars
  <1>2. User => Keeps
    BY <1>1 DEF User, KeyDown, KeyUp, Move, Unplug, UserUnchanged, socketVars
  <1>3. ASSUME NEW r \in Relays,
               \/ \E h \in Commands[r] : RelayConnect(r, h)
               \/ RelayRead(r) \/ RelayDrain(r)
               \/ \E how \in {"closed", "failed"} : RelayEnds(r, how)
        PROVE  Keeps
    BY <1>1, <1>3 DEF RelayConnect, RelayRead, RelayDrain, RelayEnds, Others, inputVars
  <1>4. ASSUME NEW c \in Clients, ClientStart(c) PROVE Keeps
    <2>1. c # Server /\ c \in Daemons
      BY ClientLemma
    <2>2. /\ proc'[Server] = proc[Server] /\ streams'[Server] = streams[Server]
          /\ peerStream'[Server] = peerStream[Server] /\ peerState'[Server] = peerState[Server]
          /\ devices'[Server] = devices[Server]
      BY <1>0, <1>4, <2>1 DEF ClientStart, TypeInv
    <2>3. UNCHANGED <<listening, virt>>
      BY <1>4 DEF ClientStart, inputVars
    <2> QED BY <2>2, <2>3 DEF Keeps, DeviceIds
  <1>5. CASE Dispatch(Server)
    <2>1. /\ DOMAIN streams'[Server] = DOMAIN streams[Server] \cup NewStreams(Server)
          /\ Accepted(Server) \in Seq(RelaysOf(Server))
          /\ AcceptsPeer(Server) => Head(backlog[Tcp]) \in PeersOf(Server)
      BY <1>0, <1>5, PassStreams, AcceptedTyped
    <2>2. CASE AcceptsPeer(Server)
      BY <1>5, <2>1, <2>2 DEF PeersOf, Accepts
    <2>3. CASE ~AcceptsPeer(Server)
      <3>1. UNCHANGED <<listening, proc, peerStream, peerState, devices>>
        <4>1. listening \in BOOLEAN
          BY DEF TypeInv
        <4> QED BY <1>5, <2>3, <4>1 DEF Dispatch, ListeningAfter
      <3>2. \A x \in NewStreams(Server) : x[1] = "relay"
        <4>1. \A x \in RelaysOf(Server) : x[1] = "relay"
          BY DEF RelaysOf, RelayConn
        <4>2. \A i \in DOMAIN Accepted(Server) : Accepted(Server)[i] \in RelaysOf(Server)
          BY <2>1
        <4> QED BY <2>3, <4>1, <4>2 DEF NewStreams
      <3>3. virt' = virt \/ \E x \in DOMAIN streams[Server] : x[1] = "udev"
        <4>1. ASSUME ~\E x \in DOMAIN streams[Server] : x[1] = "udev" PROVE virt' = virt
          <5>1. \A k, E : ~Replays(Server, k, E)
            BY <4>1 DEF Replays, ReadySet, UdevStream
          <5> QED BY <1>5, <5>1 DEF Dispatch
        <4> QED BY <4>1
      <3> QED BY <2>1, <3>1, <3>2, <3>3 DEF Keeps, DeviceIds
    <2> QED BY <2>2, <2>3
  <1>6. CASE Resolve(Server)
    <2>1. Fails(Server) => Departs(Server)
      BY DEF Fails, Departs
    <2>2. PICK s : \/ ResolveFreed(Server, s) \/ ResolveIncomplete(Server, s) \/ ResolveClosed(Server, s)
                   \/ Fails(Server) \/ ResolveWritten(Server, s)
                   \/ PeerHandler(Server, s) \/ RelayHandler(Server, s) \/ DevHandler(Server, s)
      BY <1>6 DEF Resolve, CloseCrashes
    <2>3. CASE ~Fails(Server) /\ (ResolveFreed(Server, s) \/ ResolveIncomplete(Server, s))
      BY <2>3 DEF ResolveFreed, ResolveIncomplete, Keeps, DeviceIds, socketVars, inputVars
    <2>4. CASE ResolveClosed(Server, s)
      <3>1. /\ UNCHANGED <<listening, proc, peerStream, devices, virt>>
            /\ peerState'[Server] \in {peerState[Server], "DISCONNECTED"}
            /\ streams'[Server] = Without(streams[Server], {s})
        BY <1>0, <2>4 DEF ResolveClosed, PeerClosed, inputVars, TypeInv
      <3> QED BY <3>1 DEF Keeps, DeviceIds, Without
    <2>5. CASE ResolveWritten(Server, s)
      <3>1. UNCHANGED <<listening, proc, peerStream, peerState, devices, virt>>
        BY <2>5 DEF ResolveWritten, socketVars, inputVars
      <3>2. DOMAIN streams'[Server] = DOMAIN streams[Server]
        BY <1>0, <2>5, WrittenStream
      <3> QED BY <3>1, <3>2 DEF Keeps, DeviceIds
    <2> QED BY <2>1, <2>2, <2>3, <2>4, <2>5, HandlersKeep
  <1>7. ASSUME NEW d \in Daemons, d # Server, Departs(d) \/ Dispatch(d) \/ Resolve(d) PROVE Keeps
    <2>1. Fails(d) => Departs(d)
      BY DEF Fails, Departs
    <2> QED BY <1>7, <2>1, ResolveMoves, OthersKeep
  <1> QED BY <1>2, <1>3, <1>4, <1>5, <1>6, <1>7, FineSteps

-----------------------------------------------------------------------------
(* Whom the server serves *)

\* the clients the server does not serve, or no longer, have nothing to say to it
Guests ==
    \A c \in Clients :
        PeerConn(c) \in DOMAIN streams[Server] /\ (listening \/ peerStream[Server] # PeerConn(c))
            => Silent(c)

\* every uinput stream is that of a device
Copied == \A x \in DOMAIN streams[Server] : x[1] = "udev" => x[2] \in DeviceIds(Server)

\* a server that has ended is empty
Emptied == proc[Server] # "running" => devices[Server] = <<>> /\ ~listening

Serving == Guests /\ Copied /\ Emptied /\ ListeningIsFresh

\* a device or a stop is the message of the client that is served
LEMMA GuestSpeaks ==
  ASSUME TypeInv, Guests, NEW h \in {"PEER_DEV_CRT", "PEER_STOP"}, NEW s,
         HasRead(Server, s, h), s[1] = "peer"
  PROVE  \E c \in Clients : /\ s = PeerConn(c) /\ s \in DOMAIN streams[Server]
                            /\ Arrived(c) = streams[Server][s].fallback.msg /\ Arrived(c).h = h
                            /\ ~Silent(c) /\ ~listening /\ peerStream[Server] = PeerConn(c)
  <1>1. Server \in Daemons
    BY DEF Daemons
  <1>2. s \in DOMAIN streams[Server] /\ streams[Server][s].fallback.msg.h = h
    BY DEF HasRead
  <1>3. s \in NamesOf(Server)
    BY <1>1, <1>2 DEF TypeInv, TypedStreams
  <1>4. PICK c \in Clients : s = PeerConn(c)
    BY <1>1, <1>3, NamesLemma
  <1>5. Arrived(c) = streams[Server][s].fallback.msg /\ Arrived(c).h = h
    BY <1>2, <1>4 DEF Arrived, Got
  <1>6. ~Silent(c)
    BY <1>5 DEF Silent, Harmless, IsStop, IsCrt
  <1> QED BY <1>2, <1>4, <1>5, <1>6 DEF Guests

\* what the handler of a new device does
LEMMA CopiesFacts ==
  ASSUME TypeInv, Guests, NEW s, PeerDevCrt(Server, s)
  PROVE  \E c \in Clients :
            LET k == Arrived(c).dev
            IN  /\ IsCrt(Arrived(c)) /\ ~listening /\ peerStream[Server] = PeerConn(c)
                /\ PeerConn(c) \in DOMAIN streams[Server]
                /\ DOMAIN streams'[Server] = DOMAIN streams[Server] \cup {UdevStream(k)}
                /\ DeviceIds(Server)' = DeviceIds(Server) \cup {k}
                /\ UNCHANGED <<proc, listening, peerStream>>
  <1>0. Server \in Daemons
    BY DEF Daemons
  <1>1. HasRead(Server, s, "PEER_DEV_CRT") /\ s[1] = "peer"
    BY DEF PeerDevCrt
  <1>2. PICK c \in Clients :
           /\ s = PeerConn(c) /\ s \in DOMAIN streams[Server]
           /\ Arrived(c) = streams[Server][s].fallback.msg /\ Arrived(c).h = "PEER_DEV_CRT"
           /\ ~Silent(c) /\ ~listening /\ peerStream[Server] = PeerConn(c)
    BY <1>1, GuestSpeaks
  <1> DEFINE k == Arrived(c).dev
             e == [id |-> k, grabbed |-> FALSE]
             q == devices[Server]
  <1>3. /\ Finish(Server, s, Opened(streams[Server], {UdevStream(k)}))
        /\ devices' = [devices EXCEPT ![Server] = Append(@, e)]
        /\ UNCHANGED <<proc, listening, peerStream>>
    BY <1>2 DEF PeerDevCrt, PeerUnchanged, socketVars
  <1>4. DOMAIN streams'[Server] = DOMAIN streams[Server] \cup {UdevStream(k)}
    BY <1>0, <1>3, FinishNames DEF Opened
  <1>5. DeviceIds(Server)' = DeviceIds(Server) \cup {k}
    <2>1. q \in Seq(Entries) /\ devices'[Server] = Append(q, e)
      BY <1>0, <1>3 DEF TypeInv, DeviceLists
    <2>2. k \in Devices
      <3>1. Arrived(c) \in Received(Server, s)
        BY <1>0, <1>1, <1>2, ReadLemma DEF None
      <3> QED BY <1>1, <1>2, <3>1 DEF Received, ToServer, PeerControls, DeviceHeaders
    <2> HIDE DEF k
    <2>3. e \in Entries /\ e.id = k
      BY <2>2 DEF Entries
    <2> DEFINE v == Append(q, e)
               n == Len(q)
    <2>4. /\ v \in Seq(Entries) /\ Len(v) = n + 1 /\ v[n + 1] = e
          /\ \A i \in 1..n : v[i] = q[i]
      BY <2>1, <2>3, AppendProperties
    <2>5. n \in Nat /\ DOMAIN q = 1..n /\ DOMAIN v = 1..(n + 1)
      BY <2>1, <2>4, PlacesLemma
    <2> HIDE DEF v, n, e
    <2>6. \A i \in 1..(n + 1) : i \in 1..n \/ i = n + 1
      BY <2>5
    <2>7. \A i \in 1..n : i \in 1..(n + 1) /\ n + 1 \in 1..(n + 1)
      BY <2>5
    <2>8. n + 1 \in 1..(n + 1)
      BY <2>5
    <2>9. {v[i].id : i \in 1..(n + 1)} = {q[i].id : i \in 1..n} \cup {k}
      BY <2>3, <2>4, <2>6, <2>7, <2>8
    <2> QED BY <2>1, <2>5, <2>9 DEF DeviceIds, v
  <1>6. IsCrt(Arrived(c))
    BY <1>2 DEF IsCrt
  <1> QED BY <1>2, <1>3, <1>4, <1>5, <1>6

\* what the handler of a stop does
LEMMA ForgetsFacts ==
  ASSUME TypeInv, Guests, NEW s, PeerStopServer(Server, s)
  PROVE  \E c \in Clients :
            /\ IsStop(Arrived(c)) /\ ~listening /\ peerStream[Server] = PeerConn(c)
            /\ PeerConn(c) \in DOMAIN streams[Server]
            /\ DOMAIN streams'[Server] = DOMAIN streams[Server] \ UdevStreams(Server)
            /\ devices'[Server] = <<>> /\ virt' = {} /\ listening' = TRUE
            /\ peerState'[Server] = "DISCONNECTED" /\ peerStream'[Server] = NoStream
            /\ proc' = proc /\ Arrived(c)' = Msg(None) /\ Piped(c)' = Piped(c)
            /\ Queue(c)' = Queue(c)
  <1>0. Server \in Daemons
    BY DEF Daemons
  <1>1. HasRead(Server, s, "PEER_STOP") /\ s[1] = "peer"
    BY DEF PeerStopServer
  <1>2. PICK c \in Clients :
           /\ s = PeerConn(c) /\ s \in DOMAIN streams[Server]
           /\ Arrived(c) = streams[Server][s].fallback.msg /\ Arrived(c).h = "PEER_STOP"
           /\ ~Silent(c) /\ ~listening /\ peerStream[Server] = PeerConn(c)
    BY <1>1, GuestSpeaks
  <1> DEFINE ss == Without(streams[Server], UdevStreams(Server))
  <1>3. /\ Finish(Server, s, ss) /\ devices'[Server] = <<>> /\ virt' = {} /\ listening' = TRUE
        /\ peerState'[Server] = "DISCONNECTED" /\ peerStream'[Server] = NoStream
        /\ UNCHANGED <<proc, pipe>>
    BY <1>0 DEF PeerStopServer, NoDevices, PeerUnchanged, TypeInv
  <1>4. TypedStreams(Server, streams[Server], exiting)
    BY <1>0 DEF TypeInv
  <1>5. DOMAIN ss = DOMAIN streams[Server] \ UdevStreams(Server) /\ TypedStreams(Server, ss, exiting)
    <2>1. DOMAIN ss = DOMAIN streams[Server] \ UdevStreams(Server)
      BY DEF Without
    <2>2. \A x \in DOMAIN ss : ss[x] = streams[Server][x]
      BY DEF Without
    <2> HIDE DEF ss
    <2>3. TypedStreams(Server, ss, exiting)
      BY <1>4, <2>1, <2>2 DEF TypedStreams
    <2> QED BY <2>1, <2>3
  <1> HIDE DEF ss
  <1>6. s \in DOMAIN ss
    BY <1>1, <1>2, <1>5 DEF UdevStreams, UdevStream
  <1>c. \A item : Cleared(s, item) = Idle
    BY <1>2 DEF Cleared, IsSocket, PeerConn
  <1>7. /\ DOMAIN streams'[Server] = DOMAIN ss /\ streams'[Server][s].fallback = Idle
        /\ streams' = [streams EXCEPT ![Server] = streams'[Server]]
    BY <1>0, <1>3, <1>5, <1>6, <1>c, FinishTyped DEF TypeInv
  <1>8. Arrived(c)' = Msg(None)
    BY <1>2, <1>6, <1>7 DEF Arrived, Got, Idle, Item
  <1>9. streams'[c] = streams[c]
    BY <1>7, ClientLemma DEF TypeInv
  <1>10. Piped(c)' = Piped(c) /\ Queue(c)' = Queue(c)
    BY <1>3, <1>9 DEF Piped, Queue, Here
  <1>11. IsStop(Arrived(c))
    BY <1>2 DEF IsStop
  <1> QED BY <1>2, <1>3, <1>5, <1>7, <1>8, <1>10, <1>11

\* what accepting a client does
LEMMA AcceptsFacts ==
  ASSUME TypeInv, NEW c \in Clients, Accepts(c)
  PROVE  /\ listening /\ ~listening' /\ proc[Server] = "running" /\ UNCHANGED <<proc, devices>>
         /\ peerStream'[Server] = PeerConn(c)
         /\ \A x \in DOMAIN streams'[Server] \ DOMAIN streams[Server] :
               x[1] = "relay" \/ x = PeerConn(c)
  <1>0. Server \in Daemons
    BY DEF Daemons
  <1>1. Dispatch(Server) /\ AcceptsPeer(Server) /\ Head(backlog[Tcp]) = PeerConn(c)
    BY DEF Accepts
  <1>2. listening /\ listening' = FALSE
    BY <1>1 DEF AcceptsPeer, Dispatch, ListeningAfter
  <1>3. peerStream'[Server] = PeerConn(c) /\ proc[Server] = "running" /\ UNCHANGED <<proc, devices>>
    BY <1>0, <1>1 DEF Dispatch, InLoop, TypeInv
  <1>4. \A x \in DOMAIN streams'[Server] \ DOMAIN streams[Server] : x[1] = "relay" \/ x = PeerConn(c)
    <2>1. DOMAIN streams'[Server] = DOMAIN streams[Server] \cup NewStreams(Server)
      BY <1>0, <1>1, PassStreams
    <2>2. Accepted(Server) \in Seq(RelaysOf(Server))
      BY <1>0, AcceptedTyped
    <2>3. \A x \in RelaysOf(Server) : x[1] = "relay"
      BY DEF RelaysOf, RelayConn
    <2>4. \A i \in DOMAIN Accepted(Server) : Accepted(Server)[i] \in RelaysOf(Server)
      BY <2>2
    <2> QED BY <1>1, <2>1, <2>3, <2>4 DEF NewStreams
  <1> QED BY <1>2, <1>3, <1>4

\* a server that ends keeps nothing
LEMMA DepartsFacts ==
  ASSUME TypeInv, Departs(Server)
  PROVE  /\ proc'[Server] # "running" /\ listening' = FALSE /\ devices'[Server] = <<>>
         /\ DOMAIN streams'[Server] = {}
  <1>1. Server \in Daemons
    BY DEF Daemons
  <1>2. PICK how \in {"exited", "failed"} : \E p : ProcessEnds(Server, how, p)
    BY DEF Departs
  <1>3. proc'[Server] = how /\ streams'[Server] = <<>> /\ devices'[Server] = <<>>
    BY <1>1, <1>2 DEF ProcessEnds, TypeInv
  <1>4. listening' = FALSE
    BY <1>2 DEF ProcessEnds
  <1> QED BY <1>3, <1>4

\* The server goes on serving one client at a time.
LEMMA ServingStep ==
  ASSUME TypeInv, TypeInv', Stopped, Next, StopsOnce, Said, Serving
  PROVE  Serving'
  <1>0. Server \in Daemons
    BY DEF Daemons
  <1>1. \A c \in Clients : Silent(c) => Silent(c)'
    BY SilentStep DEF Said
  <1>2. DOMAIN streams[Server] # {} => proc[Server] = "running"
    BY <1>0 DEF Stopped
  <1>3. \A c \in Clients : PeerConn(c)[1] = "peer"
    BY DEF PeerConn
  <1>4. CASE Keeps
    <2>1. Guests'
      BY <1>1, <1>3, <1>4 DEF Keeps, Serving, Guests
    <2>2. Copied'
      BY <1>4 DEF Keeps, Serving, Copied
    <2>3. Emptied'
      BY <1>4 DEF Keeps, Serving, Emptied
    <2>4. ListeningIsFresh'
      BY <1>4 DEF Keeps, Serving, ListeningIsFresh
    <2> QED BY <2>1, <2>2, <2>3, <2>4 DEF Serving
  <1>5. ASSUME NEW c \in Clients, Accepts(c) PROVE Serving'
    <2>1. /\ listening /\ ~listening' /\ proc[Server] = "running" /\ UNCHANGED <<proc, devices>>
          /\ peerStream'[Server] = PeerConn(c)
          /\ \A x \in DOMAIN streams'[Server] \ DOMAIN streams[Server] :
                x[1] = "relay" \/ x = PeerConn(c)
      BY <1>5, AcceptsFacts
    <2>2. Guests'
      BY <1>1, <1>3, <2>1 DEF Serving, Guests
    <2>3. Copied'
      BY <1>3, <2>1 DEF Serving, Copied, DeviceIds
    <2> QED BY <2>1, <2>2, <2>3 DEF Serving, Emptied, ListeningIsFresh
  <1>6. ASSUME NEW s, PeerDevCrt(Server, s) PROVE Serving'
    <2>1. PICK c \in Clients :
             LET k == Arrived(c).dev
             IN  /\ ~listening /\ PeerConn(c) \in DOMAIN streams[Server]
                 /\ DOMAIN streams'[Server] = DOMAIN streams[Server] \cup {UdevStream(k)}
                 /\ DeviceIds(Server)' = DeviceIds(Server) \cup {k}
                 /\ UNCHANGED <<proc, listening, peerStream>>
      BY <1>6, CopiesFacts DEF Serving
    <2>2. \A k : UdevStream(k)[1] = "udev" /\ UdevStream(k)[2] = k
      BY DEF UdevStream
    <2>3. Guests'
      BY <1>1, <1>3, <2>1, <2>2 DEF Serving, Guests
    <2>4. Copied'
      BY <2>1, <2>2 DEF Serving, Copied
    <2>5. proc'[Server] = "running"
      BY <1>2, <2>1
    <2> QED BY <2>1, <2>3, <2>4, <2>5 DEF Serving, Emptied, ListeningIsFresh
  <1>7. ASSUME NEW s, PeerStopServer(Server, s) PROVE Serving'
    <2>1. PICK c \in Clients :
            /\ IsStop(Arrived(c)) /\ peerStream[Server] = PeerConn(c)
            /\ PeerConn(c) \in DOMAIN streams[Server]
            /\ DOMAIN streams'[Server] = DOMAIN streams[Server] \ UdevStreams(Server)
            /\ devices'[Server] = <<>> /\ virt' = {} /\ listening' = TRUE
            /\ peerState'[Server] = "DISCONNECTED"
            /\ proc' = proc /\ Arrived(c)' = Msg(None) /\ Piped(c)' = Piped(c)
            /\ Queue(c)' = Queue(c)
      BY <1>7, ForgetsFacts DEF Serving
    <2>2. Silent(c)'
      <3>1. Spent(c) /\ Harmless(Msg(None), Piped(c), Queue(c))
        BY <2>1, StopIsLast DEF Said
      <3>2. Spent(c)'
        BY <3>1, SpentStep
      <3>3. proc'[c] # "off"
        BY <2>1 DEF Said, Linked
      <3> QED BY <2>1, <3>1, <3>2, <3>3 DEF Silent
    <2>3. Guests'
      <3> SUFFICES ASSUME NEW e \in Clients, PeerConn(e) \in DOMAIN streams'[Server] PROVE Silent(e)'
        BY DEF Guests
      <3>1. CASE e = c
        BY <2>2, <3>1
      <3>2. CASE e # c
        <4>1. PeerConn(e) # PeerConn(c)
          BY <3>2 DEF PeerConn
        <4> QED BY <1>1, <2>1, <4>1 DEF Serving, Guests
      <3> QED BY <3>1, <3>2
    <2>4. \A x \in DOMAIN streams'[Server] : x[1] # "udev"
      <3> SUFFICES ASSUME NEW x \in DOMAIN streams[Server], x[1] = "udev" PROVE x \in UdevStreams(Server)
        BY <2>1
      <3>1. x = UdevStream(x[2])
        BY <1>0, NamesLemma DEF TypeInv, TypedStreams
      <3> QED BY <3>1 DEF Serving, Copied, UdevStreams
    <2>5. proc'[Server] = "running"
      BY <1>2, <2>1
    <2> QED BY <2>1, <2>3, <2>4, <2>5 DEF Serving, Copied, Emptied, ListeningIsFresh
  <1>8. CASE Departs(Server)
    BY <1>8, DepartsFacts DEF Serving, Guests, Copied, Emptied, ListeningIsFresh
  <1> QED BY <1>4, <1>5, <1>6, <1>7, <1>8, ServerStep DEF Copies, Forgets

LEMMA ServingHolds == ASSUME StopsOnce PROVE Spec => []Serving
  <1>1. Init => Serving
    <2> SUFFICES ASSUME Init PROVE Serving
      OBVIOUS
    <2>1. /\ DOMAIN streams[Server] = {} /\ proc[Server] = "running" /\ devices[Server] = <<>>
          /\ peerState[Server] = "DISCONNECTED" /\ virt = {}
      BY DEF Init, Daemons
    <2> QED BY <2>1 DEF Serving, Guests, Copied, Emptied, ListeningIsFresh
  <1>2. TypeInv /\ TypeInv' /\ Stopped /\ Said /\ [Next]_vars /\ Serving => Serving'
    <2>1. TypeInv /\ TypeInv' /\ Stopped /\ Said /\ Next /\ Serving => Serving'
      BY ServingStep
    <2>2. ASSUME UNCHANGED vars PROVE Serving => Serving'
      <3>1. UNCHANGED <<streams, pipe, relay, proc, devices, peerState, peerStream, listening, virt>>
        BY <2>2 DEF vars, daemonVars, socketVars, inputVars
      <3>2. \A r \in Relays : Request(r)' = Request(r) /\ Taken(r)' = Taken(r)
        BY <3>1 DEF Request, Taken, Got
      <3>3. \A c \in Clients : Spent(c) => Spent(c)'
        BY <3>1, <3>2 DEF Spent
      <3>4. \A c \in Clients : Arrived(c)' = Arrived(c) /\ Piped(c)' = Piped(c) /\ Queue(c)' = Queue(c)
        BY <3>1 DEF Arrived, Got, Piped, Queue, Here
      <3>5. \A c \in Clients : Silent(c) => Silent(c)'
        BY <3>1, <3>3, <3>4 DEF Silent
      <3>6. Guests => Guests'
        BY <3>1, <3>5 DEF Guests
      <3> QED BY <3>1, <3>6 DEF Serving, Copied, Emptied, ListeningIsFresh, DeviceIds
    <2> QED BY <2>1, <2>2
  <1>3. Spec => []Said
    BY SaidHolds
  <1> QED BY <1>1, <1>2, <1>3, Typed, StoppedHolds, PTL DEF Spec

\* While the server's TCP socket is open, nothing of an earlier client is left: no peer, no
\* virtual device, no key that is down, unless two relays may stop the same client.
THEOREM ListeningServerIsFresh == ASSUME StopsOnce PROVE Spec => []ListeningIsFresh
  <1>1. Spec => []Serving
    BY ServingHolds
  <1>2. Serving => ListeningIsFresh
    BY DEF Serving
  <1> QED BY <1>1, <1>2, PTL

-----------------------------------------------------------------------------
(* The server implements RcnSession *)

\* what the state of RcnSession is made of
Hosted == IF listening \/ proc[Server] # "running" THEN None ELSE Guest
Ended  == proc[Server] # "running"

\* the guest is the client whose connection was taken last
LEMMA GuestLemma ==
  /\ \A c \in Clients : peerStream[Server] = PeerConn(c) => Guest = c
  /\ \A c \in Clients : peerStream'[Server] = PeerConn(c) => Guest' = c
  /\ peerStream'[Server] = peerStream[Server] => Guest' = Guest
  <1>1. \A c, e : PeerConn(c) = PeerConn(e) => c = e
    BY DEF PeerConn
  <1>2. ASSUME NEW c \in Clients, peerStream[Server] = PeerConn(c) PROVE Guest = c
    <2>1. {e \in Clients : peerStream[Server] = PeerConn(e)} = {c}
      BY <1>1, <1>2
    <2> QED BY <2>1 DEF Guest
  <1>3. ASSUME NEW c \in Clients, peerStream'[Server] = PeerConn(c) PROVE Guest' = c
    <2>1. {e \in Clients : peerStream'[Server] = PeerConn(e)} = {c}
      BY <1>1, <1>3
    <2> QED BY <2>1 DEF Guest
  <1>4. peerStream'[Server] = peerStream[Server] => Guest' = Guest
    BY DEF Guest
  <1> QED BY <1>2, <1>3, <1>4

\* Every step is one of RcnSession's, or changes nothing that it has.
LEMMA SessionStep ==
  ASSUME TypeInv, Stopped, Next, Said, Serving
  PROVE  Session!Next \/ UNCHANGED <<Hosted, DeviceIds(Server), Ended>>
  <1>0. Server \in Daemons
    BY DEF Daemons
  <1>1. DOMAIN streams[Server] # {} => proc[Server] = "running"
    BY <1>0 DEF Stopped
  <1>2. \A c \in Clients : c # None
    BY NobodyAssumption
  <1>3. CASE Keeps
    <2>1. Hosted' = Hosted /\ Ended' = Ended /\ DeviceIds(Server)' = DeviceIds(Server)
      BY <1>3, GuestLemma DEF Keeps, Hosted, Ended
    <2> QED BY <2>1
  <1>4. ASSUME NEW c \in Clients, Accepts(c) PROVE Session!Next
    <2>1. /\ listening /\ ~listening' /\ proc[Server] = "running" /\ UNCHANGED <<proc, devices>>
          /\ peerStream'[Server] = PeerConn(c)
      BY <1>4, AcceptsFacts
    <2>2. Guest' = c
      BY <2>1, GuestLemma
    <2>3. DeviceIds(Server)' = DeviceIds(Server)
      BY <2>1 DEF DeviceIds
    <2>4. Session!Admit(c)
      BY <2>1, <2>2, <2>3 DEF Session!Admit
    <2> QED BY <2>4 DEF Session!Next
  <1>5. ASSUME NEW s, PeerDevCrt(Server, s)
        PROVE  Session!Next \/ UNCHANGED <<Hosted, DeviceIds(Server), Ended>>
    <2>1. PICK c \in Clients :
             /\ IsCrt(Arrived(c)) /\ ~listening /\ peerStream[Server] = PeerConn(c)
             /\ PeerConn(c) \in DOMAIN streams[Server]
             /\ DeviceIds(Server)' = DeviceIds(Server) \cup {Arrived(c).dev}
             /\ UNCHANGED <<proc, listening, peerStream>>
      BY <1>5, CopiesFacts DEF Serving
    <2> DEFINE k == Arrived(c).dev
    <2>2. k \in Captures(c)
      BY <2>1 DEF Said, Parting, Orderly, Fit
    <2>3. Guest = c /\ Guest' = c
      BY <2>1, GuestLemma
    <2>4. Hosted = c /\ Hosted' = c /\ Ended' = Ended
      BY <1>1, <2>1, <2>3 DEF Hosted, Ended
    <2>5. CASE k \in DeviceIds(Server)
      BY <2>1, <2>4, <2>5
    <2>6. CASE k \notin DeviceIds(Server)
      <3>1. proc[Server] = "running" /\ ~listening /\ c # None
        BY <1>1, <1>2, <2>1
      <3> HIDE DEF k
      <3>2. DeviceIds(Server)' = DeviceIds(Server) \cup {k}
        BY <2>1 DEF k
      <3>3. Session!Copy(k)
        BY <2>1, <2>2, <2>3, <2>6, <3>1, <3>2 DEF Session!Copy, Captures
      <3>4. k \in [e \in Clients |-> {DeviceArg[e][i] : i \in DOMAIN DeviceArg[e]}][c]
        BY <2>2 DEF Captures
      <3> QED BY <2>1, <2>3, <3>1, <3>3, <3>4 DEF Session!Next
    <2> QED BY <2>5, <2>6
  <1>6. ASSUME NEW s, PeerStopServer(Server, s) PROVE Session!Next
    <2>1. PICK c \in Clients :
            /\ ~listening /\ peerStream[Server] = PeerConn(c)
            /\ PeerConn(c) \in DOMAIN streams[Server]
            /\ devices'[Server] = <<>> /\ listening' = TRUE /\ proc' = proc
      BY <1>6, ForgetsFacts DEF Serving
    <2>2. Guest = c /\ c # None /\ proc[Server] = "running"
      BY <1>1, <1>2, <2>1, GuestLemma
    <2>3. DeviceIds(Server)' = {}
      BY <2>1 DEF DeviceIds
    <2>4. Session!Leave
      BY <2>1, <2>2, <2>3 DEF Session!Leave
    <2> QED BY <2>4 DEF Session!Next
  <1>7. ASSUME Departs(Server)
        PROVE  Session!Next \/ UNCHANGED <<Hosted, DeviceIds(Server), Ended>>
    <2>1. proc'[Server] # "running" /\ listening' = FALSE /\ devices'[Server] = <<>>
      BY <1>7, DepartsFacts
    <2>2. DeviceIds(Server)' = {}
      BY <2>1 DEF DeviceIds
    <2>3. CASE proc[Server] = "running"
      <3>1. Session!End
        BY <2>1, <2>2, <2>3 DEF Session!End
      <3> QED BY <3>1 DEF Session!Next
    <2>4. CASE proc[Server] # "running"
      <3>1. DeviceIds(Server) = {}
        BY <2>4 DEF Serving, Emptied, DeviceIds
      <3> QED BY <2>1, <2>2, <2>4, <3>1 DEF Hosted, Ended
    <2> QED BY <2>3, <2>4
  <1> QED BY <1>3, <1>4, <1>5, <1>6, <1>7, ServerStep DEF Copies, Forgets

\* The server implements RcnSession, unless two relays may stop the same client: it serves
\* one client at a time, copies its devices one by one and forgets them all at once.
THEOREM ServerServesSessions == ASSUME StopsOnce PROVE Spec => ImplementsSession
  <1>1. Init => Session!Init
    <2> SUFFICES ASSUME Init PROVE Session!Init
      OBVIOUS
    <2>1. listening = TRUE /\ devices[Server] = <<>> /\ proc[Server] = "running"
      BY DEF Init, Daemons
    <2> QED BY <2>1 DEF Session!Init, DeviceIds
  <1>2. TypeInv /\ Stopped /\ Said /\ Serving /\ [Next]_vars
          => [Session!Next]_<<IF listening \/ proc[Server] # "running" THEN None ELSE Guest,
                              DeviceIds(Server), proc[Server] # "running">>
    <2>1. TypeInv /\ Stopped /\ Said /\ Serving /\ Next
            => Session!Next \/ UNCHANGED <<Hosted, DeviceIds(Server), Ended>>
      BY SessionStep
    <2>2. UNCHANGED vars => UNCHANGED <<Hosted, DeviceIds(Server), Ended>>
      BY DEF vars, daemonVars, socketVars, Hosted, Ended, Guest, DeviceIds
    <2> QED BY <2>1, <2>2 DEF Hosted, Ended
  <1> QED BY <1>1, <1>2, Typed, StoppedHolds, SaidHolds, ServingHolds, PTL
          DEF Spec, ImplementsSession, Session!Spec
=============================================================================
