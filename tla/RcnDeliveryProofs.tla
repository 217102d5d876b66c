--------------------------- MODULE RcnDeliveryProofs ---------------------------
(***************************************************************************)
(* What a client tells reaches the server whole and in order, and each     *)
(* side acts on it: PeersAgree, PausedKeysUp and ReplayInOrder of          *)
(* RcnDaemon, for any devices, keys and relays and one client.  The proof  *)
(* keeps the log of what the client has said since it connected, and the   *)
(* story the log tells.                                                    *)
(***************************************************************************)
EXTENDS RcnSessionProofs, WellFoundedInduction

-----------------------------------------------------------------------------
(* Places in a log: the next piece to go is `part` of the message behind    *)
(* the first `done` of them.                                                *)

Places == [done : Nat, part : {"header", "body"}]

\* the place reached by an item in the state x whose message follows the first n
Place(n, x) == [done |-> IF x = "COMPLETE" THEN n + 1 ELSE n,
                part |-> IF x = "BODY" THEN "body" ELSE "header"]

\* the piece at the place p of the log H, and the place after it
PieceAt(H, p) == [msg |-> H[p.done + 1], part |-> p.part]
After(H, p) ==
    IF p.part = "header" /\ HasBody(H[p.done + 1]) THEN [done |-> p.done, part |-> "body"]
    ELSE [done |-> p.done + 1, part |-> "header"]

\* P carries the pieces of H from the place a to the place b, each once and in order
CarriedBy(t, P, H, a, b) ==
    /\ t[1] = a /\ t[Len(P) + 1] = b
    /\ \A i \in 1..Len(P) : /\ t[i].done < Len(H)
                            /\ P[i] = PieceAt(H, t[i]) /\ t[i + 1] = After(H, t[i])
Carries(P, H, a, b) == \E t \in [1..(Len(P) + 1) -> Places] : CarriedBy(t, P, H, a, b)

\* after a place comes a place
LEMMA AfterLemma == \A H, p : p \in Places => After(H, p) \in Places
  BY DEF After, Places

\* nothing lies between two places that are one
LEMMA NothingCarried ==
  ASSUME NEW H, NEW a \in Places, NEW b \in Places
  PROVE  Carries(<<>>, H, a, b) <=> a = b
  <1>1. Len(<<>>) = 0
    OBVIOUS
  <1>2. ASSUME a = b PROVE Carries(<<>>, H, a, b)
    <2> DEFINE t == [i \in 1..(Len(<<>>) + 1) |-> a]
    <2>1. t \in [1..(Len(<<>>) + 1) -> Places] /\ CarriedBy(t, <<>>, H, a, b)
      BY <1>1, <1>2 DEF CarriedBy
    <2> QED BY <2>1 DEF Carries
  <1>3. Carries(<<>>, H, a, b) => a = b
    BY <1>1 DEF Carries, CarriedBy
  <1> QED BY <1>2, <1>3

\* the first piece that is carried is the one at the first place
LEMMA FirstCarried ==
  ASSUME NEW S, NEW P \in Seq(S), P # <<>>, NEW H, Len(H) \in Nat, NEW a, NEW b, Carries(P, H, a, b)
  PROVE  /\ a \in Places /\ a.done < Len(H) /\ Head(P) = PieceAt(H, a)
         /\ Carries(Tail(P), H, After(H, a), b)
  <1> DEFINE n == Len(P)
             T == Tail(P)
  <1>1. PICK t \in [1..(n + 1) -> Places] : CarriedBy(t, P, H, a, b)
    BY DEF Carries
  <1>2. /\ n \in Nat /\ n >= 1 /\ Head(P) = P[1] /\ Len(T) = n - 1
        /\ \A i \in 1..(n - 1) : T[i] = P[i + 1]
    <2>1. n \in Nat /\ n # 0
      BY EmptySeq, LenProperties
    <2>2. Tail(P) \in Seq(S) /\ Len(T) = n - 1 /\ \A i \in 1..(n - 1) : T[i] = P[i + 1]
      BY HeadTailProperties, Z3
    <2> QED BY <2>1, <2>2
  <1> HIDE DEF n, T
  <1>3. 1 \in 1..n /\ 1 \in 1..(n + 1)
    BY <1>2
  <1>4. a = t[1] /\ a \in Places /\ a.done < Len(H) /\ Head(P) = PieceAt(H, a) /\ t[2] = After(H, a)
    <2>1. a = t[1] /\ t[1].done < Len(H) /\ P[1] = PieceAt(H, t[1]) /\ t[1 + 1] = After(H, t[1])
      BY <1>1, <1>3 DEF CarriedBy, n
    <2> QED BY <1>2, <1>3, <2>1
  <1> DEFINE u == [i \in 1..(Len(T) + 1) |-> t[i + 1]]
  <1>5. u \in [1..(Len(T) + 1) -> Places]
    <2>1. \A i \in 1..(Len(T) + 1) : i + 1 \in 1..(n + 1)
      BY <1>2
    <2> QED BY <2>1
  <1>6. CarriedBy(u, T, H, After(H, a), b)
    <2>1. u[1] = After(H, a)
      BY <1>2, <1>4
    <2>2. u[Len(T) + 1] = b
      <3>1. t[n + 1] = b
        BY <1>1 DEF CarriedBy, n
      <3> QED BY <1>2, <3>1
    <2>3. ASSUME NEW i \in 1..Len(T)
          PROVE  u[i].done < Len(H) /\ T[i] = PieceAt(H, u[i]) /\ u[i + 1] = After(H, u[i])
      <3>1. i + 1 \in 1..n /\ i \in 1..(n - 1) /\ i \in 1..(Len(T) + 1) /\ i + 1 \in 1..(Len(T) + 1)
        BY <1>2
      <3>2. /\ t[i + 1].done < Len(H) /\ P[i + 1] = PieceAt(H, t[i + 1])
            /\ t[(i + 1) + 1] = After(H, t[i + 1])
        BY <1>1, <3>1 DEF CarriedBy, n
      <3> QED BY <1>2, <3>1, <3>2
    <2> QED BY <2>1, <2>2, <2>3 DEF CarriedBy
  <1>7. Carries(T, H, After(H, a), b)
    BY <1>5, <1>6 DEF Carries
  <1> QED BY <1>4, <1>7 DEF T

\* one more piece is carried
LEMMA OneMoreCarried ==
  ASSUME NEW S, NEW P \in Seq(S), NEW H, NEW a, NEW b \in Places, Carries(P, H, a, b),
         b.done < Len(H), NEW u \in S, u = PieceAt(H, b)
  PROVE  Carries(Append(P, u), H, a, After(H, b))
  <1> DEFINE n == Len(P)
             R == Append(P, u)
  <1>1. PICK t \in [1..(n + 1) -> Places] : CarriedBy(t, P, H, a, b)
    BY DEF Carries
  <1>2. n \in Nat /\ Len(R) = n + 1 /\ R[n + 1] = u /\ \A i \in 1..n : R[i] = P[i]
    BY AppendProperties, LenProperties
  <1>3. t[1] = a /\ t[n + 1] = b
    BY <1>1 DEF CarriedBy
  <1>4. \A i \in 1..n : t[i].done < Len(H) /\ P[i] = PieceAt(H, t[i]) /\ t[i + 1] = After(H, t[i])
    BY <1>1 DEF CarriedBy
  <1> HIDE DEF n, R
  <1> DEFINE v == [i \in 1..(Len(R) + 1) |-> IF i <= n + 1 THEN t[i] ELSE After(H, b)]
  <1>5. v \in [1..(Len(R) + 1) -> Places]
    <2>1. After(H, b) \in Places
      BY AfterLemma
    <2>2. \A i \in 1..(Len(R) + 1) : i <= n + 1 => i \in 1..(n + 1)
      BY <1>2
    <2> QED BY <2>1, <2>2
  <1>6. CarriedBy(v, R, H, a, After(H, b))
    <2>1. v[1] = a /\ v[Len(R) + 1] = After(H, b)
      BY <1>2, <1>3
    <2>2. ASSUME NEW i \in 1..Len(R)
          PROVE  v[i].done < Len(H) /\ R[i] = PieceAt(H, v[i]) /\ v[i + 1] = After(H, v[i])
      <3>1. i <= n + 1 /\ v[i] = t[i] /\ i + 1 \in 1..(Len(R) + 1)
        BY <1>2
      <3>2. CASE i <= n
        <4>1. i \in 1..n /\ v[i + 1] = t[i + 1]
          BY <1>2, <3>1, <3>2
        <4> QED BY <1>2, <1>4, <3>1, <4>1
      <3>3. CASE ~(i <= n)
        <4>1. i = n + 1 /\ v[i + 1] = After(H, b)
          BY <1>2, <3>1, <3>3
        <4> QED BY <1>2, <1>3, <3>1, <4>1
      <3> QED BY <3>2, <3>3
    <2> QED BY <2>1, <2>2 DEF CarriedBy
  <1> QED BY <1>5, <1>6 DEF Carries, R

\* a log that only grew carries the same
LEMMA LongerCarried ==
  ASSUME NEW P, NEW H, NEW G, NEW a, NEW b, Carries(P, H, a, b), Len(H) \in Nat, Len(G) \in Nat,
         Len(H) <= Len(G), \A i \in 1..Len(H) : G[i] = H[i]
  PROVE  Carries(P, G, a, b)
  <1>1. PICK t \in [1..(Len(P) + 1) -> Places] : CarriedBy(t, P, H, a, b)
    BY DEF Carries
  <1>2. ASSUME NEW i \in 1..Len(P)
        PROVE  t[i].done < Len(G) /\ P[i] = PieceAt(G, t[i]) /\ t[i + 1] = After(G, t[i])
    <2>1. t[i].done < Len(H) /\ P[i] = PieceAt(H, t[i]) /\ t[i + 1] = After(H, t[i])
      BY <1>1 DEF CarriedBy
    <2>2. 1 <= Len(P) + 1 => t[i] \in Places
      OBVIOUS
    <2>3. t[i].done \in Nat
      BY <2>1, <2>2 DEF Places
    <2>4. t[i].done + 1 \in 1..Len(H) /\ t[i].done < Len(G)
      BY <2>1, <2>3
    <2>5. G[t[i].done + 1] = H[t[i].done + 1]
      BY <2>4
    <2> QED BY <2>1, <2>4, <2>5 DEF PieceAt, After
  <1>3. CarriedBy(t, P, G, a, b)
    BY <1>1, <1>2 DEF CarriedBy
  <1> QED BY <1>3 DEF Carries

-----------------------------------------------------------------------------
(* A log H of all that a client has said, of which the server has handled  *)
(* the first n messages.  P is the pipe, Q the queue behind it, f what the *)
(* server reads.                                                           *)

\* Q is the end of H, of which only the first message may be under way
EndOf(H, Q) ==
    /\ Len(Q) <= Len(H)
    /\ \A i \in DOMAIN Q : /\ Q[i].msg = H[(Len(H) - Len(Q)) + i]
                           /\ i # 1 => Q[i].state = "HEADER"

\* the place reached by a writer whose queue is Q
Reached(H, Q) == Place(Len(H) - Len(Q), IF Q = <<>> THEN "HEADER" ELSE Q[1].state)

\* the server reads on behind what it has handled, and the pipe goes on from there, to
\* where the client writes if it still does
Matched(H, n, P, Q, here, f) ==
    /\ f.state \in {"BODY", "COMPLETE"} => n < Len(H) /\ f.msg = H[n + 1]
    /\ IF f.state = "CLOSED" THEN P = <<>> /\ ~here
       ELSE \E b \in Places : Carries(P, H, Place(n, f.state), b) /\ (here => b = Reached(H, Q))

\* an item is at a place, its next piece is the one there, and when that is gone the item
\* is at the place after it
LEMMA PlaceLemma ==
  ASSUME NEW H, NEW n \in Nat, NEW x
  PROVE  /\ Place(n, x) \in Places
         /\ x \in {"HEADER", "BODY"} =>
              /\ Place(n, x).done = n
              /\ PieceAt(H, Place(n, x)) = Unit([msg |-> H[n + 1], state |-> x])
              /\ Place(n, Streamed([msg |-> H[n + 1], state |-> x]).state) = After(H, Place(n, x))
         /\ Place(n, "COMPLETE") = Place(n + 1, "HEADER")
  BY DEF Place, Places, PieceAt, After, Unit, Streamed

\* the server reads what continues the message under way
LEMMA MatchedReads ==
  ASSUME NEW H \in Seq(ToServer), NEW n \in Nat, NEW P \in Seq(Pieces), P # <<>>, NEW Q, NEW here,
         NEW f, f.state \in {"HEADER", "BODY"}, Matched(H, n, P, Q, here, f)
  PROVE  LET g == Streamed([msg |-> Head(P).msg, state |-> f.state])
         IN  /\ InPlace(f, Head(P)) /\ g.state \in {"BODY", "COMPLETE"}
             /\ Matched(H, n, Tail(P), Q, here, g)
  <1> DEFINE a == Place(n, f.state)
             g == Streamed([msg |-> Head(P).msg, state |-> f.state])
  <1>0. Len(H) \in Nat
    BY LenProperties
  <1>1. PICK b \in Places : Carries(P, H, a, b) /\ (here => b = Reached(H, Q))
    BY DEF Matched
  <1>2. /\ a.done < Len(H) /\ Head(P) = PieceAt(H, a) /\ Carries(Tail(P), H, After(H, a), b)
    BY <1>0, <1>1, FirstCarried
  <1>3. n < Len(H) /\ Head(P).msg = H[n + 1]
    <2>1. a.done = n
      BY PlaceLemma
    <2> HIDE DEF a
    <2> QED BY <1>2, <2>1 DEF PieceAt
  <1>4. Place(n, g.state) = After(H, a)
    BY <1>3, PlaceLemma
  <1>5. g.msg = H[n + 1] /\ g.state \in {"BODY", "COMPLETE"}
    BY <1>3 DEF Streamed
  <1>6. InPlace(f, Head(P))
    BY <1>2, <1>3 DEF InPlace, PieceAt, Place, Matched
  <1> QED BY <1>1, <1>2, <1>3, <1>4, <1>5, <1>6 DEF Matched

\* it handles the next message of the log
LEMMA MatchedHandles ==
  ASSUME NEW H, NEW n \in Nat, NEW P, NEW Q, NEW here, NEW f, NEW g,
         f.state = "COMPLETE", g.state = "HEADER", Matched(H, n, P, Q, here, f)
  PROVE  n < Len(H) /\ f.msg = H[n + 1] /\ Matched(H, n + 1, P, Q, here, g)
  BY PlaceLemma DEF Matched

\* the client writes the next piece of the log, if it still runs afterwards or not
LEMMA MatchedWrites ==
  ASSUME NEW H \in Seq(ToServer), NEW n \in Nat, NEW P \in Seq(Pieces), NEW Q \in Seq(Waits),
         Q # <<>>, Q[1].state # "COMPLETE", EndOf(H, Q), NEW f, f.state # "CLOSED",
         Matched(H, n, P, Q, TRUE, f), NEW V, NEW here \in BOOLEAN, here => Ahead(Q, V)
  PROVE  Matched(H, n, Append(P, Unit(Q[1])), V, here, f)
  <1> DEFINE a == Place(n, f.state)
             b == Reached(H, Q)
             l == Len(H) - Len(Q)
             u == Unit(Q[1])
             x == Q[1].state
  <1>0. Len(H) \in Nat /\ Len(Q) \in Nat /\ Len(Q) >= 1 /\ Q[1] \in Waits /\ 1 \in DOMAIN Q
    <2>1. Len(Q) # 0
      BY EmptySeq
    <2> QED BY <2>1, LenProperties, HeadsLemma
  <1>1. Carries(P, H, a, b)
    BY DEF Matched
  <1>2. l \in Nat /\ l < Len(H) /\ Q[1].msg = H[l + 1] /\ x \in {"HEADER", "BODY"}
    BY <1>0 DEF EndOf, Waits, ItemStates
  <1>3. b = Place(l, x) /\ b \in Places
    BY <1>2, PlaceLemma DEF Reached
  <1>4. u = PieceAt(H, b) /\ b.done < Len(H) /\ u \in Pieces
    <2>1. u = Unit([msg |-> H[l + 1], state |-> x])
      BY <1>2 DEF Unit
    <2>2. u \in Pieces
      BY <1>0 DEF Unit, Pieces, Waits
    <2> QED BY <1>2, <1>3, <2>1, <2>2, PlaceLemma
  <1> HIDE DEF b, u, l, x
  <1>5. Carries(Append(P, u), H, a, After(H, b))
    BY <1>1, <1>3, <1>4, OneMoreCarried
  <1>6. here => Reached(H, V) = After(H, b)
    <2> SUFFICES ASSUME here PROVE Reached(H, V) = After(H, b)
      OBVIOUS
    <2>1. Len(V) = Len(Q) /\ V[1] = Streamed(Q[1])
      BY DEF Ahead
    <2>2. Streamed(Q[1]).state = Streamed([msg |-> H[l + 1], state |-> x]).state
      BY <1>0, <1>2 DEF Streamed, Waits, x
    <2>3. V # <<>>
      BY <1>0, <2>1
    <2>4. Reached(H, V) = Place(l, Streamed(Q[1]).state)
      BY <2>1, <2>3 DEF Reached, l
    <2> QED BY <1>2, <1>3, <2>2, <2>4, PlaceLemma
  <1>7. After(H, b) \in Places
    BY <1>3, AfterLemma
  <1> QED BY <1>5, <1>6, <1>7 DEF Matched, u

\* the end of the log after one write
LEMMA EndWritten ==
  ASSUME NEW H, NEW Q \in Seq(Waits), Q # <<>>, NEW V, Ahead(Q, V), DOMAIN V = DOMAIN Q, EndOf(H, Q)
  PROVE  EndOf(H, V)
  <1>1. Len(V) = Len(Q) /\ V[1].msg = Q[1].msg /\ \A i \in DOMAIN Q : i # 1 => V[i] = Q[i]
    BY AheadText DEF Ahead
  <1>2. ASSUME NEW i \in DOMAIN V
        PROVE  V[i].msg = H[(Len(H) - Len(V)) + i] /\ (i # 1 => V[i].state = "HEADER")
    <2>1. i \in DOMAIN Q /\ Q[i].msg = H[(Len(H) - Len(Q)) + i] /\ (i # 1 => Q[i].state = "HEADER")
      BY DEF EndOf
    <2>2. CASE i = 1
      BY <1>1, <2>1, <2>2
    <2>3. CASE i # 1
      BY <1>1, <2>1, <2>3
    <2> QED BY <2>2, <2>3
  <1> QED BY <1>1, <1>2 DEF EndOf

\* what is written leaves the queue, but not the log
LEMMA MatchedPops ==
  ASSUME NEW H \in Seq(ToServer), NEW n, NEW P, NEW Q \in Seq(Waits), Q # <<>>,
         Q[1].state = "COMPLETE", EndOf(H, Q), NEW f, NEW here
  PROVE  /\ EndOf(H, Tail(Q))
         /\ Matched(H, n, P, Q, here, f) => Matched(H, n, P, Tail(Q), here, f)
  <1> DEFINE V == Tail(Q)
             l == Len(H) - Len(Q)
  <1>1. /\ Len(H) \in Nat /\ Len(Q) \in Nat /\ Len(Q) >= 1 /\ DOMAIN V = 1..(Len(Q) - 1)
        /\ V \in Seq(Waits) /\ Len(V) = Len(Q) - 1 /\ DOMAIN Q = 1..Len(Q)
        /\ \A i \in 1..(Len(Q) - 1) : V[i] = Q[i + 1]
    <2>1. Len(Q) # 0
      BY EmptySeq
    <2>2. V \in Seq(Waits) /\ Len(V) = Len(Q) - 1 /\ \A i \in 1..(Len(Q) - 1) : V[i] = Q[i + 1]
      BY HeadTailProperties, Z3
    <2> QED BY <2>1, <2>2, LenProperties
  <1> HIDE DEF V
  <1>2. l \in Nat /\ Len(H) - Len(V) = l + 1 /\ Len(V) <= Len(H)
    BY <1>1 DEF EndOf
  <1>3. ASSUME NEW i \in DOMAIN V PROVE V[i].msg = H[(l + 1) + i] /\ V[i].state = "HEADER"
    <2>1. i \in 1..(Len(Q) - 1) /\ i + 1 \in 1..Len(Q) /\ i + 1 # 1 /\ l + (i + 1) = (l + 1) + i
      <3>1. i \in 1..(Len(Q) - 1) /\ Len(Q) \in Nat /\ l \in Nat
        BY <1>1, <1>2
      <3> HIDE DEF l
      <3> QED BY <3>1
    <2>2. Q[i + 1].msg = H[l + (i + 1)] /\ Q[i + 1].state = "HEADER"
      <3>1. i + 1 \in DOMAIN Q
        BY <1>1, <2>1
      <3> QED BY <2>1, <3>1 DEF EndOf
    <2> QED BY <1>1, <2>1, <2>2
  <1>4. EndOf(H, V)
    BY <1>2, <1>3 DEF EndOf
  <1>5. Reached(H, V) = Reached(H, Q)
    <2>1. V # <<>> => V[1].state = "HEADER"
      <3> SUFFICES ASSUME V # <<>> PROVE V[1].state = "HEADER"
        OBVIOUS
      <3>1. 1 \in DOMAIN V
        BY <1>1, HeadsLemma
      <3> QED BY <1>3, <3>1
    <2>2. Reached(H, V) = Place(l + 1, "HEADER")
      BY <1>2, <2>1 DEF Reached
    <2>3. Reached(H, Q) = Place(l, "COMPLETE")
      BY DEF Reached
    <2> QED BY <1>2, <2>2, <2>3, PlaceLemma
  <1> QED BY <1>4, <1>5 DEF Matched, V

\* the client says more
LEMMA MatchedSays ==
  ASSUME NEW H \in Seq(ToServer), NEW n \in 0..Len(H), NEW P, NEW Q \in Seq(Waits), EndOf(H, Q),
         NEW ms \in Seq(ToServer), NEW f, NEW here
  PROVE  /\ EndOf(H \o ms, Q \o Items(ms))
         /\ Matched(H, n, P, Q, here, f) => Matched(H \o ms, n, P, Q \o Items(ms), here, f)
  <1> DEFINE G == H \o ms
             N == Items(ms)
             V == Q \o N
             l == Len(H) - Len(Q)
             e == Len(ms)
  <1>1. N \in Seq(Waits) /\ Len(N) = e /\ \A i \in DOMAIN ms : N[i] = Item(ms[i])
    <2>1. \A m \in ToServer : Item(m) \in Waits
      BY DEF Item, Waits, ItemStates
    <2> QED BY <2>1, ItemsLemma DEF Items
  <1>2. /\ Len(H) \in Nat /\ Len(Q) \in Nat /\ e \in Nat /\ DOMAIN Q = 1..Len(Q) /\ DOMAIN ms = 1..e
        /\ l \in Nat
    BY LenProperties, PlacesLemma DEF EndOf
  <1>3. /\ G \in Seq(ToServer) /\ Len(G) = Len(H) + e
        /\ \A i \in 1..(Len(H) + e) : G[i] = IF i <= Len(H) THEN H[i] ELSE ms[i - Len(H)]
    BY ConcatProperties
  <1>4. /\ V \in Seq(Waits) /\ Len(V) = Len(Q) + e
        /\ \A i \in 1..(Len(Q) + e) : V[i] = IF i <= Len(Q) THEN Q[i] ELSE N[i - Len(Q)]
    <2>1. Q \in Seq(Waits) /\ N \in Seq(Waits)
      BY <1>1
    <2> HIDE DEF N
    <2>2. /\ V \in Seq(Waits) /\ Len(V) = Len(Q) + Len(N)
          /\ \A i \in 1..(Len(Q) + Len(N)) : V[i] = IF i <= Len(Q) THEN Q[i] ELSE N[i - Len(Q)]
      BY <2>1, ConcatProperties
    <2> QED BY <1>1, <2>2
  <1>5. DOMAIN V = 1..(Len(Q) + e)
    <2> HIDE DEF V
    <2> QED BY <1>4, PlacesLemma
  <1> HIDE DEF G, N, V, e
  <1>6. Len(G) - Len(V) = l /\ Len(V) <= Len(G)
    BY <1>2, <1>3, <1>4
  <1>7. ASSUME NEW i \in DOMAIN V PROVE V[i].msg = G[l + i] /\ (i # 1 => V[i].state = "HEADER")
    <2>1. CASE i <= Len(Q)
      <3>1. i \in DOMAIN Q /\ l + i \in 1..(Len(H) + e) /\ l + i <= Len(H)
        BY <1>2, <1>5, <2>1
      <3>2. Q[i].msg = H[l + i] /\ (i # 1 => Q[i].state = "HEADER")
        BY <3>1 DEF EndOf
      <3> QED BY <1>3, <1>4, <1>5, <2>1, <3>1, <3>2
    <2>2. CASE ~(i <= Len(Q))
      <3>1. i - Len(Q) \in DOMAIN ms /\ l + i \in 1..(Len(H) + e) /\ ~(l + i <= Len(H))
            /\ (l + i) - Len(H) = i - Len(Q)
        BY <1>2, <1>5, <2>2
      <3>2. V[i] = Item(ms[i - Len(Q)]) /\ G[l + i] = ms[i - Len(Q)]
        BY <1>1, <1>3, <1>4, <1>5, <2>2, <3>1
      <3> QED BY <3>2 DEF Item
    <2> QED BY <2>1, <2>2
  <1>8. EndOf(G, V)
    BY <1>6, <1>7 DEF EndOf
  <1>9. Reached(G, V) = Reached(H, Q)
    <2>1. CASE Q = <<>>
      <3>1. V # <<>> => V[1].state = "HEADER"
        <4> SUFFICES ASSUME V # <<>> PROVE V[1].state = "HEADER"
          OBVIOUS
        <4>1. 1 \in DOMAIN V /\ Len(Q) = 0
          BY <1>4, <2>1, HeadsLemma
        <4>2. 1 \in 1..(Len(Q) + e) /\ 1 \in 1..e /\ ~(1 <= Len(Q)) /\ 1 - Len(Q) = 1
          BY <1>2, <1>5, <4>1
        <4>3. V[1] = N[1] /\ 1 \in DOMAIN ms
          BY <1>2, <1>4, <4>2
        <4>4. N[1] = Item(ms[1])
          BY <1>1, <4>3
        <4> QED BY <4>3, <4>4 DEF Item
      <3> QED BY <1>6, <2>1, <3>1 DEF Reached
    <2>2. CASE Q # <<>>
      <3>1. 1 \in DOMAIN Q
        BY <2>2, HeadsLemma
      <3>2. V[1] = Q[1] /\ V # <<>>
        BY <1>2, <1>4, <1>5, <3>1
      <3> QED BY <1>6, <2>2, <3>2 DEF Reached
    <2> QED BY <2>1, <2>2
  <1>10. Matched(H, n, P, Q, here, f) => Matched(G, n, P, V, here, f)
    <2>1. Len(G) \in Nat /\ Len(H) <= Len(G) /\ \A i \in 1..Len(H) : G[i] = H[i]
      BY <1>2, <1>3
    <2>2. \A a, b : Carries(P, H, a, b) => Carries(P, G, a, b)
      BY <1>2, <2>1, LongerCarried
    <2>3. n < Len(H) => n < Len(G) /\ G[n + 1] = H[n + 1]
      BY <1>2, <2>1
    <2> QED BY <1>9, <2>2, <2>3 DEF Matched
  <1> QED BY <1>8, <1>10 DEF G, V, N

\* the client has nothing more to write
LEMMA MatchedEnds ==
  ASSUME NEW H, NEW n, NEW P, NEW Q, NEW V, NEW here, NEW f, Matched(H, n, P, Q, here, f)
  PROVE  Matched(H, n, P, V, FALSE, f)
  BY DEF Matched

\* when nothing is under way and nothing waits, all of the log is handled
LEMMA AllHandled ==
  ASSUME NEW H \in Seq(ToServer), NEW n \in Nat, NEW f, f.state = "HEADER",
         Matched(H, n, <<>>, <<>>, TRUE, f)
  PROVE  n = Len(H)
  <1>1. Len(H) \in Nat /\ Len(<<>>) = 0
    BY LenProperties
  <1>2. PICK b \in Places : Carries(<<>>, H, Place(n, "HEADER"), b) /\ b = Reached(H, <<>>)
    BY DEF Matched
  <1>3. Place(n, "HEADER") = b
    BY <1>2, PlaceLemma, NothingCarried
  <1> QED BY <1>1, <1>2, <1>3 DEF Reached, Place

-----------------------------------------------------------------------------
(* The story a log tells.  What a listener knows after each message: how    *)
(* many devices there are, which are held, whether the client is paused or  *)
(* has ended, and how many events of each device there were.                *)

Knowing ==
    [size : Nat, held : SUBSET Devices, paused : BOOLEAN, ended : BOOLEAN, told : [Devices -> Nat]]

Blank == [size |-> 0, held |-> {}, paused |-> FALSE, ended |-> FALSE,
          told |-> [k \in Devices |-> 0]]

\* the listener x after the message m
Told(x, m) ==
    CASE m.h = "PEER_DEV_CRT" -> [x EXCEPT !.size = @ + 1]
      [] m.h = "PEER_GRAB"    -> [x EXCEPT !.held = IF m.val = "grabbed" THEN @ \cup {m.dev}
                                                    ELSE @ \ {m.dev}]
      [] m.h = "PEER_EVENT"   -> [x EXCEPT !.told[m.dev] = @ + 1]
      [] m.h = "PEER_PAUSE"   -> [x EXCEPT !.paused = TRUE]
      [] m.h = "PEER_RESUME"  -> [x EXCEPT !.paused = FALSE]
      [] OTHER                -> [x EXCEPT !.ended = TRUE]

\* m may follow what x knows: first all devices are announced, in the order in which client c
\* was told of them, and the events of each, C, come in order and never while it is paused
Proper(c, C, x, m) ==
    \/ /\ x.size < Len(DeviceArg[c]) /\ x.held = {} /\ ~x.ended
       /\ m = DevMsg("PEER_DEV_CRT", DeviceArg[c][x.size + 1], "info")
    \/ /\ x.size = Len(DeviceArg[c])
       /\ \/ \E k \in Captures(c), grab \in BOOLEAN : m = GrabMsg(k, grab)
          \/ /\ m.h = "PEER_EVENT" /\ m.dev \in Captures(c) /\ m.val \in Events /\ ~x.paused
             /\ x.told[m.dev] < Len(C[m.dev]) /\ C[m.dev][x.told[m.dev] + 1] = m.val
          \/ \E h \in PeerControls : m = Msg(h)

\* T is what a listener that knew x knows after each message of H
Story(c, C, x, H, T) ==
    /\ T \in [0..Len(H) -> Knowing] /\ T[0] = x
    /\ \A i \in 1..Len(H) : Proper(c, C, T[i - 1], H[i]) /\ T[i] = Told(T[i - 1], H[i])

\* what it knows at the end
Known(H, T) == T[Len(H)]
\* T and V tell the same of the first n messages
Agrees(T, V, n) == \A i \in 0..n : V[i] = T[i]

\* the messages of a story have the devices of its client, and leave a listener knowing
LEMMA ProperLemma ==
  ASSUME NEW c \in Clients, NEW C, NEW x \in Knowing, NEW m, Proper(c, C, x, m)
  PROVE  Told(x, m) \in Knowing
  <1>1. Len(DeviceArg[c]) \in Nat /\ Captures(c) \subseteq Devices
    <2>1. DeviceArg[c] \in Seq(Devices)
      BY DevicesAssumption
    <2> QED BY <2>1, PlacesLemma DEF Captures
  <1>2. x.size \in Nat /\ x.held \in SUBSET Devices /\ x.told \in [Devices -> Nat]
    BY DEF Knowing
  <1>3. m.h \in {"PEER_GRAB", "PEER_EVENT"} => m.dev \in Devices
    BY <1>1 DEF Proper, GrabMsg, DevMsg, Msg, PeerControls
  <1>4. CASE m.h = "PEER_DEV_CRT"
    BY <1>2, <1>4 DEF Told, Knowing
  <1>5. CASE m.h = "PEER_GRAB"
    BY <1>2, <1>3, <1>5 DEF Told, Knowing
  <1>6. CASE m.h = "PEER_EVENT"
    <2>1. Told(x, m) = [x EXCEPT !.told = [x.told EXCEPT ![m.dev] = @ + 1]]
      BY <1>6 DEF Told
    <2>2. [x.told EXCEPT ![m.dev] = @ + 1] \in [Devices -> Nat]
      BY <1>2, <1>3, <1>6
    <2> QED BY <2>1, <2>2 DEF Knowing
  <1>7. CASE m.h \notin {"PEER_DEV_CRT", "PEER_GRAB", "PEER_EVENT"}
    BY <1>2, <1>7 DEF Told, Knowing
  <1> QED BY <1>4, <1>5, <1>6, <1>7

\* a story and its sequel make one story
LEMMA StoryJoins ==
  ASSUME NEW c, NEW C, NEW x, NEW H \in Seq(ToServer), NEW T, Story(c, C, x, H, T),
         NEW ms \in Seq(ToServer), NEW U, Story(c, C, Known(H, T), ms, U)
  PROVE  \E V : /\ Story(c, C, x, H \o ms, V) /\ Agrees(T, V, Len(H))
                /\ Known(H \o ms, V) = Known(ms, U)
  <1> DEFINE n == Len(H)
             e == Len(ms)
             G == H \o ms
             V == [i \in 0..(n + e) |-> IF i <= n THEN T[i] ELSE U[i - n]]
  <1>1. /\ n \in Nat /\ e \in Nat /\ Len(G) = n + e
        /\ \A i \in 1..(n + e) : G[i] = IF i <= n THEN H[i] ELSE ms[i - n]
    BY LenProperties, ConcatProperties
  <1>2. /\ T \in [0..n -> Knowing] /\ T[0] = x
        /\ \A i \in 1..n : Proper(c, C, T[i - 1], H[i]) /\ T[i] = Told(T[i - 1], H[i])
    BY DEF Story
  <1>3. /\ U \in [0..e -> Knowing] /\ U[0] = T[n]
        /\ \A i \in 1..e : Proper(c, C, U[i - 1], ms[i]) /\ U[i] = Told(U[i - 1], ms[i])
    BY DEF Story, Known
  <1> HIDE DEF n, e, G
  <1>4. \A i \in 0..(n + e) : i <= n => V[i] = T[i]
    OBVIOUS
  <1>5. \A i \in 0..e : n + i \in 0..(n + e) /\ V[n + i] = U[i]
    <2> SUFFICES ASSUME NEW i \in 0..e PROVE n + i \in 0..(n + e) /\ V[n + i] = U[i]
      OBVIOUS
    <2>1. n + i \in 0..(n + e) /\ (n + i) - n = i
      BY <1>1
    <2>2. n + i <= n => i = 0
      BY <1>1
    <2> QED BY <1>1, <1>3, <2>1, <2>2
  <1>6. V \in [0..(n + e) -> Knowing]
    <2> SUFFICES ASSUME NEW i \in 0..(n + e)
                 PROVE  (IF i <= n THEN T[i] ELSE U[i - n]) \in Knowing
      OBVIOUS
    <2>1. IF i <= n THEN i \in 0..n ELSE i - n \in 0..e
      BY <1>1
    <2> QED BY <1>2, <1>3, <2>1
  <1>7. ASSUME NEW i \in 1..(n + e)
        PROVE  Proper(c, C, V[i - 1], G[i]) /\ V[i] = Told(V[i - 1], G[i])
    <2>1. CASE i <= n
      <3>1. i \in 1..n /\ i \in 0..(n + e) /\ i - 1 \in 0..(n + e) /\ i - 1 <= n
        BY <1>1, <2>1
      <3>2. V[i - 1] = T[i - 1] /\ V[i] = T[i] /\ G[i] = H[i]
        BY <1>1, <1>4, <2>1, <3>1
      <3> QED BY <1>2, <3>1, <3>2
    <2>2. CASE ~(i <= n)
      <3> DEFINE j == i - n
      <3>1. j \in 1..e /\ j - 1 \in 0..e /\ j \in 0..e /\ n + j = i /\ n + (j - 1) = i - 1
        BY <1>1, <2>2
      <3>2. V[i - 1] = U[j - 1] /\ V[i] = U[j] /\ G[i] = ms[j]
        <4> HIDE DEF V
        <4> QED BY <1>1, <1>5, <2>2, <3>1
      <3> HIDE DEF j
      <3> QED BY <1>3, <3>1, <3>2
    <2> QED BY <2>1, <2>2
  <1>8. V[0] = x /\ (\A i \in 0..n : V[i] = T[i]) /\ V[n + e] = U[e]
    <2>1. 0 \in 0..(n + e) /\ 0 <= n /\ e \in 0..e /\ \A i \in 0..n : i \in 0..(n + e) /\ i <= n
      BY <1>1
    <2> QED BY <1>2, <1>4, <1>5, <2>1
  <1> HIDE DEF V
  <1>9. Story(c, C, x, G, V)
    BY <1>1, <1>6, <1>7, <1>8 DEF Story
  <1> QED BY <1>1, <1>8, <1>9 DEF n, e, G, Agrees, Known

\* one message is a story
LEMMA OneTold ==
  ASSUME NEW c \in Clients, NEW C, NEW x \in Knowing, NEW m, Proper(c, C, x, m)
  PROVE  \E U : Story(c, C, x, <<m>>, U) /\ Known(<<m>>, U) = Told(x, m)
  <1> DEFINE U == [i \in 0..1 |-> IF i = 0 THEN x ELSE Told(x, m)]
  <1>1. Told(x, m) \in Knowing
    BY ProperLemma
  <1>2. U \in [0..1 -> Knowing] /\ U[0] = x /\ U[1] = Told(x, m) /\ Len(<<m>>) = 1 /\ <<m>>[1] = m
    BY <1>1
  <1> HIDE DEF U
  <1>3. \A i \in 1..1 : i = 1 /\ i - 1 = 0
    OBVIOUS
  <1>4. Story(c, C, x, <<m>>, U)
    BY <1>2, <1>3 DEF Story
  <1> QED BY <1>2, <1>4 DEF Known

\* and no message at all is one
LEMMA NoneTold ==
  ASSUME NEW c, NEW C, NEW x \in Knowing
  PROVE  \E U : Story(c, C, x, <<>>, U) /\ Known(<<>>, U) = x
  <1> DEFINE U == [i \in 0..0 |-> x]
  <1>1. U \in [0..0 -> Knowing] /\ U[0] = x /\ Len(<<>>) = 0
    OBVIOUS
  <1> HIDE DEF U
  <1>2. Story(c, C, x, <<>>, U)
    BY <1>1 DEF Story
  <1> QED BY <1>1, <1>2 DEF Known

\* a story is true of more events, too
LEMMA StoryLonger ==
  ASSUME NEW c \in Clients, NEW C, NEW D, NEW H, NEW x, NEW T, Story(c, C, x, H, T), Len(H) \in Nat,
         \A k \in Devices : /\ Len(C[k]) \in Nat /\ Len(D[k]) \in Nat /\ Len(C[k]) <= Len(D[k])
                            /\ \A i \in 1..Len(C[k]) : D[k][i] = C[k][i]
  PROVE  Story(c, D, x, H, T)
  <1>1. Captures(c) \subseteq Devices
    <2>1. DeviceArg[c] \in Seq(Devices)
      BY DevicesAssumption
    <2> QED BY <2>1, PlacesLemma DEF Captures
  <1>2. ASSUME NEW z \in Knowing, NEW m, Proper(c, C, z, m) PROVE Proper(c, D, z, m)
    <2>1. \A k \in Devices : z.told[k] \in Nat
      BY DEF Knowing
    <2>2. ASSUME NEW k \in Devices, z.told[k] < Len(C[k])
          PROVE  z.told[k] < Len(D[k]) /\ D[k][z.told[k] + 1] = C[k][z.told[k] + 1]
      <3>1. z.told[k] + 1 \in 1..Len(C[k]) /\ z.told[k] < Len(D[k])
        BY <2>1, <2>2
      <3> QED BY <3>1
    <2> QED BY <1>1, <1>2, <2>2 DEF Proper
  <1>3. \A i \in 1..Len(H) : T[i - 1] \in Knowing
    <2>1. \A i \in 1..Len(H) : i - 1 \in 0..Len(H)
      OBVIOUS
    <2> QED BY <2>1 DEF Story
  <1> QED BY <1>2, <1>3 DEF Story

-----------------------------------------------------------------------------
(* The replay of one device.  q is the queue of its uinput copy, f the value *)
(* of its last item, which the copy writes again while q is empty, and v     *)
(* tells whether its key is down; E is what was taken from the queue and     *)
(* written so far, C what was captured, and the first a events of C are all  *)
(* that the server was told.                                                 *)

\* from a place in C an item with the value e leads to the place b
Leads(C, a, e, b) ==
    IF e \in {"release", "report"} THEN b = a ELSE e \in Events /\ b = a + 1 /\ b <= Len(C) /\ C[b] = e

\* the items at the head of q that are written already
WrittenOf(q) == IF q # <<>> /\ q[1].state = "COMPLETE" THEN 1 ELSE 0

\* what is not written of q are the events of C behind the first n, up to a
Spells(q, C, n, a) ==
    \E t \in [0..Len(q) -> Nat] :
        /\ t[WrittenOf(q)] = n /\ t[Len(q)] = a
        /\ \A i \in 1..Len(q) : Leads(C, t[i - 1], q[i].msg.val, t[i])

\* only the first item of q may be written
FirstOnly(q) ==
    \A i \in DOMAIN q : q[i].state \in {"HEADER", "COMPLETE"} /\ (q[i].state = "COMPLETE" => i = 1)

\* the key goes up with the last items of q, a release and its SYN_REPORT, or it is
\* up, and what is written again does not press it
Lifted(q, f, v) ==
    IF q = <<>> THEN ~v /\ f # "down"
    ELSE LET l == Len(q)
         IN  /\ q[l].msg.val = "report" /\ (l = 1 => ~v)
             /\ l # 1 => /\ q[l - 1].msg.val = "release"
                         /\ q[l - 1].state = "COMPLETE" => ~v

\* e is the last of the events E
EndsWith(E, e) == Len(E) \in Nat /\ Len(E) # 0 /\ E[Len(E)] = e

\* what may be written again and again is the last of q, or of what is written
Echoes(q, f, E) ==
    /\ q # <<>> => q[Len(q)].msg.val \in KeyEvents \cup Reports
    /\ q # <<>> /\ q[1].state = "COMPLETE" /\ q[1].msg.val \in Events => EndsWith(E, q[1].msg.val)
    /\ q = <<>> => \/ f \in Reports \cup {None}
                   \/ f \in KeyEvents /\ EndsWith(E, f)

Prefix(E, C) == Len(E) <= Len(C) /\ \A i \in 1..Len(E) : E[i] = C[i]

Plays(q, f, v, E, C, a, paused) ==
    /\ FirstOnly(q) /\ Prefix(E, C) /\ Spells(q, C, Len(E), a)
    /\ Echoes(q, f, E)
    /\ paused => Lifted(q, f, v)

\* R is q and one item more
Extends(q, x, R) ==
    /\ Len(R) = Len(q) + 1 /\ DOMAIN R = 1..(Len(q) + 1)
    /\ R[Len(q) + 1] = x /\ \A i \in 1..Len(q) : R[i] = q[i]

\* one item more leads one place on,
LEMMA SpellsMore ==
  ASSUME NEW S, NEW q \in Seq(S), NEW C, NEW n, NEW a \in Nat, NEW b \in Nat, Spells(q, C, n, a),
         NEW x, x.state # "COMPLETE", Leads(C, a, x.msg.val, b), NEW R, Extends(q, x, R)
  PROVE  Spells(R, C, n, b)
  <1> DEFINE l == Len(q)
  <1>1. PICK t \in [0..l -> Nat] :
           /\ t[WrittenOf(q)] = n /\ t[l] = a
           /\ \A i \in 1..l : Leads(C, t[i - 1], q[i].msg.val, t[i])
    BY DEF Spells
  <1>2. l \in Nat /\ Len(R) = l + 1 /\ R[l + 1] = x /\ \A i \in 1..l : R[i] = q[i]
    BY LenProperties DEF Extends
  <1>3. WrittenOf(R) = WrittenOf(q) /\ WrittenOf(q) \in 0..l
    <2>1. R # <<>>
      BY <1>2
    <2>2. CASE q = <<>>
      <3>1. l = 0 /\ R[1] = x
        BY <1>2, <2>2
      <3> QED BY <2>2, <3>1 DEF WrittenOf
    <2>3. CASE q # <<>>
      <3>1. l >= 1 /\ 1 \in 1..l
        BY <1>2, <2>3, EmptySeq
      <3>2. R[1] = q[1]
        BY <1>2, <3>1
      <3> QED BY <1>2, <2>1, <2>3, <3>1, <3>2 DEF WrittenOf
    <2> QED BY <2>2, <2>3
  <1> HIDE DEF l
  <1> DEFINE u == [i \in 0..(l + 1) |-> IF i <= l THEN t[i] ELSE b]
  <1>4. u \in [0..(l + 1) -> Nat]
    <2>1. \A i \in 0..(l + 1) : i <= l => i \in 0..l
      BY <1>2
    <2> QED BY <2>1
  <1>5. u[WrittenOf(R)] = n /\ u[l + 1] = b
    BY <1>1, <1>2, <1>3
  <1>6. ASSUME NEW i \in 1..(l + 1) PROVE Leads(C, u[i - 1], R[i].msg.val, u[i])
    <2>1. i - 1 \in 0..(l + 1) /\ i - 1 <= l /\ i \in 0..(l + 1)
      BY <1>2
    <2>2. u[i - 1] = t[i - 1]
      BY <2>1
    <2>3. CASE i <= l
      <3>1. i \in 1..l /\ u[i] = t[i] /\ R[i] = q[i]
        BY <1>2, <2>1, <2>3
      <3> QED BY <1>1, <2>2, <3>1
    <2>4. CASE ~(i <= l)
      <3>1. i = l + 1 /\ i - 1 = l
        BY <1>2, <2>4
      <3>2. u[i] = b /\ t[i - 1] = a
        BY <1>1, <1>5, <3>1
      <3> QED BY <1>2, <2>2, <3>1, <3>2
    <2> QED BY <2>3, <2>4
  <1> HIDE DEF u
  <1> QED BY <1>2, <1>4, <1>5, <1>6 DEF Spells

\* so that an item that is not written keeps the order.
LEMMA OrderMore ==
  ASSUME NEW S, NEW q \in Seq(S), NEW C, NEW n, NEW a \in Nat, NEW b \in Nat,
         FirstOnly(q), Spells(q, C, n, a),
         NEW k, NEW e, Leads(C, a, e, b), NEW R, Extends(q, Item(DevMsg("UINPUT", k, e)), R)
  PROVE  /\ FirstOnly(R) /\ Spells(R, C, n, b) /\ R # <<>>
         /\ Len(R) = Len(q) + 1 /\ R[Len(R)].msg.val = e /\ R[Len(R)].state = "HEADER"
         /\ R[1].state = "COMPLETE" => q # <<>> /\ q[1].state = "COMPLETE" /\ R[1] = q[1]
  <1> DEFINE x == Item(DevMsg("UINPUT", k, e))
  <1>1. x.state = "HEADER" /\ x.msg.val = e
    BY DEF Item, DevMsg
  <1> HIDE DEF x
  <1>2. /\ Len(q) \in Nat /\ DOMAIN q = 1..Len(q) /\ Len(R) = Len(q) + 1 /\ DOMAIN R = 1..(Len(q) + 1)
        /\ R[Len(q) + 1] = x /\ \A i \in 1..Len(q) : R[i] = q[i]
    BY LenProperties DEF Extends, x
  <1>3. Spells(R, C, n, b)
    BY <1>1, SpellsMore DEF x
  <1>4. FirstOnly(R)
    <2>1. ASSUME NEW i \in DOMAIN R
          PROVE  R[i].state \in {"HEADER", "COMPLETE"} /\ (R[i].state = "COMPLETE" => i = 1)
      <3>1. i = Len(q) + 1 \/ (i \in DOMAIN q /\ R[i] = q[i])
        BY <1>2
      <3> QED BY <1>1, <1>2, <3>1 DEF FirstOnly
    <2> QED BY <2>1 DEF FirstOnly
  <1>5. R # <<>>
    BY <1>2
  <1>6. R[1].state = "COMPLETE" => q # <<>> /\ q[1].state = "COMPLETE" /\ R[1] = q[1]
    <2>1. CASE q = <<>>
      <3>1. Len(q) = 0
        BY <2>1
      <3> QED BY <1>1, <1>2, <3>1
    <2>2. CASE q # <<>>
      <3>1. 1 \in 1..Len(q)
        BY <1>2, <2>2, EmptySeq
      <3> QED BY <1>2, <2>2, <3>1
    <2> QED BY <2>1, <2>2
  <1> QED BY <1>1, <1>2, <1>3, <1>4, <1>5, <1>6

\* The server is told of a key event or of a SYN_REPORT,
LEMMA PlaysEvent ==
  ASSUME NEW S, NEW q \in Seq(S), NEW f, NEW v, NEW E, NEW C, NEW a \in Nat, NEW paused,
         Plays(q, f, v, E, C, a, paused), Len(C) \in Nat, a < Len(C),
         C[a + 1] \in Events, C[a + 1] \notin Movements,
         NEW k, NEW R, Extends(q, Item(DevMsg("UINPUT", k, C[a + 1])), R)
  PROVE  Plays(R, f, v, E, C, a + 1, FALSE)
  <1>1. Leads(C, a, C[a + 1], a + 1) /\ C[a + 1] \in KeyEvents \cup Reports
    BY DEF Leads, Events, KeyEvents, Movements, Reports
  <1>2. /\ FirstOnly(R) /\ Spells(R, C, Len(E), a + 1) /\ R # <<>>
        /\ R[Len(R)].msg.val = C[a + 1]
        /\ R[1].state = "COMPLETE" => q # <<>> /\ q[1].state = "COMPLETE" /\ R[1] = q[1]
    BY <1>1, OrderMore DEF Plays
  <1>3. Echoes(R, f, E)
    BY <1>1, <1>2 DEF Echoes, Plays
  <1> QED BY <1>2, <1>3 DEF Plays

\* or of a movement, which gets a SYN_REPORT of the server's own,
LEMMA PlaysMove ==
  ASSUME NEW S, NEW q \in Seq(S), NEW f, NEW v, NEW E, NEW C, NEW a \in Nat, NEW paused,
         Plays(q, f, v, E, C, a, paused), Len(C) \in Nat, a < Len(C), C[a + 1] \in Events,
         NEW k, NEW W, NEW Q \in Seq(W), Extends(q, Item(DevMsg("UINPUT", k, C[a + 1])), Q),
         NEW R, Extends(Q, Item(DevMsg("UINPUT", k, "report")), R)
  PROVE  Plays(R, f, v, E, C, a + 1, FALSE)
  <1>1. Leads(C, a, C[a + 1], a + 1) /\ Leads(C, a + 1, "report", a + 1) /\ "report" \in Reports
    BY DEF Leads, Events, KeyEvents, Movements, Reports
  <1>2. /\ FirstOnly(Q) /\ Spells(Q, C, Len(E), a + 1)
        /\ Q[1].state = "COMPLETE" => q # <<>> /\ q[1].state = "COMPLETE" /\ Q[1] = q[1]
    BY <1>1, OrderMore DEF Plays
  <1>3. /\ FirstOnly(R) /\ Spells(R, C, Len(E), a + 1) /\ R # <<>>
        /\ R[Len(R)].msg.val = "report"
        /\ R[1].state = "COMPLETE" => Q # <<>> /\ Q[1].state = "COMPLETE" /\ R[1] = Q[1]
    BY <1>1, <1>2, OrderMore
  <1>4. Echoes(R, f, E)
    BY <1>1, <1>2, <1>3 DEF Echoes, Plays
  <1> QED BY <1>3, <1>4 DEF Plays

\* or to lift its key,
LEMMA PlaysRelease ==
  ASSUME NEW S, NEW q \in Seq(S), NEW f, NEW v, NEW E, NEW C, NEW a \in Nat, NEW paused, NEW p,
         Plays(q, f, v, E, C, a, paused),
         NEW k, NEW W, NEW Q \in Seq(W), Extends(q, Item(DevMsg("UINPUT", k, "release")), Q),
         NEW R, Extends(Q, Item(DevMsg("UINPUT", k, "report")), R)
  PROVE  Plays(R, f, v, E, C, a, p)
  <1>1. Leads(C, a, "release", a) /\ Leads(C, a, "report", a) /\ "report" \in Reports
    BY DEF Leads, Reports
  <1>2. /\ FirstOnly(Q) /\ Spells(Q, C, Len(E), a) /\ Q # <<>> /\ Len(Q) \in Nat
        /\ Q[Len(Q)].msg.val = "release" /\ Q[Len(Q)].state = "HEADER" /\ Len(Q) # 0
        /\ Q[1].state = "COMPLETE" => q # <<>> /\ q[1].state = "COMPLETE" /\ Q[1] = q[1]
    <2>1. /\ FirstOnly(Q) /\ Spells(Q, C, Len(E), a) /\ Q # <<>>
          /\ Q[Len(Q)].msg.val = "release" /\ Q[Len(Q)].state = "HEADER"
          /\ Q[1].state = "COMPLETE" => q # <<>> /\ q[1].state = "COMPLETE" /\ Q[1] = q[1]
      BY <1>1, OrderMore DEF Plays
    <2> QED BY <2>1, LenProperties, EmptySeq
  <1>3. /\ FirstOnly(R) /\ Spells(R, C, Len(E), a) /\ R # <<>> /\ Len(R) = Len(Q) + 1
        /\ R[Len(R)].msg.val = "report"
        /\ R[1].state = "COMPLETE" => Q # <<>> /\ Q[1].state = "COMPLETE" /\ R[1] = Q[1]
    BY <1>1, <1>2, OrderMore
  <1>4. Echoes(R, f, E)
    BY <1>1, <1>2, <1>3 DEF Echoes, Plays
  <1>5. Lifted(R, f, v)
    <2>1. Len(R) # 1 /\ Len(R) - 1 = Len(Q) /\ Len(Q) \in 1..Len(Q)
      BY <1>2, <1>3
    <2>2. R[Len(R) - 1] = Q[Len(Q)]
      BY <2>1 DEF Extends
    <2> QED BY <1>2, <1>3, <2>1, <2>2 DEF Lifted
  <1> QED BY <1>3, <1>4, <1>5 DEF Plays

\* it writes an item,
LEMMA PlaysWrites ==
  ASSUME NEW S, NEW q \in Seq(S), NEW f, NEW v, NEW T, NEW E \in Seq(T), NEW C, NEW a, NEW paused,
         Plays(q, f, v, E, C, a, paused), q # <<>>, q[1].state # "COMPLETE",
         NEW R, Len(R) = Len(q), DOMAIN R = DOMAIN q,
         R[1].msg = q[1].msg, R[1].state = "COMPLETE", \A i \in DOMAIN q : i # 1 => R[i] = q[i],
         NEW w, w => (v \/ q[1].msg.val = "down") /\ q[1].msg.val \notin {"up", "release"},
         NEW F, F = IF q[1].msg.val \in Events THEN Append(E, q[1].msg.val) ELSE E,
         q[1].msg.val \in T
  PROVE  Plays(R, f, w, F, C, a, paused)
  <1> DEFINE e == q[1].msg.val
             l == Len(q)
  <1>1. /\ l \in Nat /\ l >= 1 /\ DOMAIN q = 1..l /\ 1 \in DOMAIN q /\ R # <<>> /\ Len(E) \in Nat
        /\ Len(R) = l
    <2>1. l # 0
      BY EmptySeq
    <2> QED BY <2>1, LenProperties
  <1>2. PICK t \in [0..l -> Nat] :
           /\ t[WrittenOf(q)] = Len(E) /\ t[l] = a
           /\ \A i \in 1..l : Leads(C, t[i - 1], q[i].msg.val, t[i])
    BY DEF Spells, Plays
  <1>3. WrittenOf(q) = 0 /\ WrittenOf(R) = 1
    BY <1>1 DEF WrittenOf
  <1>4. Leads(C, Len(E), e, t[1])
    <2>1. 1 \in 1..l /\ 1 - 1 = 0
      BY <1>1
    <2> QED BY <1>2, <1>3, <2>1
  <1>5. Len(F) = t[1] /\ Prefix(F, C) /\ (e \in Events => EndsWith(F, e))
    <2>1. CASE e \in {"release", "report"}
      <3>1. e \notin Events
        BY <2>1 DEF Events, KeyEvents, Movements
      <3> QED BY <1>4, <2>1, <3>1 DEF Leads, Plays
    <2>2. CASE e \notin {"release", "report"}
      <3>1. e \in Events /\ t[1] = Len(E) + 1 /\ t[1] <= Len(C) /\ C[t[1]] = e
        BY <1>4, <2>2 DEF Leads
      <3>2. F = Append(E, e)
        BY <3>1
      <3>3. Len(F) = Len(E) + 1 /\ F[Len(E) + 1] = e /\ \A i \in 1..Len(E) : F[i] = E[i]
        BY <3>2, AppendProperties
      <3>4. ASSUME NEW i \in 1..Len(F) PROVE F[i] = C[i]
        <4>1. i \in 1..Len(E) \/ i = Len(E) + 1
          BY <1>1, <3>3
        <4> QED BY <3>1, <3>3, <4>1 DEF Plays, Prefix
      <3>5. EndsWith(F, e)
        BY <1>1, <3>3 DEF EndsWith
      <3> QED BY <3>1, <3>3, <3>4, <3>5 DEF Prefix
    <2> QED BY <2>1, <2>2
  <1>6. \A i \in 1..l : R[i].msg = q[i].msg
    BY <1>1
  <1>7. Spells(R, C, Len(F), a)
    <2>1. t[WrittenOf(R)] = Len(F)
      BY <1>3, <1>5
    <2> QED BY <1>1, <1>2, <1>6, <2>1 DEF Spells
  <1>8. paused => Lifted(R, f, w)
    <2> SUFFICES ASSUME paused PROVE Lifted(R, f, w)
      OBVIOUS
    <2>1. /\ q[l].msg.val = "report" /\ (l = 1 => ~v)
          /\ l # 1 => q[l - 1].msg.val = "release"
      BY DEF Plays, Lifted
    <2>2. l \in 1..l
      BY <1>1
    <2>3. R[l].msg.val = "report"
      BY <1>6, <2>1, <2>2
    <2>4. CASE l = 1
      <3>1. ~w
        BY <2>1, <2>4
      <3> QED BY <1>1, <2>3, <2>4, <3>1 DEF Lifted
    <2>5. CASE l # 1
      <3>1. l - 1 \in 1..l /\ R[l - 1].msg.val = "release"
        BY <1>1, <1>6, <2>1, <2>5
      <3>2. R[l - 1].state = "COMPLETE" => ~w
        <4>1. CASE l - 1 = 1
          BY <2>1, <2>5, <4>1
        <4>2. CASE l - 1 # 1
          <5>1. R[l - 1] = q[l - 1] /\ q[l - 1].state # "COMPLETE"
            BY <1>1, <3>1, <4>2 DEF Plays, FirstOnly
          <5> QED BY <5>1
        <4> QED BY <4>1, <4>2
      <3> QED BY <1>1, <2>3, <2>5, <3>1, <3>2 DEF Lifted
    <2> QED BY <2>4, <2>5
  <1>9. FirstOnly(R)
    BY <1>1 DEF Plays, FirstOnly
  <1>10. Echoes(R, f, F)
    <2>1. l \in 1..l /\ q[l].msg.val \in KeyEvents \cup Reports
      BY <1>1 DEF Plays, Echoes
    <2>2. R[l].msg.val \in KeyEvents \cup Reports
      BY <1>6, <2>1
    <2> QED BY <1>1, <1>5, <2>2 DEF Echoes
  <1> QED BY <1>5, <1>7, <1>8, <1>9, <1>10 DEF Plays

\* which it will write again,
LEMMA PlaysPops ==
  ASSUME NEW S, NEW q \in Seq(S), NEW f, NEW v, NEW E, NEW C, NEW a, NEW paused,
         Plays(q, f, v, E, C, a, paused), q # <<>>, q[1].state = "COMPLETE"
  PROVE  Plays(Tail(q), q[1].msg.val, v, E, C, a, paused)
  <1> DEFINE l == Len(q)
             R == Tail(q)
             g == q[1].msg.val
  <1>1. /\ l \in Nat /\ l >= 1 /\ DOMAIN q = 1..l /\ DOMAIN R = 1..(l - 1)
        /\ \A i \in 1..(l - 1) : R[i] = q[i + 1]
    <2>1. l # 0
      BY EmptySeq
    <2>2. l \in Nat /\ DOMAIN q = 1..l /\ DOMAIN R = 1..(l - 1) /\ \A i \in 1..(l - 1) : R[i] = q[i + 1]
      BY PlacesLemma
    <2> QED BY <2>1, <2>2
  <1>2. Len(R) = l - 1 /\ R \in Seq(S)
    BY HeadTailProperties
  <1>3. PICK t \in [0..l -> Nat] :
           /\ t[WrittenOf(q)] = Len(E) /\ t[l] = a
           /\ \A i \in 1..l : Leads(C, t[i - 1], q[i].msg.val, t[i])
    BY DEF Spells, Plays
  <1>4. t[1] = Len(E)
    BY <1>3 DEF WrittenOf
  <1>5. \A i \in DOMAIN R : R[i].state = "HEADER"
    <2> SUFFICES ASSUME NEW i \in DOMAIN R PROVE R[i].state = "HEADER"
      OBVIOUS
    <2>1. i + 1 \in DOMAIN q /\ i + 1 # 1 /\ R[i] = q[i + 1]
      <3> HIDE DEF R
      <3> QED BY <1>1
    <2> QED BY <2>1 DEF Plays, FirstOnly
  <1> HIDE DEF R, l, g
  <1>6. WrittenOf(R) = 0
    <2>1. R # <<>> => 1 \in DOMAIN R
      BY <1>2, HeadsLemma
    <2> QED BY <1>5, <2>1 DEF WrittenOf
  <1>7. Spells(R, C, Len(E), a)
    <2> DEFINE u == [i \in 0..(l - 1) |-> t[i + 1]]
    <2>1. u \in [0..(l - 1) -> Nat]
      <3>1. \A i \in 0..(l - 1) : i + 1 \in 0..l
        BY <1>1
      <3> QED BY <3>1
    <2>2. u[0] = Len(E) /\ u[l - 1] = a
      <3>1. 0 \in 0..(l - 1) /\ l - 1 \in 0..(l - 1) /\ 0 + 1 = 1 /\ (l - 1) + 1 = l
        BY <1>1
      <3> QED BY <1>3, <1>4, <3>1
    <2>3. ASSUME NEW i \in 1..(l - 1) PROVE Leads(C, u[i - 1], R[i].msg.val, u[i])
      <3>1. i - 1 \in 0..(l - 1) /\ i \in 0..(l - 1) /\ (i - 1) + 1 = i /\ i + 1 \in 1..l
            /\ (i + 1) - 1 = i
        BY <1>1
      <3>2. u[i - 1] = t[i] /\ u[i] = t[i + 1] /\ R[i] = q[i + 1]
        BY <1>1, <3>1
      <3>3. Leads(C, t[(i + 1) - 1], q[i + 1].msg.val, t[i + 1])
        BY <1>3, <3>1
      <3> HIDE DEF u
      <3> QED BY <3>1, <3>2, <3>3
    <2> HIDE DEF u
    <2> QED BY <1>2, <1>6, <2>1, <2>2, <2>3 DEF Spells
  <1>8. l = 1 => R = <<>>
    BY <1>2, EmptySeq
  <1>9. l # 1 => R # <<>> /\ R[Len(R)] = q[l] /\ l - 1 \in 1..(l - 1) /\ Len(R) = l - 1 /\ R[1].state # "COMPLETE"
    <2> SUFFICES ASSUME l # 1
                 PROVE  R # <<>> /\ R[Len(R)] = q[l] /\ l - 1 \in 1..(l - 1) /\ R[1].state # "COMPLETE"
      BY <1>2
    <2>1. l - 1 \in 1..(l - 1) /\ (l - 1) + 1 = l /\ 1 \in DOMAIN R
      BY <1>1
    <2>2. R # <<>>
      BY <1>2, <2>1, EmptySeq
    <2>3. R[l - 1] = q[(l - 1) + 1]
      BY <1>1, <2>1
    <2> QED BY <1>2, <1>5, <2>1, <2>2, <2>3
  <1>10. paused => Lifted(R, g, v)
    <2> SUFFICES ASSUME paused PROVE Lifted(R, g, v)
      OBVIOUS
    <2>1. /\ q[l].msg.val = "report" /\ (l = 1 => ~v)
          /\ l # 1 => q[l - 1].msg.val = "release" /\ (q[l - 1].state = "COMPLETE" => ~v)
      BY DEF Plays, Lifted, l
    <2>2. CASE l = 1
      BY <1>8, <2>1, <2>2 DEF Lifted, g
    <2>3. CASE l = 2
      <3>1. ~v /\ Len(R) = 1
        BY <1>2, <2>1, <2>3
      <3> QED BY <1>9, <2>1, <2>3, <3>1 DEF Lifted
    <2>4. CASE l # 1 /\ l # 2
      <3>1. /\ l - 2 \in DOMAIN R /\ (l - 2) + 1 = l - 1 /\ (l - 1) - 1 = l - 2 /\ l - 1 # 1
        BY <1>1, <2>4
      <3>2. R[Len(R) - 1] = q[l - 1] /\ R[Len(R) - 1].state = "HEADER" /\ Len(R) # 1
        BY <1>1, <1>2, <1>5, <3>1
      <3> QED BY <1>9, <2>1, <2>4, <3>2 DEF Lifted
    <2> QED BY <2>2, <2>3, <2>4
  <1>11. Echoes(R, g, E)
    <2>1. q[l].msg.val \in KeyEvents \cup Reports
      BY DEF Plays, Echoes, l
    <2>2. CASE l = 1
      <3>1. g \in KeyEvents => EndsWith(E, g)
        BY DEF Plays, Echoes, Events, g
      <3>2. g \in KeyEvents \cup Reports
        BY <2>1, <2>2 DEF g
      <3> QED BY <1>8, <2>2, <3>1, <3>2 DEF Echoes
    <2>3. CASE l # 1
      BY <1>9, <2>1, <2>3 DEF Echoes
    <2> QED BY <2>2, <2>3
  <1>12. FirstOnly(R)
    BY <1>5 DEF FirstOnly
  <1>13. Prefix(E, C)
    BY DEF Plays
  <1> QED BY <1>7, <1>10, <1>11, <1>12, <1>13 DEF Plays, R, g

\* and again, which presses no key that is to be up;
LEMMA PlaysAgain ==
  ASSUME NEW f, NEW v, NEW w, NEW E, NEW C, NEW a, NEW paused, Plays(<<>>, f, v, E, C, a, paused),
         w => v \/ f = "down"
  PROVE  Plays(<<>>, f, w, E, C, a, paused)
  BY DEF Plays, Lifted

\* more may be captured meanwhile,
LEMMA PlaysLonger ==
  ASSUME NEW S, NEW q \in Seq(S), NEW f, NEW v, NEW E, NEW C, NEW D, NEW a, NEW paused,
         Len(E) \in Nat, Len(C) \in Nat, Len(D) \in Nat, Prefix(C, D)
  PROVE  /\ Plays(q, f, v, E, C, a, paused) => Plays(q, f, v, E, D, a, paused)
         /\ Prefix(E, C) => Prefix(E, D)
  <1>1. Prefix(E, C) => Prefix(E, D)
    <2> SUFFICES ASSUME Prefix(E, C) PROVE Prefix(E, D)
      OBVIOUS
    <2>1. \A i \in 1..Len(E) : i \in 1..Len(C)
      BY DEF Prefix
    <2> QED BY <2>1 DEF Prefix
  <1>2. ASSUME NEW x \in Nat, NEW y \in Nat, NEW e, Leads(C, x, e, y) PROVE Leads(D, x, e, y)
    <2>1. CASE e \in {"release", "report"}
      BY <1>2, <2>1 DEF Leads
    <2>2. CASE e \notin {"release", "report"}
      <3>1. y \in 1..Len(C) /\ y <= Len(D)
        BY <1>2, <2>2 DEF Leads, Prefix
      <3> QED BY <1>2, <2>2, <3>1 DEF Leads, Prefix
    <2> QED BY <2>1, <2>2
  <1>3. Spells(q, C, Len(E), a) => Spells(q, D, Len(E), a)
    <2>1. \A i \in 1..Len(q) : i \in 0..Len(q) /\ i - 1 \in 0..Len(q)
      BY LenProperties
    <2> QED BY <1>2, <2>1 DEF Spells
  <1> QED BY <1>1, <1>3 DEF Plays

\* and a copy that is new has nothing to write.
LEMMA PlaysNothing ==
  ASSUME NEW v, NEW E, NEW C, NEW a \in Nat, NEW p, Len(E) = a, Prefix(E, C), p => ~v
  PROVE  Plays(<<>>, None, v, E, C, a, p)
  <1>1. Len(<<>>) = 0 /\ DOMAIN <<>> = {} /\ WrittenOf(<<>>) = 0
    BY DEF WrittenOf
  <1> DEFINE t == [i \in 0..0 |-> a]
  <1>2. t \in [0..0 -> Nat] /\ t[0] = a
    OBVIOUS
  <1> HIDE DEF t
  <1>3. Spells(<<>>, C, Len(E), a)
    BY <1>1, <1>2 DEF Spells
  <1> QED BY <1>1, <1>3 DEF Plays, Lifted, FirstOnly, Echoes, None

-----------------------------------------------------------------------------
(* What the server does with a message *)

\* There is one client.
OneGuest == \A c, e \in Clients : c = e

\* The relays of the server do not ask it to pause, to resume or to stop.
ServerListens ==
    \A r \in Relays : Target[r] = Server =>
        Commands[r] \cap {"RELAY_PAUSE", "RELAY_RESUME", "RELAY_SWITCH", "RELAY_STOP"} = {}

\* the server has handled what it read of client c, and its streams are now ss before
\* it resets that of c
Handles(c, ss) ==
    LET s == PeerConn(c)
    IN  /\ s \in DOMAIN streams[Server] /\ s \in batch[Server]
        /\ streams[Server][s].fallback.state = "COMPLETE"
        /\ s \in DOMAIN ss /\ ss[s] = streams[Server][s]
        /\ DOMAIN streams'[Server] = DOMAIN ss
        /\ \A y \in DOMAIN ss \ {s} : streams'[Server][y] = ss[y]
        /\ streams'[Server][s].queue = streams[Server][s].queue
        /\ streams'[Server][s].fallback = Idle
        /\ \A e \in Daemons \ {Server} : streams'[e] = streams[e]
        /\ batch' = [batch EXCEPT ![Server] = @ \ {s}]
        /\ UNCHANGED <<proc, pipe, open, backlog, captured, emitted>>

\* only the server's peer stream is a client's
LEMMA GuestLemma1 ==
  ASSUME OneGuest, NEW c \in Clients
  PROVE  Daemons = {c, Server} /\ \A s \in NamesOf(Server) : s[1] = "peer" => s = PeerConn(c)
  BY NamesLemma DEF OneGuest, Daemons

\* broadcasts go to relays only
LEMMA BroadcastElsewhere ==
  ASSUME TypeInv, NEW d \in Daemons, NEW ss, NEW h
  PROVE  /\ DOMAIN Broadcast(d, ss, h) = DOMAIN ss
         /\ \A y \in DOMAIN ss : y[1] # "relay" => Broadcast(d, ss, h)[y] = ss[y]
  <1>1. \A y \in RelaySet(d) : y[1] = "relay"
    <2>1. relayStreams[d] \in Seq(RelaysOf(d))
      BY DEF TypeInv
    <2>2. \A i \in DOMAIN relayStreams[d] : relayStreams[d][i] \in RelaysOf(d)
      BY <2>1
    <2> QED BY <2>2 DEF RelaySet, RelaysOf, RelayConn
  <1> QED BY <1>1 DEF Broadcast, PushEach

\* after the handler of a message of c, its stream is reset
LEMMA FinishPeer ==
  ASSUME TypeInv, NEW c \in Clients, NEW h, h # None, h # "GARBAGE", HasRead(Server, PeerConn(c), h),
         NEW ss, PeerConn(c) \in DOMAIN ss, ss[PeerConn(c)] = streams[Server][PeerConn(c)],
         Finish(Server, PeerConn(c), ss),
         UNCHANGED <<proc, pipe, open, backlog, captured, emitted>>
  PROVE  Handles(c, ss)
  <1> DEFINE s == PeerConn(c)
  <1>1. Server \in Daemons /\ s \in batch[Server] /\ s \in DOMAIN streams[Server]
    BY ClientLemma DEF HasRead
  <1>2. streams' = [streams EXCEPT ![Server] = Reset(ss, s)] /\ batch' = [batch EXCEPT ![Server] = @ \ {s}]
    BY DEF Finish
  <1>3. streams'[Server] = Reset(ss, s) /\ \A e \in Daemons \ {Server} : streams'[e] = streams[e]
    BY <1>1, <1>2 DEF TypeInv
  <1>4. DOMAIN Reset(ss, s) = DOMAIN ss /\ \A y \in DOMAIN ss \ {s} : Reset(ss, s)[y] = ss[y]
    BY DEF Reset
  <1>5. ss[s] \in StreamsOf(Server, s, exiting)
    BY <1>1, StreamFacts
  <1>6. Reset(ss, s)[s].queue = ss[s].queue /\ Reset(ss, s)[s].fallback = Idle
    <2>0. Cleared(s, ss[s].fallback) = Idle
      BY DEF Cleared, IsSocket, PeerConn
    <2>1. Reset(ss, s)[s] = [ss[s] EXCEPT !.fallback = Idle,
                 !.interest = IF ss[s].queue # <<>> \/ s[1] = "udev" THEN "EPOLLOUT" ELSE "EPOLLIN"]
      BY <2>0 DEF Reset
    <2>2. ss[s] \in Records(Server, s, exiting)
      BY <1>5 DEF StreamsOf
    <2> QED BY <2>1, <2>2 DEF Records
  <1>7. streams[Server][s].fallback.state = "COMPLETE"
    BY DEF HasRead
  <1> QED BY <1>1, <1>2, <1>3, <1>4, <1>6, <1>7 DEF Handles

\* a new device,
LEMMA ServesCrt ==
  ASSUME TypeInv, OneGuest, NEW c \in Clients, NEW x, PeerDevCrt(Server, x)
  PROVE  LET m == streams[Server][PeerConn(c)].fallback.msg
         IN  /\ Handles(c, Opened(streams[Server], {UdevStream(m.dev)}))
             /\ devices' = [devices EXCEPT ![Server] = Append(@, [id |-> m.dev, grabbed |-> FALSE])]
             /\ m.h = "PEER_DEV_CRT" /\ UNCHANGED <<state, virt>>
  <1> DEFINE ss == Opened(streams[Server], {UdevStream(streams[Server][x].fallback.msg.dev)})
  <1>1. Server \in Daemons
    BY ClientLemma
  <1>2. HasRead(Server, x, "PEER_DEV_CRT") /\ x[1] = "peer" /\ Finish(Server, x, ss)
    BY DEF PeerDevCrt
  <1>3. x \in NamesOf(Server) /\ x \in DOMAIN streams[Server]
        /\ streams[Server][x].fallback.msg.h = "PEER_DEV_CRT"
    BY <1>1, <1>2, ReadLemma DEF None
  <1>4. x = PeerConn(c)
    BY <1>2, <1>3, GuestLemma1
  <1>5. x \in DOMAIN ss /\ ss[x] = streams[Server][x]
    BY <1>3 DEF Opened
  <1>6. UNCHANGED <<proc, pipe, open, backlog, captured, emitted, state, virt>>
    BY DEF PeerDevCrt, PeerUnchanged, socketVars, logVars
  <1> HIDE DEF ss
  <1>7. Handles(c, ss)
    BY <1>2, <1>4, <1>5, <1>6, FinishPeer DEF None
  <1> QED BY <1>3, <1>4, <1>6, <1>7 DEF PeerDevCrt, ss

\* a device that is grabbed or released,
LEMMA ServesGrab ==
  ASSUME TypeInv, OneGuest, NEW c \in Clients, NEW x, PeerUpdGrab(Server, x), ~Fails(Server)
  PROVE  LET m == streams[Server][PeerConn(c)].fallback.msg
         IN  /\ Handles(c, streams[Server])
             /\ devices[Server] # <<>>
             /\ devices' = [devices EXCEPT ![Server][FindById(Server, m.dev)].grabbed = (m.val = "grabbed")]
             /\ m.h = "PEER_GRAB" /\ UNCHANGED <<state, virt>>
  <1> DEFINE ss == streams[Server]
  <1>1. Server \in Daemons
    BY ClientLemma
  <1>2. HasRead(Server, x, "PEER_GRAB") /\ x[1] = "peer" /\ Finish(Server, x, ss) /\ devices[Server] # <<>>
    BY DEF PeerUpdGrab
  <1>3. x \in NamesOf(Server) /\ x \in DOMAIN streams[Server]
        /\ streams[Server][x].fallback.msg.h = "PEER_GRAB"
    BY <1>1, <1>2, ReadLemma DEF None
  <1>4. x = PeerConn(c)
    BY <1>2, <1>3, GuestLemma1
  <1>5. UNCHANGED <<proc, pipe, open, backlog, captured, emitted, state, virt>>
    BY DEF PeerUpdGrab, PeerUnchanged, socketVars, logVars
  <1>6. Handles(c, ss)
    BY <1>2, <1>3, <1>4, <1>5, FinishPeer DEF None
  <1> QED BY <1>2, <1>3, <1>4, <1>5, <1>6 DEF PeerUpdGrab

\* an event,
LEMMA ServesEvent ==
  ASSUME TypeInv, OneGuest, NEW c \in Clients, NEW x, PeerEvent(Server, x), ~Fails(Server)
  PROVE  LET m == streams[Server][PeerConn(c)].fallback.msg
             k == devices[Server][FindById(Server, m.dev)].id
         IN  /\ Handles(c, EmitEvent(Server, k, m.val))
             /\ devices[Server] # <<>>
             /\ m.h = "PEER_EVENT" /\ UNCHANGED <<devices, state, virt>>
  <1> DEFINE m == streams[Server][x].fallback.msg
             k == devices[Server][FindById(Server, m.dev)].id
             ss == EmitEvent(Server, k, m.val)
  <1>1. Server \in Daemons
    BY ClientLemma
  <1>2. HasRead(Server, x, "PEER_EVENT") /\ x[1] = "peer" /\ Finish(Server, x, ss) /\ devices[Server] # <<>>
    BY DEF PeerEvent
  <1>3. x \in NamesOf(Server) /\ x \in DOMAIN streams[Server] /\ m.h = "PEER_EVENT"
    BY <1>1, <1>2, ReadLemma DEF None
  <1>4. x = PeerConn(c)
    BY <1>2, <1>3, GuestLemma1
  <1>5. x \in DOMAIN ss /\ ss[x] = streams[Server][x]
    <2> HIDE DEF k, m
    <2>1. UdevStream(k)[1] = "udev"
      BY DEF UdevStream
    <2>2. x # UdevStream(k)
      BY <1>2, <2>1
    <2> QED BY <1>3, <2>2 DEF EmitEvent, PushAll
  <1>6. UNCHANGED <<proc, pipe, open, backlog, captured, emitted, devices, state, virt>>
    BY DEF PeerEvent, PeerUnchanged, socketVars, logVars
  <1> HIDE DEF ss
  <1>7. Handles(c, ss)
    BY <1>2, <1>4, <1>5, <1>6, FinishPeer DEF None
  <1> QED BY <1>2, <1>3, <1>4, <1>6, <1>7 DEF ss

\* a pause or its end,
LEMMA ServesControl ==
  ASSUME TypeInv, OneGuest, NEW c \in Clients, NEW x, NEW h \in {"PEER_PAUSE", "PEER_RESUME"},
         NEW grab, NEW reply, NEW new, PeerControl(Server, x, h, grab, reply, new), ~Fails(Server)
  PROVE  /\ Handles(c, Broadcast(Server, ReleaseVirtKeys(Server, streams[Server]), reply))
         /\ streams[Server][PeerConn(c)].fallback.msg.h = h /\ UNCHANGED <<devices, virt>>
         /\ state' = [state EXCEPT ![Server] = new]
  <1> DEFINE rr == ReleaseVirtKeys(Server, streams[Server])
             ss == Broadcast(Server, rr, reply)
  <1>1. Server \in Daemons
    BY ClientLemma
  <1>2. HasRead(Server, x, h) /\ x[1] = "peer" /\ Finish(Server, x, ss)
    BY DEF PeerControl, ControlInputs
  <1>3. x \in NamesOf(Server) /\ x \in DOMAIN streams[Server] /\ streams[Server][x].fallback.msg.h = h
    BY <1>1, <1>2, ReadLemma DEF None
  <1>4. x = PeerConn(c)
    BY <1>2, <1>3, GuestLemma1
  <1>5. x \in DOMAIN ss /\ ss[x] = streams[Server][x]
    <2>1. x \notin UdevStreams(Server)
      BY <1>2 DEF UdevStreams, UdevStream
    <2>2. x \in DOMAIN rr /\ rr[x] = streams[Server][x]
      BY <1>3, <2>1 DEF ReleaseVirtKeys
    <2> HIDE DEF rr
    <2> QED BY <1>1, <1>2, <2>2, BroadcastElsewhere
  <1>6. UNCHANGED <<proc, pipe, open, backlog, captured, emitted, devices, virt>>
        /\ state' = [state EXCEPT ![Server] = new]
    BY DEF PeerControl, PeerUnchanged, socketVars, logVars, ControlledInputs
  <1> HIDE DEF ss
  <1>7. Handles(c, ss)
    BY <1>2, <1>4, <1>5, <1>6, FinishPeer DEF None
  <1> QED BY <1>3, <1>4, <1>6, <1>7 DEF ss

\* or its end.
LEMMA ServesStop ==
  ASSUME TypeInv, OneGuest, NEW c \in Clients, NEW x, PeerStopServer(Server, x)
  PROVE  /\ Handles(c, Without(streams[Server], UdevStreams(Server)))
         /\ streams[Server][PeerConn(c)].fallback.msg.h = "PEER_STOP"
         /\ devices' = [devices EXCEPT ![Server] = <<>>] /\ virt' = {}
  <1> DEFINE ss == Without(streams[Server], UdevStreams(Server))
  <1>1. Server \in Daemons
    BY ClientLemma
  <1>2. HasRead(Server, x, "PEER_STOP") /\ x[1] = "peer" /\ Finish(Server, x, ss)
    BY DEF PeerStopServer
  <1>3. x \in NamesOf(Server) /\ x \in DOMAIN streams[Server]
        /\ streams[Server][x].fallback.msg.h = "PEER_STOP"
    BY <1>1, <1>2, ReadLemma DEF None
  <1>4. x = PeerConn(c)
    BY <1>2, <1>3, GuestLemma1
  <1>5. x \in DOMAIN ss /\ ss[x] = streams[Server][x]
    <2>1. x \notin UdevStreams(Server)
      BY <1>2 DEF UdevStreams, UdevStream
    <2> QED BY <1>3, <2>1 DEF Without
  <1>6. UNCHANGED <<proc, pipe, open, backlog, captured, emitted>>
        /\ devices' = [devices EXCEPT ![Server] = <<>>] /\ virt' = {}
    BY DEF PeerStopServer, PeerUnchanged, logVars, NoDevices
  <1> HIDE DEF ss
  <1>7. Handles(c, ss)
    BY <1>2, <1>4, <1>5, <1>6, FinishPeer DEF None
  <1> QED BY <1>3, <1>4, <1>6, <1>7 DEF ss

-----------------------------------------------------------------------------
(* What the server does else *)

\* A relay is asked for what it may ask.
Obeys(r) == Taken(r).h \in Commands[r] \cup {None, "GARBAGE"}

\* What it is asked stays what it may ask.
LEMMA ObeysStep ==
  ASSUME TypeInv, Next, NEW r \in Relays, Single(r), Obeys(r) PROVE Obeys(r)'
  <1> DEFINE d == Target[r]
             s == RelayConn(r)
  <1>1. d \in Daemons /\ s \in NamesOf(d) /\ IsSocket(s)
    BY RelayEndsLemma DEF NamesOf, IsSocket
  <1>2. Got(d, s)' \in {Got(d, s), Msg(None), Garbage.msg} \/ Takes(d, s)
    BY <1>1, GotStep
  <1>3. Msg(None).h = None /\ Garbage.msg.h = "GARBAGE"
    BY DEF Msg, Garbage, DevMsg
  <1>4. Takes(d, s) => Got(d, s)'.h \in Commands[r]
    BY DEF Takes, Single, Request
  <1> QED BY <1>2, <1>3, <1>4 DEF Obeys, Taken

\* nothing but the stream of a relay, or nothing at all
Busy(x) ==
    /\ DOMAIN streams'[Server] \subseteq DOMAIN streams[Server]
    /\ \A y \in DOMAIN streams[Server] \ {x} :
          y \in DOMAIN streams'[Server] /\ streams'[Server][y] = streams[Server][y]
    /\ \A e \in Daemons \ {Server} : streams'[e] = streams[e]
    /\ batch' = [batch EXCEPT ![Server] = @ \ {x}]
    /\ UNCHANGED <<proc, devices, state, virt, pipe, captured, emitted>>

\* the server answers its relays and changes nothing
LEMMA ServesRelay ==
  ASSUME TypeInv, ServerListens, \A r \in Relays : Obeys(r), NEW x, RelayHandler(Server, x)
  PROVE  Busy(x) /\ x \in NamesOf(Server) /\ x[1] = "relay" /\ UNCHANGED <<open, backlog>>
  <1>1. Server \in Daemons
    BY DEF Daemons
  <1>2. ASSUME NEW h \in RelayHeaders, HasRead(Server, x, h)
        PROVE  /\ x \in DOMAIN streams[Server] /\ x \in NamesOf(Server) /\ x[1] = "relay"
               /\ h \notin {"RELAY_PAUSE", "RELAY_RESUME", "RELAY_SWITCH", "RELAY_STOP"}
    <2>1. x \in DOMAIN streams[Server] /\ x \in RelaysOf(Server) /\ x[1] = "relay"
      BY <1>1, <1>2, RequestLemma
    <2>2. PICK r \in Relays : x = RelayConn(r) /\ Target[r] = Server
      BY <2>1 DEF RelaysOf
    <2>3. Taken(r).h = h
      BY <1>2, <2>1, <2>2 DEF Taken, Got, HasRead
    <2>4. h \notin {None, "GARBAGE"}
      BY <1>2 DEF RelayHeaders, None
    <2> QED BY <2>1, <2>2, <2>3, <2>4 DEF Obeys, ServerListens, NamesOf
  <1>3. \/ HasRead(Server, x, "RELAY_IDLE") /\ Finish(Server, x, streams[Server])
        \/ /\ HasRead(Server, x, "RELAY_START") \/ HasRead(Server, x, "RELAY_LIST")
           /\ \E m : Finish(Server, x, Push(streams[Server], x, m))
    BY <1>2 DEF RelayHandler, RelayIdle, RelayStart, RelayList, RelayPause, RelayPauseAgain, RelayResume,
                RelayResumeAgain, RelayStop, AsksToPause, AsksToResume, Answer, RelayHeaders
  <1>4. x \in DOMAIN streams[Server] /\ x \in NamesOf(Server) /\ x[1] = "relay"
    BY <1>2, <1>3 DEF RelayHeaders
  <1>5. UNCHANGED <<proc, devices, state, virt, pipe, captured, emitted, open, backlog>>
    BY <1>2 DEF RelayHandler, RelayIdle, RelayStart, RelayList, RelayPause, RelayPauseAgain, RelayResume,
                RelayResumeAgain, RelayStop, AsksToPause, AsksToResume, Answer, RelayHeaders,
                RelayUnchanged, socketVars, logVars
  <1>6. \E ss : /\ Finish(Server, x, ss) /\ DOMAIN ss = DOMAIN streams[Server]
                /\ \A y \in DOMAIN ss \ {x} : ss[y] = streams[Server][y]
    <2>1. \A m : LET ss == Push(streams[Server], x, m)
                 IN  /\ DOMAIN ss = DOMAIN streams[Server]
                     /\ \A y \in DOMAIN ss \ {x} : ss[y] = streams[Server][y]
      BY DEF Push, PushAll
    <2> QED BY <1>3, <2>1
  <1>7. PICK ss : /\ Finish(Server, x, ss) /\ DOMAIN ss = DOMAIN streams[Server]
                  /\ \A y \in DOMAIN ss \ {x} : ss[y] = streams[Server][y]
    BY <1>6
  <1>8. /\ DOMAIN Reset(ss, x) = DOMAIN ss /\ \A y \in DOMAIN ss \ {x} : Reset(ss, x)[y] = ss[y]
    BY DEF Reset
  <1>9. /\ streams'[Server] = Reset(ss, x) /\ \A e \in Daemons \ {Server} : streams'[e] = streams[e]
        /\ batch' = [batch EXCEPT ![Server] = @ \ {x}]
    BY <1>1, <1>7 DEF Finish, TypeInv
  <1> QED BY <1>4, <1>5, <1>7, <1>8, <1>9 DEF Busy

-----------------------------------------------------------------------------
(* Whose step it is, with one client *)

\* relays and the user leave alone what a client and the server have of each other
Aside(c) ==
    /\ UNCHANGED <<proc, exiting, state, peerState, devices, streams, batch, virt, captured, emitted>>
    /\ LET s == PeerConn(c)
       IN  pipe'[s] = pipe[s] /\ open'[s] = open[s] /\ backlog'[Tcp] = backlog[Tcp]

\* a step is one of the client, one of the server, or beside them
LEMMA Sides ==
  ASSUME TypeInv, OneGuest, NEW c \in Clients, Next
  PROVE  \/ Departs(c) \/ Dispatch(c) \/ Resolve(c) \/ ClientStart(c)
         \/ Departs(Server) \/ Dispatch(Server) \/ Resolve(Server)
         \/ Aside(c)
  <1> DEFINE s == PeerConn(c)
  <1>1. s \in Connections /\ s[1] = "peer" /\ c # Server
    BY ClientLemma
  <1>2. Daemons = {c, Server}
    BY GuestLemma1
  <1>3. ASSUME NEW r \in Relays,
               \/ \E h \in Commands[r] : RelayConnect(r, h)
               \/ RelayRead(r) \/ RelayDrain(r) \/ \E how \in {"closed", "failed"} : RelayEnds(r, how)
        PROVE  Aside(c)
    <2>1. RelayConn(r) # s /\ Target[r] # Tcp
      BY <1>1, RelayEndsLemma, DaemonsLemma
    <2>2. UNCHANGED <<proc, exiting, state, peerState, devices, streams, batch, virt, captured, emitted>>
      BY <1>3 DEF RelayConnect, RelayRead, RelayDrain, RelayEnds, Others, daemonVars, inputVars, logVars
    <2>3. pipe' = pipe \/ \E v : pipe' = [pipe EXCEPT ![RelayConn(r)] = v]
      BY <1>3 DEF RelayConnect, RelayRead, RelayDrain, RelayEnds
    <2>4. open' = open \/ \E v : open' = [open EXCEPT ![RelayConn(r)] = v]
      BY <1>3 DEF RelayConnect, RelayRead, RelayDrain, RelayEnds
    <2>5. backlog' = backlog \/ \E v : backlog' = [backlog EXCEPT ![Target[r]] = v]
      BY <1>3 DEF RelayConnect, RelayRead, RelayDrain, RelayEnds
    <2>6. pipe'[s] = pipe[s] /\ open'[s] = open[s] /\ backlog'[Tcp] = backlog[Tcp]
      BY <1>1, <2>1, <2>3, <2>4, <2>5 DEF TypeInv, TypedPipes
    <2> QED BY <2>2, <2>6 DEF Aside
  <1>4. User => Aside(c)
    BY DEF User, KeyDown, KeyUp, Move, Unplug, UserUnchanged, daemonVars, socketVars, logVars, Aside
  <1>5. \A e \in Clients : ClientStart(e) => ClientStart(c)
    BY DEF OneGuest
  <1> QED BY <1>2, <1>3, <1>4, <1>5, FineSteps

-----------------------------------------------------------------------------
(* A server that says nothing to its client *)

\* what the server has read of client c
Ear(c) == IF PeerConn(c) \in DOMAIN streams[Server] THEN streams[Server][PeerConn(c)].fallback ELSE Idle

\* Nothing is on its way to the client.
Mute(c) ==
    LET s == PeerConn(c)
    IN  /\ pipe[s][c] = <<>>
        /\ s \in DOMAIN streams[Server] => streams[Server][s].queue = <<>>
        /\ Here(c) => streams[c][s].fallback.state \in {"HEADER", "CLOSED"}

\* The server keeps its end as long as it has the stream or will have it, and an entry of
\* it in the batch as long as there is something to resolve.
Tuned(c) ==
    LET s == PeerConn(c)
    IN  /\ s \in DOMAIN streams[Server] => Server \in open[s]
        /\ s \in Elems(backlog[Tcp]) => Server \in open[s] /\ s \notin DOMAIN streams[Server]
        /\ Ear(c).state \in {"COMPLETE", "CLOSED"} => s \in batch[Server]
        /\ proc[c] = "off" => Piped(c) = <<>>

\* nothing is written to a client, and nothing of it is there to be read by it
LEMMA MutePipe ==
  ASSUME TypeInv, NEW c \in Clients, Mute(c), NEW d \in {c, Server}, NEW S \in SUBSET ReadySet(d)
  PROVE  LET s == PeerConn(c)
         IN  /\ PipeAfter(d, S)[s][c] = <<>>
             /\ ~Reads(c, s) /\ (s \in DOMAIN streams[Server] => ~Writes(Server, s))
  <1> DEFINE s == PeerConn(c)
             p == PipeAfter(d, S)
  <1>1. /\ c \in Daemons /\ Server \in Daemons /\ c # Server /\ s \in Connections
        /\ Ends(s) = {c, Server} /\ OtherEnd(s, c) = Server /\ OtherEnd(s, Server) = c
    BY ClientLemma
  <1>2. DOMAIN pipe[s] = {c, Server}
    BY <1>1 DEF TypeInv, TypedPipes
  <1>3. ~Reads(c, s) /\ (s \in DOMAIN streams[Server] => ~Writes(Server, s))
    BY <1>1, StreamFacts DEF Mute, Reads
  <1>4. s \in S => s \in DOMAIN streams[d]
    BY DEF ReadySet
  <1>5. p[s] = pipe[s] \/ \E v : p[s] = [pipe[s] EXCEPT ![Server] = v]
    <2>1. CASE s \notin S
      BY <1>1, <2>1 DEF PipeAfter
    <2>2. CASE s \in S /\ d = c
      BY <1>1, <1>3, <2>2 DEF PipeAfter
    <2>3. CASE s \in S /\ d = Server
      BY <1>1, <1>3, <1>4, <2>3 DEF PipeAfter
    <2> QED BY <2>1, <2>2, <2>3
  <1>6. p[s][c] = <<>>
    BY <1>1, <1>2, <1>5 DEF Mute
  <1> QED BY <1>3, <1>6

\* what a pass makes of the stream of a client's connection, at either end
LEMMA MuteIo ==
  ASSUME TypeInv, NEW c \in Clients, Mute(c), NEW d \in {c, Server}, PeerConn(c) \in ReadySet(d)
  PROVE  LET s == PeerConn(c)
             t == streams[d][s]
             z == AfterIo(d, s)
         IN  /\ Writes(d, s) => z.fallback = t.fallback /\ z.queue = [t.queue EXCEPT ![1] = Streamed(@)]
             /\ ~Writes(d, s) => z.queue = t.queue
             /\ ~Writes(d, s) /\ ~Reads(d, s) => z.fallback = [t.fallback EXCEPT !.state = "CLOSED"]
             /\ Reads(d, s) /\ ~Misreads(d, s)
                  => z.fallback = Streamed([msg |-> Head(pipe[s][d]).msg, state |-> t.fallback.state])
  <1> DEFINE s == PeerConn(c)
             t == streams[d][s]
             z == AfterIo(d, s)
  <1>1. s[1] = "peer" /\ d \in Daemons
    BY ClientLemma
  <1>2. t \in Records(d, s, exiting)
    BY <1>1, StreamFacts DEF StreamsOf, ReadySet
  <1>3. /\ Writes(d, s) => z.fallback = t.fallback /\ z.queue = [t.queue EXCEPT ![1] = Streamed(@)]
        /\ ~Writes(d, s) => z.queue = t.queue
    BY <1>1, AfterIoPeer
  <1>4. ASSUME ~Writes(d, s), ~Reads(d, s) PROVE z.fallback = [t.fallback EXCEPT !.state = "CLOSED"]
    <2>1. z = [t EXCEPT !.fallback.state = "CLOSED"]
      BY <1>1, <1>4 DEF AfterIo
    <2> HIDE DEF z, t
    <2> QED BY <1>2, <2>1 DEF Records
  <1>5. ASSUME Reads(d, s), ~Misreads(d, s)
        PROVE  z.fallback = Streamed([msg |-> Head(pipe[s][d]).msg, state |-> t.fallback.state])
    <2> DEFINE g == Streamed([msg |-> Head(pipe[s][d]).msg, state |-> t.fallback.state])
    <2>1. ~Writes(d, s)
      BY <1>5 DEF Reads, Writes
    <2>2. z = [t EXCEPT !.fallback = g]
      BY <1>1, <1>5, <2>1 DEF AfterIo
    <2> HIDE DEF z, t, g
    <2>3. z.fallback = g
      BY <1>2, <2>2 DEF Records
    <2> QED BY <2>3 DEF g, t
  <1> QED BY <1>3, <1>4, <1>5

-----------------------------------------------------------------------------
(* What the server resolves *)

\* the entry x of the server's batch is one of a relay, or it is passed over
Rests(x) ==
    /\ Busy(x) /\ UNCHANGED <<open, backlog>>
    /\ x \in DOMAIN streams[Server] /\ x[1] # "relay" =>
          /\ streams'[Server] = streams[Server]
          /\ NextItem(streams[Server][x]).state \in {"HEADER", "BODY"}

\* it holds a message of the client
Hosts(x) ==
    \/ PeerDevCrt(Server, x) \/ PeerUpdGrab(Server, x) \/ PeerEvent(Server, x)
    \/ PeerPause(Server, x) \/ PeerResume(Server, x) \/ PeerStopServer(Server, x)

\* an item that was written to a relay leaves its queue
LEMMA WrittenRests ==
  ASSUME TypeInv, NEW x, x[1] = "relay", ResolveWritten(Server, x) PROVE Rests(x)
  <1>1. Server \in Daemons
    BY DEF Daemons
  <1>2. /\ batch' = [batch EXCEPT ![Server] = @ \ {x}]
        /\ UNCHANGED <<proc, devices, state, virt, pipe, captured, emitted, open, backlog>>
    BY DEF ResolveWritten, Finish, socketVars, inputVars, logVars
  <1>3. /\ DOMAIN streams'[Server] = DOMAIN streams[Server]
        /\ \A y \in DOMAIN streams[Server] \ {x} : streams'[Server][y] = streams[Server][y]
        /\ \A e \in Daemons \ {Server} : streams'[e] = streams[e]
    BY <1>1, WrittenStream
  <1> QED BY <1>2, <1>3 DEF Rests, Busy

\* What an entry of the server's batch may be.
LEMMA ServerResolves ==
  ASSUME TypeInv, OneGuest, ServerListens, \A r \in Relays : Obeys(r),
         NEW c \in Clients, Mute(c), Resolve(Server)
  PROVE  \/ Fails(Server)
         \/ \E x \in batch[Server] :
               \/ ResolveClosed(Server, x) \/ Rests(x)
               \/ x[1] = "udev" /\ ResolveWritten(Server, x)
               \/ ~Fails(Server) /\ Hosts(x)
  <1> SUFFICES ASSUME ~Fails(Server), NEW x \in batch[Server],
                      \/ ResolveFreed(Server, x) \/ ResolveIncomplete(Server, x)
                      \/ ResolveWritten(Server, x)
                      \/ PeerHandler(Server, x) \/ RelayHandler(Server, x) \/ DevHandler(Server, x)
               PROVE  \/ Rests(x) \/ Hosts(x)
                      \/ x[1] = "udev" /\ ResolveWritten(Server, x)
    BY DEF Resolve, CloseCrashes
  <1>1. Server \in Daemons
    BY DEF Daemons
  <1>2. CASE ResolveFreed(Server, x) \/ ResolveIncomplete(Server, x)
    <2>1. /\ UNCHANGED <<streams, proc, devices, state, virt, pipe, captured, emitted, open, backlog>>
          /\ batch' = [batch EXCEPT ![Server] = @ \ {x}]
          /\ x \in DOMAIN streams[Server] =>
                NextItem(streams[Server][x]).state \in {"HEADER", "BODY"}
      BY <1>2 DEF ResolveFreed, ResolveIncomplete, socketVars, inputVars, logVars
    <2> QED BY <2>1 DEF Rests, Busy
  <1>3. CASE ResolveWritten(Server, x)
    <2>1. x \in DOMAIN streams[Server] /\ (streams[Server][x].queue # <<>> \/ x[1] = "udev")
      BY <1>3 DEF ResolveWritten
    <2>2. x \in NamesOf(Server)
      BY <1>1, <2>1, StreamFacts
    <2>3. x[1] \in {"relay", "peer", "udev"}
      BY <1>1, <2>2, NamesLemma
    <2>4. x[1] # "peer"
      BY <2>1, <2>2, GuestLemma1 DEF Mute
    <2> QED BY <1>3, <2>3, <2>4, WrittenRests
  <1>4. CASE PeerHandler(Server, x)
    <2>1. ~PeerStopClient(Server, x) /\ ~PeerStopCrashes(Server, x)
      BY DEF PeerStopClient, PeerStopCrashes
    <2> QED BY <1>4, <2>1 DEF PeerHandler, Hosts
  <1>5. CASE RelayHandler(Server, x)
    BY <1>5, ServesRelay DEF Rests
  <1>6. ~DevHandler(Server, x)
    <2>1. ASSUME DevHandler(Server, x) PROVE FALSE
      <3>1. HasRead(Server, x, "PEER_EVENT") /\ x[1] = "dev"
        BY <2>1 DEF DevHandler
      <3>2. x \in NamesOf(Server)
        BY <1>1, <3>1, ReadLemma DEF None
      <3> QED BY <1>1, <3>1, <3>2, NamesLemma
    <2> QED BY <2>1
  <1> QED BY <1>2, <1>3, <1>4, <1>5, <1>6

\* a message of the client is handled
LEMMA HostsHandles ==
  ASSUME TypeInv, OneGuest, NEW c \in Clients, NEW x, ~Fails(Server), Hosts(x)
  PROVE  \E ss : Handles(c, ss)
  <1>1. PeerPause(Server, x) => \E ss : Handles(c, ss)
    BY ServesControl DEF PeerPause
  <1>2. PeerResume(Server, x) => \E ss : Handles(c, ss)
    BY ServesControl DEF PeerResume
  <1>3. PeerDevCrt(Server, x) => \E ss : Handles(c, ss)
    BY ServesCrt
  <1>4. PeerUpdGrab(Server, x) => \E ss : Handles(c, ss)
    BY ServesGrab
  <1>5. PeerEvent(Server, x) => \E ss : Handles(c, ss)
    BY ServesEvent
  <1>6. PeerStopServer(Server, x) => \E ss : Handles(c, ss)
    BY ServesStop
  <1> QED BY <1>1, <1>2, <1>3, <1>4, <1>5, <1>6 DEF Hosts

\* what is closed has nothing queued, and its file or socket has come to its end
LEMMA ClosedStream ==
  ASSUME TypeInv, NEW d \in Daemons, NEW x, ResolveClosed(d, x)
  PROVE  /\ x \in DOMAIN streams[d] /\ x \in batch[d]
         /\ streams[d][x].queue = <<>> /\ streams[d][x].fallback.state = "CLOSED"
         /\ streams' = [streams EXCEPT ![d] = Without(streams[d], {x})]
         /\ DOMAIN streams'[d] = DOMAIN streams[d] \ {x}
         /\ \A y \in DOMAIN streams[d] \ {x} : streams'[d][y] = streams[d][y]
         /\ batch' = [batch EXCEPT ![d] = @ \ {x}]
         /\ UNCHANGED <<proc, exiting, state, devices, virt, pipe, backlog, captured, emitted>>
  <1>1. /\ x \in DOMAIN streams[d] /\ x \in batch[d] /\ NextItem(streams[d][x]).state = "CLOSED"
        /\ streams' = [streams EXCEPT ![d] = Without(streams[d], {x})]
        /\ batch' = [batch EXCEPT ![d] = @ \ {x}]
        /\ UNCHANGED <<proc, exiting, state, devices, virt, pipe, backlog, captured, emitted>>
    BY DEF ResolveClosed, inputVars, logVars
  <1>2. /\ DOMAIN streams'[d] = DOMAIN streams[d] \ {x}
        /\ \A y \in DOMAIN streams[d] \ {x} : streams'[d][y] = streams[d][y]
    BY <1>1 DEF TypeInv, Without
  <1>3. streams[d][x].queue = <<>>
    <2> DEFINE q == streams[d][x].queue
    <2>1. q \in Seq(QueueItems(d, x, exiting))
      BY <1>1, StreamFacts
    <2>2. q # <<>> => q[1] \in QueueItems(d, x, exiting)
      BY <2>1, HeadsLemma
    <2> QED BY <1>1, <2>2 DEF NextItem, QueueItems
  <1> QED BY <1>1, <1>2, <1>3 DEF NextItem

-----------------------------------------------------------------------------
(* The support holds after every step *)

\* the end of either side leaves nothing to be read by the client
LEMMA DepartsMute ==
  ASSUME TypeInv, NEW c \in Clients, Mute(c), NEW d \in {c, Server}, Departs(d) PROVE Mute(c)'
  <1> DEFINE s == PeerConn(c)
  <1>1. /\ c \in Daemons /\ Server \in Daemons /\ c # Server /\ s \in Connections
        /\ Ends(s) = {c, Server}
    BY ClientLemma
  <1>2. PICK how \in {"exited", "failed"} :
           \/ ProcessEnds(d, how, pipe)
           \/ \E S \in SUBSET ReadySet(d) : ProcessEnds(d, how, PipeAfter(d, S))
    BY DEF Departs
  <1>3. PICK p : ProcessEnds(d, how, p) /\ p[s][c] = <<>> /\ TypedPipes(p, exiting)
    <2>1. pipe[s][c] = <<>> /\ TypedPipes(pipe, exiting)
      BY DEF Mute, TypeInv
    <2>2. \A S \in SUBSET ReadySet(d) :
             PipeAfter(d, S)[s][c] = <<>> /\ TypedPipes(PipeAfter(d, S), exiting)
      <3>1. ReadySet(d) \subseteq DOMAIN streams[d] /\ d \in Daemons
        BY <1>1 DEF ReadySet
      <3> QED BY <3>1, MutePipe, PipeAfterTyped
    <2> QED BY <1>2, <2>1, <2>2
  <1>4. pipe'[s] \in {p[s], [p[s] EXCEPT ![d] = <<>>]} /\ DOMAIN p[s] = {c, Server}
    BY <1>1, <1>3 DEF ProcessEnds, TypedPipes
  <1>5. pipe'[s][c] = <<>>
    BY <1>1, <1>3, <1>4
  <1>6. /\ DOMAIN streams'[d] = {} /\ \A e \in Daemons \ {d} : streams'[e] = streams[e]
    BY <1>1, <1>3 DEF ProcessEnds, TypeInv
  <1> QED BY <1>1, <1>5, <1>6 DEF Mute, Here

\* nor does a pass,
LEMMA DispatchMute ==
  ASSUME TypeInv, NEW c \in Clients, Mute(c), NEW d \in {c, Server}, Dispatch(d) PROVE Mute(c)'
  <1> DEFINE s == PeerConn(c)
  <1>1. c \in Daemons /\ Server \in Daemons /\ c # Server
    BY ClientLemma
  <1>2. pipe'[s][c] = <<>> /\ ~Reads(c, s) /\ (s \in DOMAIN streams[Server] => ~Writes(Server, s))
    <2>1. pipe' = PipeAfter(d, ReadySet(d))
      BY DEF Dispatch
    <2> QED BY <2>1, MutePipe
  <1>3. /\ \A e \in Daemons \ {d} : streams'[e] = streams[e]
        /\ DOMAIN streams'[d] = DOMAIN streams[d] \cup NewStreams(d)
        /\ \A x \in DOMAIN streams[d] :
              streams'[d][x] = IF x \in ReadySet(d) THEN AfterIo(d, x) ELSE streams[d][x]
        /\ \A x \in NewStreams(d) \ DOMAIN streams[d] : streams'[d][x] = FreshStream
    BY <1>1, PassStreams
  <1>4. s \notin NewStreams(c)
    BY NoNewPeer
  <1>5. CASE d = c
    <2>1. streams'[Server] = streams[Server] /\ Here(c)' = Here(c)
      BY <1>1, <1>3, <1>4, <1>5 DEF Here
    <2>2. ASSUME Here(c) PROVE streams'[c][s].fallback.state \in {"HEADER", "CLOSED"}
      <3>1. streams[c][s].fallback.state \in {"HEADER", "CLOSED"}
        BY <2>2 DEF Mute
      <3>2. CASE s \notin ReadySet(c)
        BY <1>3, <1>5, <2>2, <3>1, <3>2 DEF Here
      <3>3. CASE s \in ReadySet(c)
        <4> DEFINE f == streams[c][s].fallback
                   z == AfterIo(c, s)
        <4>1. streams'[c][s] = z
          BY <1>3, <1>5, <2>2, <3>3 DEF Here
        <4>2. /\ Writes(c, s) => z.fallback = f
              /\ ~Writes(c, s) => z.fallback = [f EXCEPT !.state = "CLOSED"]
          BY <1>2, <1>5, <3>3, MuteIo
        <4>3. f \in FallbackItems(c, s)
          BY <1>1, <2>2, StreamFacts DEF Here
        <4>4. [f EXCEPT !.state = "CLOSED"].state = "CLOSED"
          BY <4>3 DEF FallbackItems
        <4> QED BY <3>1, <4>1, <4>2, <4>4
      <3> QED BY <3>2, <3>3
    <2> QED BY <1>2, <2>1, <2>2 DEF Mute
  <1>6. CASE d = Server
    <2>1. streams'[c] = streams[c]
      BY <1>1, <1>3, <1>6
    <2>2. ASSUME s \in DOMAIN streams'[Server] PROVE streams'[Server][s].queue = <<>>
      <3>1. CASE s \notin DOMAIN streams[Server]
        BY <1>3, <1>6, <2>2, <3>1 DEF FreshStream
      <3>2. CASE s \in DOMAIN streams[Server] /\ s \notin ReadySet(Server)
        BY <1>3, <1>6, <3>2 DEF Mute
      <3>3. CASE s \in DOMAIN streams[Server] /\ s \in ReadySet(Server)
        <4>1. streams'[Server][s] = AfterIo(Server, s) /\ ~Writes(Server, s)
          BY <1>2, <1>3, <1>6, <3>3
        <4>2. AfterIo(Server, s).queue = streams[Server][s].queue
          BY <1>6, <3>3, <4>1, MuteIo
        <4> QED BY <3>3, <4>1, <4>2 DEF Mute
      <3> QED BY <3>1, <3>2, <3>3
    <2> QED BY <1>2, <2>1, <2>2 DEF Mute, Here
  <1> QED BY <1>5, <1>6

\* nor does any step.
LEMMA MuteStep ==
  ASSUME TypeInv, OneGuest, ServerListens, \A r \in Relays : Obeys(r),
         NEW c \in Clients, Mute(c), Next
  PROVE  Mute(c)'
  <1> DEFINE s == PeerConn(c)
  <1>1. /\ c \in Daemons /\ Server \in Daemons /\ c # Server
        /\ s[1] = "peer" /\ s \in NamesOf(c)
    BY ClientLemma
  <1>2. CASE Aside(c)
    BY <1>2 DEF Aside, Mute, Here
  <1>3. ASSUME NEW d \in {c, Server}, Fails(d) PROVE Mute(c)'
    BY <1>3, DepartsMute DEF Fails, Departs
  <1>4. CASE Resolve(c)
    <2>1. ASSUME NEW x, Resolved(c, x) PROVE Mute(c)'
      <3>1. /\ UNCHANGED pipe /\ streams'[Server] = streams[Server]
            /\ s \in DOMAIN streams[c] <=> s \in DOMAIN streams'[c]
            /\ s \in DOMAIN streams[c] \cap DOMAIN streams'[c] =>
                  streams'[c][s].fallback.state \in {streams[c][s].fallback.state, "HEADER"}
        BY <1>1, <2>1 DEF Resolved, StreamsResolved, Idle, Item
      <3> QED BY <3>1 DEF Mute, Here
    <2>2. ASSUME NEW x, ResolveClosed(c, x) PROVE Mute(c)'
      <3>1. /\ UNCHANGED pipe /\ streams' = [streams EXCEPT ![c] = Without(streams[c], {x})]
            /\ DOMAIN streams'[c] = DOMAIN streams[c] \ {x}
            /\ \A y \in DOMAIN streams[c] \ {x} : streams'[c][y] = streams[c][y]
        BY <1>1, <2>2, ClosedStream
      <3>2. streams'[Server] = streams[Server]
        BY <1>1, <3>1 DEF TypeInv
      <3> QED BY <3>1, <3>2 DEF Mute, Here
    <2> QED BY <1>1, <1>3, <1>4, <2>1, <2>2, ResolveMoves
  <1>5. CASE ClientStart(c)
    <2>1. UNCHANGED pipe
      BY <1>5 DEF ClientStart
    <2>2. streams'[Server] = streams[Server] /\ \A x \in DOMAIN streams'[c] : streams'[c][x].fallback = Idle
      BY <1>1, <1>5, StartStreams
    <2>3. Idle.state = "HEADER"
      BY DEF Idle, Item
    <2> QED BY <2>1, <2>2, <2>3 DEF Mute, Here
  <1>6. CASE Resolve(Server)
    <2>1. ASSUME NEW ss, Handles(c, ss) PROVE Mute(c)'
      <3>1. streams'[c] = streams[c] /\ UNCHANGED pipe
            /\ s \in DOMAIN streams[Server] /\ streams'[Server][s].queue = streams[Server][s].queue
        BY <1>1, <2>1 DEF Handles
      <3> QED BY <3>1 DEF Mute, Here
    <2>2. ASSUME NEW x, Rests(x) PROVE Mute(c)'
      <3>1. streams'[c] = streams[c] /\ UNCHANGED pipe
        BY <1>1, <2>2 DEF Rests, Busy
      <3>2. s \in DOMAIN streams'[Server] => s \in DOMAIN streams[Server] /\ streams'[Server][s] = streams[Server][s]
        BY <1>1, <2>2 DEF Rests, Busy
      <3> QED BY <3>1, <3>2 DEF Mute, Here
    <2>3. ASSUME NEW x, ResolveClosed(Server, x) PROVE Mute(c)'
      <3>1. /\ UNCHANGED pipe /\ streams' = [streams EXCEPT ![Server] = Without(streams[Server], {x})]
            /\ DOMAIN streams'[Server] = DOMAIN streams[Server] \ {x}
            /\ \A y \in DOMAIN streams[Server] \ {x} : streams'[Server][y] = streams[Server][y]
        BY <1>1, <2>3, ClosedStream
      <3>2. streams'[c] = streams[c]
        BY <1>1, <3>1 DEF TypeInv
      <3> QED BY <3>1, <3>2 DEF Mute, Here
    <2>4. ASSUME NEW x, x[1] = "udev", ResolveWritten(Server, x) PROVE Mute(c)'
      <3>1. UNCHANGED pipe
        BY <2>4 DEF ResolveWritten, socketVars
      <3>2. streams'[c] = streams[c] /\ x # s
        BY <1>1, <2>4, WrittenStream
      <3>3. s \in DOMAIN streams'[Server] => s \in DOMAIN streams[Server] /\ streams'[Server][s] = streams[Server][s]
        BY <1>1, <2>4, <3>2, WrittenStream
      <3> QED BY <3>1, <3>2, <3>3 DEF Mute, Here
    <2>5. ASSUME NEW x, ~Fails(Server), Hosts(x) PROVE Mute(c)'
      BY <2>1, <2>5, HostsHandles
    <2> QED BY <1>3, <1>6, <2>2, <2>3, <2>4, <2>5, ServerResolves
  <1> QED BY <1>2, <1>4, <1>5, <1>6, DepartsMute, DispatchMute, Sides

\* The server keeps its end, and the entry in its batch,
LEMMA TunedStep ==
  ASSUME TypeInv, OneGuest, ServerListens, \A r \in Relays : Obeys(r),
         NEW c \in Clients, Mute(c), Linked(c), Tuned(c), Next
  PROVE  Tuned(c)'
  <1> DEFINE s == PeerConn(c)
  <1>1. /\ c \in Daemons /\ Server \in Daemons /\ c # Server /\ c # Tcp /\ Server # Tcp
        /\ s[1] = "peer" /\ s \in NamesOf(c) /\ s \in NamesOf(Server) /\ s \in Connections
    BY ClientLemma, DaemonsLemma
  <1>2. CASE Aside(c)
    BY <1>1, <1>2 DEF Aside, Tuned, Ear, Piped
  <1>3. ASSUME NEW d \in {c, Server}, Departs(d) PROVE Tuned(c)'
    <2>1. /\ d = Server => Piped(c)' \in {Piped(c), <<>>} \/ (Piped(c) # <<>> /\ Piped(c)' = Tail(Piped(c)))
          /\ streams' = [streams EXCEPT ![d] = <<>>] /\ open'[s] = open[s] \ {d}
          /\ backlog' = [backlog EXCEPT ![d] = <<>>, ![Tcp] = IF d = Server THEN <<>> ELSE @]
          /\ \E how \in {"exited", "failed"} : proc' = [proc EXCEPT ![d] = how]
      BY <1>1, <1>3, DepartsPeer
    <2>2. batch' = [batch EXCEPT ![d] = {}]
      BY <1>3 DEF Departs, ProcessEnds
    <2>3. CASE d = c
      <3>1. /\ streams'[Server] = streams[Server] /\ backlog'[Tcp] = backlog[Tcp]
            /\ batch'[Server] = batch[Server] /\ proc'[c] # "off"
            /\ Server \in open[s] => Server \in open'[s]
        BY <1>1, <2>1, <2>2, <2>3 DEF TypeInv
      <3> QED BY <3>1 DEF Tuned, Ear
    <2>4. CASE d = Server
      <3>1. /\ DOMAIN streams'[Server] = {} /\ Elems(backlog'[Tcp]) = {} /\ proc'[c] = proc[c]
        BY <1>1, <2>1, <2>4 DEF TypeInv, Elems
      <3>2. Piped(c) = <<>> => Piped(c)' = <<>>
        BY <2>1, <2>4
      <3>3. Ear(c)' = Idle /\ Idle.state = "HEADER"
        BY <3>1 DEF Ear, Idle, Item
      <3> QED BY <3>1, <3>2, <3>3 DEF Tuned
    <2> QED BY <2>3, <2>4
  <1>4. CASE Dispatch(c)
    <2>1. /\ UNCHANGED <<open, proc>> /\ proc[c] = "running" /\ streams'[Server] = streams[Server]
          /\ batch'[Server] = batch[Server] /\ backlog'[Tcp] = backlog[Tcp]
      BY <1>1, <1>4, PassStreams DEF Dispatch, InLoop, TypeInv, AcceptsPeer
    <2> QED BY <2>1 DEF Tuned, Ear
  <1>5. CASE Resolve(c)
    <2>1. ASSUME NEW x, Resolved(c, x) PROVE Tuned(c)'
      <3>1. /\ UNCHANGED <<proc, pipe, open, backlog>>
            /\ streams'[Server] = streams[Server] /\ batch'[Server] = batch[Server]
        BY <1>1, <2>1 DEF Resolved, StreamsResolved
      <3> QED BY <3>1 DEF Tuned, Ear, Piped
    <2>2. ASSUME NEW x, ResolveClosed(c, x) PROVE Tuned(c)'
      <3>1. /\ UNCHANGED <<proc, pipe, backlog>>
            /\ streams' = [streams EXCEPT ![c] = Without(streams[c], {x})]
            /\ batch' = [batch EXCEPT ![c] = @ \ {x}]
        BY <1>1, <2>2, ClosedStream
      <3>2. streams'[Server] = streams[Server] /\ batch'[Server] = batch[Server]
        BY <1>1, <3>1 DEF TypeInv
      <3>3. Server \in open[s] => Server \in open'[s]
        BY <1>1, <2>2 DEF ResolveClosed
      <3> QED BY <3>1, <3>2, <3>3 DEF Tuned, Ear, Piped
    <2> QED BY <1>1, <1>3, <1>5, <2>1, <2>2, ResolveMoves DEF Fails, Departs
  <1>6. CASE ClientStart(c)
    <2>1. /\ proc[c] = "off" /\ proc' = [proc EXCEPT ![c] = "running"]
          /\ open' = [open EXCEPT ![s] = {c, Server}]
      BY <1>6 DEF ClientStart
    <2>2. streams'[Server] = streams[Server]
      BY <1>1, <1>6, StartStreams
    <2>3. /\ proc'[c] = "running" /\ open'[s] = {c, Server} /\ s \notin DOMAIN streams'[Server]
      BY <1>1, <2>1, <2>2 DEF TypeInv, Linked
    <2>4. Ear(c)' = Idle /\ Idle.state = "HEADER"
      BY <2>3 DEF Ear, Idle, Item
    <2> QED BY <2>3, <2>4 DEF Tuned
  <1>7. CASE Dispatch(Server)
    <2>1. /\ UNCHANGED <<open, proc>> /\ batch'[Server] = ReadySet(Server) /\ batch[Server] = {}
          /\ backlog'[Tcp] = IF AcceptsPeer(Server) THEN <<>> ELSE backlog[Tcp]
          /\ pipe' = PipeAfter(Server, ReadySet(Server))
      BY <1>1, <1>7 DEF Dispatch, InLoop, TypeInv
    <2>2. /\ DOMAIN streams'[Server] = DOMAIN streams[Server] \cup NewStreams(Server)
          /\ \A x \in DOMAIN streams[Server] :
                x \notin ReadySet(Server) => streams'[Server][x] = streams[Server][x]
          /\ \A x \in NewStreams(Server) \ DOMAIN streams[Server] : streams'[Server][x] = FreshStream
      BY <1>1, <1>7, PassStreams
    <2>3. s \in NewStreams(Server) => s \in Elems(backlog[Tcp]) /\ AcceptsPeer(Server)
      <3>1. s \in NewStreams(Server) => s \in Elems(backlog[Tcp])
        BY NoNewPeer
      <3>2. ASSUME ~AcceptsPeer(Server) PROVE s \notin NewStreams(Server)
        <4>1. Accepted(Server) \in Seq(RelaysOf(Server))
          BY <1>1, AcceptedTyped
        <4>2. \A i \in DOMAIN Accepted(Server) : Accepted(Server)[i] \in RelaysOf(Server)
          BY <4>1
        <4>3. \A x \in RelaysOf(Server) : x[1] = "relay"
          BY DEF RelaysOf, RelayConn
        <4> QED BY <1>1, <3>2, <4>2, <4>3 DEF NewStreams
      <3> QED BY <3>1, <3>2
    <2>4. Piped(c) = <<>> => Piped(c)' = <<>>
      <3>1. LET R == PipeAfter(Server, ReadySet(Server))[s][Server]
            IN  R = Piped(c) \/ (Piped(c) # <<>> /\ R = Tail(Piped(c)))
        BY <1>1, PipeAfterPeer
      <3> QED BY <2>1, <3>1 DEF Piped
    <2>5. Ear(c)'.state \in {"COMPLETE", "CLOSED"} => s \in ReadySet(Server)
      <3>1. CASE s \notin DOMAIN streams[Server]
        <4>1. Ear(c)' = Idle
          BY <2>2, <3>1 DEF Ear, FreshStream
        <4> QED BY <4>1 DEF Idle, Item
      <3>2. CASE s \in DOMAIN streams[Server] /\ s \notin ReadySet(Server)
        <4>1. Ear(c)' = Ear(c)
          BY <2>2, <3>2 DEF Ear
        <4> QED BY <2>1, <4>1 DEF Tuned
      <3> QED BY <3>1, <3>2
    <2>6. Elems(<<>>) = {}
      BY DEF Elems
    <2> QED BY <2>1, <2>2, <2>3, <2>4, <2>5, <2>6 DEF Tuned
  <1>8. CASE Resolve(Server)
    <2>1. ASSUME NEW ss, Handles(c, ss) PROVE Tuned(c)'
      <3>1. /\ UNCHANGED <<proc, pipe, open, backlog>>
            /\ s \in DOMAIN streams[Server] /\ streams'[Server][s].fallback = Idle
        BY <2>1 DEF Handles
      <3>2. Ear(c)'.state = "HEADER"
        BY <3>1 DEF Ear, Idle, Item
      <3>3. s \notin Elems(backlog[Tcp]) /\ Server \in open[s]
        BY <3>1 DEF Tuned
      <3> QED BY <3>1, <3>2, <3>3 DEF Tuned, Piped
    <2>2. ASSUME NEW x, Rests(x) PROVE Tuned(c)'
      <3>1. /\ UNCHANGED <<proc, pipe, open, backlog>> /\ batch'[Server] = batch[Server] \ {x}
            /\ s \in DOMAIN streams'[Server] => s \in DOMAIN streams[Server]
            /\ x # s /\ s \in DOMAIN streams'[Server] => streams'[Server][s] = streams[Server][s]
        BY <1>1, <2>2 DEF Rests, Busy, TypeInv
      <3>2. Ear(c)'.state \in {"COMPLETE", "CLOSED"} => s \in batch'[Server]
        <4>0. Idle.state = "HEADER"
          BY DEF Idle, Item
        <4>1. CASE s \notin DOMAIN streams'[Server]
          BY <4>0, <4>1 DEF Ear
        <4>2. CASE s \in DOMAIN streams'[Server] /\ x # s
          BY <3>1, <4>2 DEF Ear, Tuned
        <4>3. CASE s \in DOMAIN streams'[Server] /\ x = s
          <5>1. /\ streams'[Server] = streams[Server]
                /\ NextItem(streams[Server][s]).state \in {"HEADER", "BODY"}
            BY <1>1, <2>2, <3>1, <4>3 DEF Rests
          <5>2. NextItem(streams[Server][s]) = streams[Server][s].fallback
            BY <3>1, <4>3 DEF Mute, NextItem
          <5> QED BY <3>1, <4>3, <5>1, <5>2 DEF Ear
        <4> QED BY <4>1, <4>2, <4>3
      <3> QED BY <3>1, <3>2 DEF Tuned, Piped
    <2>3. ASSUME NEW x, ResolveClosed(Server, x) PROVE Tuned(c)'
      <3>1. /\ UNCHANGED <<proc, pipe, backlog>> /\ x \in DOMAIN streams[Server]
            /\ DOMAIN streams'[Server] = DOMAIN streams[Server] \ {x}
            /\ \A y \in DOMAIN streams[Server] \ {x} : streams'[Server][y] = streams[Server][y]
            /\ batch' = [batch EXCEPT ![Server] = @ \ {x}]
        BY <1>1, <2>3, ClosedStream
      <3>0. batch'[Server] = batch[Server] \ {x}
        BY <1>1, <3>1 DEF TypeInv
      <3>2. x # s => open'[s] = open[s]
        BY <1>1, <2>3 DEF ResolveClosed
      <3>3. CASE x = s
        <4>1. Ear(c)' = Idle /\ Idle.state = "HEADER" /\ s \notin DOMAIN streams'[Server]
          BY <3>1, <3>3 DEF Ear, Idle, Item
        <4>2. s \notin Elems(backlog[Tcp])
          BY <3>1, <3>3 DEF Tuned
        <4> QED BY <3>1, <4>1, <4>2 DEF Tuned, Piped
      <3>4. CASE x # s
        <4>1. Ear(c)' = Ear(c) /\ (s \in DOMAIN streams'[Server] <=> s \in DOMAIN streams[Server])
          BY <3>1, <3>4 DEF Ear
        <4> QED BY <3>0, <3>1, <3>2, <3>4, <4>1 DEF Tuned, Piped
      <3> QED BY <3>3, <3>4
    <2>4. ASSUME NEW x, x[1] = "udev", ResolveWritten(Server, x) PROVE Tuned(c)'
      <3>1. /\ UNCHANGED <<proc, pipe, open, backlog>>
            /\ batch' = [batch EXCEPT ![Server] = @ \ {x}]
        BY <2>4 DEF ResolveWritten, Finish, socketVars
      <3>2. x # s /\ batch'[Server] = batch[Server] \ {x}
        BY <1>1, <2>4, <3>1 DEF TypeInv
      <3>3. /\ s \in DOMAIN streams'[Server] <=> s \in DOMAIN streams[Server]
            /\ s \in DOMAIN streams[Server] => streams'[Server][s] = streams[Server][s]
        BY <1>1, <2>4, <3>2, WrittenStream
      <3>4. Ear(c)' = Ear(c)
        BY <3>3 DEF Ear
      <3> QED BY <3>1, <3>2, <3>3, <3>4 DEF Tuned, Piped
    <2>5. ASSUME NEW x, ~Fails(Server), Hosts(x) PROVE Tuned(c)'
      BY <2>1, <2>5, HostsHandles
    <2>6. Fails(Server) => Tuned(c)'
      BY <1>3 DEF Fails, Departs
    <2> QED BY <1>8, <2>2, <2>3, <2>4, <2>5, <2>6, ServerResolves
  <1> QED BY <1>2, <1>3, <1>4, <1>5, <1>6, <1>7, <1>8, Sides

-----------------------------------------------------------------------------
(* The logs *)

\* what was captured and what was replayed are events of the devices
Logs == captured \in [Devices -> Seq(Events)] /\ emitted \in [Devices -> Seq(Events)]

\* only the handler of captured events of a client captures, and only a pass of the
\* server replays
LEMMA LogsMove ==
  ASSUME TypeInv, Logs, NEW c \in Clients, OneGuest, Next
  PROVE  /\ \/ captured' = captured
            \/ \E x : /\ DevHandler(c, x) /\ x[2] \in Devices
                      /\ streams[c][x].fallback.msg.val \in Events
                      /\ captured' = [captured EXCEPT ![x[2]] = Append(@, streams[c][x].fallback.msg.val)]
         /\ emitted' = emitted \/ Dispatch(Server)
  <1>1. Daemons = {c, Server} /\ c # Server
    BY GuestLemma1, ClientLemma
  <1>2. ASSUME NEW d \in Daemons, Departs(d) PROVE UNCHANGED <<captured, emitted>>
    BY <1>2 DEF Departs, ProcessEnds, logVars
  <1>3. ASSUME NEW d \in Daemons, Dispatch(d) PROVE UNCHANGED captured
    BY <1>3 DEF Dispatch
  <1>4. ASSUME Dispatch(c) PROVE emitted' = emitted
    <2>1. \A k \in Devices : \A E : ~Replays(c, k, E)
      <3>1. \A k : UdevStream(k) \notin NamesOf(c)
        BY <1>1, NamesLemma DEF UdevStream
      <3> QED BY <1>1, <3>1, StreamFacts DEF Replays, ReadySet
    <2>2. emitted' = [k \in Devices |-> emitted[k]]
      BY <1>4, <2>1 DEF Dispatch
    <2> QED BY <2>2 DEF Logs
  <1>5. ASSUME NEW d \in Daemons, NEW x, DevHandler(d, x), ~Fails(d)
        PROVE  /\ d = c /\ UNCHANGED emitted /\ x[2] \in Devices
               /\ streams[d][x].fallback.msg.val \in Events
               /\ captured' = [captured EXCEPT ![x[2]] = Append(@, streams[d][x].fallback.msg.val)]
    <2>1. /\ HasRead(d, x, "PEER_EVENT") /\ x[1] = "dev" /\ UNCHANGED emitted
          /\ captured' = [captured EXCEPT ![x[2]] = Append(@, streams[d][x].fallback.msg.val)]
      BY <1>5 DEF DevHandler
    <2>2. x \in NamesOf(d) /\ streams[d][x].fallback.msg \in Received(d, x)
      BY <2>1, ReadLemma DEF None
    <2>3. d # Server /\ x[2] \in Devices
      BY <2>1, <2>2, NamesLemma
    <2>4. streams[d][x].fallback.msg.val \in Events
      BY <2>1, <2>2 DEF Received
    <2> QED BY <1>1, <2>1, <2>3, <2>4
  <1>6. ASSUME NEW d \in Daemons, NEW x,
               \/ ResolveFreed(d, x) \/ ResolveIncomplete(d, x) \/ ResolveClosed(d, x)
               \/ ResolveWritten(d, x)
        PROVE  UNCHANGED <<captured, emitted>>
    BY <1>6 DEF ResolveFreed, ResolveIncomplete, ResolveClosed, ResolveWritten, Fails, ProcessEnds, logVars
  <1>7. ASSUME NEW d \in Daemons, NEW x, PeerHandler(d, x) PROVE UNCHANGED <<captured, emitted>>
    BY <1>7 DEF PeerHandler, PeerDevCrt, PeerUpdGrab, PeerEvent, PeerPause, PeerResume, PeerControl,
                PeerStopClient, PeerStopServer, PeerStopCrashes, Fails, ProcessEnds, PeerUnchanged, logVars
  <1>8. ASSUME NEW d \in Daemons, NEW x, RelayHandler(d, x) PROVE UNCHANGED <<captured, emitted>>
    BY <1>8 DEF RelayHandler, RelayIdle, RelayStart, RelayList, RelayPauseAgain, RelayResumeAgain, RelayPause,
                RelayResume, RelayStop, Answer, Fails, ProcessEnds, RelayUnchanged, logVars
  <1>9. ASSUME NEW r \in Relays,
               \/ \E h \in Commands[r] : RelayConnect(r, h)
               \/ RelayRead(r) \/ RelayDrain(r) \/ \E how \in {"closed", "failed"} : RelayEnds(r, how)
        PROVE  UNCHANGED <<captured, emitted>>
    BY <1>9 DEF RelayConnect, RelayRead, RelayDrain, RelayEnds, Others, logVars
  <1>10. User \/ (\E e \in Clients : ClientStart(e)) => UNCHANGED <<captured, emitted>>
    BY DEF User, KeyDown, KeyUp, Move, Unplug, UserUnchanged, ClientStart, logVars
  <1>11. ASSUME NEW d \in Daemons, Resolve(d)
         PROVE  UNCHANGED <<captured, emitted>> \/ \E x : DevHandler(d, x) /\ ~Fails(d)
    <2>1. Fails(d) => UNCHANGED <<captured, emitted>>
      BY <1>2 DEF Departs, Fails
    <2> QED BY <1>6, <1>7, <1>8, <1>11, <2>1 DEF Resolve, CloseCrashes
  <1>12. ASSUME NEW d \in Daemons, Resolve(d)
         PROVE  /\ \/ captured' = captured
                   \/ \E x : /\ DevHandler(c, x) /\ x[2] \in Devices
                             /\ streams[c][x].fallback.msg.val \in Events
                             /\ captured' = [captured EXCEPT ![x[2]] = Append(@, streams[c][x].fallback.msg.val)]
                /\ emitted' = emitted
    <2>1. CASE UNCHANGED <<captured, emitted>>
      BY <2>1
    <2>2. ASSUME NEW x, DevHandler(d, x), ~Fails(d)
          PROVE  /\ DevHandler(c, x) /\ x[2] \in Devices /\ emitted' = emitted
                 /\ streams[c][x].fallback.msg.val \in Events
                 /\ captured' = [captured EXCEPT ![x[2]] = Append(@, streams[c][x].fallback.msg.val)]
      BY <1>5, <2>2
    <2> QED BY <1>11, <1>12, <2>1, <2>2
  <1> QED BY <1>1, <1>2, <1>3, <1>4, <1>9, <1>10, <1>12, FineSteps

\* so they stay what they are.
LEMMA LogsStep ==
  ASSUME TypeInv, Logs, NEW c \in Clients, OneGuest, Next
  PROVE  /\ Logs' /\ \A k \in Devices : Prefix(captured[k], captured'[k])
         /\ emitted' = emitted \/ Dispatch(Server)
  <1>1. /\ captured' \in [Devices -> Seq(Events)]
        /\ \A k \in Devices : Prefix(captured[k], captured'[k])
    <2>1. CASE captured' = captured
      <3>1. \A k \in Devices : Len(captured[k]) \in Nat
        BY DEF Logs
      <3> QED BY <2>1, <3>1 DEF Logs, Prefix
    <2>2. ASSUME NEW i \in Devices, NEW v \in Events,
                 captured' = [captured EXCEPT ![i] = Append(@, v)]
          PROVE  /\ captured' \in [Devices -> Seq(Events)]
                 /\ \A k \in Devices : Prefix(captured[k], captured'[k])
      <3> DEFINE q == captured[i]
      <3>1. q \in Seq(Events)
        BY DEF Logs
      <3> HIDE DEF q
      <3>2. /\ Append(q, v) \in Seq(Events) /\ Len(q) \in Nat /\ Len(q) <= Len(Append(q, v))
            /\ \A j \in 1..Len(q) : Append(q, v)[j] = q[j]
        BY <3>1
      <3>3. captured' = [captured EXCEPT ![i] = Append(q, v)]
        BY <2>2 DEF q
      <3>4. captured' \in [Devices -> Seq(Events)] /\ captured'[i] = Append(q, v)
        BY <3>2, <3>3 DEF Logs
      <3>5. ASSUME NEW k \in Devices PROVE Prefix(captured[k], captured'[k])
        <4>1. CASE k = i
          BY <3>2, <3>4, <4>1 DEF Prefix, q
        <4>2. CASE k # i
          <5>1. captured'[k] = captured[k] /\ captured[k] \in Seq(Events)
            BY <3>3, <4>2 DEF Logs
          <5> QED BY <5>1 DEF Prefix
        <4> QED BY <4>1, <4>2
      <3> QED BY <3>4, <3>5
    <2> QED BY <2>1, <2>2, LogsMove
  <1>2. emitted' \in [Devices -> Seq(Events)]
    <2>1. CASE Dispatch(Server)
      <3>1. ASSUME NEW k \in Devices PROVE emitted'[k] \in Seq(Events)
        <4>1. emitted[k] \in Seq(Events)
          BY DEF Logs
        <4>2. CASE Replays(Server, k, Events) /\ streams[Server][UdevStream(k)].queue # <<>>
          <5>1. streams[Server][UdevStream(k)].queue[1].msg.val \in Events
            BY <4>2 DEF Replays, NextItem
          <5>2. emitted'[k] = Append(emitted[k], streams[Server][UdevStream(k)].queue[1].msg.val)
            BY <2>1, <4>2 DEF Dispatch
          <5> QED BY <4>1, <5>1, <5>2
        <4>3. CASE ~(Replays(Server, k, Events) /\ streams[Server][UdevStream(k)].queue # <<>>)
          BY <2>1, <4>1, <4>3 DEF Dispatch
        <4> QED BY <4>2, <4>3
      <3>2. emitted' = [k \in Devices |-> emitted'[k]]
        BY <2>1 DEF Dispatch
      <3> QED BY <3>1, <3>2
    <2>2. CASE emitted' = emitted
      BY <2>2 DEF Logs
    <2> QED BY <2>1, <2>2, LogsMove
  <1> QED BY <1>1, <1>2, LogsMove DEF Logs

-----------------------------------------------------------------------------
(* The channel *)

\* the log H ends with what client c still has to say, and the server reads on behind
\* the first n messages of it
Channel(c, H, n) ==
    /\ EndOf(H, Queue(c))
    /\ Server \in open[PeerConn(c)] => Matched(H, n, Piped(c), Queue(c), Here(c), Ear(c))

\* a pass of the client writes the next piece, if anything
LEMMA ClientWrites ==
  ASSUME TypeInv, NEW c \in Clients, Collected(c), Dispatch(c)
  PROVE  /\ Here(c)' = Here(c)
         /\ \/ Piped(c)' = Piped(c) /\ Queue(c)' = Queue(c)
            \/ /\ Here(c) /\ Queue(c) # <<>> /\ Queue(c)[1].state # "COMPLETE"
               /\ Ahead(Queue(c), Queue(c)') /\ DOMAIN Queue(c)' = DOMAIN Queue(c)
               /\ Server \in open[PeerConn(c)] => Piped(c)' = Append(Piped(c), Unit(Queue(c)[1]))
  <1> DEFINE s == PeerConn(c)
             P == Piped(c)
             R == Piped(c)'
             Q == Queue(c)
             V == Queue(c)'
  <1>1. /\ c \in Daemons /\ c # Server /\ s \in Connections /\ s[1] = "peer"
    BY ClientLemma
  <1>2. /\ R = P \/ (Here(c) /\ s \in ReadySet(c) /\ Writes(c, s))
        /\ s \in ReadySet(c) /\ Writes(c, s) /\ Server \in open[s]
              => R = Append(P, Unit(streams[c][s].queue[1]))
    <2>1. pipe' = PipeAfter(c, ReadySet(c)) /\ ReadySet(c) \in SUBSET ReadySet(c)
      BY DEF Dispatch
    <2>2. R = PipeAfter(c, ReadySet(c))[s][Server]
      BY <2>1 DEF Piped
    <2> HIDE DEF s, P, R
    <2> QED BY <1>1, <2>1, <2>2, PipeAfterPeer DEF s, P
  <1>3. /\ DOMAIN streams'[c] = DOMAIN streams[c] \cup NewStreams(c)
        /\ \A x \in DOMAIN streams[c] :
              streams'[c][x] = IF x \in ReadySet(c) THEN AfterIo(c, x) ELSE streams[c][x]
    BY <1>1, PassStreams
  <1>4. s \notin NewStreams(c)
    BY NoNewPeer
  <1>5. Here(c)' = Here(c)
    BY <1>3, <1>4 DEF Here
  <1>6. CASE ~Here(c)
    BY <1>2, <1>5, <1>6 DEF Queue
  <1>7. CASE Here(c) /\ ~(s \in ReadySet(c) /\ Writes(c, s))
    <2>1. streams'[c][s].queue = streams[c][s].queue
      <3>1. CASE s \in ReadySet(c)
        <4>1. AfterIo(c, s).queue = streams[c][s].queue
          BY <1>1, <1>7, <3>1, AfterIoPeer
        <4>2. streams'[c][s] = AfterIo(c, s)
          BY <1>3, <1>7, <3>1 DEF Here
        <4> QED BY <4>1, <4>2
      <3>2. CASE s \notin ReadySet(c)
        BY <1>3, <1>7, <3>2 DEF Here
      <3> QED BY <3>1, <3>2
    <2> QED BY <1>2, <1>5, <1>7, <2>1 DEF Queue
  <1>8. CASE Here(c) /\ s \in ReadySet(c) /\ Writes(c, s)
    <2>1. Q = streams[c][s].queue /\ V = streams'[c][s].queue
      BY <1>5, <1>8 DEF Queue
    <2>2. Q # <<>> /\ V = [Q EXCEPT ![1] = Streamed(@)]
      BY <1>1, <1>3, <1>8, <2>1, AfterIoPeer DEF Here
    <2>3. Q[1].state # "COMPLETE"
      BY <2>2 DEF Collected, Dispatch, InLoop
    <2>4. Q \in Seq(Waits)
      <3>1. TypedPipes(pipe, exiting) /\ TypedStreams(c, streams[c], exiting)
        BY <1>1 DEF TypeInv
      <3> QED BY <3>1, TrafficTyped DEF Queue, Here
    <2>5. Ahead(Q, V)
      BY <2>2, <2>4, AheadLemma
    <2>6. DOMAIN V = DOMAIN Q
      BY <2>2
    <2> QED BY <1>2, <1>5, <1>8, <2>1, <2>2, <2>3, <2>5, <2>6
  <1> QED BY <1>5, <1>6, <1>7, <1>8

\* What the client writes, it writes of the log; when its end is closed, it says no more.
LEMMA ClientChannel ==
  ASSUME TypeInv, NEW c \in Clients, Collected(c), NEW H \in Seq(ToServer), NEW n \in Nat,
         Channel(c, H, n), Departs(c) \/ Dispatch(c) \/ \E x : ResolveClosed(c, x)
  PROVE  Channel(c, H, n)'
  <1> DEFINE s == PeerConn(c)
             P == Piped(c)
             Q == Queue(c)
             f == Ear(c)
  <1>1. /\ c \in Daemons /\ Server \in Daemons /\ c # Server /\ s \in Connections /\ s[1] = "peer"
    BY ClientLemma
  <1>2. P \in Seq(Pieces) /\ Q \in Seq(Waits)
    <2>1. TypedPipes(pipe, exiting) /\ TypedStreams(c, streams[c], exiting)
      BY <1>1 DEF TypeInv
    <2> QED BY <2>1, TrafficTyped DEF Queue, Here, Piped
  <1>3. EndOf(H, Q) /\ EndOf(H, <<>>)
    BY DEF Channel, EndOf
  <1>4. Server \in open[s] /\ Here(c) => f.state # "CLOSED" /\ Matched(H, n, P, Q, TRUE, f)
    BY DEF Channel, Matched
  <1>5. CASE Departs(c)
    <2>1. /\ \/ Piped(c)' = P
             \/ Here(c) /\ Writes(c, s) /\ batch[c] = {} /\ Piped(c)' = Append(P, Unit(streams[c][s].queue[1]))
          /\ streams' = [streams EXCEPT ![c] = <<>>] /\ open'[s] = open[s] \ {c}
      BY <1>1, <1>5, DepartsPeer
    <2>2. Here(c)' = FALSE /\ Queue(c)' = <<>> /\ Ear(c)' = f
      BY <1>1, <2>1 DEF Here, Queue, Ear, TypeInv
    <2> HIDE DEF P, Q, f
    <2>3. CASE Piped(c)' = P
      <3>1. Matched(H, n, P, Q, Here(c), f) => Matched(H, n, P, <<>>, FALSE, f)
        BY MatchedEnds
      <3> QED BY <1>3, <2>1, <2>2, <2>3, <3>1 DEF Channel, P, Q, f
    <2>4. CASE Here(c) /\ Writes(c, s) /\ batch[c] = {} /\ Piped(c)' = Append(P, Unit(streams[c][s].queue[1]))
      <3>1. Q = streams[c][s].queue /\ Q # <<>>
        BY <1>1, <2>4, StreamFacts DEF Here, Queue, Q
      <3>2. Q[1].state # "COMPLETE"
        BY <2>4, <3>1 DEF Collected, Q
      <3> DEFINE here == FALSE
                 V == <<>>
      <3>3. ASSUME Server \in open[s] PROVE Matched(H, n, Append(P, Unit(Q[1])), V, here, f)
        <4>1. f.state # "CLOSED" /\ Matched(H, n, P, Q, TRUE, f)
          BY <1>4, <2>4, <3>3
        <4>2. here \in BOOLEAN /\ ~here
          OBVIOUS
        <4> HIDE DEF P, Q, f, here, V
        <4> QED BY <1>2, <1>3, <3>1, <3>2, <4>1, <4>2, MatchedWrites
      <3> QED BY <1>3, <2>1, <2>2, <2>4, <3>1, <3>3 DEF Channel
    <2> QED BY <2>1, <2>3, <2>4
  <1>6. CASE Dispatch(c)
    <2>1. Ear(c)' = f /\ open' = open
      <3>1. streams'[Server] = streams[Server]
        BY <1>1, <1>6, PassStreams
      <3> QED BY <1>6, <3>1 DEF Ear, Dispatch
    <2>2. Here(c)' = Here(c)
      BY <1>6, ClientWrites
    <2>3. CASE Piped(c)' = P /\ Queue(c)' = Q
      BY <2>1, <2>2, <2>3 DEF Channel
    <2>4. CASE /\ Here(c) /\ Q # <<>> /\ Q[1].state # "COMPLETE"
               /\ Ahead(Q, Queue(c)') /\ DOMAIN Queue(c)' = DOMAIN Q
               /\ Server \in open[s] => Piped(c)' = Append(P, Unit(Q[1]))
      <3> DEFINE V == Queue(c)'
                 here == TRUE
      <3> HIDE DEF Q, V
      <3>1. EndOf(H, V)
        BY <1>2, <1>3, <2>4, EndWritten DEF V
      <3>2. ASSUME Server \in open[s] PROVE Matched(H, n, Append(P, Unit(Q[1])), V, here, f)
        <4>1. f.state # "CLOSED" /\ Matched(H, n, P, Q, TRUE, f)
          BY <1>4, <2>4, <3>2
        <4>2. here \in BOOLEAN /\ Ahead(Q, V)
          BY <2>4 DEF V
        <4> HIDE DEF P, f, here
        <4> QED BY <1>2, <1>3, <2>4, <4>1, <4>2, MatchedWrites
      <3>3. Server \in open[s] => Matched(H, n, Piped(c)', V, Here(c)', f)
        BY <2>2, <2>4, <3>2
      <3> QED BY <2>1, <3>1, <3>3 DEF Channel, V
    <2> QED BY <1>6, <2>3, <2>4, ClientWrites
  <1>7. ASSUME NEW x, ResolveClosed(c, x) PROVE Channel(c, H, n)'
    <2>1. /\ UNCHANGED pipe /\ streams' = [streams EXCEPT ![c] = Without(streams[c], {x})]
          /\ DOMAIN streams'[c] = DOMAIN streams[c] \ {x}
          /\ \A y \in DOMAIN streams[c] \ {x} : streams'[c][y] = streams[c][y]
      BY <1>1, <1>7, ClosedStream
    <2>2. /\ Server \in open'[s] => Server \in open[s]
          /\ Ear(c)' = f /\ Piped(c)' = P
      BY <1>1, <1>7, <2>1 DEF ResolveClosed, Ear, Piped, TypeInv
    <2>3. CASE x = s
      <3>0. s \notin DOMAIN streams'[c]
        BY <2>1, <2>3
      <3>1. Here(c)' = FALSE /\ Queue(c)' = <<>>
        BY <3>0 DEF Here, Queue
      <3> HIDE DEF P, Q, f
      <3>2. Matched(H, n, P, Q, Here(c), f) => Matched(H, n, P, <<>>, FALSE, f)
        BY MatchedEnds
      <3> QED BY <1>3, <2>2, <3>1, <3>2 DEF Channel, P, Q, f
    <2>4. CASE x # s
      <3>0. /\ s \in DOMAIN streams'[c] <=> s \in DOMAIN streams[c]
            /\ s \in DOMAIN streams[c] => streams'[c][s] = streams[c][s]
        BY <2>1, <2>4
      <3>1. Here(c)' = Here(c) /\ Queue(c)' = Q
        BY <3>0 DEF Here, Queue
      <3> QED BY <2>2, <3>1 DEF Channel
    <2> QED BY <2>3, <2>4
  <1> QED BY <1>5, <1>6, <1>7

\* what is written leaves the queue,
LEMMA PopsChannel ==
  ASSUME TypeInv, NEW c \in Clients, NEW H \in Seq(ToServer), NEW n \in Nat, Channel(c, H, n),
         Here(c), Queue(c) # <<>>, Queue(c)[1].state = "COMPLETE", Queue(c)' = Tail(Queue(c)),
         Here(c)', Piped(c)' = Piped(c), Ear(c)' = Ear(c), open' = open
  PROVE  Channel(c, H, n)'
  <1>1. Queue(c) \in Seq(Waits)
    BY HoldsNow DEF Holds
  <1> DEFINE Q == Queue(c)
             P == Piped(c)
             f == Ear(c)
             here == Here(c)
  <1>2. EndOf(H, Q)
    BY DEF Channel
  <1> HIDE DEF Q, P, f, here
  <1>3. /\ EndOf(H, Tail(Q))
        /\ Matched(H, n, P, Q, here, f) => Matched(H, n, P, Tail(Q), here, f)
    BY <1>1, <1>2, MatchedPops DEF Q
  <1>4. Here(c)' = here /\ here = Here(c)
    BY DEF here
  <1> QED BY <1>3, <1>4 DEF Channel, Q, P, f

\* and what is said joins the log.
LEMMA SaysChannel ==
  ASSUME TypeInv, NEW c \in Clients, NEW H \in Seq(ToServer), NEW n \in 0..Len(H), Channel(c, H, n),
         Here(c), Here(c)', NEW ms \in Seq(ToServer), Queue(c)' = Queue(c) \o Items(ms),
         Piped(c)' = Piped(c), Ear(c)' = Ear(c), open' = open
  PROVE  Channel(c, H \o ms, n)'
  <1>1. Queue(c) \in Seq(Waits)
    BY HoldsNow DEF Holds
  <1> DEFINE Q == Queue(c)
             P == Piped(c)
             f == Ear(c)
             here == Here(c)
  <1>2. EndOf(H, Q)
    BY DEF Channel
  <1> HIDE DEF Q, P, f, here
  <1>3. /\ EndOf(H \o ms, Q \o Items(ms))
        /\ Matched(H, n, P, Q, here, f) => Matched(H \o ms, n, P, Q \o Items(ms), here, f)
    BY <1>1, <1>2, MatchedSays DEF Q
  <1>4. Here(c)' = here /\ here = Here(c)
    BY DEF here
  <1> QED BY <1>3, <1>4 DEF Channel, Q, P, f

\* a client that starts finds nothing on its connection
LEMMA StartChannel ==
  ASSUME TypeInv, NEW c \in Clients, Linked(c), Tuned(c), ClientStart(c), NEW ms \in Seq(ToServer),
         Here(c)', Queue(c)' = <<>> \o Items(ms)
  PROVE  Channel(c, <<>> \o ms, 0)'
  <1> DEFINE s == PeerConn(c)
             no == <<>>
             f == Idle
  <1>1. /\ c \in Daemons /\ c # Server /\ Server \in Daemons
    BY ClientLemma
  <1>2. proc[c] = "off" /\ UNCHANGED pipe
    BY DEF ClientStart
  <1>3. Piped(c)' = <<>>
    BY <1>2 DEF Tuned, Piped
  <1>4. Ear(c)' = Idle
    <2>1. streams'[Server] = streams[Server]
      BY <1>1, StartStreams
    <2> QED BY <1>2, <2>1 DEF Linked, Ear
  <1>5. /\ no \in Seq(ToServer) /\ no \in Seq(Waits) /\ 0 \in 0..Len(no)
        /\ EndOf(no, no) /\ Matched(no, 0, no, no, TRUE, Idle)
    <2>1. no \in Seq(ToServer) /\ no \in Seq(Waits) /\ Len(no) = 0 /\ DOMAIN no = {}
      OBVIOUS
    <2>2. EndOf(no, no)
      BY <2>1 DEF EndOf
    <2>3. Idle.state = "HEADER"
      BY DEF Idle, Item
    <2>4. Reached(no, no) = Place(0, "HEADER") /\ Place(0, "HEADER") \in Places
      BY <2>1 DEF Reached, Place, Places
    <2>5. Carries(no, no, Place(0, "HEADER"), Place(0, "HEADER"))
      BY <2>4, NothingCarried
    <2> QED BY <2>1, <2>2, <2>3, <2>4, <2>5 DEF Matched
  <1> HIDE DEF no, f
  <1>6. EndOf(no \o ms, no \o Items(ms)) /\ Matched(no \o ms, 0, no, no \o Items(ms), TRUE, Idle)
    BY <1>5, MatchedSays
  <1> QED BY <1>3, <1>4, <1>6 DEF Channel, no

\* a pass of the server reads what continues the message under way, or finds the end
LEMMA ServerReads ==
  ASSUME TypeInv, NEW c \in Clients, Mute(c), Tuned(c), Linked(c), NEW H \in Seq(ToServer),
         NEW n \in Nat, Channel(c, H, n), Dispatch(Server)
  PROVE  Channel(c, H, n)'
  <1> DEFINE s == PeerConn(c)
             P == Piped(c)
             f == Ear(c)
             R == PipeAfter(Server, ReadySet(Server))[s][Server]
  <1>1. /\ c \in Daemons /\ Server \in Daemons /\ c # Server /\ s \in Connections /\ s[1] = "peer"
        /\ IsSocket(s) /\ OtherEnd(s, Server) = c
    BY ClientLemma
  <1>2. P \in Seq(Pieces)
    <2>1. TypedPipes(pipe, exiting) /\ TypedStreams(c, streams[c], exiting)
      BY <1>1 DEF TypeInv
    <2> QED BY <2>1, TrafficTyped DEF Piped
  <1>3. /\ streams'[c] = streams[c] /\ UNCHANGED open /\ Piped(c)' = R /\ batch[Server] = {}
        /\ \A x \in DOMAIN streams[Server] :
              /\ x \in DOMAIN streams'[Server]
              /\ streams'[Server][x] = IF x \in ReadySet(Server) THEN AfterIo(Server, x) ELSE streams[Server][x]
        /\ \A x \in DOMAIN streams'[Server] \ DOMAIN streams[Server] : streams'[Server][x] = FreshStream
    BY <1>1, PassStreams DEF Dispatch, InLoop, Piped
  <1>4. Here(c)' = Here(c) /\ Queue(c)' = Queue(c)
    BY <1>3 DEF Here, Queue
  <1>5. ~(s \in DOMAIN streams[Server] /\ Writes(Server, s))
    <2>1. ReadySet(Server) \in SUBSET ReadySet(Server)
      OBVIOUS
    <2> QED BY <2>1, MutePipe
  <1>6. s \in ReadySet(Server) => s \in DOMAIN streams[Server] /\ Ready(Server, s)
    BY DEF ReadySet
  <1>7. /\ ~(s \in ReadySet(Server) /\ Reads(Server, s)) => R = P
        /\ s \in ReadySet(Server) /\ Reads(Server, s) => R = Tail(P)
    <2>1. DOMAIN pipe[s] = Ends(s) /\ Server \in Ends(s)
      BY <1>1, ClientLemma DEF TypeInv, TypedPipes
    <2> QED BY <1>1, <1>5, <1>6, <2>1 DEF PipeAfter, Piped
  <1>8. CASE s \notin ReadySet(Server)
    <2>1. R = P
      BY <1>7, <1>8
    <2>2. Ear(c)' = f
      <3>1. CASE s \in DOMAIN streams[Server]
        BY <1>3, <1>8, <3>1 DEF Ear
      <3>2. CASE s \notin DOMAIN streams[Server]
        BY <1>3, <3>2 DEF Ear, FreshStream
      <3> QED BY <3>1, <3>2
    <2> QED BY <1>3, <1>4, <2>1, <2>2 DEF Channel
  <1>9. CASE s \in ReadySet(Server)
    <2> DEFINE z == AfterIo(Server, s)
               t == streams[Server][s]
    <2>1. /\ f = t.fallback /\ Ear(c)' = z.fallback
          /\ s \in DOMAIN streams[Server] /\ Ready(Server, s)
      BY <1>3, <1>6, <1>9 DEF Ear
    <2>2. t.interest \in {"EPOLLIN", "EPOLLOUT"} /\ f \in FallbackItems(Server, s)
      BY <1>1, <2>1, StreamFacts
    <2>3. f.state \in {"HEADER", "BODY"}
      BY <1>3, <2>2 DEF Tuned, FallbackItems, ItemStates
    <2>4. Server \in open[s] => Matched(H, n, P, Queue(c), Here(c), f)
      BY DEF Channel
    <2>5. EndOf(H, Queue(c))
      BY DEF Channel
    <2>6. CASE Reads(Server, s)
      <3>1. P # <<>>
        BY <2>6 DEF Reads, Piped
      <3> DEFINE g == Streamed([msg |-> Head(P).msg, state |-> f.state])
                 Q == Queue(c)
                 here == Here(c)
      <3>2. ASSUME Server \in open[s] PROVE InPlace(f, Head(P)) /\ Matched(H, n, Tail(P), Q, here, g)
        <4> HIDE DEF P, f
        <4>1. Matched(H, n, P, Q, here, f)
          BY ONLY <2>4, <3>2
        <4> HIDE DEF Q, here
        <4>2. /\ InPlace(f, Head(P))
              /\ Matched(H, n, Tail(P), Q, here, Streamed([msg |-> Head(P).msg, state |-> f.state]))
          BY <1>2, <2>3, <3>1, <4>1, MatchedReads
        <4> QED BY <4>2
      <3>3. Server \in open[s]
        BY <2>1 DEF Tuned
      <3>4. ~Misreads(Server, s)
        BY <2>1, <3>2, <3>3 DEF Misreads, Piped
      <3>5. z.fallback = g
        BY <1>9, <2>1, <2>6, <3>4, MuteIo DEF Piped
      <3>6. R = Tail(P)
        BY <1>7, <1>9, <2>6
      <3>7. Here(c)' = here
        BY <1>4
      <3> HIDE DEF P, f, Q, here, g, z, R
      <3>8. Matched(H, n, Piped(c)', Queue(c)', Here(c)', Ear(c)')
        BY <1>3, <1>4, <2>1, <3>2, <3>3, <3>5, <3>6, <3>7 DEF Q
      <3> QED BY <1>4, <2>5, <3>8 DEF Channel
    <2>7. CASE ~Reads(Server, s)
      <3>1. z.fallback = [f EXCEPT !.state = "CLOSED"]
        BY <1>5, <1>9, <2>1, <2>7, MuteIo
      <3>2. z.fallback.state = "CLOSED"
        BY <2>2, <3>1 DEF FallbackItems
      <3>3. t.interest = "EPOLLIN"
        BY <1>1, <1>5, <2>1, <2>2 DEF Writes
      <3>4. P = <<>>
        BY <1>1, <2>7, <3>3 DEF Reads, Piped
      <3>5. c \notin open[s]
        BY <1>1, <2>1, <3>3, <3>4 DEF Ready, AtEof, Piped
      <3>6. Here(c) = FALSE
        BY <3>5 DEF Linked, Here
      <3>7. R = <<>>
        BY <1>7, <2>7, <3>4
      <3>8. Matched(H, n, <<>>, Queue(c), FALSE, z.fallback)
        BY <3>2 DEF Matched
      <3> HIDE DEF z, R
      <3> QED BY <1>3, <1>4, <2>1, <2>5, <3>6, <3>7, <3>8 DEF Channel
    <2> QED BY <2>6, <2>7
  <1> QED BY <1>8, <1>9

\* What else the server does leaves the channel alone or ends it,
LEMMA ServerChannel ==
  ASSUME TypeInv, NEW c \in Clients, NEW H, NEW n, Channel(c, H, n),
         \/ Departs(Server)
         \/ \E x : \/ ResolveClosed(Server, x) \/ Rests(x)
                   \/ x[1] = "udev" /\ ResolveWritten(Server, x)
  PROVE  Channel(c, H, n)'
  <1> DEFINE s == PeerConn(c)
  <1>1. /\ c \in Daemons /\ Server \in Daemons /\ c # Server /\ s \in Connections /\ s[1] = "peer"
    BY ClientLemma
  <1>2. ASSUME streams'[c] = streams[c], UNCHANGED <<pipe, open>>, Ear(c)' = Ear(c)
        PROVE  Channel(c, H, n)'
    <2>1. Here(c)' = Here(c) /\ Queue(c)' = Queue(c) /\ Piped(c)' = Piped(c)
      BY <1>2 DEF Here, Queue, Piped
    <2> QED BY <1>2, <2>1 DEF Channel
  <1>3. ASSUME streams'[c] = streams[c], Server \notin open'[s]
        PROVE  Channel(c, H, n)'
    <2>1. Queue(c)' = Queue(c)
      BY <1>3 DEF Here, Queue
    <2> QED BY <1>3, <2>1 DEF Channel
  <1>4. CASE Departs(Server)
    <2>1. streams' = [streams EXCEPT ![Server] = <<>>] /\ open'[s] = open[s] \ {Server}
      BY <1>1, <1>4, DepartsPeer
    <2>2. streams'[c] = streams[c]
      BY <1>1, <2>1 DEF TypeInv
    <2> QED BY <1>3, <2>1, <2>2
  <1>5. ASSUME NEW x, ResolveClosed(Server, x) PROVE Channel(c, H, n)'
    <2>1. /\ UNCHANGED pipe
          /\ streams' = [streams EXCEPT ![Server] = Without(streams[Server], {x})]
          /\ DOMAIN streams'[Server] = DOMAIN streams[Server] \ {x}
          /\ \A y \in DOMAIN streams[Server] \ {x} : streams'[Server][y] = streams[Server][y]
      BY <1>1, <1>5, ClosedStream
    <2>2. streams'[c] = streams[c]
      BY <1>1, <2>1 DEF TypeInv
    <2>3. CASE x = s
      <3>1. Server \notin open'[s]
        BY <1>1, <1>5, <2>3 DEF ResolveClosed
      <3> QED BY <1>3, <2>2, <3>1
    <2>4. CASE x # s
      <3>1. /\ s \in DOMAIN streams'[Server] <=> s \in DOMAIN streams[Server]
            /\ s \in DOMAIN streams[Server] => streams'[Server][s] = streams[Server][s]
        BY <2>1, <2>4
      <3>2. Ear(c)' = Ear(c)
        BY <3>1 DEF Ear
      <3>3. open'[s] = open[s]
        BY <1>1, <1>5, <2>4 DEF ResolveClosed
      <3>4. Here(c)' = Here(c) /\ Queue(c)' = Queue(c) /\ Piped(c)' = Piped(c)
        BY <2>1, <2>2 DEF Here, Queue, Piped
      <3> QED BY <3>2, <3>3, <3>4 DEF Channel
    <2> QED BY <2>3, <2>4
  <1>6. ASSUME NEW x, Rests(x) PROVE Channel(c, H, n)'
    <2>1. /\ streams'[c] = streams[c] /\ UNCHANGED <<pipe, open>>
          /\ DOMAIN streams'[Server] \subseteq DOMAIN streams[Server]
          /\ s \in DOMAIN streams[Server] => s \in DOMAIN streams'[Server] /\ streams'[Server][s] = streams[Server][s]
      BY <1>1, <1>6 DEF Rests, Busy
    <2>2. s \in DOMAIN streams'[Server] <=> s \in DOMAIN streams[Server]
      BY <2>1
    <2>3. Ear(c)' = Ear(c)
      BY <2>1, <2>2 DEF Ear
    <2> QED BY <1>2, <2>1, <2>3
  <1>7. ASSUME NEW x, x[1] = "udev", ResolveWritten(Server, x) PROVE Channel(c, H, n)'
    <2>1. UNCHANGED <<pipe, open>>
      BY <1>7 DEF ResolveWritten, socketVars
    <2>2. x # s /\ streams'[c] = streams[c]
      BY <1>1, <1>7, WrittenStream
    <2>3. /\ s \in DOMAIN streams'[Server] <=> s \in DOMAIN streams[Server]
          /\ s \in DOMAIN streams[Server] => streams'[Server][s] = streams[Server][s]
      BY <1>1, <1>7, <2>2, WrittenStream
    <2>4. Ear(c)' = Ear(c)
      BY <2>3 DEF Ear
    <2> QED BY <1>2, <2>1, <2>2, <2>4
  <1> QED BY <1>4, <1>5, <1>6, <1>7

\* but for the next message of the log, which it handles.
LEMMA HandlesChannel ==
  ASSUME TypeInv, NEW c \in Clients, Tuned(c), NEW H, NEW n \in Nat, Channel(c, H, n),
         NEW ss, Handles(c, ss)
  PROVE  n < Len(H) /\ Ear(c).msg = H[n + 1] /\ Channel(c, H, n + 1)'
  <1> DEFINE s == PeerConn(c)
             f == Ear(c)
             P == Piped(c)
             Q == Queue(c)
             here == Here(c)
  <1>1. c \in Daemons /\ c # Server
    BY ClientLemma
  <1>2. /\ streams'[c] = streams[c] /\ UNCHANGED <<pipe, open>>
        /\ s \in DOMAIN streams[Server] /\ streams[Server][s].fallback.state = "COMPLETE"
        /\ DOMAIN streams'[Server] = DOMAIN ss /\ s \in DOMAIN ss /\ streams'[Server][s].fallback = Idle
    BY <1>1 DEF Handles
  <1>3. f.state = "COMPLETE" /\ Ear(c)' = Idle /\ Idle.state = "HEADER"
    BY <1>2 DEF Ear, Idle, Item
  <1>4. Here(c)' = here /\ Queue(c)' = Q /\ Piped(c)' = P
    BY <1>2 DEF Here, Queue, Piped
  <1>5. Server \in open[s]
    BY <1>2 DEF Tuned
  <1>6. Matched(H, n, P, Q, here, f) /\ EndOf(H, Q)
    BY <1>5 DEF Channel
  <1> HIDE DEF f, P, Q, here
  <1> DEFINE g == Idle
  <1>9. g.state = "HEADER"
    BY <1>3
  <1> HIDE DEF g
  <1>7. n < Len(H) /\ f.msg = H[n + 1] /\ Matched(H, n + 1, P, Q, here, g)
    BY <1>3, <1>6, <1>9, MatchedHandles
  <1>8. Channel(c, H, n + 1)'
    BY <1>3, <1>4, <1>6, <1>7 DEF Channel, g
  <1> QED BY <1>7, <1>8 DEF f

-----------------------------------------------------------------------------
(* What a client says *)

\* what a listener knows then
Controlled(c, x, grab) == [x EXCEPT !.held = IF grab THEN Captures(c) ELSE {}]
\* and what it says behind that of a pause, or of its end, and what is known then
SwitchMsg(grab) == Msg(IF grab THEN "PEER_RESUME" ELSE "PEER_PAUSE")
Switched(c, x, grab) == [Controlled(c, x, grab) EXCEPT !.paused = ~grab]

\* it grabs all its devices, or releases them,
LEMMA GrabsTold ==
  ASSUME NEW c \in Clients, NEW C, NEW x \in Knowing, x.size = Len(DeviceArg[c]),
         x.held \subseteq Captures(c), NEW grab \in BOOLEAN
  PROVE  \E U : /\ Story(c, C, x, GrabMsgs(c, grab), U)
                /\ Known(GrabMsgs(c, grab), U) = Controlled(c, x, grab)
  <1> DEFINE arg == DeviceArg[c]
             ms  == GrabMsgs(c, grab)
             n   == Len(arg)
             G   == [i \in 0..n |-> {arg[j] : j \in 1..i}]
             V   == [i \in 0..n |-> [x EXCEPT !.held = IF grab THEN @ \cup G[i] ELSE @ \ G[i]]]
  <1>1. n \in Nat /\ DOMAIN arg = 1..n /\ \A i \in 1..n : arg[i] \in Devices
    <2>1. arg \in Seq(Devices)
      BY DevicesAssumption
    <2> QED BY <2>1, PlacesLemma
  <1>2. Captures(c) = {arg[i] : i \in 1..n}
    BY <1>1 DEF Captures
  <1>3. Len(ms) = n /\ \A i \in 1..n : ms[i] = GrabMsg(arg[i], grab)
    BY <1>1 DEF GrabMsgs
  <1>4. /\ \A i \in 0..n : G[i] = {arg[j] : j \in 1..i}
        /\ \A i \in 0..n : V[i] = [x EXCEPT !.held = IF grab THEN @ \cup G[i] ELSE @ \ G[i]]
        /\ DOMAIN V = 0..n /\ V = [i \in 0..n |-> V[i]]
    OBVIOUS
  <1>5. x \in [size : Nat, held : SUBSET Devices, paused : BOOLEAN, ended : BOOLEAN,
               told : [Devices -> Nat]]
    BY DEF Knowing
  <1> HIDE DEF arg, ms, n, G, V
  <1>6. G[0] = {} /\ G[n] = Captures(c) /\ 0 \in 0..n /\ n \in 0..n
    BY <1>1, <1>2, <1>4
  <1>7. ASSUME NEW i \in 1..n PROVE G[i] = G[i - 1] \cup {arg[i]} /\ i - 1 \in 0..n /\ i \in 0..n
    <2>1. i - 1 \in 0..n /\ i \in 0..n /\ 1..i = 1..(i - 1) \cup {i}
      BY <1>1
    <2> QED BY <1>4, <2>1
  <1>8. \A i \in 0..n : G[i] \subseteq Devices
    BY <1>1, <1>4
  <1>9. \A i \in 0..n : V[i] \in Knowing
    BY <1>4, <1>5, <1>8 DEF Knowing
  <1>10. V \in [0..n -> Knowing]
    BY <1>4, <1>9
  <1>11. ASSUME NEW i \in 1..n
         PROVE  Proper(c, C, V[i - 1], ms[i]) /\ V[i] = Told(V[i - 1], ms[i])
    <2> DEFINE y == V[i - 1]
               j == i - 1
    <2>0. j \in 0..n /\ i \in 0..n
      BY <1>7
    <2>7. y = [x EXCEPT !.held = IF grab THEN @ \cup G[i - 1] ELSE @ \ G[i - 1]]
      <3> HIDE DEF j
      <3>1. V[j] = [x EXCEPT !.held = IF grab THEN @ \cup G[j] ELSE @ \ G[j]]
        BY <1>4, <2>0
      <3> QED BY <3>1 DEF j
    <2>1. y.size = Len(DeviceArg[c]) /\ arg[i] \in Captures(c)
      BY <1>2, <1>5, <2>7
    <2>2. ms[i].h = "PEER_GRAB" /\ ms[i].dev = arg[i] /\ (ms[i].val = "grabbed" <=> grab)
      BY <1>3, GrabMsgLemma DEF GrabMsg, DevMsg
    <2>3. Proper(c, C, y, ms[i])
      BY <1>3, <2>1 DEF Proper
    <2>4. Told(y, ms[i]) = [y EXCEPT !.held = IF grab THEN @ \cup {arg[i]} ELSE @ \ {arg[i]}]
      BY <2>2 DEF Told
    <2>5. V[i] = [y EXCEPT !.held = IF grab THEN @ \cup {arg[i]} ELSE @ \ {arg[i]}]
      <3>1. V[i] = [x EXCEPT !.held = IF grab THEN @ \cup G[i] ELSE @ \ G[i]]
        BY <1>4, <1>7
      <3>2. CASE grab
        BY <1>5, <1>7, <2>7, <3>1, <3>2
      <3>3. CASE ~grab
        BY <1>5, <1>7, <2>7, <3>1, <3>3
      <3> QED BY <3>2, <3>3
    <2> QED BY <2>3, <2>4, <2>5
  <1>12. V[0] = x
    <2>1. V[0] = [x EXCEPT !.held = IF grab THEN @ \cup G[0] ELSE @ \ G[0]]
      BY <1>4, <1>6
    <2>2. (IF grab THEN x.held \cup G[0] ELSE x.held \ G[0]) = x.held
      BY <1>6
    <2> QED BY <1>5, <2>1, <2>2
  <1>13. V[n] = [x EXCEPT !.held = IF grab THEN Captures(c) ELSE {}]
    <2>1. V[n] = [x EXCEPT !.held = IF grab THEN @ \cup Captures(c) ELSE @ \ Captures(c)]
      BY <1>4, <1>6
    <2>2. (IF grab THEN x.held \cup Captures(c) ELSE x.held \ Captures(c))
             = (IF grab THEN Captures(c) ELSE {})
      OBVIOUS
    <2> QED BY <2>1, <2>2
  <1>14. Story(c, C, x, ms, V)
    BY <1>3, <1>10, <1>11, <1>12 DEF Story
  <1> QED BY <1>3, <1>13, <1>14 DEF ms, Controlled, Known

\* announces them when it starts,
LEMMA CrtsTold ==
  ASSUME NEW c \in Clients, NEW C
  PROVE  \E U : /\ Story(c, C, Blank, CrtMsgs(c), U)
                /\ Known(CrtMsgs(c), U) = [Blank EXCEPT !.size = Len(DeviceArg[c])]
  <1> DEFINE arg == DeviceArg[c]
             ms  == CrtMsgs(c)
             n   == Len(arg)
             V   == [i \in 0..n |-> [Blank EXCEPT !.size = i]]
  <1>1. n \in Nat /\ DOMAIN arg = 1..n
    <2>1. arg \in Seq(Devices)
      BY DevicesAssumption
    <2> QED BY <2>1, PlacesLemma
  <1>2. Len(ms) = n /\ \A i \in 1..n : ms[i] = DevMsg("PEER_DEV_CRT", arg[i], "info")
    BY <1>1 DEF CrtMsgs
  <1>3. /\ \A i \in 0..n : V[i] = [Blank EXCEPT !.size = i]
        /\ DOMAIN V = 0..n /\ V = [i \in 0..n |-> V[i]]
    OBVIOUS
  <1> HIDE DEF ms, n, V
  <1>4. \A i \in 0..n : V[i] \in Knowing
    <2> SUFFICES ASSUME NEW i \in 0..n PROVE [Blank EXCEPT !.size = i] \in Knowing
      BY <1>3
    <2>1. i \in Nat
      BY <1>1
    <2> QED BY <2>1 DEF Blank, Knowing
  <1>5. V \in [0..n -> Knowing] /\ V[0] = Blank /\ n \in 0..n
    BY <1>1, <1>3, <1>4 DEF Blank
  <1>6. ASSUME NEW i \in 1..n
        PROVE  Proper(c, C, V[i - 1], ms[i]) /\ V[i] = Told(V[i - 1], ms[i])
    <2> DEFINE y == V[i - 1]
    <2>1. i - 1 \in 0..n /\ i \in 0..n /\ i - 1 < n /\ (i - 1) + 1 = i
      BY <1>1
    <2>2. y = [Blank EXCEPT !.size = i - 1] /\ V[i] = [Blank EXCEPT !.size = i]
      BY <1>3, <2>1
    <2>3. y.size = i - 1 /\ y.held = {} /\ ~y.ended
      BY <2>2 DEF Blank
    <2>4. ms[i] = DevMsg("PEER_DEV_CRT", arg[y.size + 1], "info") /\ y.size < Len(DeviceArg[c])
      BY <1>2, <2>1, <2>3 DEF n
    <2>5. Proper(c, C, y, ms[i])
      BY <2>3, <2>4 DEF Proper
    <2>6. Told(y, ms[i]) = [y EXCEPT !.size = @ + 1]
      BY <2>4 DEF Told, DevMsg
    <2>7. [y EXCEPT !.size = @ + 1] = [Blank EXCEPT !.size = i]
      BY <2>1, <2>2, <2>3 DEF Blank
    <2> QED BY <2>2, <2>5, <2>6, <2>7
  <1>7. Story(c, C, Blank, ms, V)
    BY <1>2, <1>5, <1>6 DEF Story
  <1> QED BY <1>2, <1>3, <1>5, <1>7 DEF n, ms, Known

\* and grabs them then,
LEMMA OpeningTold ==
  ASSUME NEW c \in Clients, NEW C,
         CrtMsgs(c) \in Seq(ToServer), GrabMsgs(c, TRUE) \in Seq(ToServer)
  PROVE  LET ms == CrtMsgs(c) \o GrabMsgs(c, TRUE)
         IN  \E V : /\ Story(c, C, Blank, ms, V)
                    /\ Known(ms, V) = [Blank EXCEPT !.size = Len(DeviceArg[c]), !.held = Captures(c)]
  <1> DEFINE a == CrtMsgs(c)
             b == GrabMsgs(c, TRUE)
             N == Len(DeviceArg[c])
             y == [Blank EXCEPT !.size = N]
  <1>1. PICK U : Story(c, C, Blank, a, U) /\ Known(a, U) = y
    BY CrtsTold
  <1>2. N \in Nat
    <2>1. DeviceArg[c] \in Seq(Devices)
      BY DevicesAssumption
    <2> QED BY <2>1, LenProperties
  <1> HIDE DEF N
  <1>3. y \in Knowing /\ y.size = N /\ y.held = {}
    BY <1>2 DEF Blank, Knowing
  <1>4. Controlled(c, y, TRUE) = [Blank EXCEPT !.size = N, !.held = Captures(c)]
    BY DEF Blank, Controlled
  <1> HIDE DEF y
  <1>5. y.held \subseteq Captures(c) /\ y.size = Len(DeviceArg[c])
    BY <1>3 DEF N
  <1>6. PICK W : Story(c, C, y, b, W) /\ Known(b, W) = Controlled(c, y, TRUE)
    BY <1>3, <1>5, GrabsTold
  <1>9. a \in Seq(ToServer) /\ b \in Seq(ToServer)
    OBVIOUS
  <1> HIDE DEF a, b
  <1>7. Story(c, C, Blank, a, U) /\ Known(a, U) = y /\ Story(c, C, y, b, W)
    BY <1>1, <1>6
  <1>8. PICK V : Story(c, C, Blank, a \o b, V) /\ Known(a \o b, V) = Known(b, W)
    BY <1>7, <1>9, StoryJoins
  <1> QED BY <1>4, <1>6, <1>8 DEF N, a, b

\* and ends a pause or begins one.
LEMMA ControlTold ==
  ASSUME NEW c \in Clients, NEW C, NEW x \in Knowing, x.size = Len(DeviceArg[c]),
         x.held \subseteq Captures(c), NEW grab \in BOOLEAN, GrabMsgs(c, grab) \in Seq(ToServer)
  PROVE  /\ GrabMsgs(c, grab) \o <<SwitchMsg(grab)>> \in Seq(ToServer)
         /\ \E V : /\ Story(c, C, x, GrabMsgs(c, grab) \o <<SwitchMsg(grab)>>, V)
                   /\ Known(GrabMsgs(c, grab) \o <<SwitchMsg(grab)>>, V) = Switched(c, x, grab)
  <1> DEFINE ms == GrabMsgs(c, grab)
             y == Controlled(c, x, grab)
             m == SwitchMsg(grab)
             one == <<m>>
  <1>1. PICK U : Story(c, C, x, ms, U) /\ Known(ms, U) = y
    BY GrabsTold
  <1>2. m \in ToServer /\ m.h = (IF grab THEN "PEER_RESUME" ELSE "PEER_PAUSE")
        /\ \E h \in PeerControls : m = Msg(h)
    BY MessagesLemma DEF Headers, PeerControls, ToServer, SwitchMsg
  <1>3. y \in Knowing /\ y.size = x.size
    <2>1. Captures(c) \subseteq Devices
      <3>1. DeviceArg[c] \in Seq(Devices)
        BY DevicesAssumption
      <3> QED BY <3>1, PlacesLemma DEF Captures
    <2> QED BY <2>1 DEF Knowing, Controlled
  <1>5. Proper(c, C, y, m)
    BY <1>2, <1>3 DEF Proper
  <1>6. Told(y, m) = Switched(c, x, grab)
    BY <1>2 DEF Told, Switched
  <1> HIDE DEF m
  <1>7. PICK W : Story(c, C, y, one, W) /\ Known(one, W) = Told(y, m)
    BY <1>3, <1>5, OneTold
  <1>8. one \in Seq(ToServer) /\ ms \in Seq(ToServer) /\ ms \o one \in Seq(ToServer)
    BY <1>2
  <1> HIDE DEF one, ms
  <1>10. PICK V : Story(c, C, x, ms \o one, V) /\ Known(ms \o one, V) = Known(one, W)
    <2>1. Story(c, C, x, ms, U) /\ Known(ms, U) = y /\ Story(c, C, y, one, W)
      BY <1>1, <1>7
    <2> QED BY <1>8, <2>1, StoryJoins
  <1> QED BY <1>6, <1>7, <1>8, <1>10 DEF one, m, ms, y

-----------------------------------------------------------------------------
(* The tale of a client *)

\* while client c has its stream to the server, a listener that knows x has heard all there
\* is to know of it
Knows(c, x) ==
    /\ peerState[c] = "CONNECTED"
    /\ DOMAIN devices[c] = DOMAIN DeviceArg[c] /\ x.size = Len(DeviceArg[c])
    /\ \A i \in DOMAIN DeviceArg[c] : devices[c][i].id = DeviceArg[c][i]
    /\ x.paused <=> state[c] = "PAUSED"
    /\ x.held = IF x.paused THEN {} ELSE Captures(c)
    /\ x.ended => exiting[c]
\* H is all it has said, and x what there is to know after it
Spoken(c, H, x) ==
    /\ proc[c] = "off" => H = <<>> /\ state[c] = "RUNNING"
    /\ proc[c] = "off" \/ Here(c) => \A k \in Devices : x.told[k] = Len(captured[k])
    /\ Here(c) => Knows(c, x)
\* the server is behind the first n messages of what client c says, which T tells
Tale(c, H, T, n) ==
    /\ H \in Seq(ToServer) /\ n \in 0..Len(H) /\ Channel(c, H, n)
    /\ Story(c, captured, Blank, H, T) /\ Spoken(c, H, Known(H, T))

\* a tale goes on as it was as long as nothing is said, wherever the server is,
LEMMA TaleHeard ==
  ASSUME NEW c \in Clients, NEW H, NEW T, NEW n, Tale(c, H, T, n), NEW j \in 0..Len(H), Channel(c, H, j)',
         captured' = captured, Here(c)' => Here(c), proc'[c] = "off" => proc[c] = "off",
         Here(c)' \/ proc'[c] = "off" =>
            /\ state'[c] = state[c] /\ devices'[c] = devices[c] /\ peerState'[c] = peerState[c]
            /\ exiting[c] => exiting'[c]
  PROVE  Tale(c, H, T, j)'
  <1> DEFINE x == Known(H, T)
  <1>1. Spoken(c, H, x)
    BY DEF Tale
  <1>2. ASSUME Here(c)' PROVE Knows(c, x)'
    <2>1. Knows(c, x) /\ Here(c)
      BY <1>1, <1>2 DEF Spoken
    <2> HIDE DEF x
    <2> QED BY <1>2, <2>1 DEF Knows
  <1> HIDE DEF x
  <1>3. Spoken(c, H, x)'
    BY <1>1, <1>2 DEF Spoken
  <1> QED BY <1>3 DEF Tale, x

\* or where it was,
LEMMA TaleKept ==
  ASSUME NEW c \in Clients, NEW H, NEW T, NEW n, Tale(c, H, T, n), Channel(c, H, n)',
         captured' = captured, Here(c)' => Here(c), proc'[c] = "off" => proc[c] = "off",
         Here(c)' \/ proc'[c] = "off" =>
            /\ state'[c] = state[c] /\ devices'[c] = devices[c] /\ peerState'[c] = peerState[c]
            /\ exiting[c] => exiting'[c]
  PROVE  Tale(c, H, T, n)'
  <1>1. n \in 0..Len(H)
    BY DEF Tale
  <1> QED BY <1>1, TaleHeard

\* what is said joins it,
LEMMA TaleSaid ==
  ASSUME TypeInv, NEW c \in Clients, NEW H, NEW T, NEW n, Tale(c, H, T, n), Here(c), Here(c)',
         NEW ms \in Seq(ToServer), Queue(c)' = Queue(c) \o Items(ms),
         Piped(c)' = Piped(c), Ear(c)' = Ear(c), open' = open, proc'[c] # "off",
         Story(c, captured', Blank, H, T), NEW U, Story(c, captured', Known(H, T), ms, U),
         NEW y, Known(ms, U) = y,
         \A k \in Devices : y.told[k] = Len(captured'[k]), Knows(c, y)'
  PROVE  \E G, V : Tale(c, G, V, n)' /\ V[n] = T[n]
  <1> DEFINE G == H \o ms
  <1>1. H \in Seq(ToServer) /\ n \in 0..Len(H) /\ Channel(c, H, n)
    BY DEF Tale
  <1>2. Channel(c, G, n)'
    BY <1>1, SaysChannel
  <1>3. Len(G) = Len(H) + Len(ms) /\ Len(H) \in Nat /\ Len(ms) \in Nat /\ G \in Seq(ToServer)
    BY <1>1, LenProperties, ConcatProperties
  <1> HIDE DEF G
  <1>4. n \in 0..Len(G)
    BY <1>1, <1>3
  <1>5. PICK V : /\ Story(c, captured', Blank, G, V) /\ Agrees(T, V, Len(H))
                 /\ Known(G, V) = y
    BY <1>1, StoryJoins DEF G
  <1>6. V[n] = T[n]
    BY <1>1, <1>5 DEF Agrees
  <1>7. Spoken(c, G, Known(G, V))'
    <2>2. Spoken(c, G, y)'
      BY DEF Spoken
    <2> QED BY <1>5, <2>2
  <1>8. Tale(c, G, V, n)'
    BY <1>2, <1>3, <1>4, <1>5, <1>7 DEF Tale
  <1> QED BY <1>6, <1>8

-----------------------------------------------------------------------------
(* The tale goes on *)

\* Nothing happened to the channel.
LEMMA SameChannel ==
  ASSUME NEW c \in Clients, NEW H, NEW n, Channel(c, H, n), Here(c)' = Here(c), Queue(c)' = Queue(c),
         Piped(c)' = Piped(c), Ear(c)' = Ear(c), open'[PeerConn(c)] = open[PeerConn(c)]
  PROVE  Channel(c, H, n)'
  BY DEF Channel

\* What a client does with an entry of its batch, the server does not notice.
Within(c) ==
    /\ streams'[Server] = streams[Server]
    /\ UNCHANGED <<proc, pipe, open, peerState, captured>>

\* it says nothing,
LEMMA TaleSilent ==
  ASSUME TypeInv, NEW c \in Clients, NEW H, NEW T, NEW n, Tale(c, H, T, n), Here(c), Within(c),
         NEW ss, Holds(c, ss, Queue(c)), NEW x, Finish(c, x, ss),
         state'[c] = state[c], devices'[c] = devices[c], exiting[c] => exiting'[c]
  PROVE  \E G, V : Tale(c, G, V, n)' /\ V[n] = T[n]
  <1>1. Here(c)' /\ Queue(c)' = Queue(c)
    BY HoldsFinish
  <1>2. Piped(c)' = Piped(c) /\ Ear(c)' = Ear(c) /\ Here(c)' = Here(c)
    BY <1>1 DEF Within, Piped, Ear, Here
  <1>3. Channel(c, H, n)
    BY DEF Tale
  <1>4. Channel(c, H, n)'
    BY <1>1, <1>2, <1>3, SameChannel DEF Within
  <1>5. Tale(c, H, T, n)'
    BY <1>2, <1>4, TaleKept DEF Within
  <1> QED BY <1>5

\* or something that joins the tale
LEMMA TaleSpoken ==
  ASSUME TypeInv, Stopped, NEW c \in Clients, NEW H, NEW T, NEW n, Tale(c, H, T, n), Here(c),
         UNCHANGED <<proc, pipe, open>>, streams'[Server] = streams[Server],
         NEW ms \in Seq(ToServer), NEW ss, Holds(c, ss, Queue(c) \o Items(ms)),
         NEW x, Finish(c, x, ss),
         Story(c, captured', Blank, H, T), NEW U, Story(c, captured', Known(H, T), ms, U),
         NEW y, Known(ms, U) = y,
         \A k \in Devices : y.told[k] = Len(captured'[k]), Knows(c, y)'
  PROVE  \E G, V : Tale(c, G, V, n)' /\ V[n] = T[n]
  <1>1. Here(c)' /\ Queue(c)' = Queue(c) \o Items(ms)
    BY HoldsFinish
  <1>2. Piped(c)' = Piped(c) /\ Ear(c)' = Ear(c) /\ open' = open
    BY DEF Piped, Ear
  <1>3. c \in Daemons
    BY ClientLemma
  <1>4. proc'[c] # "off"
    BY <1>3 DEF Stopped, Here
  <1>5. open'[PeerConn(c)] = open[PeerConn(c)] /\ Here(c)'
    BY <1>1, <1>2
  <1>6. \A k \in Devices : y.told[k] = Len(captured'[k])
    OBVIOUS
  <1> QED BY ONLY TypeInv, c \in Clients, Tale(c, H, T, n), Here(c), Story(c, captured', Blank, H, T),
                  Story(c, captured', Known(H, T), ms, U), Known(ms, U) = y, Knows(c, y)',
                  ms \in Seq(ToServer), <1>1, <1>2, <1>4, <1>5, <1>6, TaleSaid

\* What a client that is there knows itself.
LEMMA TaleNow ==
  ASSUME NEW c \in Clients, NEW H, NEW T, NEW n, Tale(c, H, T, n), Here(c)
  PROVE  /\ Known(H, T) \in Knowing /\ Knows(c, Known(H, T))
         /\ \A k \in Devices : Known(H, T).told[k] = Len(captured[k])
         /\ Known(H, T).held \subseteq Captures(c)
  <1>1. H \in Seq(ToServer) /\ Story(c, captured, Blank, H, T) /\ Spoken(c, H, Known(H, T))
    BY DEF Tale
  <1>2. Len(H) \in 0..Len(H)
    BY <1>1
  <1>3. Known(H, T) \in Knowing
    BY <1>1, <1>2 DEF Story, Known
  <1>4. Knows(c, Known(H, T)) /\ \A k \in Devices : Known(H, T).told[k] = Len(captured[k])
    BY <1>1 DEF Spoken
  <1>5. Known(H, T).held \subseteq Captures(c)
    BY <1>4 DEF Knows
  <1> QED BY <1>3, <1>4, <1>5

\* It pauses, or ends a pause, and says so of each device and then at once.
LEMMA TaleControl ==
  ASSUME TypeInv, Stopped, NEW c \in Clients, NEW H, NEW T, NEW n, Tale(c, H, T, n), Here(c), Within(c),
         NEW grab \in BOOLEAN, InputsControllable(c, grab), ControlledInputs(c, grab), PeerThere(c),
         NEW ss, \A q : Holds(c, ControlInputs(c, streams[c], grab), q) => Holds(c, ss, q),
         NEW x, Finish(c, x, Push(ss, peerStream[c], SwitchMsg(grab))),
         grab => state'[c] = "RUNNING", ~grab => state'[c] = "PAUSED", exiting'[c] = exiting[c]
  PROVE  \E G, V : Tale(c, G, V, n)' /\ V[n] = T[n]
  <1>0. ASSUME NEW C, NEW y \in Knowing, y.size = Len(DeviceArg[c]), y.held \subseteq Captures(c)
        PROVE  /\ GrabMsgs(c, grab) \o <<SwitchMsg(grab)>> \in Seq(ToServer)
               /\ \E V : /\ Story(c, C, y, GrabMsgs(c, grab) \o <<SwitchMsg(grab)>>, V)
                         /\ Known(GrabMsgs(c, grab) \o <<SwitchMsg(grab)>>, V) = Switched(c, y, grab)
    <2>1. GrabMsgs(c, grab) \in Seq(ToServer)
      BY DeviceMsgs
    <2> QED BY <1>0, <2>1, ControlTold
  <1> DEFINE y == Known(H, T)
             g == GrabMsgs(c, grab)
             z == Switched(c, y, grab)
             tt == Push(ss, peerStream[c], SwitchMsg(grab))
  <1>1. /\ y \in Knowing /\ Knows(c, y) /\ y.held \subseteq Captures(c)
        /\ \A k \in Devices : y.told[k] = Len(captured[k])
    BY TaleNow
  <1>2. g \in Seq(ToServer)
    BY DeviceMsgs
  <1>3. PICK ms \in Seq(ToServer) :
           /\ ms = [i \in DOMAIN devices[c] |-> GrabMsg(devices[c][i].id, grab)]
           /\ Holds(c, ControlInputs(c, streams[c], grab), Queue(c) \o Items(ms))
    BY HoldsControl
  <1>4. ms = g
    <2>1. DOMAIN devices[c] = DOMAIN DeviceArg[c] /\ \A i \in DOMAIN DeviceArg[c] : devices[c][i].id = DeviceArg[c][i]
      BY <1>1 DEF Knows
    <2> QED BY <1>3, <2>1 DEF GrabMsgs
  <1>5. SwitchMsg(grab) \in ToServer
    BY MessagesLemma DEF Headers, PeerControls, ToServer, SwitchMsg
  <1>6. Queue(c) \in Seq(Waits)
    <2>1. Holds(c, streams[c], Queue(c))
      BY HoldsNow
    <2> QED BY <2>1 DEF Holds
  <1> HIDE DEF g
  <1>7. Holds(c, ss, Queue(c) \o Items(g))
    BY <1>3, <1>4
  <1>8. Holds(c, tt, Queue(c) \o Items(g \o <<SwitchMsg(grab)>>))
    BY <1>2, <1>5, <1>6, <1>7, HoldsOneMore
  <1> HIDE DEF tt
  <1>9. y.size = Len(DeviceArg[c])
    BY <1>1 DEF Knows
  <1> HIDE DEF y
  <1> DEFINE ns == g \o <<SwitchMsg(grab)>>
  <1>10. ns \in Seq(ToServer) /\ \E U : Story(c, captured, y, ns, U) /\ Known(ns, U) = z
    <2>1. y \in Knowing /\ y.size = Len(DeviceArg[c]) /\ y.held \subseteq Captures(c)
      BY <1>1, <1>9
    <2> QED BY <1>0, <2>1 DEF g
  <1> HIDE DEF ns
  <1>11. PICK U : Story(c, captured, y, ns, U) /\ Known(ns, U) = z
    BY <1>10
  <1>12. /\ z.size = y.size /\ z.told = y.told /\ z.ended = y.ended
         /\ z.held = IF grab THEN Captures(c) ELSE {}
         /\ z.paused = ~grab
    <2>1. y \in [size : Nat, held : SUBSET Devices, paused : BOOLEAN, ended : BOOLEAN, told : [Devices -> Nat]]
      BY <1>1 DEF Knowing
    <2>2. Controlled(c, y, grab) = [y EXCEPT !.held = IF grab THEN Captures(c) ELSE {}]
      BY DEF Controlled
    <2> QED BY <2>1, <2>2 DEF Switched
  <1> HIDE DEF z
  <1>13. Knows(c, z)'
    <2>1. c \in Daemons /\ c # Server
      BY ClientLemma
    <2>2. devices'[c] = [i \in DOMAIN devices[c] |-> [devices[c][i] EXCEPT !.grabbed = grab]]
      <3>1. devices' = [devices EXCEPT ![c] = [i \in DOMAIN @ |-> [@[i] EXCEPT !.grabbed = grab]]]
        BY <2>1 DEF ControlledInputs, ControlledDevices
      <3> QED BY <2>1, <3>1 DEF TypeInv
    <2>3. \A i \in DOMAIN devices[c] : devices'[c][i].id = devices[c][i].id
      <3>1. \A i \in DOMAIN devices[c] : devices[c][i] \in Entries
        BY <2>1, IdsLemma
      <3> QED BY <2>2, <3>1 DEF Entries
    <2>4. DOMAIN devices'[c] = DOMAIN devices[c]
      BY <2>2
    <2>5. Knows(c, y)
      BY <1>1
    <2>6. z.size = Len(DeviceArg[c]) /\ z.ended = y.ended
      BY <1>9, <1>12
    <2>7. peerState'[c] = peerState[c] /\ exiting'[c] = exiting[c]
      BY DEF Within
    <2>8. (z.paused <=> state'[c] = "PAUSED") /\ z.held = IF z.paused THEN {} ELSE Captures(c)
      BY <1>12
    <2> QED BY <2>3, <2>4, <2>5, <2>6, <2>7, <2>8 DEF Knows
  <1>14. captured' = captured
    BY DEF Within
  <1>15. Story(c, captured', Blank, H, T)
    BY <1>14 DEF Tale
  <1>16. \A k \in Devices : z.told[k] = Len(captured'[k])
    BY <1>1, <1>12, <1>14
  <1>17. Finish(c, x, tt)
    BY DEF tt
  <1>18. Holds(c, tt, Queue(c) \o Items(ns))
    BY <1>8 DEF ns
  <1>19. Story(c, captured', Known(H, T), ns, U)
    BY <1>11, <1>14 DEF y
  <1> QED BY <1>10, <1>11, <1>13, <1>15, <1>16, <1>17, <1>18, <1>19, TaleSpoken DEF Within

\* It is stopped, and says so.
LEMMA TaleStop ==
  ASSUME TypeInv, Stopped, NEW c \in Clients, NEW H, NEW T, NEW n, Tale(c, H, T, n), Here(c), Within(c),
         NEW x, RelayStop(c, x), ~Fails(c)
  PROVE  \E G, V : Tale(c, G, V, n)' /\ V[n] = T[n]
  <1> DEFINE y == Known(H, T)
             m == Msg("PEER_STOP")
             ms == <<m>>
             told == Broadcast(c, streams[c], "RELAY_STOP")
             ss == Push(told, peerStream[c], m)
  <1>1. /\ y \in Knowing /\ Knows(c, y) /\ \A k \in Devices : y.told[k] = Len(captured[k])
    BY TaleNow
  <1>2. /\ Finish(c, x, ss) /\ PeerThere(c) /\ UNCHANGED <<state, devices>>
        /\ exiting' = [exiting EXCEPT ![c] = TRUE]
    BY DEF RelayStop
  <1>3. m \in ToServer /\ m.h = "PEER_STOP"
    BY MessagesLemma DEF Headers, PeerControls, ToServer
  <1>4. Holds(c, told, Queue(c))
    BY HoldsNow, HoldsBroadcast
  <1>5. peerStream[c] = PeerConn(c)
    BY <1>2, PeerOfClient
  <1> HIDE DEF told
  <1>6. Holds(c, ss, Queue(c) \o Items(ms))
    BY <1>3, <1>4, <1>5, HoldsPushOne
  <1>7. ms \in Seq(ToServer)
    BY <1>3
  <1>8. Proper(c, captured, y, m)
    BY <1>1 DEF Proper, Knows, PeerControls
  <1>9. Told(y, m) = [y EXCEPT !.ended = TRUE]
    BY <1>3 DEF Told
  <1> HIDE DEF y, m, ss
  <1>10. PICK U : Story(c, captured, y, ms, U) /\ Known(ms, U) = Told(y, m)
    BY <1>1, <1>8, OneTold
  <1> HIDE DEF ms
  <1> DEFINE z == Told(y, m)
  <1>11. /\ z.size = y.size /\ z.told = y.told /\ z.held = y.held /\ z.paused = y.paused
    <2>1. y \in [size : Nat, held : SUBSET Devices, paused : BOOLEAN, ended : BOOLEAN, told : [Devices -> Nat]]
      BY <1>1 DEF Knowing
    <2> QED BY <1>9, <2>1
  <1> HIDE DEF z
  <1>12. Knows(c, z)'
    <2>1. exiting'[c]
      <3>1. c \in Daemons
        BY ClientLemma
      <3> QED BY <1>2, <3>1 DEF TypeInv
    <2>2. state' = state /\ devices' = devices /\ peerState' = peerState
      BY <1>2 DEF Within
    <2>3. Knows(c, y)
      BY <1>1
    <2> QED BY <1>11, <2>1, <2>2, <2>3 DEF Knows
  <1>13. captured' = captured
    BY DEF Within
  <1>14. Story(c, captured', Blank, H, T)
    BY <1>13 DEF Tale
  <1>15. /\ Known(ms, U) = z /\ Story(c, captured', Known(H, T), ms, U)
         /\ \A k \in Devices : z.told[k] = Len(captured'[k])
    BY <1>1, <1>10, <1>11, <1>13 DEF y, z
  <1> QED BY <1>2, <1>6, <1>7, <1>12, <1>14, <1>15, TaleSpoken DEF Within

\* It sends an event, which is the next that is captured.
LEMMA TaleEvent ==
  ASSUME TypeInv, Stopped, GrabMatchesState, Logs, NEW c \in Clients, NEW H, NEW T, NEW n,
         Tale(c, H, T, n), Here(c), streams'[Server] = streams[Server],
         NEW x, DevHandler(c, x), ~Fails(c)
  PROVE  \E G, V : Tale(c, G, V, n)' /\ V[n] = T[n]
  <1> DEFINE y == Known(H, T)
             k == x[2]
             m == streams[c][x].fallback.msg
             ms == <<m>>
             ss == Push(streams[c], peerStream[c], m)
  <1>0. c \in Daemons /\ c # Server
    BY ClientLemma
  <1>1. /\ HasRead(c, x, "PEER_EVENT") /\ x[1] = "dev" /\ PeerThere(c) /\ k \in polled[c]
        /\ Finish(c, x, ss) /\ UNCHANGED <<proc, exiting, state, peerState, devices, pipe, open>>
        /\ captured' = [captured EXCEPT ![k] = Append(@, m.val)]
    BY DEF DevHandler, SendEvent, socketVars
  <1>2. m \in Received(c, x) /\ x \in NamesOf(c) /\ m.h = "PEER_EVENT"
    BY <1>0, <1>1, ReadLemma DEF None
  <1>3. k \in Devices
    BY <1>0, <1>1, <1>2, NamesLemma
  <1>4. m \in ToServer /\ m.h = "PEER_EVENT" /\ m.dev = k /\ m.val \in Events
    BY <1>1, <1>2, <1>3 DEF Received, ToServer, DeviceHeaders
  <1>5. peerStream[c] = PeerConn(c)
    BY <1>1, PeerOfClient
  <1> HIDE DEF m
  <1>6. Holds(c, ss, Queue(c) \o Items(ms))
    BY <1>4, <1>5, HoldsNow, HoldsPushOne
  <1>7. ms \in Seq(ToServer)
    BY <1>4
  <1>8. /\ y \in Knowing /\ Knows(c, y) /\ \A j \in Devices : y.told[j] = Len(captured[j])
    BY TaleNow
  <1> HIDE DEF y, ms, ss
  <1>9. state[c] = "RUNNING" /\ k \in DeviceIds(c)
    <2>1. proc[c] = "running" /\ peerState[c] = "CONNECTED"
      <3>1. DOMAIN streams[c] # {}
        BY DEF Here
      <3> QED BY <1>0, <1>8, <3>1 DEF Stopped, Knows
    <2> QED BY <1>1, <2>1 DEF GrabMatchesState
  <1>10. k \in Captures(c) /\ ~y.paused /\ y.size = Len(DeviceArg[c])
    BY <1>8, <1>9 DEF Knows, DeviceIds, Captures
  <1>11. captured[k] \in Seq(Events) /\ captured'[k] = Append(captured[k], m.val)
         /\ \A j \in Devices \ {k} : captured'[j] = captured[j]
    BY <1>1, <1>3 DEF Logs
  <1>12. /\ Len(captured[k]) \in Nat /\ Len(captured'[k]) = Len(captured[k]) + 1
         /\ captured'[k][Len(captured[k]) + 1] = m.val
         /\ \A i \in 1..Len(captured[k]) : captured'[k][i] = captured[k][i]
    <2> DEFINE q == captured[k]
               v == captured'[k]
    <2>1. q \in Seq(Events) /\ v = Append(q, m.val)
      BY <1>11
    <2> HIDE DEF q, v
    <2>2. Len(q) \in Nat /\ Len(v) = Len(q) + 1 /\ v[Len(q) + 1] = m.val
          /\ \A i \in 1..Len(q) : v[i] = q[i]
      BY <1>4, <2>1
    <2> QED BY <2>2 DEF q, v
  <1>13. \A j \in Devices : /\ Len(captured[j]) \in Nat /\ Len(captured'[j]) \in Nat
                            /\ Len(captured[j]) <= Len(captured'[j])
                            /\ \A i \in 1..Len(captured[j]) : captured'[j][i] = captured[j][i]
    <2>1. \A j \in Devices : Len(captured[j]) \in Nat
      BY LenProperties DEF Logs
    <2>2. ASSUME NEW j \in Devices, j # k
          PROVE  captured'[j] = captured[j] /\ Len(captured[j]) \in Nat
      BY <1>11, <2>1, <2>2
    <2>3. Len(captured[k]) + 1 \in Nat /\ Len(captured[k]) <= Len(captured[k]) + 1
      BY <1>12
    <2> QED BY <1>12, <2>2, <2>3
  <1>14. Story(c, captured', Blank, H, T)
    <2>1. Story(c, captured, Blank, H, T) /\ Len(H) \in Nat
      BY LenProperties DEF Tale
    <2> QED BY <1>13, <2>1, StoryLonger
  <1>15. Proper(c, captured', y, m)
    <2>1. y.told[k] = Len(captured[k])
      BY <1>3, <1>8
    <2> QED BY <1>4, <1>10, <1>12, <2>1 DEF Proper
  <1>16. PICK U : Story(c, captured', y, ms, U) /\ Known(ms, U) = Told(y, m)
    <2>1. ASSUME NEW C, Proper(c, C, y, m)
          PROVE  \E U : Story(c, C, y, <<m>>, U) /\ Known(<<m>>, U) = Told(y, m)
      BY <1>8, <2>1, OneTold
    <2> QED BY <1>15, <2>1 DEF ms
  <1>17. PICK z : z = Told(y, m)
    OBVIOUS
  <1>18. /\ z.size = y.size /\ z.held = y.held /\ z.paused = y.paused /\ z.ended = y.ended
         /\ z.told = [y.told EXCEPT ![k] = @ + 1] /\ y.told \in [Devices -> Nat]
    <2>1. y \in [size : Nat, held : SUBSET Devices, paused : BOOLEAN, ended : BOOLEAN, told : [Devices -> Nat]]
      BY <1>8 DEF Knowing
    <2>2. z = [y EXCEPT !.told[k] = @ + 1]
      BY <1>4, <1>17 DEF Told
    <2> QED BY <2>1, <2>2
  <1>19. Knows(c, z)'
    <2>1. Knows(c, y)
      BY <1>8
    <2>2. state' = state /\ devices' = devices /\ peerState' = peerState /\ exiting' = exiting
      BY <1>1
    <2> QED BY <1>18, <2>1, <2>2 DEF Knows
  <1>20. \A j \in Devices : z.told[j] = Len(captured'[j])
    BY <1>3, <1>8, <1>11, <1>12, <1>18
  <1>21. Finish(c, x, ss) /\ UNCHANGED <<proc, pipe, open>>
    BY <1>1
  <1>22. Story(c, captured', Known(H, T), ms, U) /\ Known(ms, U) = z
    BY <1>16, <1>17 DEF y
  <1> QED BY <1>6, <1>7, <1>14, <1>19, <1>20, <1>21, <1>22, TaleSpoken

\* A client that starts begins a tale.
LEMMA TaleStarts ==
  ASSUME TypeInv, OneGuest, NEW c \in Clients, Linked(c), Tuned(c), NEW H, NEW T, NEW n,
         Tale(c, H, T, n), ClientStart(c)
  PROVE  \E G, V : Tale(c, G, V, n)' /\ V[n] = T[n]
  <1> DEFINE a == CrtMsgs(c)
             b == GrabMsgs(c, TRUE)
             ms == a \o b
             y == [Blank EXCEPT !.size = Len(DeviceArg[c]), !.held = Captures(c)]
  <1>0. c \in Daemons /\ c # Server
    BY ClientLemma
  <1>1. /\ H \in Seq(ToServer) /\ n \in 0..Len(H) /\ Story(c, captured, Blank, H, T)
        /\ Spoken(c, H, Known(H, T))
    BY DEF Tale
  <1>2. /\ proc[c] = "off" /\ proc' = [proc EXCEPT ![c] = "running"] /\ peerState'[c] = "CONNECTED"
        /\ UNCHANGED <<exiting, state, captured>>
        /\ devices'[c] = [i \in DOMAIN DeviceArg[c] |-> [id |-> DeviceArg[c][i], grabbed |-> TRUE]]
    BY <1>0 DEF ClientStart, TypeInv, logVars
  <1>3. H = <<>> /\ Len(H) = 0 /\ n = 0 /\ state[c] = "RUNNING"
    BY <1>1, <1>2 DEF Spoken
  <1>4. T[0] = Blank /\ Known(H, T) = Blank
    BY <1>1, <1>3 DEF Story, Known
  <1>5. \A k \in Devices : Len(captured[k]) = 0
    <2>1. \A k \in Devices : Blank.told[k] = Len(captured[k])
      BY <1>1, <1>2, <1>4 DEF Spoken
    <2> QED BY <2>1 DEF Blank
  <1>6. a \in Seq(ToServer) /\ b \in Seq(ToServer)
    BY DeviceMsgs
  <1>7. Here(c)' /\ Queue(c)' = <<>> \o Items(ms)
    BY StartSays
  <1>8. PICK V : Story(c, captured, Blank, ms, V) /\ Known(ms, V) = y
    <2>1. ASSUME NEW C PROVE \E V : Story(c, C, Blank, ms, V) /\ Known(ms, V) = y
      BY <1>6, OpeningTold
    <2> QED BY <2>1
  <1> HIDE DEF a, b
  <1>9. ms \in Seq(ToServer) /\ <<>> \o ms = ms
    BY <1>6
  <1> HIDE DEF ms
  <1>10. Channel(c, ms, 0)'
    <2>1. Channel(c, <<>> \o ms, 0)'
      BY <1>7, <1>9, StartChannel
    <2> QED BY <1>9, <2>1
  <1>11. y.size = Len(DeviceArg[c]) /\ y.held = Captures(c) /\ y.paused = FALSE /\ y.ended = FALSE
         /\ \A k \in Devices : y.told[k] = 0
    BY DEF Blank
  <1> HIDE DEF y
  <1>12. Knows(c, y)'
    BY <1>2, <1>3, <1>11 DEF Knows
  <1>13. proc'[c] # "off"
    BY <1>0, <1>2 DEF TypeInv
  <1>14. Spoken(c, ms, y)'
    BY <1>2, <1>5, <1>7, <1>11, <1>12, <1>13 DEF Spoken
  <1>15. Story(c, captured', Blank, ms, V)
    BY <1>2, <1>8
  <1>16. Spoken(c, ms, Known(ms, V))'
    BY <1>8, <1>14
  <1>17. Len(ms) \in Nat /\ 0 \in 0..Len(ms)
    BY <1>9, LenProperties
  <1>18. Tale(c, ms, V, 0)'
    BY <1>9, <1>10, <1>15, <1>16, <1>17 DEF Tale
  <1>19. V[0] = T[0]
    BY <1>4, <1>8 DEF Story
  <1> QED BY <1>3, <1>18, <1>19

\* The handlers of what relays ask it,
LEMMA TaleRelay ==
  ASSUME TypeInv, Stopped, NEW c \in Clients, NEW H, NEW T, NEW n, Tale(c, H, T, n), Here(c), Within(c),
         NEW x, RelayHandler(c, x), ~Fails(c)
  PROVE  \E G, V : Tale(c, G, V, n)' /\ V[n] = T[n]
  <1>0. c \in Daemons /\ PeerConn(c)[1] = "peer" /\ SwitchMsg(FALSE) = Msg("PEER_PAUSE")
        /\ SwitchMsg(TRUE) = Msg("PEER_RESUME")
    BY ClientLemma DEF SwitchMsg
  <1>1. Holds(c, streams[c], Queue(c))
    BY HoldsNow
  <1>2. CASE RelayIdle(c, x)
    <2>1. Finish(c, x, streams[c]) /\ UNCHANGED <<exiting, state, devices>>
      BY <1>2 DEF RelayIdle
    <2> QED BY <1>1, <2>1, TaleSilent
  <1>3. ASSUME NEW h \in RelayHeaders, NEW m, HasRead(c, x, h), Answer(c, x, m)
        PROVE  \E G, V : Tale(c, G, V, n)' /\ V[n] = T[n]
    <2>1. x # PeerConn(c)
      BY <1>0, <1>3, RequestLemma
    <2>2. Holds(c, Push(streams[c], x, m), Queue(c))
      BY <1>1, <2>1, HoldsAnswer
    <2>3. Finish(c, x, Push(streams[c], x, m)) /\ UNCHANGED <<exiting, state, devices>>
      BY <1>3 DEF Answer
    <2> QED BY <2>2, <2>3, TaleSilent
  <1>4. CASE \/ RelayStart(c, x) \/ RelayList(c, x) \/ RelayPauseAgain(c, x) \/ RelayResumeAgain(c, x)
    BY <1>3, <1>4 DEF RelayStart, RelayList, RelayPauseAgain, RelayResumeAgain,
                      AsksToPause, AsksToResume, RelayHeaders
  <1>5. CASE RelayPause(c, x)
    <2> DEFINE held == ControlInputs(c, streams[c], FALSE)
               ss   == Broadcast(c, held, "RELAY_PAUSE")
    <2>1. peerState[c] = "CONNECTED"
      BY TaleNow DEF Knows
    <2>2. /\ InputsControllable(c, FALSE) /\ ControlledInputs(c, FALSE) /\ PeerThere(c)
          /\ Finish(c, x, Push(ss, peerStream[c], SwitchMsg(FALSE)))
          /\ state' = [state EXCEPT ![c] = "PAUSED"] /\ exiting' = exiting
      BY <1>0, <1>5, <2>1 DEF RelayPause
    <2>3. state'[c] = "PAUSED"
      BY <1>0, <2>2 DEF TypeInv
    <2>4. \A q : Holds(c, held, q) => Holds(c, ss, q)
      BY HoldsBroadcast
    <2>5. exiting'[c] = exiting[c]
      BY <2>2
    <2> HIDE DEF ss
    <2>6. PICK grab \in BOOLEAN : grab = FALSE
      OBVIOUS
    <2>7. /\ InputsControllable(c, grab) /\ ControlledInputs(c, grab)
          /\ Finish(c, x, Push(ss, peerStream[c], SwitchMsg(grab)))
          /\ \A q : Holds(c, ControlInputs(c, streams[c], grab), q) => Holds(c, ss, q)
      BY <2>2, <2>4, <2>6
    <2>8. PeerThere(c) /\ (grab => state'[c] = "RUNNING") /\ (~grab => state'[c] = "PAUSED")
      BY <2>2, <2>3, <2>6
    <2> QED BY <2>5, <2>7, <2>8, TaleControl
  <1>6. CASE RelayResume(c, x)
    <2> DEFINE ss == ControlInputs(c, streams[c], TRUE)
    <2>1. /\ InputsControllable(c, TRUE) /\ ControlledInputs(c, TRUE) /\ PeerThere(c)
          /\ Finish(c, x, Push(ss, peerStream[c], SwitchMsg(TRUE)))
          /\ state' = [state EXCEPT ![c] = "RUNNING"] /\ exiting' = exiting
      BY <1>0, <1>6 DEF RelayResume
    <2>2. state'[c] = "RUNNING"
      BY <1>0, <2>1 DEF TypeInv
    <2>3. \A q : Holds(c, ControlInputs(c, streams[c], TRUE), q) => Holds(c, ss, q)
      OBVIOUS
    <2>4. exiting'[c] = exiting[c]
      BY <2>1
    <2> HIDE DEF ss
    <2>5. PICK grab \in BOOLEAN : grab = TRUE
      OBVIOUS
    <2>6. /\ InputsControllable(c, grab) /\ ControlledInputs(c, grab)
          /\ Finish(c, x, Push(ss, peerStream[c], SwitchMsg(grab)))
          /\ \A q : Holds(c, ControlInputs(c, streams[c], grab), q) => Holds(c, ss, q)
      BY <2>1, <2>3, <2>5
    <2>7. PeerThere(c) /\ (grab => state'[c] = "RUNNING") /\ (~grab => state'[c] = "PAUSED")
      BY <2>1, <2>2, <2>5
    <2> QED BY <2>4, <2>6, <2>7, TaleControl
  <1>7. CASE RelayStop(c, x)
    BY <1>7, TaleStop
  <1> QED BY <1>2, <1>4, <1>5, <1>6, <1>7 DEF RelayHandler

\* the entries that no handler sees,
LEMMA TaleUnseen ==
  ASSUME TypeInv, NEW c \in Clients, NEW H, NEW T, NEW n, Tale(c, H, T, n), Here(c), Within(c),
         NEW x, ResolveFreed(c, x) \/ ResolveIncomplete(c, x) \/ ResolveWritten(c, x), ~Fails(c)
  PROVE  \E G, V : Tale(c, G, V, n)' /\ V[n] = T[n]
  <1>1. Channel(c, H, n) /\ H \in Seq(ToServer) /\ n \in 0..Len(H)
    BY DEF Tale
  <1>2. CASE ResolveFreed(c, x) \/ ResolveIncomplete(c, x)
    <2>1. UNCHANGED <<streams, exiting, state, devices>>
      BY <1>2 DEF ResolveFreed, ResolveIncomplete
    <2>2. Here(c)' = Here(c) /\ Queue(c)' = Queue(c) /\ Piped(c)' = Piped(c) /\ Ear(c)' = Ear(c)
      BY <2>1 DEF Within, Here, Queue, Piped, Ear
    <2>3. Channel(c, H, n)'
      BY <1>1, <2>2, SameChannel DEF Within
    <2>4. Tale(c, H, T, n)'
      BY <2>1, <2>2, <2>3, TaleKept DEF Within
    <2> QED BY <2>4
  <1>3. CASE ResolveWritten(c, x) /\ x # PeerConn(c)
    <2> DEFINE ss == [streams[c] EXCEPT ![x] = Popped(@)]
    <2>1. Finish(c, x, ss) /\ UNCHANGED <<exiting, state, devices>>
      BY <1>3 DEF ResolveWritten
    <2>2. Holds(c, streams[c], Queue(c))
      BY HoldsNow
    <2>3. Holds(c, ss, Queue(c))
      BY <1>3, <2>2 DEF Holds
    <2> HIDE DEF ss
    <2> QED BY <2>1, <2>3, TaleSilent
  <1>4. CASE ResolveWritten(c, PeerConn(c))
    <2>1. Pops(c)
      BY <1>4, WrittenPops
    <2>2. /\ Queue(c)[1].state = "COMPLETE" /\ UNCHANGED <<exiting, state, devices>>
      <3>1. c \in Daemons /\ IsSocket(PeerConn(c))
        BY ClientLemma DEF IsSocket
      <3>2. streams[c][PeerConn(c)].queue # <<>>
        BY <1>4, <3>1, WrittenStream
      <3> QED BY <1>4, <3>2 DEF ResolveWritten, NextItem, Queue, Here
    <2>3. Ear(c)' = Ear(c) /\ open' = open
      BY DEF Ear, Within
    <2>4. /\ Here(c)' /\ Queue(c) # <<>> /\ Queue(c)' = Tail(Queue(c)) /\ Piped(c)' = Piped(c)
      BY <2>1 DEF Pops
    <2>5. n \in Nat
      BY <1>1
    <2>6. Channel(c, H, n)'
      BY <1>1, <2>2, <2>3, <2>4, <2>5, PopsChannel
    <2>7. Tale(c, H, T, n)'
      BY <2>2, <2>6, TaleKept DEF Within
    <2> QED BY <2>7
  <1> QED BY <1>2, <1>3, <1>4

\* and, when the stream to the server is gone, all of them.
LEMMA TaleGone ==
  ASSUME TypeInv, Stopped, NEW c \in Clients, NEW H, NEW T, NEW n, Tale(c, H, T, n), ~Here(c),
         Resolve(c), ~Fails(c), NEW y, Resolved(c, y), ~\E x : ResolveClosed(c, x)
  PROVE  Tale(c, H, T, n)'
  <1>0. c \in Daemons /\ c # Server /\ PeerConn(c) \in NamesOf(c) /\ PeerConn(c)[1] = "peer"
        /\ Server \in Daemons
    BY ClientLemma
  <1>1. /\ UNCHANGED <<proc, pipe, open>> /\ streams'[Server] = streams[Server]
    BY <1>0 DEF Resolved, StreamsResolved
  <1>2. Here(c)' = FALSE
    BY <1>0 DEF Resolved, StreamsResolved, Here
  <1>3. captured' = captured
    <2>1. PICK x : \/ ResolveFreed(c, x) \/ ResolveIncomplete(c, x) \/ ResolveWritten(c, x)
                   \/ PeerHandler(c, x) \/ RelayHandler(c, x) \/ DevHandler(c, x)
      BY DEF Resolve, CloseCrashes
    <2>2. ~DevHandler(c, x)
      BY PeerOfClient DEF DevHandler, Here, PeerThere
    <2>3. CASE ResolveFreed(c, x) \/ ResolveIncomplete(c, x) \/ ResolveWritten(c, x)
      BY <2>3 DEF ResolveFreed, ResolveIncomplete, ResolveWritten, logVars
    <2>4. CASE PeerHandler(c, x)
      BY <2>4 DEF PeerHandler, PeerDevCrt, PeerUpdGrab, PeerEvent, PeerPause, PeerResume, PeerControl,
                  PeerStopClient, PeerStopServer, PeerStopCrashes, PeerUnchanged, logVars
    <2>5. CASE RelayHandler(c, x)
      BY <2>5 DEF RelayHandler, RelayIdle, RelayStart, RelayList, RelayPause, RelayPauseAgain,
                  RelayResume, RelayResumeAgain, RelayStop, Answer, RelayUnchanged, logVars
    <2> QED BY <2>1, <2>2, <2>3, <2>4, <2>5
  <1>4. Queue(c)' = Queue(c) /\ Piped(c)' = Piped(c) /\ Ear(c)' = Ear(c)
    BY <1>1, <1>2 DEF Queue, Piped, Ear
  <1>5. Channel(c, H, n)'
    <2>1. Channel(c, H, n)
      BY DEF Tale
    <2>2. Here(c)' = Here(c)
      BY <1>2 DEF Here
    <2> QED BY <1>1, <1>4, <2>1, <2>2, SameChannel
  <1>6. proc[c] # "off"
    BY <1>0 DEF Stopped, Resolve
  <1> QED BY <1>1, <1>2, <1>3, <1>5, <1>6, TaleKept

\* Whatever a client does, its tale goes on, and what the server knows of it stays.
LEMMA ClientTale ==
  ASSUME TypeInv, OneGuest, Stopped, GrabMatchesState, Logs, NEW c \in Clients,
         Mute(c), Tuned(c), Linked(c), Collected(c), NEW H, NEW T, NEW n, Tale(c, H, T, n),
         Departs(c) \/ Dispatch(c) \/ Resolve(c) \/ ClientStart(c)
  PROVE  \E G, V : Tale(c, G, V, n)' /\ V[n] = T[n]
  <1>0. c \in Daemons /\ c # Server /\ Server \in Daemons /\ PeerConn(c)[1] = "peer"
    BY ClientLemma
  <1>1. Channel(c, H, n) /\ H \in Seq(ToServer) /\ n \in Nat
    BY LenProperties DEF Tale
  <1>2. CASE Departs(c)
    <2>1. Channel(c, H, n)'
      BY <1>1, <1>2, ClientChannel
    <2>2. PICK how, p : how \in {"exited", "failed"} /\ ProcessEnds(c, how, p)
      BY <1>2 DEF Departs
    <2>3. captured' = captured /\ streams' = [streams EXCEPT ![c] = <<>>] /\ proc' = [proc EXCEPT ![c] = how]
      BY <2>2 DEF ProcessEnds, logVars
    <2>4. Here(c)' = FALSE /\ proc'[c] # "off"
      BY <1>0, <2>2, <2>3 DEF Here, TypeInv
    <2>5. Tale(c, H, T, n)'
      BY <2>1, <2>3, <2>4, TaleKept
    <2> QED BY <2>5
  <1>3. CASE Dispatch(c)
    <2>1. Channel(c, H, n)'
      BY <1>1, <1>3, ClientChannel
    <2>2. Here(c)' = Here(c)
      BY <1>3, ClientWrites
    <2>3. UNCHANGED <<captured, proc, state, devices, peerState, exiting>>
      BY <1>0, <1>3 DEF Dispatch, AcceptsPeer
    <2>4. Tale(c, H, T, n)'
      BY <2>1, <2>2, <2>3, TaleKept
    <2> QED BY <2>4
  <1>4. CASE ClientStart(c)
    BY <1>4, TaleStarts
  <1>5. ASSUME NEW x, ResolveClosed(c, x)
        PROVE  \E G, V : Tale(c, G, V, n)' /\ V[n] = T[n]
    <2>1. Channel(c, H, n)'
      BY <1>1, <1>5, ClientChannel
    <2>2. /\ DOMAIN streams'[c] = DOMAIN streams[c] \ {x} /\ x \in DOMAIN streams[c]
          /\ UNCHANGED <<proc, exiting, state, devices, captured>>
      BY <1>0, <1>5, ClosedStream
    <2>3. Here(c)' => Here(c) /\ x # PeerConn(c)
      BY <2>2 DEF Here
    <2>4. Here(c)' => peerState'[c] = peerState[c]
      <3>1. peerState' = PeerClosed(c, x)
        BY <1>5 DEF ResolveClosed
      <3>2. x[1] = "peer" => x = PeerConn(c)
        <4>1. x \in NamesOf(c)
          BY <1>0, <2>2, StreamFacts
        <4> QED BY <1>0, <4>1, NamesLemma
      <3> QED BY <1>0, <2>3, <3>1, <3>2 DEF PeerClosed, TypeInv
    <2>5. proc[c] # "off"
      BY <1>0, <2>2 DEF Stopped
    <2>6. Tale(c, H, T, n)'
      BY <2>1, <2>2, <2>3, <2>4, <2>5, TaleKept
    <2> QED BY <2>6
  <1>6. CASE Resolve(c) /\ ~Fails(c) /\ ~\E x : ResolveClosed(c, x)
    <2>1. PICK y : Resolved(c, y)
      BY <1>0, <1>6, ResolveMoves
    <2>2. CASE ~Here(c)
      <3>1. Tale(c, H, T, n)'
        BY <1>6, <2>1, <2>2, TaleGone
      <3> QED BY <3>1
    <2>3. CASE Here(c)
      <3>1. PICK x : \/ ResolveFreed(c, x) \/ ResolveIncomplete(c, x) \/ ResolveWritten(c, x)
                     \/ PeerHandler(c, x) \/ RelayHandler(c, x) \/ DevHandler(c, x)
        BY <1>6 DEF Resolve, CloseCrashes
      <3>2. /\ UNCHANGED <<proc, pipe, open, peerState>> /\ streams'[Server] = streams[Server]
        BY <1>0, <2>1 DEF Resolved, StreamsResolved, PeerResolved
      <3>3. ~PeerHandler(c, x)
        <4> SUFFICES ASSUME PeerHandler(c, x) PROVE FALSE
          OBVIOUS
        <4>1. \E h : HasRead(c, x, h) /\ x[1] = "peer"
          BY DEF PeerHandler, PeerDevCrt, PeerUpdGrab, PeerEvent, PeerPause, PeerResume, PeerControl,
                 PeerStopClient, PeerStopServer, PeerStopCrashes
        <4>2. x \in DOMAIN streams[c] /\ x[1] = "peer" /\ streams[c][x].fallback.state = "COMPLETE"
          BY <4>1 DEF HasRead
        <4>3. x = PeerConn(c)
          <5>1. x \in NamesOf(c)
            BY <1>0, <4>2, StreamFacts
          <5> QED BY <1>0, <4>2, <5>1, NamesLemma
        <4> QED BY <2>3, <4>2, <4>3 DEF Mute
      <3>4. CASE DevHandler(c, x)
        BY <1>6, <2>3, <3>2, <3>4, TaleEvent
      <3>5. CASE RelayHandler(c, x)
        <4>1. captured' = captured
          BY <3>5 DEF RelayHandler, RelayIdle, RelayStart, RelayList, RelayPause, RelayPauseAgain,
                      RelayResume, RelayResumeAgain, RelayStop, Answer, RelayUnchanged, logVars, Fails,
                      ProcessEnds
        <4> QED BY <1>6, <2>3, <3>2, <3>5, <4>1, TaleRelay DEF Within
      <3>6. CASE ResolveFreed(c, x) \/ ResolveIncomplete(c, x) \/ ResolveWritten(c, x)
        <4>1. captured' = captured
          BY <3>6 DEF ResolveFreed, ResolveIncomplete, ResolveWritten, logVars, Fails, ProcessEnds
        <4> QED BY <1>6, <2>3, <3>2, <3>6, <4>1, TaleUnseen DEF Within
      <3> QED BY <3>1, <3>3, <3>4, <3>5, <3>6
    <2> QED BY <2>2, <2>3
  <1>7. Fails(c) => Departs(c)
    BY DEF Fails, Departs
  <1> QED BY <1>2, <1>3, <1>4, <1>5, <1>6, <1>7

-----------------------------------------------------------------------------
(* What each side leaves to the other *)

\* what a client does leaves the server alone,
ServerStays ==
    /\ UNCHANGED <<virt, emitted>>
    /\ proc'[Server] = proc[Server] /\ state'[Server] = state[Server]
    /\ devices'[Server] = devices[Server] /\ streams'[Server] = streams[Server]
    /\ batch'[Server] = batch[Server]

\* and what the server does the client.
ClientStays(c) ==
    /\ captured' = captured
    /\ proc'[c] = proc[c] /\ state'[c] = state[c] /\ peerState'[c] = peerState[c]
    /\ devices'[c] = devices[c] /\ streams'[c] = streams[c]
    /\ exiting[c] => exiting'[c]

\* A client that ends, goes over its batch or starts does not touch the server.
LEMMA ClientAside ==
  ASSUME TypeInv, Logs, NEW c \in Clients,
         Departs(c) \/ Dispatch(c) \/ Resolve(c) \/ ClientStart(c)
  PROVE  ServerStays
  <1>0. c \in Daemons /\ c # Server /\ Server \in Daemons
    BY ClientLemma
  <1>1. ASSUME Departs(c) PROVE ServerStays
    <2>1. PICK how, p : ProcessEnds(c, how, p)
      BY <1>1 DEF Departs
    <2>2. /\ UNCHANGED <<emitted, virt, state>> /\ proc' = [proc EXCEPT ![c] = how]
          /\ devices' = [devices EXCEPT ![c] = <<>>] /\ streams' = [streams EXCEPT ![c] = <<>>]
          /\ batch' = [batch EXCEPT ![c] = {}]
      BY <1>0, <2>1 DEF ProcessEnds, logVars
    <2> QED BY <1>0, <2>2 DEF ServerStays, TypeInv
  <1>2. CASE Dispatch(c)
    <2>1. \A k, E : ~Replays(c, k, E)
      <3> SUFFICES ASSUME NEW k, NEW E, Replays(c, k, E) PROVE FALSE
        OBVIOUS
      <3>1. UdevStream(k) \in NamesOf(c)
        BY <1>0, StreamFacts DEF Replays, ReadySet
      <3> QED BY <1>0, <3>1, NamesLemma DEF UdevStream
    <2>2. virt' = virt
      <3>1. virt' = (virt \cup {k \in Devices : Replays(c, k, {"down"})})
                       \ {k \in Devices : Replays(c, k, {"up", "release"})}
        BY <1>2 DEF Dispatch
      <3>2. {k \in Devices : Replays(c, k, {"down"})} = {} /\ {k \in Devices : Replays(c, k, {"up", "release"})} = {}
        BY <2>1
      <3> QED BY <3>1, <3>2
    <2>3. emitted' = emitted
      <3>1. emitted' = [k \in Devices |-> emitted[k]]
        BY <1>2, <2>1 DEF Dispatch
      <3> QED BY <3>1 DEF Logs
    <2>4. streams'[Server] = streams[Server]
      BY <1>0, <1>2, PassStreams
    <2>5. UNCHANGED <<proc, state, devices>> /\ batch' = [batch EXCEPT ![c] = ReadySet(c)]
      BY <1>2 DEF Dispatch
    <2>6. batch'[Server] = batch[Server]
      BY <1>0, <2>5 DEF TypeInv
    <2> QED BY <2>2, <2>3, <2>4, <2>5, <2>6 DEF ServerStays
  <1>3. CASE ClientStart(c)
    <2>1. streams'[Server] = streams[Server]
      BY <1>0, <1>3, StartStreams
    <2>2. /\ UNCHANGED <<state, virt, emitted, batch>> /\ proc' = [proc EXCEPT ![c] = "running"]
          /\ devices' = [devices EXCEPT ![c] = [i \in DOMAIN DeviceArg[c] |-> [id |-> DeviceArg[c][i], grabbed |-> TRUE]]]
      BY <1>3 DEF ClientStart, inputVars, logVars
    <2>3. proc'[Server] = proc[Server] /\ devices'[Server] = devices[Server]
      BY <1>0, <2>2 DEF TypeInv
    <2> QED BY <2>1, <2>2, <2>3 DEF ServerStays
  <1>4. CASE Resolve(c) /\ ~Fails(c)
    <2>1. PICK x \in batch[c] :
             \/ ResolveFreed(c, x) \/ ResolveIncomplete(c, x) \/ ResolveClosed(c, x)
             \/ ResolveWritten(c, x)
             \/ PeerHandler(c, x) \/ RelayHandler(c, x) \/ DevHandler(c, x)
      BY <1>4 DEF Resolve, CloseCrashes
    <2>2. UNCHANGED emitted
      BY <1>4, <2>1 DEF ResolveFreed, ResolveIncomplete, ResolveClosed, ResolveWritten, logVars,
           PeerHandler, PeerDevCrt, PeerUpdGrab, PeerEvent, PeerPause, PeerResume, PeerControl,
           PeerStopClient, PeerStopServer, PeerStopCrashes, PeerUnchanged,
           RelayHandler, RelayIdle, RelayStart, RelayList, RelayPause, RelayPauseAgain,
           RelayResume, RelayResumeAgain, RelayStop, Answer, RelayUnchanged, DevHandler
    <2>4. CASE \A y : ~ResolveClosed(c, y)
      <3>1. PICK y : Resolved(c, y)
        BY <1>0, <1>4, <2>4, ResolveMoves
      <3>2. /\ proc' = proc /\ streams'[Server] = streams[Server]
            /\ batch' = [batch EXCEPT ![c] = @ \ {y}]
            /\ devices' = [devices EXCEPT ![c] = devices'[c]]
            /\ state' = [state EXCEPT ![c] = state'[c]]
            /\ virt' = virt
        BY <1>0, <3>1 DEF Resolved, StreamsResolved, InputsResolved, PeerResolved
      <3>3. batch'[Server] = batch[Server]
        BY <1>0, <3>2 DEF TypeInv
      <3>4. devices'[Server] = devices[Server] /\ state'[Server] = state[Server]
        BY ONLY <1>0, <3>2, TypeInv DEF TypeInv
      <3> QED BY <2>2, <3>2, <3>3, <3>4 DEF ServerStays
    <2>3. ASSUME NEW y, ResolveClosed(c, y) PROVE ServerStays
      <3>1. UNCHANGED <<proc, state, devices, virt>> /\ batch' = [batch EXCEPT ![c] = @ \ {y}]
            /\ streams' = [streams EXCEPT ![c] = Without(streams[c], {y})]
        BY <1>0, <2>3, ClosedStream
      <3>2. batch'[Server] = batch[Server] /\ streams'[Server] = streams[Server]
        BY <1>0, <3>1 DEF TypeInv
      <3> QED BY <2>2, <3>1, <3>2 DEF ServerStays
    <2> QED BY <2>3, <2>4
  <1>5. Fails(c) => Departs(c)
    BY DEF Fails, Departs
  <1> QED BY <1>1, <1>2, <1>3, <1>4, <1>5

\* A server that ends or goes over its batch does not touch a client.
LEMMA ServerAside ==
  ASSUME TypeInv, NEW c \in Clients, Departs(Server) \/ Dispatch(Server) \/ Resolve(Server)
  PROVE  ClientStays(c)
  <1>0. c \in Daemons /\ c # Server /\ Server \in Daemons
    BY ClientLemma
  <1>1. ASSUME Departs(Server) PROVE ClientStays(c)
    <2>1. PICK how, p : ProcessEnds(Server, how, p)
      BY <1>1 DEF Departs
    <2>2. /\ UNCHANGED <<captured, state, peerState, exiting>>
          /\ proc' = [proc EXCEPT ![Server] = how]
          /\ devices' = [devices EXCEPT ![Server] = <<>>]
          /\ streams' = [streams EXCEPT ![Server] = <<>>]
      BY <2>1 DEF ProcessEnds, logVars
    <2> QED BY <1>0, <2>2 DEF ClientStays, TypeInv
  <1>2. CASE Dispatch(Server)
    <2>1. streams'[c] = streams[c]
      BY <1>0, <1>2, PassStreams
    <2>2. UNCHANGED <<captured, proc, exiting, state, devices>>
          /\ peerState' \in {peerState, [peerState EXCEPT ![Server] = "CONNECTED"]}
      BY <1>2 DEF Dispatch
    <2>3. peerState'[c] = peerState[c]
      BY <1>0, <2>2 DEF TypeInv
    <2> QED BY <2>1, <2>2, <2>3 DEF ClientStays
  <1>3. CASE Resolve(Server)
    <2>1. CASE Fails(Server)
      BY <1>1, <2>1 DEF Fails, Departs
    <2>2. CASE ~Fails(Server)
      <3>1. captured' = captured
        <4>1. PICK x \in batch[Server] :
                 \/ ResolveFreed(Server, x) \/ ResolveIncomplete(Server, x) \/ ResolveClosed(Server, x)
                 \/ ResolveWritten(Server, x)
                 \/ PeerHandler(Server, x) \/ RelayHandler(Server, x) \/ DevHandler(Server, x)
          BY <1>3, <2>2 DEF Resolve, CloseCrashes
        <4>2. ~DevHandler(Server, x)
          <5> SUFFICES ASSUME DevHandler(Server, x) PROVE FALSE
            OBVIOUS
          <5>1. x \in DOMAIN streams[Server] /\ x[1] = "dev"
            BY DEF DevHandler, HasRead
          <5>2. x \in NamesOf(Server)
            BY <1>0, <5>1, StreamFacts
          <5> QED BY <1>0, <5>1, <5>2, NamesLemma
        <4> QED BY <2>2, <4>1, <4>2 DEF ResolveFreed, ResolveIncomplete, ResolveClosed, ResolveWritten, logVars,
             PeerHandler, PeerDevCrt, PeerUpdGrab, PeerEvent, PeerPause, PeerResume, PeerControl,
             PeerStopClient, PeerStopServer, PeerStopCrashes, PeerUnchanged,
             RelayHandler, RelayIdle, RelayStart, RelayList, RelayPause, RelayPauseAgain,
             RelayResume, RelayResumeAgain, RelayStop, Answer, RelayUnchanged
      <3>2. CASE \A y : ~ResolveClosed(Server, y)
        <4>1. PICK y : Resolved(Server, y)
          BY <1>0, <1>3, <2>2, <3>2, ResolveMoves
        <4>2. /\ proc' = proc /\ streams'[c] = streams[c] /\ (exiting[c] => exiting'[c])
              /\ devices' = [devices EXCEPT ![Server] = devices'[Server]]
              /\ state' = [state EXCEPT ![Server] = state'[Server]]
              /\ peerState' \in {peerState, [peerState EXCEPT ![Server] = "DISCONNECTED"]}
          BY <1>0, <4>1 DEF Resolved, StreamsResolved, InputsResolved, PeerResolved
        <4>3. devices'[c] = devices[c]
          BY ONLY <1>0, <4>2, TypeInv DEF TypeInv
        <4>4. state'[c] = state[c]
          BY ONLY <1>0, <4>2, TypeInv DEF TypeInv
        <4>5. peerState'[c] = peerState[c]
          BY ONLY <1>0, <4>2, TypeInv DEF TypeInv
        <4> QED BY <3>1, <4>2, <4>3, <4>4, <4>5 DEF ClientStays
      <3>3. ASSUME NEW y, ResolveClosed(Server, y) PROVE ClientStays(c)
        <4>1. /\ UNCHANGED <<proc, exiting, state, devices>>
              /\ streams' = [streams EXCEPT ![Server] = Without(streams[Server], {y})]
          BY <1>0, <3>3, ClosedStream
        <4>2. peerState' \in {peerState, [peerState EXCEPT ![Server] = "DISCONNECTED"]}
          BY <1>0, <3>3 DEF ResolveClosed, PeerClosed, TypeInv
        <4>3. peerState'[c] = peerState[c] /\ streams'[c] = streams[c]
          BY <1>0, <4>1, <4>2 DEF TypeInv
        <4> QED BY <3>1, <4>1, <4>3 DEF ClientStays
      <3> QED BY <3>2, <3>3
    <2> QED BY <2>1, <2>2
  <1> QED BY <1>1, <1>2, <1>3

-----------------------------------------------------------------------------
(* What the server makes of a tale *)

\* No client is told to capture a device twice.
DevicesOnce ==
    \A c \in Clients : \A i, j \in DOMAIN DeviceArg[c] : DeviceArg[c][i] = DeviceArg[c][j] => i = j

\* what the server still has to write to its copy of device k
Played(k) ==
    IF UdevStream(k) \in DOMAIN streams[Server] THEN streams[Server][UdevStream(k)].queue ELSE <<>>

\* what it writes again while that is nothing
Again(k) ==
    IF UdevStream(k) \in DOMAIN streams[Server]
    THEN streams[Server][UdevStream(k)].fallback.msg.val ELSE None

\* The stream of a copy reads nothing, is ready while something is queued, and in the batch
\* while something of it is written; from then on it has something to write again.
Udev(k) ==
    LET s == UdevStream(k)
    IN  s \in DOMAIN streams[Server] =>
          /\ streams[Server][s].fallback.state \in {"HEADER", "COMPLETE"}
          /\ (\/ streams[Server][s].interest = "EPOLLOUT" /\ Played(k) = <<>>
              \/ streams[Server][s].fallback.state = "COMPLETE") => Again(k) # None
          /\ Played(k) # <<>> => streams[Server][s].interest = "EPOLLOUT"
          /\ Played(k) # <<>> /\ Played(k)[1].state = "COMPLETE" => s \in batch[Server]

\* the server replays device k as one that knows x
Follows(k, x) ==
    /\ UdevStream(k) \in DOMAIN streams[Server] <=> k \in DeviceIds(Server)
    /\ Udev(k) /\ Plays(Played(k), Again(k), k \in virt, emitted[k], captured[k], x.told[k], x.paused)

\* the server has the devices of client c, held and paused as one that knows x
Mirrors(c, x) ==
    /\ state[Server] = "PAUSED" <=> x.paused
    /\ DOMAIN devices[Server] = 1..x.size
    /\ \A i \in 1..x.size : devices[Server][i].id = DeviceArg[c][i]
    /\ DevicesOnce => \A i \in 1..x.size : devices[Server][i].grabbed <=> DeviceArg[c][i] \in x.held

\* the server has no device any more
Over ==
    /\ devices[Server] = <<>> /\ virt = {}
    /\ \A k \in Devices : UdevStream(k) \notin DOMAIN streams[Server] /\ Prefix(emitted[k], captured[k])

\* what the server is, knowing x of client c
Serves(c, x) ==
    IF proc[Server] = "running" /\ ~x.ended THEN Mirrors(c, x) /\ \A k \in Devices : Follows(k, x)
    ELSE Over

\* a set of numbers has a first
LEMMA FirstOf ==
  ASSUME NEW T \in SUBSET Nat, T # {}
  PROVE  \E x \in T : \A y \in T : ~(y < x)
  <1> DEFINE R == {ss \in Nat \X Nat : ss[1] < ss[2]}
  <1>1. IsWellFoundedOn(R, Nat)
    BY NatLessThanWellFounded DEF OpToRel
  <1>2. \A x, y \in Nat : y < x => <<y, x>> \in R
    OBVIOUS
  <1> HIDE DEF R
  <1>3. PICK x \in T : \A y \in T : ~(<<y, x>> \in R)
    BY <1>1, WFMin
  <1> QED BY <1>2, <1>3

\* a device that is there is found
LEMMA FindLemma ==
  ASSUME TypeInv, NEW d \in Daemons, NEW k \in DeviceIds(d)
  PROVE  FindById(d, k) \in DOMAIN devices[d] /\ devices[d][FindById(d, k)].id = k
  <1> DEFINE T == {i \in DOMAIN devices[d] : devices[d][i].id = k}
  <1>1. DOMAIN devices[d] = 1..Len(devices[d]) /\ Len(devices[d]) \in Nat
    BY LenProperties DEF TypeInv, DeviceLists
  <1>2. T \in SUBSET Nat /\ T # {}
    BY <1>1 DEF DeviceIds
  <1>3. PICK i \in T : \A j \in T : ~(j < i)
    BY <1>2, FirstOf
  <1>4. \A j \in 1..(i - 1) : devices[d][j].id # k
    <2> SUFFICES ASSUME NEW j \in 1..(i - 1), devices[d][j].id = k PROVE FALSE
      OBVIOUS
    <2>1. i \in 1..Len(devices[d])
      BY <1>1
    <2>2. j \in DOMAIN devices[d] /\ j < i
      BY <1>1, <2>1
    <2> QED BY <1>3, <2>2
  <1>5. \E n \in DOMAIN devices[d] :
           devices[d][n].id = k /\ \A j \in 1..(n - 1) : devices[d][j].id # k
    BY <1>4
  <1> HIDE DEF T
  <1> QED BY <1>5 DEF FindById

\* the copies of the devices are streams of the server's
LEMMA UdevLemma ==
  ASSUME NEW k
  PROVE  /\ UdevStream(k)[1] = "udev" /\ UdevStream(k)[2] = k
         /\ \A j : UdevStream(j) = UdevStream(k) <=> j = k
         /\ \A c : PeerConn(c) # UdevStream(k)
  BY DEF UdevStream, PeerConn

\* what follows is left alone with the stream and the entry of a copy
LEMMA FollowsKept ==
  ASSUME NEW k \in Devices, NEW x, Follows(k, x), NEW y, y.told[k] = x.told[k], y.paused = x.paused,
         LET s == UdevStream(k)
         IN  /\ s \in DOMAIN streams'[Server] <=> s \in DOMAIN streams[Server]
             /\ s \in DOMAIN streams[Server] =>
                   streams'[Server][s] = streams[Server][s] /\ (s \in batch[Server] => s \in batch'[Server]),
         k \in DeviceIds(Server)' <=> k \in DeviceIds(Server),
         k \in virt' <=> k \in virt, emitted'[k] = emitted[k], captured'[k] = captured[k]
  PROVE  Follows(k, y)'
  <1>1. Played(k)' = Played(k) /\ Again(k)' = Again(k)
    BY DEF Played, Again
  <1>2. Udev(k)'
    BY <1>1 DEF Follows, Udev
  <1>3. Plays(Played(k), Again(k), k \in virt, emitted[k], captured[k], y.told[k], y.paused)'
    BY <1>1 DEF Follows
  <1> QED BY <1>2, <1>3 DEF Follows

\* What a client does only adds to what there is to replay.
LEMMA ClientServes ==
  ASSUME TypeInv, Logs, Logs', NEW c \in Clients, NEW x, Serves(c, x), ServerStays,
         \A k \in Devices : Prefix(captured[k], captured'[k])
  PROVE  Serves(c, x)'
  <1>0. Server \in Daemons
    BY DEF Daemons
  <1>1. /\ virt' = virt /\ emitted' = emitted
        /\ proc'[Server] = proc[Server] /\ state'[Server] = state[Server]
        /\ devices'[Server] = devices[Server] /\ streams'[Server] = streams[Server]
        /\ batch'[Server] = batch[Server]
    BY DEF ServerStays
  <1>2. DeviceIds(Server)' = DeviceIds(Server)
    BY <1>1 DEF DeviceIds
  <1>3. ASSUME NEW k \in Devices
        PROVE  /\ Prefix(emitted[k], captured[k]) => Prefix(emitted[k], captured'[k])
               /\ Follows(k, x) => Follows(k, x)'
    <2>1. Len(emitted[k]) \in Nat /\ Len(captured[k]) \in Nat /\ Len(captured'[k]) \in Nat
      BY LenProperties DEF Logs
    <2>2. \E S : Played(k) \in Seq(S)
      <3>1. CASE UdevStream(k) \in DOMAIN streams[Server]
        BY <1>0, <3>1, StreamFacts DEF Played
      <3>2. CASE UdevStream(k) \notin DOMAIN streams[Server]
        BY <3>2 DEF Played
      <3> QED BY <3>1, <3>2
    <2>3. PICK S : Played(k) \in Seq(S)
      BY <2>2
    <2>4. /\ Prefix(emitted[k], captured[k]) => Prefix(emitted[k], captured'[k])
          /\ Plays(Played(k), Again(k), k \in virt, emitted[k], captured[k], x.told[k], x.paused)
               => Plays(Played(k), Again(k), k \in virt, emitted[k], captured'[k], x.told[k], x.paused)
      BY <2>1, <2>3, PlaysLonger
    <2>5. Played(k)' = Played(k) /\ Again(k)' = Again(k)
      BY <1>1 DEF Played, Again
    <2>6. Udev(k) => Udev(k)'
      BY <1>1, <2>5 DEF Udev
    <2> QED BY <1>1, <1>2, <2>4, <2>5, <2>6 DEF Follows
  <1>4. Mirrors(c, x) => Mirrors(c, x)'
    BY <1>1 DEF Mirrors
  <1>5. Over => Over'
    BY <1>1, <1>3 DEF Over
  <1> QED BY <1>1, <1>3, <1>4, <1>5 DEF Serves

\* Without the server nothing is left to replay.
LEMMA EndServes ==
  ASSUME TypeInv, NEW c \in Clients, NEW x, Serves(c, x), Departs(Server)
  PROVE  Serves(c, x)'
  <1>0. Server \in Daemons
    BY DEF Daemons
  <1>1. PICK how, p : how \in {"exited", "failed"} /\ ProcessEnds(Server, how, p)
    BY DEF Departs
  <1>2. /\ UNCHANGED <<captured, emitted>> /\ proc' = [proc EXCEPT ![Server] = how]
        /\ devices' = [devices EXCEPT ![Server] = <<>>]
        /\ streams' = [streams EXCEPT ![Server] = <<>>] /\ virt' = {}
    BY <1>1 DEF ProcessEnds, logVars
  <1>3. proc'[Server] # "running" /\ devices'[Server] = <<>> /\ streams'[Server] = <<>>
    BY <1>0, <1>1, <1>2 DEF TypeInv
  <1>4. \A k \in Devices : Prefix(emitted[k], captured[k])
    BY DEF Serves, Over, Follows, Plays
  <1>5. DOMAIN streams'[Server] = {}
    BY <1>3
  <1> QED BY <1>2, <1>3, <1>4, <1>5 DEF Serves, Over

\* what leaves the copies alone changes nothing
LEMMA ServesKept ==
  ASSUME NEW c \in Clients, NEW x, Serves(c, x), UNCHANGED <<proc, state, devices, virt, captured, emitted>>,
         \A k \in Devices :
            LET s == UdevStream(k)
            IN  /\ s \in DOMAIN streams'[Server] <=> s \in DOMAIN streams[Server]
                /\ s \in DOMAIN streams[Server] =>
                      streams'[Server][s] = streams[Server][s] /\ (s \in batch[Server] => s \in batch'[Server])
  PROVE  Serves(c, x)'
  <1>1. DeviceIds(Server)' = DeviceIds(Server)
    BY DEF DeviceIds
  <1>2. Mirrors(c, x) => Mirrors(c, x)'
    BY DEF Mirrors
  <1>3. \A k \in Devices : Follows(k, x) => Follows(k, x)'
    BY <1>1, FollowsKept
  <1>4. Over => Over'
    BY DEF Over
  <1> QED BY <1>2, <1>3, <1>4 DEF Serves

\* An entry that is passed over, or answered to a relay, is none of a copy.
LEMMA RestServes ==
  ASSUME TypeInv, NEW c \in Clients, NEW x, Serves(c, x), NEW s, Rests(s)
  PROVE  Serves(c, x)'
  <1>0. Server \in Daemons
    BY DEF Daemons
  <1>1. /\ UNCHANGED <<proc, state, devices, virt, captured, emitted>>
        /\ DOMAIN streams'[Server] \subseteq DOMAIN streams[Server]
        /\ \A y \in DOMAIN streams[Server] \ {s} :
              y \in DOMAIN streams'[Server] /\ streams'[Server][y] = streams[Server][y]
        /\ batch' = [batch EXCEPT ![Server] = @ \ {s}]
        /\ s \in DOMAIN streams[Server] /\ s[1] # "relay" =>
              /\ streams'[Server] = streams[Server]
              /\ NextItem(streams[Server][s]).state \in {"HEADER", "BODY"}
    BY DEF Rests, Busy
  <1>2. batch'[Server] = batch[Server] \ {s}
    BY <1>0, <1>1 DEF TypeInv
  <1>3. CASE \A k \in Devices : UdevStream(k) \in DOMAIN streams[Server] => UdevStream(k) # s
    BY <1>1, <1>2, <1>3, ServesKept
  <1>4. ASSUME NEW k \in Devices, UdevStream(k) \in DOMAIN streams[Server], UdevStream(k) = s
        PROVE  Serves(c, x)'
    <2>1. /\ streams'[Server] = streams[Server]
          /\ NextItem(streams[Server][s]).state \in {"HEADER", "BODY"}
      BY <1>1, <1>4, UdevLemma
    <2>2. proc[Server] = "running" /\ ~x.ended /\ Mirrors(c, x) /\ \A j \in Devices : Follows(j, x)
      BY <1>4 DEF Serves, Over
    <2>3. Mirrors(c, x)' /\ DeviceIds(Server)' = DeviceIds(Server)
      BY <1>1, <2>2 DEF Mirrors, DeviceIds
    <2>4. \A j \in Devices \ {k} : Follows(j, x)'
      BY <1>1, <1>2, <1>4, <2>1, <2>2, <2>3, FollowsKept, UdevLemma
    <2>5. Played(k)' = Played(k) /\ Played(k) = streams[Server][s].queue /\ Again(k)' = Again(k)
      BY <1>4, <2>1 DEF Played, Again
    <2>6. Played(k) # <<>> => Played(k)[1].state # "COMPLETE"
      BY <2>1, <2>5 DEF NextItem
    <2>7. Follows(k, x)
      BY <2>2
    <2>8. Udev(k)'
      BY <1>4, <2>1, <2>5, <2>6, <2>7 DEF Follows, Udev
    <2>9. Follows(k, x)'
      BY <1>1, <2>1, <2>3, <2>5, <2>7, <2>8 DEF Follows
    <2> QED BY <1>1, <2>2, <2>3, <2>4, <2>9 DEF Serves
  <1> QED BY <1>3, <1>4

\* No copy is closed by a read,
LEMMA ClosedServes ==
  ASSUME TypeInv, NEW c \in Clients, NEW x, Serves(c, x), NEW s, ResolveClosed(Server, s)
  PROVE  Serves(c, x)'
  <1>0. Server \in Daemons
    BY DEF Daemons
  <1>1. /\ s \in DOMAIN streams[Server] /\ streams[Server][s].fallback.state = "CLOSED"
        /\ DOMAIN streams'[Server] = DOMAIN streams[Server] \ {s}
        /\ \A y \in DOMAIN streams[Server] \ {s} : streams'[Server][y] = streams[Server][y]
        /\ batch' = [batch EXCEPT ![Server] = @ \ {s}]
        /\ UNCHANGED <<proc, exiting, state, devices, virt, pipe, backlog, captured, emitted>>
    BY <1>0, ClosedStream
  <1>2. batch'[Server] = batch[Server] \ {s}
    BY <1>0, <1>1 DEF TypeInv
  <1>3. ASSUME NEW k \in Devices PROVE UdevStream(k) # s
    <2> SUFFICES ASSUME UdevStream(k) = s PROVE FALSE
      OBVIOUS
    <2>1. ~Over
      BY <1>1 DEF Over
    <2> QED BY <1>1, <2>1 DEF Serves, Follows, Udev
  <1> QED BY <1>1, <1>2, <1>3, ServesKept

\* and what is written of one leaves its queue, if it was there.
LEMMA WrittenServes ==
  ASSUME TypeInv, NEW c \in Clients, NEW x, Serves(c, x), NEW s, s[1] = "udev", ResolveWritten(Server, s)
  PROVE  Serves(c, x)'
  <1>0. Server \in Daemons
    BY DEF Daemons
  <1> DEFINE old == streams[Server][s]
             new == streams'[Server][s]
  <1>1. /\ s \in DOMAIN streams[Server] /\ DOMAIN streams'[Server] = DOMAIN streams[Server]
        /\ \A y \in DOMAIN streams[Server] : y # s => streams'[Server][y] = streams[Server][y]
        /\ old.queue = <<>> => new.queue = <<>>
        /\ old.queue # <<>> => new.queue = Tail(old.queue)
        /\ new.interest = "EPOLLOUT" /\ new.fallback.msg = NextItem(old).msg
        /\ new.fallback.state = "HEADER"
    BY <1>0, WrittenStream
  <1>2. PICK k \in Devices : s = UdevStream(k)
    BY <1>0, <1>1, StreamFacts, NamesLemma
  <1>3. /\ UNCHANGED <<proc, state, devices, virt, captured, emitted>>
        /\ batch' = [batch EXCEPT ![Server] = @ \ {s}]
        /\ NextItem(old).state = "COMPLETE"
    BY DEF ResolveWritten, Finish, inputVars, logVars
  <1>4. batch'[Server] = batch[Server] \ {s}
    BY <1>0, <1>3 DEF TypeInv
  <1> HIDE DEF old, new
  <1>5. proc[Server] = "running" /\ ~x.ended /\ Mirrors(c, x) /\ \A j \in Devices : Follows(j, x)
    BY <1>1, <1>2 DEF Serves, Over
  <1>6. Mirrors(c, x)' /\ DeviceIds(Server)' = DeviceIds(Server)
    BY <1>3, <1>5 DEF Mirrors, DeviceIds
  <1>7. ASSUME NEW j \in Devices \ {k} PROVE Follows(j, x)'
    <2>1. UdevStream(j) # s
      BY <1>2, UdevLemma
    <2>2. /\ UdevStream(j) \in DOMAIN streams'[Server] <=> UdevStream(j) \in DOMAIN streams[Server]
          /\ UdevStream(j) \in DOMAIN streams[Server] =>
                /\ streams'[Server][UdevStream(j)] = streams[Server][UdevStream(j)]
                /\ UdevStream(j) \in batch[Server] => UdevStream(j) \in batch'[Server]
      BY <1>1, <1>4, <2>1
    <2> QED BY <1>3, <1>5, <1>6, <2>2, FollowsKept
  <1>8. /\ Played(k) = old.queue /\ Played(k)' = new.queue
        /\ Again(k) = old.fallback.msg.val /\ Again(k)' = new.fallback.msg.val
    BY <1>1, <1>2 DEF Played, Again, old, new
  <1>9. Played(k) \in Seq(QueueItems(Server, s, exiting))
    BY <1>0, <1>1, <1>8, StreamFacts DEF old
  <1>10. Follows(k, x)
    BY <1>5
  <1>11. Plays(Played(k)', Again(k)', k \in virt, emitted[k], captured[k], x.told[k], x.paused)
    <2>1. CASE Played(k) = <<>>
      <3>1. Played(k)' = Played(k) /\ Again(k)' = Again(k)
        BY <1>1, <1>8, <2>1 DEF NextItem
      <3> QED BY <1>10, <3>1 DEF Follows
    <2>2. CASE Played(k) # <<>>
      <3>1. /\ Played(k)' = Tail(Played(k)) /\ Again(k)' = Played(k)[1].msg.val
            /\ Played(k)[1].state = "COMPLETE"
        BY <1>1, <1>3, <1>8, <2>2 DEF NextItem
      <3> QED BY <1>9, <1>10, <2>2, <3>1, PlaysPops DEF Follows
    <2> QED BY <2>1, <2>2
  <1>12. Played(k)' # <<>> => Played(k)'[1].state # "COMPLETE"
    <2>1. SUFFICES ASSUME Played(k)' # <<>> PROVE Played(k)'[1].state # "COMPLETE"
      OBVIOUS
    <2>2. Played(k) # <<>> /\ Played(k)' = Tail(Played(k))
      BY <1>1, <1>8, <2>1
    <2> DEFINE q == Played(k)
               S == QueueItems(Server, s, exiting)
    <2>3. q \in Seq(S) /\ q # <<>> /\ Tail(q) # <<>> /\ FirstOnly(q)
      BY <1>9, <1>10, <2>1, <2>2 DEF Follows, Plays
    <2> HIDE DEF q, S
    <2>4. /\ Len(Tail(q)) = Len(q) - 1 /\ Tail(q) \in Seq(S) /\ Len(q) \in Nat
          /\ \A i \in 1..Len(Tail(q)) : Tail(q)[i] = q[i + 1]
      BY <2>3
    <2>5. Len(Tail(q)) >= 1
      BY <2>3, <2>4, EmptySeq
    <2>6. Tail(q)[1] = q[2] /\ 2 \in DOMAIN q
      BY <2>3, <2>4, <2>5
    <2>7. Tail(q)[1].state # "COMPLETE"
      BY <2>3, <2>6 DEF FirstOnly
    <2> QED BY <2>2, <2>7 DEF q
  <1>13. Played(k)' = <<>> => Again(k)' # None
    <2>1. CASE Played(k) = <<>>
      <3>1. Again(k)' = Again(k)
        BY <1>8, <1>1, <2>1 DEF NextItem
      <3>2. old.fallback.state = "COMPLETE"
        BY <1>3, <1>8, <2>1 DEF NextItem
      <3>3. Udev(k) /\ streams[Server][UdevStream(k)].fallback.state = "COMPLETE"
        BY <1>2, <1>10, <3>2 DEF Follows, old
      <3>4. Again(k) # None
        BY <1>1, <1>2, <3>3 DEF Udev
      <3> QED BY <3>1, <3>4
    <2>2. CASE Played(k)' = <<>> /\ Played(k) # <<>>
      <3> DEFINE q == Played(k)
                 S == QueueItems(Server, s, exiting)
      <3>1. q \in Seq(S) /\ q # <<>> /\ Tail(q) = <<>> /\ Echoes(q, Again(k), emitted[k])
        BY <1>1, <1>8, <1>9, <1>10, <2>2 DEF Follows, Plays
      <3> HIDE DEF q, S
      <3>2. Len(Tail(q)) = Len(q) - 1 /\ Len(q) \in Nat
        BY <3>1
      <3>5. Len(Tail(q)) = 0
        <4>1. Len(<<>>) = 0
          OBVIOUS
        <4> QED BY <3>1, <4>1
      <3>6. Len(q) = 1
        BY <3>2, <3>5
      <3>3. q[1].msg.val \in KeyEvents \cup Reports
        BY <3>1, <3>6 DEF Echoes
      <3>4. Again(k)' = q[1].msg.val
        BY <1>1, <1>8, <2>2 DEF NextItem, q
      <3> QED BY <3>3, <3>4 DEF KeyEvents, Reports, None
    <2> QED BY <2>1, <2>2
  <1>14. Udev(k)'
    <2>1. /\ streams'[Server][s].fallback.state = "HEADER"
          /\ streams'[Server][s].interest = "EPOLLOUT"
      BY <1>1 DEF new
    <2> QED BY <1>2, <1>12, <1>13, <2>1 DEF Udev
  <1>15. Follows(k, x)'
    <2>1. UdevStream(k) \in DOMAIN streams[Server]
      BY <1>1, <1>2
    <2>2. k \in DeviceIds(Server)' /\ s \in DOMAIN streams'[Server]
      BY <1>1, <1>6, <1>10, <2>1 DEF Follows
    <2>3. Plays(Played(k), Again(k), k \in virt, emitted[k], captured[k], x.told[k], x.paused)'
      BY <1>3, <1>11
    <2> QED BY <1>2, <1>14, <2>2, <2>3 DEF Follows
  <1> QED BY <1>3, <1>5, <1>6, <1>7, <1>15 DEF Serves

\* A pass of the server writes the first item of each copy that has one: nothing of it was
\* written, as its batch was empty.
LEMMA PassServes ==
  ASSUME TypeInv, Logs, NEW c \in Clients, NEW x, Serves(c, x), Dispatch(Server)
  PROVE  Serves(c, x)'
  <1>0. Server \in Daemons
    BY DEF Daemons
  <1>1. /\ batch[Server] = {} /\ batch' = [batch EXCEPT ![Server] = ReadySet(Server)]
        /\ UNCHANGED <<proc, state, devices, captured>>
        /\ virt' = (virt \cup {k \in Devices : Replays(Server, k, {"down"})})
                     \ {k \in Devices : Replays(Server, k, {"up", "release"})}
        /\ emitted' = [k \in Devices |->
                         IF Replays(Server, k, Events) /\ streams[Server][UdevStream(k)].queue # <<>>
                         THEN Append(emitted[k], streams[Server][UdevStream(k)].queue[1].msg.val)
                         ELSE emitted[k]]
    BY DEF Dispatch, InLoop
  <1>2. batch'[Server] = ReadySet(Server)
    BY <1>0, <1>1 DEF TypeInv
  <1>3. /\ DOMAIN streams'[Server] = DOMAIN streams[Server] \cup NewStreams(Server)
        /\ \A s \in DOMAIN streams[Server] :
              streams'[Server][s] = IF s \in ReadySet(Server) THEN AfterIo(Server, s) ELSE streams[Server][s]
    BY <1>0, PassStreams
  <1>4. \A k : UdevStream(k) \notin NewStreams(Server)
    <2>1. Elems(backlog[Tcp]) \subseteq PeersOf(Server) /\ Elems(backlog[Server]) \subseteq RelaysOf(Server)
      <3>1. backlog[Tcp] \in Seq(PeersOf(Server)) /\ backlog[Server] \in Seq(RelaysOf(Server))
        BY <1>0 DEF TypeInv
      <3> QED BY <3>1 DEF Elems
    <2>2. NewStreams(Server) \subseteq PeersOf(Server) \cup RelaysOf(Server)
      <3>1. AcceptsPeer(Server) => Head(backlog[Tcp]) \in PeersOf(Server)
        BY DEF AcceptsPeer, TypeInv
      <3>2. \A i \in DOMAIN Accepted(Server) : Accepted(Server)[i] \in RelaysOf(Server)
        BY <1>0 DEF Accepted, TypeInv
      <3> QED BY <3>1, <3>2 DEF NewStreams
    <2> QED BY <2>2 DEF PeersOf, RelaysOf, UdevStream, PeerConn, RelayConn
  <1>5. DeviceIds(Server)' = DeviceIds(Server)
    BY <1>1 DEF DeviceIds
  <1>6. Mirrors(c, x) => Mirrors(c, x)'
    BY <1>1 DEF Mirrors
  <1>7. ASSUME NEW k \in Devices
        PROVE  /\ UdevStream(k) \notin ReadySet(Server) => (k \in virt' <=> k \in virt)
               /\ UdevStream(k) \notin ReadySet(Server) \/ streams[Server][UdevStream(k)].queue = <<>>
                     => emitted'[k] = emitted[k]
    <2>1. UdevStream(k) \notin ReadySet(Server) => \A E : ~Replays(Server, k, E)
      BY DEF Replays
    <2> QED BY <1>1, <2>1
  <1>8. Over => Over'
    <2> SUFFICES ASSUME Over PROVE Over'
      OBVIOUS
    <2>1. virt' = {}
      <3>1. \A k \in virt' : k \in Devices
        BY <1>1 DEF Over
      <3>2. \A k \in Devices : k \notin virt'
        BY <1>7 DEF Over, ReadySet
      <3> QED BY <3>1, <3>2
    <2>2. \A k \in Devices : UdevStream(k) \notin DOMAIN streams'[Server] /\ emitted'[k] = emitted[k]
      BY <1>3, <1>4, <1>7 DEF Over, ReadySet
    <2> QED BY <1>1, <2>1, <2>2 DEF Over
  <1>9. ASSUME NEW k \in Devices, Follows(k, x) PROVE Follows(k, x)'
    <2> DEFINE s == UdevStream(k)
    <2>1. s \in DOMAIN streams'[Server] <=> s \in DOMAIN streams[Server]
      BY <1>3, <1>4
    <2>2. s[1] = "udev" /\ s[2] = k /\ ~IsSocket(s)
      BY UdevLemma DEF IsSocket
    <2>3. CASE s \notin DOMAIN streams[Server]
      <3>1. Played(k)' = Played(k) /\ Again(k)' = Again(k)
        BY <2>1, <2>3 DEF Played, Again
      <3>2. k \in virt' <=> k \in virt
        BY <1>7, <2>3 DEF ReadySet
      <3>3. emitted'[k] = emitted[k] /\ captured'[k] = captured[k]
        BY <1>1, <1>7, <2>3 DEF ReadySet
      <3>4. Plays(Played(k), Again(k), k \in virt, emitted[k], captured[k], x.told[k], x.paused)'
        BY <1>9, <3>1, <3>2, <3>3 DEF Follows
      <3>5. Udev(k)'
        BY <2>1, <2>3 DEF Udev
      <3> QED BY <1>5, <1>9, <2>1, <3>4, <3>5 DEF Follows
    <2>4. CASE s \in DOMAIN streams[Server] /\ Played(k) = <<>>
      <3> DEFINE old == streams[Server][s]
                 new == streams'[Server][s]
      <3>1. old.queue = <<>> /\ NextItem(old) = old.fallback
        BY <2>4 DEF Played, NextItem
      <3>2. s \in ReadySet(Server) => old.interest = "EPOLLOUT"
        BY <2>2 DEF ReadySet, Ready
      <3>3. old \in Records(Server, s, exiting)
        BY <1>0, <2>4, StreamFacts DEF StreamsOf
      <3>4. new = IF s \in ReadySet(Server) THEN [old EXCEPT !.fallback.state = "COMPLETE"] ELSE old
        BY <1>3, <2>2, <2>4, <3>1 DEF AfterIo
      <3>5. /\ new.queue = old.queue /\ new.interest = old.interest
            /\ new.fallback.msg = old.fallback.msg
            /\ s \in ReadySet(Server) => new.fallback.state = "COMPLETE"
            /\ s \notin ReadySet(Server) => new = old
        <4>1. old.fallback = [old.fallback EXCEPT !.state = old.fallback.state]
              /\ "state" \in DOMAIN old.fallback /\ "msg" \in DOMAIN old.fallback
          BY <3>3 DEF Records, FallbackItems
        <4> QED BY <3>3, <3>4, <4>1 DEF Records
      <3>6. Played(k)' = Played(k) /\ Again(k)' = Again(k) /\ Again(k) = old.fallback.msg.val
        BY <2>1, <2>4, <3>5 DEF Played, Again
      <3>7. emitted'[k] = emitted[k] /\ captured'[k] = captured[k]
        BY <1>1, <1>7, <3>1
      <3>8. k \in virt' => k \in virt \/ Again(k) = "down"
        <4>1. Replays(Server, k, {"down"}) => Again(k) = "down"
          BY <3>1, <3>6 DEF Replays
        <4> QED BY <1>1, <4>1
      <3>9. Plays(<<>>, Again(k), k \in virt, emitted[k], captured[k], x.told[k], x.paused)
        BY <1>9, <2>4 DEF Follows
      <3>10. Plays(Played(k), Again(k), k \in virt, emitted[k], captured[k], x.told[k], x.paused)'
        <4> DEFINE f == Again(k)
                   v == k \in virt
                   w == k \in virt'
                   E == emitted[k]
                   C == captured[k]
                   a == x.told[k]
        <4>1. Plays(<<>>, f, v, E, C, a, x.paused)
          BY <3>9
        <4>2. w => v \/ f = "down"
          BY <3>8
        <4> HIDE DEF f, v, w, E, C, a, s
        <4>3. Plays(<<>>, f, w, E, C, a, x.paused)
          BY ONLY <4>1, <4>2, PlaysAgain
        <4> QED BY <2>4, <3>6, <3>7, <4>3 DEF f, w, E, C, a
      <3> HIDE DEF old, new
      <3>11. Udev(k)'
        <4>1. /\ old.fallback.state \in {"HEADER", "COMPLETE"}
              /\ (old.interest = "EPOLLOUT" \/ old.fallback.state = "COMPLETE") => Again(k) # None
          BY <1>9, <2>4 DEF Follows, Udev, old
        <4>2. /\ new.fallback.state \in {"HEADER", "COMPLETE"}
              /\ (new.interest = "EPOLLOUT" \/ new.fallback.state = "COMPLETE") => Again(k)' # None
          BY <3>2, <3>5, <3>6, <4>1
        <4> QED BY <2>4, <3>6, <4>2 DEF Udev, new
      <3> QED BY <1>5, <1>9, <2>1, <3>10, <3>11 DEF Follows
    <2>5. CASE s \in DOMAIN streams[Server] /\ Played(k) # <<>>
      <3> DEFINE q == Played(k)
                 e == q[1].msg.val
      <3>1. q = streams[Server][s].queue /\ streams[Server][s].interest = "EPOLLOUT"
            /\ q[1].state # "COMPLETE"
        BY <1>1, <1>9, <2>5 DEF Played, Follows, Udev
      <3>2. s \in ReadySet(Server)
        BY <2>2, <2>5, <3>1 DEF ReadySet, Ready
      <3>3. streams'[Server][s] = [streams[Server][s] EXCEPT !.queue[1].state = "COMPLETE"]
        BY <1>3, <2>2, <2>5, <3>1, <3>2 DEF AfterIo
      <3>4. q \in Seq(QueueItems(Server, s, exiting)) /\ streams[Server][s] \in Records(Server, s, exiting)
        BY <1>0, <2>5, <3>1, StreamFacts DEF StreamsOf
      <3> DEFINE R == streams'[Server][s].queue
      <3>5. 1 \in DOMAIN q /\ q[1] \in QueueItems(Server, s, exiting)
        BY <2>5, <3>4, HeadsLemma
      <3>6. /\ R = [q EXCEPT ![1].state = "COMPLETE"]
            /\ streams'[Server][s].fallback = streams[Server][s].fallback
            /\ streams'[Server][s].interest = streams[Server][s].interest
        BY <3>1, <3>3, <3>4 DEF Records
      <3>7. Played(k)' = R /\ Again(k)' = Again(k)
        BY <2>1, <2>5, <3>6 DEF Played, Again
      <3>8. /\ DOMAIN R = DOMAIN q /\ \A i \in DOMAIN q : i # 1 => R[i] = q[i]
            /\ R[1] = [q[1] EXCEPT !.state = "COMPLETE"]
        BY <3>5, <3>6
      <3>9. R[1].msg = q[1].msg /\ R[1].state = "COMPLETE"
        BY <3>5, <3>8 DEF QueueItems
      <3>10. Len(R) = Len(q)
        <4>1. DOMAIN q = 1..Len(q) /\ Len(q) \in Nat
          BY <3>4
        <4>2. R \in Seq(QueueItems(Server, s, exiting))
          <5>1. [q[1] EXCEPT !.state = "COMPLETE"] \in QueueItems(Server, s, exiting)
            BY <3>5 DEF QueueItems, ItemStates
          <5> QED BY <2>5, <3>4, <3>6, <5>1, HeadsLemma
        <4>3. DOMAIN R = 1..Len(R) /\ Len(R) \in Nat
          BY <4>2
        <4> QED BY <3>8, <4>1, <4>3
      <3>11. \A E : Replays(Server, k, E) <=> e \in E
        BY <2>5, <3>1, <3>2 DEF Replays, NextItem
      <3>12. e \in Values
        BY <2>2, <3>5 DEF QueueItems, Sent, Written, Messages
      <3>13. emitted[k] \in Seq(Values)
        <4>1. emitted[k] \in Seq(Events) /\ Events \subseteq Values
          BY DEF Logs, Values
        <4> QED BY <4>1
      <3>14. emitted'[k] = IF e \in Events THEN Append(emitted[k], e) ELSE emitted[k]
        BY <1>1, <2>5, <3>1, <3>11 DEF Events
      <3>15. k \in virt' => (k \in virt \/ e = "down") /\ e \notin {"up", "release"}
        BY <1>1, <3>11
      <3> DEFINE w == k \in virt'
                 F == emitted'[k]
      <3>16. Plays(q, Again(k), k \in virt, emitted[k], captured[k], x.told[k], x.paused)
        BY <1>9 DEF Follows
      <3> HIDE DEF q, R, w, F
      <3>17. Plays(R, Again(k), w, F, captured[k], x.told[k], x.paused)
        <4>1. q # <<>>
          BY <2>5 DEF q
        <4>2. w => (k \in virt \/ q[1].msg.val = "down") /\ q[1].msg.val \notin {"up", "release"}
          BY <3>15 DEF w
        <4>3. F = IF q[1].msg.val \in Events THEN Append(emitted[k], q[1].msg.val) ELSE emitted[k]
          BY <3>14 DEF F
        <4>4. q[1].msg.val \in Values
          BY <3>12
        <4> DEFINE v == k \in virt
                   f == Again(k)
                   S == QueueItems(Server, s, exiting)
                   G == emitted[k]
                   C == captured[k]
                   a == x.told[k]
        <4>5. w => (v \/ q[1].msg.val = "down") /\ q[1].msg.val \notin {"up", "release"}
          BY <4>2
        <4>6. q \in Seq(S) /\ G \in Seq(Values) /\ Plays(q, f, v, G, C, a, x.paused)
          BY <3>4, <3>13, <3>16 DEF f
        <4>7. F = IF q[1].msg.val \in Events THEN Append(G, q[1].msg.val) ELSE G
          BY <4>3
        <4>8. q[1].state # "COMPLETE" /\ R[1].msg = q[1].msg /\ R[1].state = "COMPLETE"
          BY <3>1, <3>9
        <4>9. DOMAIN R = DOMAIN q /\ Len(R) = Len(q) /\ \A i \in DOMAIN q : i # 1 => R[i] = q[i]
          BY <3>8, <3>10
        <4> HIDE DEF v, f, S, G, C, a, s, e
        <4>10. Plays(R, f, w, F, C, a, x.paused)
          BY ONLY <4>1, <4>4, <4>5, <4>6, <4>7, <4>8, <4>9, PlaysWrites
        <4> QED BY <4>10 DEF C, a, f
      <3>18. Plays(Played(k), Again(k), k \in virt, emitted[k], captured[k], x.told[k], x.paused)'
        BY <1>1, <3>7, <3>17 DEF w, F
      <3>19. Udev(k)'
        <4>1. /\ streams[Server][s].fallback.state \in {"HEADER", "COMPLETE"}
              /\ streams[Server][s].fallback.state = "COMPLETE" => Again(k) # None
          BY <1>9, <2>5 DEF Follows, Udev
        <4>2. R # <<>>
          BY <2>5, <3>4, <3>5, <3>8 DEF q
        <4> QED BY <1>2, <2>1, <3>1, <3>2, <3>6, <3>7, <4>1, <4>2 DEF Udev
      <3> QED BY <1>5, <1>9, <2>1, <3>18, <3>19 DEF Follows
    <2> QED BY <2>3, <2>4, <2>5
  <1> QED BY <1>1, <1>6, <1>8, <1>9 DEF Serves

-----------------------------------------------------------------------------
(* The server handles the next message of the tale *)

\* what a message of a story is, by its header
LEMMA ProperKinds ==
  ASSUME NEW c \in Clients, NEW C, NEW x, NEW m, Proper(c, C, x, m)
  PROVE  /\ m.h = "PEER_DEV_CRT" => /\ x.size < Len(DeviceArg[c]) /\ x.held = {} /\ ~x.ended
                                    /\ m.dev = DeviceArg[c][x.size + 1]
         /\ m.h # "PEER_DEV_CRT" => x.size = Len(DeviceArg[c])
         /\ m.h = "PEER_GRAB" => m.dev \in Captures(c)
         /\ m.h = "PEER_EVENT" => /\ m.dev \in Captures(c) /\ m.val \in Events /\ ~x.paused
                                  /\ x.told[m.dev] < Len(C[m.dev])
                                  /\ C[m.dev][x.told[m.dev] + 1] = m.val
  <1>1. CASE /\ x.size < Len(DeviceArg[c]) /\ x.held = {} /\ ~x.ended
             /\ m = DevMsg("PEER_DEV_CRT", DeviceArg[c][x.size + 1], "info")
    <2>1. m.h = "PEER_DEV_CRT" /\ m.dev = DeviceArg[c][x.size + 1]
      BY <1>1 DEF DevMsg
    <2> QED BY <1>1, <2>1
  <1>2. ASSUME NEW k \in Captures(c), NEW grab \in BOOLEAN, m = GrabMsg(k, grab)
        PROVE  m.h = "PEER_GRAB" /\ m.dev = k
    BY <1>2 DEF GrabMsg, DevMsg
  <1>3. ASSUME NEW h \in PeerControls, m = Msg(h) PROVE m.h \in PeerControls
    BY <1>3 DEF Msg
  <1>4. CASE x.size = Len(DeviceArg[c]) /\ \E k \in Captures(c), grab \in BOOLEAN : m = GrabMsg(k, grab)
    BY <1>2, <1>4
  <1>5. CASE /\ x.size = Len(DeviceArg[c])
             /\ m.h = "PEER_EVENT" /\ m.dev \in Captures(c) /\ m.val \in Events /\ ~x.paused
             /\ x.told[m.dev] < Len(C[m.dev]) /\ C[m.dev][x.told[m.dev] + 1] = m.val
    BY <1>5
  <1>6. CASE x.size = Len(DeviceArg[c]) /\ \E h \in PeerControls : m = Msg(h)
    <2>1. m.h \in PeerControls
      BY <1>3, <1>6
    <2> QED BY <1>6, <2>1 DEF PeerControls
  <1> QED BY <1>1, <1>4, <1>5, <1>6 DEF Proper

\* the copies are what the handler left of them
LEMMA HandledCopies ==
  ASSUME TypeInv, Stopped, NEW c \in Clients, NEW ss, Handles(c, ss)
  PROVE  /\ proc[Server] = "running" /\ proc'[Server] = "running"
         /\ UNCHANGED <<captured, emitted>>
         /\ \A k : LET s == UdevStream(k)
                   IN  /\ s \in DOMAIN streams'[Server] <=> s \in DOMAIN ss
                       /\ s \in DOMAIN ss => streams'[Server][s] = ss[s]
                       /\ s \in batch[Server] => s \in batch'[Server]
  <1>0. Server \in Daemons
    BY DEF Daemons
  <1>1. proc[Server] = "running" /\ proc' = proc
    BY <1>0 DEF Handles, Stopped
  <1>2. batch'[Server] = batch[Server] \ {PeerConn(c)}
    BY <1>0 DEF Handles, TypeInv
  <1> QED BY <1>1, <1>2, UdevLemma DEF Handles

\* when the server has no device any more, it gets none
LEMMA HandledOver ==
  ASSUME TypeInv, Stopped, NEW c \in Clients, NEW ss, Handles(c, ss), Over,
         devices'[Server] = devices[Server] \/ devices'[Server] = <<>>, virt' \subseteq virt,
         DOMAIN ss \subseteq DOMAIN streams[Server]
  PROVE  Over'
  <1>1. UNCHANGED <<captured, emitted>>
        /\ \A k : UdevStream(k) \in DOMAIN streams'[Server] => UdevStream(k) \in DOMAIN ss
    BY HandledCopies
  <1> QED BY <1>1 DEF Over

\* what the server copies are all the devices, once it was told of all
LEMMA MirrorsAll ==
  ASSUME NEW c \in Clients, NEW x, Mirrors(c, x), x.size = Len(DeviceArg[c])
  PROVE  DeviceIds(Server) = Captures(c)
  <1>1. DOMAIN DeviceArg[c] = 1..Len(DeviceArg[c])
    BY DevicesAssumption, LenProperties
  <1>2. /\ DOMAIN devices[Server] = DOMAIN DeviceArg[c]
        /\ \A i \in DOMAIN DeviceArg[c] : devices[Server][i].id = DeviceArg[c][i]
    BY <1>1 DEF Mirrors
  <1>3. ASSUME NEW k PROVE k \in DeviceIds(Server) <=> k \in Captures(c)
    BY <1>2 DEF DeviceIds, Captures
  <1> QED BY <1>3

\* A device is announced: its copy is new, and has nothing to write.
LEMMA HandlesCrt ==
  ASSUME TypeInv, Stopped, OneGuest, NEW c \in Clients, NEW x \in Knowing, Serves(c, x), NEW m,
         Proper(c, captured, x, m), m.h = "PEER_DEV_CRT", UNCHANGED <<state, virt>>,
         Handles(c, Opened(streams[Server], {UdevStream(m.dev)})),
         devices' = [devices EXCEPT ![Server] = Append(@, [id |-> m.dev, grabbed |-> FALSE])]
  PROVE  Serves(c, Told(x, m))'
  <1> DEFINE y == Told(x, m)
             ss == Opened(streams[Server], {UdevStream(m.dev)})
  <1>0. Server \in Daemons
    BY DEF Daemons
  <1>1. y = [x EXCEPT !.size = @ + 1]
    BY DEF Told
  <1>2. /\ y.size = x.size + 1 /\ y.held = x.held /\ y.paused = x.paused /\ y.ended = x.ended
        /\ y.told = x.told /\ x.size \in Nat
    BY <1>1 DEF Knowing
  <1>3. /\ x.size < Len(DeviceArg[c]) /\ x.held = {} /\ ~x.ended
        /\ m.dev = DeviceArg[c][x.size + 1]
    BY ProperKinds
  <1> HIDE DEF y
  <1>4. /\ proc[Server] = "running" /\ proc'[Server] = "running"
        /\ UNCHANGED <<captured, emitted>>
        /\ \A k : LET s == UdevStream(k)
                  IN  /\ s \in DOMAIN streams'[Server] <=> s \in DOMAIN ss
                      /\ s \in DOMAIN ss => streams'[Server][s] = ss[s]
                      /\ s \in batch[Server] => s \in batch'[Server]
    BY HandledCopies
  <1>5. Mirrors(c, x) /\ \A k \in Devices : Follows(k, x)
    BY <1>3, <1>4 DEF Serves
  <1>6. devices'[Server] = Append(devices[Server], [id |-> m.dev, grabbed |-> FALSE])
    BY <1>0 DEF TypeInv
  <1>7. devices[Server] \in Seq(Entries) /\ Len(devices[Server]) = x.size
    <2>1. devices[Server] \in Seq(Entries)
      BY <1>0 DEF TypeInv, DeviceLists
    <2>2. DOMAIN devices[Server] = 1..x.size /\ DOMAIN devices[Server] = 1..Len(devices[Server])
          /\ Len(devices[Server]) \in Nat
      BY <1>5, <2>1 DEF Mirrors
    <2> QED BY <1>2, <2>1, <2>2
  <1>8. /\ DOMAIN devices'[Server] = 1..y.size
        /\ devices'[Server][y.size] = [id |-> m.dev, grabbed |-> FALSE]
        /\ \A i \in 1..x.size : devices'[Server][i] = devices[Server][i]
    BY <1>2, <1>6, <1>7
  <1>9. Mirrors(c, y)'
    <2>1. \A i \in 1..y.size : i = y.size \/ i \in 1..x.size
      BY <1>2
    <2>2. \A i \in 1..y.size : devices'[Server][i].id = DeviceArg[c][i]
      BY <1>2, <1>3, <1>5, <1>8, <2>1 DEF Mirrors
    <2>3. ASSUME DevicesOnce, NEW i \in 1..y.size PROVE ~devices'[Server][i].grabbed
      <3>1. CASE i = y.size
        <4> DEFINE new == [id |-> m.dev, grabbed |-> FALSE]
        <4>1. devices'[Server][i] = new
          BY <1>8, <3>1
        <4>2. ~new.grabbed
          OBVIOUS
        <4> HIDE DEF new
        <4> QED BY <4>1, <4>2
      <3>2. CASE i \in 1..x.size
        <4>1. devices[Server][i].grabbed <=> DeviceArg[c][i] \in x.held
          BY <1>5, <2>3, <3>2 DEF Mirrors
        <4>2. devices'[Server][i] = devices[Server][i]
          BY <1>8, <3>2
        <4> QED BY <1>3, <4>1, <4>2
      <3> QED BY <2>1, <3>1, <3>2
    <2>4. (state[Server] = "PAUSED")' <=> y.paused
      BY <1>2, <1>5 DEF Mirrors
    <2> QED BY <1>2, <1>3, <1>8, <2>2, <2>3, <2>4 DEF Mirrors
  <1>10. \A k : k \in DeviceIds(Server)' <=> k \in DeviceIds(Server) \/ k = m.dev
    <2>1. DOMAIN devices[Server] = 1..x.size
      BY <1>5 DEF Mirrors
    <2>2. \A i \in 1..y.size : i = y.size \/ i \in 1..x.size
      BY <1>2
    <2>3. y.size \in 1..y.size /\ 1..x.size \subseteq 1..y.size
      BY <1>2
    <2> QED BY <1>8, <2>1, <2>2, <2>3 DEF DeviceIds
  <1>11. ASSUME NEW k \in Devices PROVE Follows(k, y)'
    <2> DEFINE s == UdevStream(k)
    <2>1. Follows(k, x)
      BY <1>5
    <2>2. s \in DOMAIN ss <=> s \in DOMAIN streams[Server] \/ k = m.dev
      BY UdevLemma DEF Opened
    <2>3. CASE s \in DOMAIN streams[Server]
      <3>1. s \in DOMAIN ss /\ ss[s] = streams[Server][s]
        BY <2>3 DEF Opened
      <3>2. k \in DeviceIds(Server)' <=> k \in DeviceIds(Server)
        BY <1>10, <2>1, <2>3 DEF Follows
      <3>3. streams'[Server][s] = streams[Server][s] /\ s \in DOMAIN streams'[Server]
        BY <1>4, <3>1
      <3> HIDE DEF ss
      <3> QED BY <1>2, <1>4, <2>1, <2>3, <3>2, <3>3, FollowsKept
    <2>4. CASE s \notin DOMAIN streams[Server]
      <3>1. s \in DOMAIN ss => ss[s] = FreshStream
        BY <2>4 DEF Opened
      <3>2. s \in DOMAIN streams'[Server] <=> k \in DeviceIds(Server)'
        BY <1>4, <1>10, <2>1, <2>2, <2>4 DEF Follows
      <3>3. s \in DOMAIN streams'[Server] => streams'[Server][s] = FreshStream
        BY <1>4, <3>1
      <3>4. /\ Played(k) = <<>> /\ Played(k)' = <<>>
            /\ Again(k) = None /\ Again(k)' = None
        BY <2>4, <3>3 DEF Played, Again, FreshStream, Idle, Item, Msg
      <3>5. Udev(k)'
        BY <3>3, <3>4 DEF Udev, FreshStream, Idle, Item
      <3>6. Plays(Played(k), Again(k), k \in virt, emitted[k], captured[k], y.told[k], y.paused)'
        BY <1>2, <1>4, <2>1, <3>4 DEF Follows
      <3> QED BY <3>2, <3>5, <3>6 DEF Follows
    <2> QED BY <2>3, <2>4
  <1>12. ~y.ended
    BY <1>2, <1>3
  <1> QED BY <1>4, <1>9, <1>11, <1>12 DEF Serves, y

\* A device is grabbed or released: the server keeps so in mind, and nothing else.
LEMMA HandlesGrab ==
  ASSUME TypeInv, Stopped, OneGuest, NEW c \in Clients, NEW x \in Knowing, Serves(c, x), NEW m,
         Proper(c, captured, x, m), m.h = "PEER_GRAB", UNCHANGED <<state, virt>>,
         Handles(c, streams[Server]), devices[Server] # <<>>,
         devices' = [devices EXCEPT ![Server][FindById(Server, m.dev)].grabbed = (m.val = "grabbed")]
  PROVE  Serves(c, Told(x, m))'
  <1> DEFINE y == Told(x, m)
             n == FindById(Server, m.dev)
             g == (m.val = "grabbed")
  <1>0. Server \in Daemons
    BY DEF Daemons
  <1>1. y = [x EXCEPT !.held = IF m.val = "grabbed" THEN @ \cup {m.dev} ELSE @ \ {m.dev}]
    BY DEF Told
  <1>2. /\ y.size = x.size /\ y.paused = x.paused /\ y.ended = x.ended /\ y.told = x.told
        /\ y.held = IF g THEN x.held \cup {m.dev} ELSE x.held \ {m.dev}
        /\ x.size \in Nat
    BY <1>1 DEF Knowing
  <1>3. x.size = Len(DeviceArg[c]) /\ m.dev \in Captures(c)
    BY ProperKinds
  <1> HIDE DEF y
  <1>4. /\ proc[Server] = "running" /\ proc'[Server] = "running"
        /\ UNCHANGED <<captured, emitted>>
        /\ \A k : LET s == UdevStream(k)
                  IN  /\ s \in DOMAIN streams'[Server] <=> s \in DOMAIN streams[Server]
                      /\ s \in DOMAIN streams[Server] => streams'[Server][s] = streams[Server][s]
                      /\ s \in batch[Server] => s \in batch'[Server]
    BY HandledCopies
  <1>5. ~x.ended /\ Mirrors(c, x) /\ \A k \in Devices : Follows(k, x)
    BY <1>4 DEF Serves, Over
  <1>6. n \in DOMAIN devices[Server] /\ devices[Server][n].id = m.dev
    <2>1. m.dev \in DeviceIds(Server)
      BY <1>3, <1>5, MirrorsAll
    <2> QED BY <1>0, <2>1, FindLemma
  <1> HIDE DEF n, g
  <1>7. devices'[Server] = [devices[Server] EXCEPT ![n].grabbed = g]
    <2>1. devices' = [devices EXCEPT ![Server] = [devices[Server] EXCEPT ![n].grabbed = g]]
      BY DEF n, g
    <2> QED BY <1>0, <2>1 DEF TypeInv
  <1>8. devices[Server][n] \in Entries
    <2>1. devices[Server] \in Seq(Entries)
      BY <1>0 DEF TypeInv, DeviceLists
    <2> QED BY <1>6, <2>1
  <1>9. /\ DOMAIN devices'[Server] = DOMAIN devices[Server]
        /\ \A i \in DOMAIN devices[Server] : i # n => devices'[Server][i] = devices[Server][i]
        /\ devices'[Server][n].id = devices[Server][n].id /\ devices'[Server][n].grabbed = g
    BY <1>6, <1>7, <1>8 DEF Entries
  <1>10. DeviceIds(Server)' = DeviceIds(Server)
    <2>1. \A i \in DOMAIN devices[Server] : devices'[Server][i].id = devices[Server][i].id
      BY <1>9
    <2> QED BY <1>9, <2>1 DEF DeviceIds
  <1>11. Mirrors(c, y)'
    <2>1. DOMAIN devices[Server] = 1..x.size
          /\ \A i \in 1..x.size : devices[Server][i].id = DeviceArg[c][i]
      BY <1>5 DEF Mirrors
    <2>2. \A i \in 1..x.size : devices'[Server][i].id = DeviceArg[c][i]
      BY <1>9, <2>1
    <2>3. ASSUME DevicesOnce, NEW i \in 1..x.size
          PROVE  devices'[Server][i].grabbed <=> DeviceArg[c][i] \in y.held
      <3>1. DeviceArg[c][n] = m.dev /\ n \in 1..x.size
        BY <1>6, <2>1
      <3>2. DOMAIN DeviceArg[c] = 1..x.size
        BY <1>3, DevicesAssumption, LenProperties
      <3>3. CASE i = n
        BY <1>2, <1>9, <3>1, <3>3
      <3>4. CASE i # n
        <4>1. DeviceArg[c][i] # m.dev
          BY <2>3, <3>1, <3>2, <3>4 DEF DevicesOnce
        <4>2. devices[Server][i].grabbed <=> DeviceArg[c][i] \in x.held
          BY <1>5, <2>3 DEF Mirrors
        <4> QED BY <1>2, <1>9, <2>1, <3>4, <4>1, <4>2
      <3> QED BY <3>3, <3>4
    <2>4. (state[Server] = "PAUSED")' <=> y.paused
      BY <1>2, <1>5 DEF Mirrors
    <2> QED BY <1>2, <1>9, <2>1, <2>2, <2>3, <2>4 DEF Mirrors
  <1>12. \A k \in Devices : Follows(k, y)'
    BY <1>2, <1>4, <1>5, <1>10, FollowsKept
  <1> QED BY <1>2, <1>4, <1>5, <1>11, <1>12 DEF Serves, y

\* the items of the messages ms
ItemsOf(ms) == [i \in DOMAIN ms |-> Item(ms[i])]

\* tt is ss with the items is queued on the stream s
Appends(ss, tt, s, is) ==
    /\ DOMAIN tt = DOMAIN ss /\ \A y \in DOMAIN ss : y # s => tt[y] = ss[y]
    /\ tt[s].fallback = ss[s].fallback /\ tt[s].interest = "EPOLLOUT"
    /\ tt[s].queue = ss[s].queue \o is

\* what is queued on the stream s of ss
LEMMA PushedItems ==
  ASSUME NEW d \in Daemons, NEW E, NEW ss, NEW s \in DOMAIN ss, ss[s] \in Records(d, s, E),
         NEW ms, ms # <<>>, NEW is, is = ItemsOf(ms),
         NEW tt, tt = PushAll(ss, s, ms)
  PROVE  Appends(ss, tt, s, is)
  <1> DEFINE aa == [ss EXCEPT ![s].queue = @ \o is]
  <1>1. tt = [ss EXCEPT ![s].queue = @ \o is, ![s].interest = "EPOLLOUT"]
    BY DEF PushAll, ItemsOf
  <1>2. /\ DOMAIN aa = DOMAIN ss /\ \A y \in DOMAIN ss : y # s => aa[y] = ss[y]
        /\ aa[s] = [ss[s] EXCEPT !.queue = @ \o is]
    OBVIOUS
  <1>3. tt = [aa EXCEPT ![s].interest = "EPOLLOUT"]
    BY <1>1
  <1> HIDE DEF aa
  <1>4. /\ DOMAIN tt = DOMAIN aa /\ \A y \in DOMAIN aa : y # s => tt[y] = aa[y]
        /\ tt[s] = [aa[s] EXCEPT !.interest = "EPOLLOUT"]
    BY <1>2, <1>3
  <1>5. tt[s].fallback = ss[s].fallback /\ tt[s].interest = "EPOLLOUT" /\ tt[s].queue = ss[s].queue \o is
    BY <1>2, <1>4 DEF Records
  <1> QED BY <1>2, <1>4, <1>5 DEF Appends

\* an item that is queued is one more, and not the first that is written
LEMMA ExtendsFirst ==
  ASSUME NEW S, NEW q \in Seq(S), NEW m, NEW R, Extends(q, Item(m), R)
  PROVE  /\ R # <<>>
         /\ R[1].state = "COMPLETE" => q # <<>> /\ q[1].state = "COMPLETE"
  <1>1. /\ Len(q) \in Nat /\ Len(R) = Len(q) + 1 /\ R[Len(q) + 1] = Item(m)
        /\ \A i \in 1..Len(q) : R[i] = q[i]
    BY DEF Extends
  <1>2. R # <<>>
    BY <1>1, EmptySeq
  <1>3. ASSUME R[1].state = "COMPLETE" PROVE q # <<>> /\ q[1].state = "COMPLETE"
    <2>1. Len(q) # 0
      <3> SUFFICES ASSUME Len(q) = 0 PROVE FALSE
        OBVIOUS
      <3>1. R[1] = Item(m)
        BY <1>1
      <3> QED BY <1>3, <3>1 DEF Item
    <2>2. q # <<>> /\ R[1] = q[1]
      <3>1. 1 \in 1..Len(q)
        BY <1>1, <2>1
      <3>2. q # <<>>
        BY <2>1, EmptySeq
      <3> QED BY <1>1, <3>1, <3>2
    <2> QED BY <1>3, <2>2
  <1> QED BY <1>2, <1>3

\* one item,
LEMMA PushedItem ==
  ASSUME NEW d \in Daemons, NEW E, NEW ss, NEW s \in DOMAIN ss, ss[s] \in Records(d, s, E), NEW m
  PROVE  LET tt == PushAll(ss, s, <<m>>)
         IN  /\ DOMAIN tt = DOMAIN ss /\ \A y \in DOMAIN ss : y # s => tt[y] = ss[y]
             /\ tt[s].fallback = ss[s].fallback /\ tt[s].interest = "EPOLLOUT"
             /\ tt[s].queue # <<>> /\ Extends(ss[s].queue, Item(m), tt[s].queue)
             /\ tt[s].queue[1].state = "COMPLETE" => ss[s].queue # <<>> /\ ss[s].queue[1].state = "COMPLETE"
  <1> DEFINE tt == PushAll(ss, s, <<m>>)
             q == ss[s].queue
             R == tt[s].queue
             is == [i \in DOMAIN <<m>> |-> Item(<<m>>[i])]
             S == QueueItems(d, s, E)
  <1>1. is = <<Item(m)>> /\ <<m>> # <<>>
    OBVIOUS
  <1>2. q \in Seq(S)
    BY DEF Records
  <1>3. /\ DOMAIN tt = DOMAIN ss /\ \A y \in DOMAIN ss : y # s => tt[y] = ss[y]
        /\ tt[s].fallback = ss[s].fallback /\ tt[s].interest = "EPOLLOUT" /\ R = q \o is
    <2> DEFINE ms == <<m>>
    <2>1. ms # <<>> /\ is = ItemsOf(ms)
      BY <1>1 DEF is, ItemsOf
    <2>2. tt = PushAll(ss, s, ms)
      BY DEF ms
    <2> HIDE DEF tt, ms, is
    <2>3. Appends(ss, tt, s, is)
      <3>1. d \in Daemons /\ s \in DOMAIN ss /\ ss[s] \in Records(d, s, E)
        OBVIOUS
      <3> QED BY ONLY <2>1, <2>2, <3>1, PushedItems
    <2> QED BY <2>3 DEF Appends, q, R
  <1> HIDE DEF tt, q, R, is, S
  <1>4. Extends(q, Item(m), R)
    <2>1. /\ Len(q) \in Nat /\ Len(R) = Len(q) + 1 /\ DOMAIN R = 1..(Len(q) + 1)
          /\ R[Len(q) + 1] = Item(m) /\ \A i \in 1..Len(q) : R[i] = q[i]
      BY <1>1, <1>2, <1>3
    <2> QED BY <2>1 DEF Extends
  <1>5. /\ R # <<>>
        /\ R[1].state = "COMPLETE" => q # <<>> /\ q[1].state = "COMPLETE"
    BY <1>2, <1>4, ExtendsFirst
  <1> QED BY <1>3, <1>4, <1>5 DEF tt, q, R

\* what two sequences of one item are together
LEMMA PairOf ==
  ASSUME NEW u, NEW w PROVE <<u>> \o <<w>> = <<u, w>>
  <1>1. <<u>> \in Seq({u, w}) /\ <<w>> \in Seq({u, w}) /\ <<u, w>> \in Seq({u, w})
    OBVIOUS
  <1> DEFINE x == <<u>> \o <<w>>
             y == <<u, w>>
  <1>2. x \in Seq({u, w}) /\ Len(x) = 2 /\ x[1] = u /\ x[2] = w
    BY <1>1
  <1>3. x \in Seq({u, w}) /\ y \in Seq({u, w}) /\ Len(x) = Len(y) /\ \A i \in 1..Len(x) : x[i] = y[i]
    BY <1>1, <1>2
  <1> HIDE DEF x, y
  <1>4. x = y
    BY <1>3, SeqEqual
  <1> QED BY <1>4 DEF x, y

\* or two in turn
LEMMA PushedPair ==
  ASSUME NEW d \in Daemons, NEW E, NEW ss, NEW s \in DOMAIN ss, ss[s] \in Records(d, s, E),
         NEW m, NEW n, NEW tt, tt = PushAll(ss, s, <<m, n>>)
  PROVE  /\ DOMAIN tt = DOMAIN ss /\ \A y \in DOMAIN ss : y # s => tt[y] = ss[y]
         /\ tt[s].fallback = ss[s].fallback /\ tt[s].interest = "EPOLLOUT"
         /\ \E W : \E Q \in Seq(W) : /\ Extends(ss[s].queue, Item(m), Q)
                                    /\ Extends(Q, Item(n), tt[s].queue)
         /\ tt[s].queue # <<>>
         /\ tt[s].queue[1].state = "COMPLETE" => ss[s].queue # <<>> /\ ss[s].queue[1].state = "COMPLETE"
  <1> DEFINE q == ss[s].queue
             R == tt[s].queue
             is == [i \in DOMAIN <<m, n>> |-> Item(<<m, n>>[i])]
             S == QueueItems(d, s, E)
             W == S \cup {Item(m)}
             Q == q \o <<Item(m)>>
  <1>1. is = <<Item(m), Item(n)>> /\ <<m, n>> # <<>>
    OBVIOUS
  <1>2. q \in Seq(S)
    BY DEF Records
  <1>3. /\ DOMAIN tt = DOMAIN ss /\ \A y \in DOMAIN ss : y # s => tt[y] = ss[y]
        /\ tt[s].fallback = ss[s].fallback /\ tt[s].interest = "EPOLLOUT" /\ R = q \o is
    <2> DEFINE ms == <<m, n>>
    <2>1. ms # <<>> /\ is = ItemsOf(ms)
      BY <1>1 DEF is, ItemsOf
    <2>2. tt = PushAll(ss, s, ms)
      BY DEF ms
    <2> HIDE DEF ms, is
    <2>3. Appends(ss, tt, s, is)
      <3>1. d \in Daemons /\ s \in DOMAIN ss /\ ss[s] \in Records(d, s, E)
        OBVIOUS
      <3> QED BY ONLY <2>1, <2>2, <3>1, PushedItems
    <2> QED BY <2>3 DEF Appends, q, R
  <1> HIDE DEF q, R, is, S
  <1>4. Q \in Seq(W) /\ Extends(q, Item(m), Q)
    <2>1. q \in Seq(W) /\ <<Item(m)>> \in Seq(W)
      BY <1>2
    <2>2. /\ Len(q) \in Nat /\ Len(Q) = Len(q) + 1 /\ DOMAIN Q = 1..(Len(q) + 1)
          /\ Q[Len(q) + 1] = Item(m) /\ \A i \in 1..Len(q) : Q[i] = q[i]
      BY <1>2
    <2> QED BY <2>1, <2>2 DEF Extends
  <1>5. Extends(Q, Item(n), R)
    <2>1. /\ Len(q) \in Nat /\ Len(Q) = Len(q) + 1 /\ Q[Len(q) + 1] = Item(m)
          /\ \A i \in 1..Len(q) : Q[i] = q[i]
      BY <1>4 DEF Extends
    <2>2. /\ Len(R) = Len(q) + 2 /\ DOMAIN R = 1..(Len(q) + 2)
          /\ R[Len(q) + 1] = Item(m) /\ R[Len(q) + 2] = Item(n)
          /\ \A i \in 1..Len(q) : R[i] = q[i]
      BY <1>1, <1>2, <1>3
    <2>3. \A i \in 1..Len(Q) : i = Len(q) + 1 \/ i \in 1..Len(q)
      BY <2>1
    <2> HIDE DEF Q
    <2>4. \A i \in 1..Len(Q) : R[i] = Q[i]
      BY <2>1, <2>2, <2>3
    <2> QED BY <2>1, <2>2, <2>4 DEF Extends
  <1> HIDE DEF Q, W
  <1>6. /\ R # <<>>
        /\ R[1].state = "COMPLETE" => Q # <<>> /\ Q[1].state = "COMPLETE"
    BY <1>4, <1>5, ExtendsFirst
  <1>7. Q[1].state = "COMPLETE" => q # <<>> /\ q[1].state = "COMPLETE"
    BY <1>2, <1>4, ExtendsFirst
  <1>8. \E V : \E P \in Seq(V) : Extends(q, Item(m), P) /\ Extends(P, Item(n), R)
    BY <1>4, <1>5
  <1> QED BY <1>3, <1>6, <1>7, <1>8 DEF q, R

\* a copy with more to write follows
LEMMA FollowsMore ==
  ASSUME NEW k \in Devices, NEW x, Follows(k, x), UdevStream(k) \in DOMAIN streams[Server], NEW y,
         LET s == UdevStream(k)
             t == streams[Server][s]
             z == streams'[Server][s]
         IN  /\ s \in DOMAIN streams'[Server] /\ z.fallback = t.fallback /\ z.interest = "EPOLLOUT"
             /\ z.queue # <<>>
             /\ z.queue[1].state = "COMPLETE" => t.queue # <<>> /\ t.queue[1].state = "COMPLETE"
             /\ s \in batch[Server] => s \in batch'[Server],
         k \in DeviceIds(Server)' <=> k \in DeviceIds(Server),
         Plays(Played(k)', Again(k), k \in virt, emitted[k], captured[k], y.told[k], y.paused),
         k \in virt' <=> k \in virt, emitted'[k] = emitted[k], captured'[k] = captured[k]
  PROVE  Follows(k, y)'
  <1>1. /\ Played(k)' = streams'[Server][UdevStream(k)].queue
        /\ Played(k) = streams[Server][UdevStream(k)].queue /\ Again(k)' = Again(k)
    BY DEF Played, Again
  <1>2. Udev(k)'
    BY <1>1 DEF Follows, Udev
  <1>3. Plays(Played(k), Again(k), k \in virt, emitted[k], captured[k], y.told[k], y.paused)'
    BY <1>1
  <1> QED BY <1>2, <1>3 DEF Follows

\* An event is queued behind all that its copy has to write.
LEMMA HandlesEvent ==
  ASSUME TypeInv, Logs, Stopped, OneGuest, NEW c \in Clients, NEW x \in Knowing, Serves(c, x), NEW m,
         Proper(c, captured, x, m), m.h = "PEER_EVENT", UNCHANGED <<state, virt, devices>>,
         devices[Server] # <<>>,
         Handles(c, EmitEvent(Server, devices[Server][FindById(Server, m.dev)].id, m.val))
  PROVE  Serves(c, Told(x, m))'
  <1> DEFINE y == Told(x, m)
             j == m.dev
             s == UdevStream(j)
             u == DevMsg("UINPUT", j, m.val)
             w == DevMsg("UINPUT", j, "report")
             ss == EmitEvent(Server, j, m.val)
  <1>0. Server \in Daemons
    BY DEF Daemons
  <1>1. y = [x EXCEPT !.told[j] = @ + 1]
    BY DEF Told
  <1>2. /\ x.size = Len(DeviceArg[c]) /\ j \in Captures(c) /\ m.val \in Events /\ ~x.paused
        /\ x.told[j] < Len(captured[j]) /\ captured[j][x.told[j] + 1] = m.val
    BY ProperKinds
  <1>3. j \in Devices
    BY <1>2 DEF Captures, Devices
  <1>4. /\ y.size = x.size /\ y.paused = FALSE /\ y.ended = x.ended /\ y.held = x.held
        /\ y.told[j] = x.told[j] + 1 /\ \A k \in Devices \ {j} : y.told[k] = x.told[k]
        /\ x.told[j] \in Nat /\ x.paused = FALSE
    BY <1>1, <1>2, <1>3 DEF Knowing
  <1> HIDE DEF y
  <1>5. proc[Server] = "running"
    BY HandledCopies
  <1>6. ~x.ended /\ Mirrors(c, x) /\ \A k \in Devices : Follows(k, x)
    BY <1>5 DEF Serves, Over
  <1>7. j \in DeviceIds(Server) /\ s \in DOMAIN streams[Server]
    BY <1>2, <1>3, <1>6, MirrorsAll DEF Follows
  <1>8. devices[Server][FindById(Server, m.dev)].id = j
    BY <1>0, <1>7, FindLemma
  <1>9. Handles(c, ss)
    BY <1>8
  <1>10. streams[Server][s] \in Records(Server, s, exiting)
    BY <1>0, <1>7, StreamFacts DEF StreamsOf
  <1>11. /\ DOMAIN ss = DOMAIN streams[Server] /\ \A z \in DOMAIN ss : z # s => ss[z] = streams[Server][z]
         /\ ss[s].fallback = streams[Server][s].fallback /\ ss[s].interest = "EPOLLOUT"
         /\ ss[s].queue # <<>>
         /\ ss[s].queue[1].state = "COMPLETE"
              => streams[Server][s].queue # <<>> /\ streams[Server][s].queue[1].state = "COMPLETE"
         /\ m.val \notin Movements => Extends(streams[Server][s].queue, Item(u), ss[s].queue)
         /\ m.val \in Movements =>
               \E W : \E Q \in Seq(W) : /\ Extends(streams[Server][s].queue, Item(u), Q)
                                      /\ Extends(Q, Item(w), ss[s].queue)
    <2> DEFINE report == IF m.val \in Movements THEN <<w>> ELSE <<>>
    <2>0. <<u>> \o <<w>> = <<u, w>> /\ <<u>> \o <<>> = <<u>>
      <3>1. <<u>> \o <<w>> = <<u, w>>
        BY PairOf
      <3> HIDE DEF u, w
      <3>2. <<u>> \o <<>> = <<u>>
        OBVIOUS
      <3> QED BY <3>1, <3>2 DEF u, w
    <2>5. ss = PushAll(streams[Server], s, <<u>> \o report)
      BY DEF EmitEvent
    <2>1. m.val \notin Movements => ss = PushAll(streams[Server], s, <<u>>)
      <3> HIDE DEF ss, u, w
      <3> QED BY <2>0, <2>5
    <2>2. m.val \in Movements => ss = PushAll(streams[Server], s, <<u, w>>)
      <3> HIDE DEF ss, u, w
      <3> QED BY <2>0, <2>5
    <2> HIDE DEF s, u, w, ss
    <2>3. CASE m.val \notin Movements
      BY <1>0, <1>7, <1>10, <2>1, <2>3, PushedItem
    <2>4. CASE m.val \in Movements
      <3> DEFINE tt == PushAll(streams[Server], s, <<u, w>>)
      <3>1. /\ DOMAIN tt = DOMAIN streams[Server]
            /\ \A y1 \in DOMAIN streams[Server] : y1 # s => tt[y1] = streams[Server][y1]
            /\ tt[s].fallback = streams[Server][s].fallback /\ tt[s].interest = "EPOLLOUT"
            /\ \E W : \E Q \in Seq(W) : /\ Extends(streams[Server][s].queue, Item(u), Q)
                                       /\ Extends(Q, Item(w), tt[s].queue)
            /\ tt[s].queue # <<>>
            /\ tt[s].queue[1].state = "COMPLETE"
                 => streams[Server][s].queue # <<>> /\ streams[Server][s].queue[1].state = "COMPLETE"
        <4>1. tt = PushAll(streams[Server], s, <<u, w>>)
          OBVIOUS
        <4> HIDE DEF tt
        <4> QED BY <1>0, <1>7, <1>10, <4>1, PushedPair
      <3>2. ss = tt
        BY <2>2, <2>4
      <3> HIDE DEF tt
      <3> QED BY <2>4, <3>1, <3>2
    <2> QED BY <2>3, <2>4
  <1> HIDE DEF ss
  <1>12. /\ proc'[Server] = "running" /\ UNCHANGED <<captured, emitted>>
         /\ \A k : LET z == UdevStream(k)
                   IN  /\ z \in DOMAIN streams'[Server] <=> z \in DOMAIN ss
                       /\ z \in DOMAIN ss => streams'[Server][z] = ss[z]
                       /\ z \in batch[Server] => z \in batch'[Server]
    BY <1>9, HandledCopies
  <1>13. Mirrors(c, y)' /\ DeviceIds(Server)' = DeviceIds(Server)
    BY <1>4, <1>6 DEF Mirrors, DeviceIds
  <1>14. ASSUME NEW k \in Devices \ {j} PROVE Follows(k, y)'
    <2>1. UdevStream(k) # s
      BY <1>14, UdevLemma
    <2>2. /\ UdevStream(k) \in DOMAIN streams'[Server] <=> UdevStream(k) \in DOMAIN streams[Server]
          /\ UdevStream(k) \in DOMAIN streams[Server] =>
                streams'[Server][UdevStream(k)] = streams[Server][UdevStream(k)]
          /\ UdevStream(k) \in batch[Server] => UdevStream(k) \in batch'[Server]
      BY <1>11, <1>12, <2>1
    <2>3. Follows(k, x) /\ y.told[k] = x.told[k] /\ y.paused = x.paused
      BY <1>4, <1>6
    <2> QED BY <1>12, <1>13, <2>2, <2>3, FollowsKept
  <1>15. Follows(j, y)'
    <2>1. s \in DOMAIN streams'[Server] /\ streams'[Server][s] = ss[s]
      BY <1>7, <1>11, <1>12
    <2>2. Played(j) = streams[Server][s].queue /\ Played(j)' = ss[s].queue
      BY <1>7, <2>1 DEF Played
    <2>3. Follows(j, x)
      BY <1>3, <1>6
    <2> DEFINE v == j \in virt
               a == x.told[j]
               q == Played(j)
               C == captured[j]
               R == ss[s].queue
               f == Again(j)
    <2>4. Plays(q, f, v, emitted[j], C, a, x.paused)
      BY <2>3 DEF Follows
    <2>5. /\ C[a + 1] \notin Movements => Extends(q, Item(DevMsg("UINPUT", j, C[a + 1])), R)
          /\ C[a + 1] \in Movements =>
                \E W : \E Q \in Seq(W) : /\ Extends(q, Item(DevMsg("UINPUT", j, C[a + 1])), Q)
                                       /\ Extends(Q, Item(DevMsg("UINPUT", j, "report")), R)
      BY <1>2, <1>11, <2>2
    <2>6. q \in Seq(QueueItems(Server, s, exiting)) /\ Len(C) \in Nat /\ a \in Nat /\ a < Len(C)
          /\ C[a + 1] \in Events
      <3>1. q \in Seq(QueueItems(Server, s, exiting))
        BY <1>10, <2>2 DEF Records
      <3>2. Len(C) \in Nat
        BY <1>3, LenProperties DEF Logs
      <3> QED BY <1>2, <1>4, <3>1, <3>2
    <2> HIDE DEF v, a, q, C, R, f
    <2>7. Plays(R, f, v, emitted[j], C, a + 1, FALSE)
      <3>1. CASE C[a + 1] \notin Movements
        BY <2>4, <2>5, <2>6, <3>1, PlaysEvent
      <3>2. CASE C[a + 1] \in Movements
        <4>1. PICK W : \E Q \in Seq(W) : /\ Extends(q, Item(DevMsg("UINPUT", j, C[a + 1])), Q)
                                         /\ Extends(Q, Item(DevMsg("UINPUT", j, "report")), R)
          BY <2>5, <3>2
        <4>2. PICK Q \in Seq(W) : /\ Extends(q, Item(DevMsg("UINPUT", j, C[a + 1])), Q)
                                 /\ Extends(Q, Item(DevMsg("UINPUT", j, "report")), R)
          BY <4>1
        <4> QED BY <2>4, <2>6, <4>2, PlaysMove
      <3> QED BY <3>1, <3>2
    <2>8. Plays(Played(j)', Again(j), j \in virt, emitted[j], captured[j], y.told[j], y.paused)
      BY <1>4, <2>2, <2>7 DEF v, a, C, R, f
    <2>9. /\ j \in DeviceIds(Server)' <=> j \in DeviceIds(Server)
          /\ j \in virt' <=> j \in virt
          /\ emitted'[j] = emitted[j] /\ captured'[j] = captured[j]
      BY <1>12, <1>13
    <2>10. s \in batch[Server] => s \in batch'[Server]
      BY <1>12
    <2> QED BY <1>3, <1>7, <1>11, <2>1, <2>3, <2>8, <2>9, <2>10, FollowsMore
  <1> QED BY <1>4, <1>6, <1>12, <1>13, <1>14, <1>15 DEF Serves, y

\* A pause, or its end, lifts the keys of all copies.
LEMMA HandlesControl ==
  ASSUME TypeInv, Logs, Stopped, OneGuest, NEW c \in Clients, NEW x \in Knowing, Serves(c, x), NEW m,
         Proper(c, captured, x, m), m.h \in {"PEER_PAUSE", "PEER_RESUME"}, UNCHANGED <<virt, devices>>,
         NEW reply, Handles(c, Broadcast(Server, ReleaseVirtKeys(Server, streams[Server]), reply)),
         NEW new, state' = [state EXCEPT ![Server] = new], new = "PAUSED" <=> m.h = "PEER_PAUSE"
  PROVE  Serves(c, Told(x, m))'
  <1> DEFINE y == Told(x, m)
             rr == ReleaseVirtKeys(Server, streams[Server])
             ss == Broadcast(Server, rr, reply)
  <1>0. Server \in Daemons
    BY DEF Daemons
  <1>1. y.paused <=> m.h = "PEER_PAUSE"
    BY DEF Told, Knowing
  <1>2. y.size = x.size /\ y.held = x.held /\ y.ended = x.ended /\ y.told = x.told
    BY DEF Told, Knowing
  <1>3. x.size = Len(DeviceArg[c]) /\ \A k \in Devices : x.told[k] \in Nat
    BY ProperKinds DEF Knowing
  <1> HIDE DEF y
  <1>4. DOMAIN rr = DOMAIN streams[Server]
    BY DEF ReleaseVirtKeys
  <1>5. \A z \in DOMAIN rr : z \in UdevStreams(Server) =>
            rr[z] = PushAll(streams[Server], z, <<DevMsg("UINPUT", z[2], "release"),
                                                  DevMsg("UINPUT", z[2], "report")>>)[z]
    BY DEF ReleaseVirtKeys
  <1> HIDE DEF rr
  <1>6. DOMAIN ss = DOMAIN rr /\ \A z \in DOMAIN rr : z[1] # "relay" => ss[z] = rr[z]
    BY <1>0, BroadcastElsewhere
  <1> HIDE DEF ss
  <1>7. /\ proc[Server] = "running" /\ proc'[Server] = "running" /\ UNCHANGED <<captured, emitted>>
        /\ \A k : LET z == UdevStream(k)
                  IN  /\ z \in DOMAIN streams'[Server] <=> z \in DOMAIN ss
                      /\ z \in DOMAIN ss => streams'[Server][z] = ss[z]
                      /\ z \in batch[Server] => z \in batch'[Server]
    BY HandledCopies DEF ss, rr
  <1>8. CASE x.ended
    <2>1. Over /\ y.ended
      BY <1>2, <1>8 DEF Serves
    <2>2. Over'
      BY <1>4, <1>6, <2>1, HandledOver DEF ss, rr
    <2> QED BY <2>1, <2>2 DEF Serves, y
  <1>9. CASE ~x.ended
    <2>1. Mirrors(c, x) /\ \A k \in Devices : Follows(k, x)
      BY <1>7, <1>9 DEF Serves
    <2>2. state'[Server] = new
      BY <1>0 DEF TypeInv
    <2>3. Mirrors(c, y)' /\ DeviceIds(Server)' = DeviceIds(Server)
      BY <1>1, <1>2, <2>1, <2>2 DEF Mirrors, DeviceIds
    <2>4. ASSUME NEW k \in Devices PROVE Follows(k, y)'
      <3> DEFINE s == UdevStream(k)
                 u == DevMsg("UINPUT", k, "release")
                 w == DevMsg("UINPUT", k, "report")
                 tt == PushAll(streams[Server], s, <<u, w>>)
      <3>1. k \in DeviceIds(Server) /\ s \in DOMAIN streams[Server] /\ s \in UdevStreams(Server)
        <4>1. k \in Captures(c)
          BY <2>4 DEF OneGuest, Devices, Captures
        <4>2. k \in DeviceIds(Server)
          BY <1>3, <2>1, <4>1, MirrorsAll
        <4> QED BY <2>1, <4>2 DEF Follows, UdevStreams
      <3>2. streams[Server][s] \in Records(Server, s, exiting)
        BY <1>0, <3>1, StreamFacts DEF StreamsOf
      <3>3. s[1] = "udev" /\ s[2] = k
        BY UdevLemma
      <3>4. /\ tt[s].fallback = streams[Server][s].fallback /\ tt[s].interest = "EPOLLOUT"
            /\ \E W : \E Q \in Seq(W) : /\ Extends(streams[Server][s].queue, Item(u), Q)
                                       /\ Extends(Q, Item(w), tt[s].queue)
            /\ tt[s].queue # <<>>
            /\ tt[s].queue[1].state = "COMPLETE"
                 => streams[Server][s].queue # <<>> /\ streams[Server][s].queue[1].state = "COMPLETE"
        <4> HIDE DEF s, u, w
        <4> QED BY <1>0, <3>1, <3>2, PushedPair
      <3>5. s \in DOMAIN streams'[Server] /\ streams'[Server][s] = tt[s]
        <4>1. rr[s] = tt[s]
          BY <1>4, <1>5, <3>1, <3>3
        <4>2. ss[s] = rr[s]
          BY <1>4, <1>6, <3>1, <3>3
        <4> QED BY <1>4, <1>6, <1>7, <3>1, <4>1, <4>2
      <3> HIDE DEF tt
      <3>6. Played(k) = streams[Server][s].queue /\ Played(k)' = tt[s].queue
        BY <3>1, <3>5 DEF Played
      <3>7. Follows(k, x)
        BY <2>1
      <3> DEFINE v == k \in virt
                 q == Played(k)
                 R == tt[s].queue
                 a == x.told[k]
                 p == y.paused
                 f == Again(k)
      <3>8. Plays(q, f, v, emitted[k], captured[k], a, x.paused) /\ a \in Nat
        BY <1>3, <3>7 DEF Follows
      <3>9. /\ q \in Seq(QueueItems(Server, s, exiting))
            /\ \E W : \E Q \in Seq(W) : /\ Extends(q, Item(DevMsg("UINPUT", k, "release")), Q)
                                       /\ Extends(Q, Item(DevMsg("UINPUT", k, "report")), R)
        BY <3>2, <3>4, <3>6 DEF Records
      <3> HIDE DEF v, q, R, a, p, f
      <3>10. Plays(R, f, v, emitted[k], captured[k], a, p)
        <4>1. PICK W : \E Q \in Seq(W) : /\ Extends(q, Item(DevMsg("UINPUT", k, "release")), Q)
                                         /\ Extends(Q, Item(DevMsg("UINPUT", k, "report")), R)
          BY <3>9
        <4>2. PICK Q \in Seq(W) : /\ Extends(q, Item(DevMsg("UINPUT", k, "release")), Q)
                                 /\ Extends(Q, Item(DevMsg("UINPUT", k, "report")), R)
          BY <4>1
        <4> QED BY <3>8, <3>9, <4>2, PlaysRelease
      <3>11. Plays(Played(k)', Again(k), k \in virt, emitted[k], captured[k], y.told[k], y.paused)
        BY <1>2, <3>6, <3>10 DEF v, a, p, R, f
      <3>12. /\ k \in DeviceIds(Server)' <=> k \in DeviceIds(Server)
             /\ k \in virt' <=> k \in virt
             /\ emitted'[k] = emitted[k] /\ captured'[k] = captured[k]
        BY <1>7, <2>3
      <3>13. s \in batch[Server] => s \in batch'[Server]
        BY <1>7
      <3> QED BY <3>1, <3>4, <3>5, <3>7, <3>11, <3>12, <3>13, FollowsMore
    <2> QED BY <1>2, <1>7, <1>9, <2>3, <2>4 DEF Serves, y
  <1> QED BY <1>8, <1>9

\* When the client stops, all copies go.
LEMMA HandlesStop ==
  ASSUME TypeInv, Logs, Stopped, OneGuest, NEW c \in Clients, NEW x \in Knowing, Serves(c, x), NEW m,
         Proper(c, captured, x, m), m.h = "PEER_STOP",
         Handles(c, Without(streams[Server], UdevStreams(Server))),
         devices' = [devices EXCEPT ![Server] = <<>>], virt' = {}
  PROVE  Serves(c, Told(x, m))'
  <1> DEFINE y == Told(x, m)
             ss == Without(streams[Server], UdevStreams(Server))
  <1>0. Server \in Daemons
    BY DEF Daemons
  <1>1. y.ended
    BY DEF Told, Knowing
  <1> HIDE DEF y
  <1>2. /\ proc[Server] = "running" /\ UNCHANGED <<captured, emitted>>
        /\ \A k : UdevStream(k) \in DOMAIN streams'[Server] <=> UdevStream(k) \in DOMAIN ss
    BY HandledCopies
  <1>3. devices'[Server] = <<>>
    BY <1>0 DEF TypeInv
  <1>4. DOMAIN ss = DOMAIN streams[Server] \ UdevStreams(Server)
    BY DEF Without
  <1>5. ASSUME NEW k \in Devices
        PROVE  UdevStream(k) \notin DOMAIN ss /\ Prefix(emitted[k], captured[k])
    <2>1. CASE Over
      BY <1>4, <2>1 DEF Over
    <2>2. CASE Follows(k, x)
      <3>1. UdevStream(k) \in DOMAIN streams[Server] => UdevStream(k) \in UdevStreams(Server)
        BY <2>2 DEF Follows, UdevStreams
      <3> QED BY <1>4, <2>2, <3>1 DEF Follows, Plays
    <2> QED BY <2>1, <2>2 DEF Serves
  <1>6. Over'
    BY <1>2, <1>3, <1>5 DEF Over
  <1> QED BY <1>1, <1>6 DEF Serves, y

\* Whatever the message, the server does what the tale says.
LEMMA HostsServes ==
  ASSUME TypeInv, Logs, Stopped, OneGuest, NEW c \in Clients, NEW x \in Knowing, Serves(c, x),
         NEW s, ~Fails(Server), Hosts(s), NEW m, Ear(c).msg = m, Proper(c, captured, x, m)
  PROVE  Serves(c, Told(x, m))'
  <1>1. PICK ss : Handles(c, ss)
    BY HostsHandles
  <1>2. m = streams[Server][PeerConn(c)].fallback.msg
    BY <1>1 DEF Handles, Ear
  <1>3. CASE PeerDevCrt(Server, s)
    BY <1>2, <1>3, ServesCrt, HandlesCrt
  <1>4. CASE PeerUpdGrab(Server, s)
    BY <1>2, <1>4, ServesGrab, HandlesGrab
  <1>5. CASE PeerEvent(Server, s)
    BY <1>2, <1>5, ServesEvent, HandlesEvent
  <1>6. CASE PeerPause(Server, s)
    <2>1. /\ Handles(c, Broadcast(Server, ReleaseVirtKeys(Server, streams[Server]), "RELAY_PAUSE"))
          /\ m.h = "PEER_PAUSE" /\ UNCHANGED <<devices, virt>>
          /\ state' = [state EXCEPT ![Server] = "PAUSED"]
      BY <1>2, <1>6, ServesControl DEF PeerPause
    <2> QED BY <2>1, HandlesControl
  <1>7. CASE PeerResume(Server, s)
    <2>1. /\ Handles(c, Broadcast(Server, ReleaseVirtKeys(Server, streams[Server]), "RELAY_RESUME"))
          /\ m.h = "PEER_RESUME" /\ UNCHANGED <<devices, virt>>
          /\ state' = [state EXCEPT ![Server] = "RUNNING"]
      BY <1>2, <1>7, ServesControl DEF PeerResume
    <2> QED BY <2>1, HandlesControl
  <1>8. CASE PeerStopServer(Server, s)
    BY <1>2, <1>8, ServesStop, HandlesStop
  <1> QED BY <1>3, <1>4, <1>5, <1>6, <1>7, <1>8 DEF Hosts

-----------------------------------------------------------------------------
(* The tale is told and replayed *)

\* what client c says is delivered
Delivered(c) == \E H, T, n : Tale(c, H, T, n) /\ Serves(c, T[n])

\* the server is at some place of the tale, and knows so much
LEMMA TalePlace ==
  ASSUME NEW c \in Clients, NEW H, NEW T, NEW n, Tale(c, H, T, n)
  PROVE  /\ T[n] \in Knowing
         /\ n + 1 \in 1..Len(H) => /\ Proper(c, captured, T[n], H[n + 1])
                                   /\ T[n + 1] = Told(T[n], H[n + 1]) /\ n + 1 \in 0..Len(H)
  <1>1. /\ T \in [0..Len(H) -> Knowing] /\ n \in 0..Len(H)
        /\ \A i \in 1..Len(H) : Proper(c, captured, T[i - 1], H[i]) /\ T[i] = Told(T[i - 1], H[i])
    BY DEF Tale, Story
  <1>2. T[n] \in Knowing
    BY <1>1
  <1>3. ASSUME n + 1 \in 1..Len(H)
        PROVE  /\ Proper(c, captured, T[n], H[n + 1])
               /\ T[n + 1] = Told(T[n], H[n + 1]) /\ n + 1 \in 0..Len(H)
    <2>1. n + 1 - 1 = n /\ n + 1 \in 0..Len(H)
      BY <1>1, <1>3
    <2>2. Proper(c, captured, T[n + 1 - 1], H[n + 1]) /\ T[n + 1] = Told(T[n + 1 - 1], H[n + 1])
      BY <1>1, <1>3
    <2> QED BY <2>1, <2>2
  <1> QED BY <1>2, <1>3

\* what the server does leaves the tale as it was
LEMMA ServerTale ==
  ASSUME TypeInv, NEW c \in Clients, NEW H, NEW T, NEW n, Tale(c, H, T, n),
         Departs(Server) \/ Dispatch(Server) \/ Resolve(Server),
         NEW j \in 0..Len(H), Channel(c, H, j)'
  PROVE  Tale(c, H, T, j)'
  <1>1. ClientStays(c)
    BY ServerAside
  <1>2. /\ captured' = captured
        /\ proc'[c] = proc[c] /\ state'[c] = state[c] /\ peerState'[c] = peerState[c]
        /\ devices'[c] = devices[c] /\ streams'[c] = streams[c]
        /\ exiting[c] => exiting'[c]
    BY <1>1 DEF ClientStays
  <1>3. Here(c)' <=> Here(c)
    BY <1>2 DEF Here
  <1> QED BY <1>2, <1>3, TaleHeard

\* the support of the delivery
Supported(c) == Mute(c) /\ Tuned(c) /\ Linked(c) /\ Collected(c)

\* What happens beside both is nothing to them,
LEMMA DeliveredAside ==
  ASSUME NEW c \in Clients, Delivered(c), Aside(c) PROVE Delivered(c)'
  <1>1. PICK H, T, n : Tale(c, H, T, n) /\ Serves(c, T[n])
    BY DEF Delivered
  <1> DEFINE x == T[n]
  <1>2. /\ UNCHANGED <<proc, exiting, state, peerState, devices, streams, batch, virt, captured, emitted>>
        /\ pipe'[PeerConn(c)] = pipe[PeerConn(c)] /\ open'[PeerConn(c)] = open[PeerConn(c)]
    BY DEF Aside
  <1>3. Here(c)' = Here(c) /\ Queue(c)' = Queue(c) /\ Piped(c)' = Piped(c) /\ Ear(c)' = Ear(c)
    BY <1>2 DEF Here, Queue, Piped, Ear
  <1>4. Channel(c, H, n)
    BY <1>1 DEF Tale
  <1>5. Channel(c, H, n)'
    BY <1>2, <1>3, <1>4, SameChannel
  <1>6. Tale(c, H, T, n)'
    BY <1>1, <1>2, <1>3, <1>5, TaleKept
  <1>7. Serves(c, x)'
    BY <1>1, <1>2, ServesKept
  <1> QED BY <1>6, <1>7 DEF Delivered

\* what is delivered stays so whatever the two do,
LEMMA DeliveredStep ==
  ASSUME TypeInv, Logs, Stopped, GrabMatchesState, OneGuest, ServerListens,
         \A r \in Relays : Obeys(r), NEW c \in Clients, Supported(c), Delivered(c), Next
  PROVE  Delivered(c)'
  <1>0. Mute(c) /\ Tuned(c) /\ Linked(c) /\ Collected(c)
    BY DEF Supported
  <1>1. PICK H, T, n : Tale(c, H, T, n) /\ Serves(c, T[n])
    BY DEF Delivered
  <1>2. /\ H \in Seq(ToServer) /\ n \in 0..Len(H) /\ n \in Nat /\ Channel(c, H, n)
        /\ T[n] \in Knowing
    <2>1. H \in Seq(ToServer) /\ n \in 0..Len(H) /\ Channel(c, H, n)
      BY <1>1 DEF Tale
    <2> QED BY <1>1, <2>1, LenProperties, TalePlace
  <1> DEFINE x == T[n]
  <1>3. Tale(c, H, T, n)' /\ Serves(c, x)' => Delivered(c)'
    BY DEF Delivered
  <1>4. CASE Departs(c) \/ Dispatch(c) \/ Resolve(c) \/ ClientStart(c)
    <2>1. PICK G, V : Tale(c, G, V, n)' /\ V[n] = T[n]
      BY <1>0, <1>1, <1>4, ClientTale
    <2>2. ServerStays
      BY <1>4, ClientAside
    <2>3. Logs' /\ \A k \in Devices : Prefix(captured[k], captured'[k])
      BY LogsStep
    <2>4. Serves(c, x)
      BY <1>1
    <2> HIDE DEF x
    <2>5. Serves(c, x)'
      BY <2>2, <2>3, <2>4, ClientServes
    <2>6. x = V[n]
      BY <2>1 DEF x
    <2>7. Serves(c, V[n])'
      BY <2>5, <2>6
    <2> QED BY <2>1, <2>7 DEF Delivered
  <1>5. CASE Departs(Server)
    <2>1. Channel(c, H, n)'
      BY <1>2, <1>5, ServerChannel
    <2>2. Tale(c, H, T, n)'
      BY <1>1, <1>2, <1>5, <2>1, ServerTale
    <2>3. Serves(c, x)'
      BY <1>1, <1>5, EndServes
    <2> QED BY <1>3, <2>2, <2>3
  <1>6. CASE Dispatch(Server)
    <2>1. Channel(c, H, n)'
      BY <1>0, <1>2, <1>6, ServerReads
    <2>2. Tale(c, H, T, n)'
      BY <1>1, <1>2, <1>6, <2>1, ServerTale
    <2>3. Serves(c, x)'
      BY <1>1, <1>6, PassServes
    <2> QED BY <1>3, <2>2, <2>3
  <1>7. CASE Resolve(Server) /\ ~Fails(Server)
    <2>1. PICK s \in batch[Server] :
             \/ ResolveClosed(Server, s) \/ Rests(s)
             \/ s[1] = "udev" /\ ResolveWritten(Server, s)
             \/ Hosts(s)
      BY <1>0, <1>7, ServerResolves
    <2>2. CASE \/ ResolveClosed(Server, s) \/ Rests(s)
               \/ s[1] = "udev" /\ ResolveWritten(Server, s)
      <3>1. Channel(c, H, n)'
        BY <1>2, <2>2, ServerChannel
      <3>2. Tale(c, H, T, n)'
        BY <1>1, <1>2, <1>7, <3>1, ServerTale
      <3>3. Serves(c, x)'
        BY <1>1, <2>2, ClosedServes, RestServes, WrittenServes
      <3> QED BY <1>3, <3>2, <3>3
    <2>3. CASE Hosts(s)
      <3>1. PICK ss : Handles(c, ss)
        BY <1>7, <2>3, HostsHandles
      <3>2. n < Len(H) /\ Ear(c).msg = H[n + 1] /\ Channel(c, H, n + 1)'
        BY <1>0, <1>2, <3>1, HandlesChannel
      <3>3. n + 1 \in 1..Len(H)
        BY <1>2, <3>2, LenProperties
      <3>4. Proper(c, captured, x, H[n + 1]) /\ T[n + 1] = Told(x, H[n + 1]) /\ n + 1 \in 0..Len(H)
        BY <1>1, <3>3, TalePlace
      <3>5. Tale(c, H, T, n + 1)'
        BY <1>1, <1>7, <3>2, <3>4, ServerTale
      <3>6. Serves(c, Told(x, H[n + 1]))'
        BY <1>1, <1>2, <1>7, <2>3, <3>2, <3>4, HostsServes
      <3>7. Serves(c, T[n + 1])'
        BY <3>4, <3>6
      <3> QED BY <3>5, <3>7 DEF Delivered
    <2> QED BY <2>1, <2>2, <2>3
  <1>8. CASE Aside(c)
    BY <1>8, DeliveredAside
  <1>9. Fails(Server) => Departs(Server)
    BY DEF Fails, Departs
  <1> QED BY <1>4, <1>5, <1>6, <1>7, <1>8, <1>9, Sides

\* and in the beginning nothing is said, and nothing is there.
LEMMA DeliveredInit ==
  ASSUME Init, NEW c \in Clients
  PROVE  Mute(c) /\ Tuned(c) /\ Logs /\ Delivered(c)
  <1> DEFINE s == PeerConn(c)
  <1>0. /\ c \in Daemons /\ Server \in Daemons /\ s \in Connections /\ Ends(s) = {c, Server} /\ c # Server
    BY ClientLemma
  <1>1. /\ proc[c] = "off" /\ proc[Server] = "running" /\ state[c] = "RUNNING" /\ state[Server] = "RUNNING"
        /\ devices[Server] = <<>> /\ streams[c] = <<>> /\ streams[Server] = <<>>
        /\ pipe[s][c] = <<>> /\ pipe[s][Server] = <<>> /\ open[s] = {} /\ backlog[Tcp] = <<>>
        /\ virt = {} /\ captured = [k \in Devices |-> <<>>] /\ emitted = captured
    BY <1>0 DEF Init
  <1>2. DOMAIN streams[c] = {} /\ DOMAIN streams[Server] = {} /\ Elems(backlog[Tcp]) = {}
    BY <1>1 DEF Elems
  <1>3. ~Here(c) /\ Queue(c) = <<>> /\ Piped(c) = <<>> /\ Ear(c) = Idle
    BY <1>1, <1>2 DEF Here, Queue, Piped, Ear
  <1>4. Mute(c)
    BY <1>1, <1>2, <1>3 DEF Mute
  <1>5. Tuned(c)
    BY <1>2, <1>3 DEF Tuned, Idle, Item
  <1>6. Logs
    BY <1>1 DEF Logs
  <1>7. Blank \in Knowing /\ Blank.size = 0 /\ Blank.paused = FALSE /\ Blank.ended = FALSE
        /\ Blank.held = {} /\ \A k \in Devices : Blank.told[k] = 0
    BY DEF Blank, Knowing
  <1>8. PICK T : Story(c, captured, Blank, <<>>, T) /\ Known(<<>>, T) = Blank
    BY <1>7, NoneTold
  <1>9. Len(<<>>) = 0 /\ T[0] = Blank
    BY <1>8 DEF Known
  <1>10. Channel(c, <<>>, 0)
    <2>1. EndOf(<<>>, <<>>)
      BY DEF EndOf
    <2> QED BY <1>1, <1>3, <2>1 DEF Channel
  <1>11. Spoken(c, <<>>, Blank)
    BY <1>1, <1>3, <1>7, <1>9 DEF Spoken
  <1>12. Tale(c, <<>>, T, 0)
    BY <1>8, <1>9, <1>10, <1>11 DEF Tale
  <1>13. DeviceIds(Server) = {}
    BY <1>1 DEF DeviceIds
  <1>14. ASSUME NEW k \in Devices PROVE Follows(k, Blank)
    <2>1. emitted[k] = <<>> /\ captured[k] = <<>> /\ Played(k) = <<>> /\ Again(k) = None
      BY <1>1, <1>2 DEF Played, Again
    <2>2. Prefix(<<>>, <<>>)
      BY DEF Prefix
    <2> DEFINE v == k \in virt
    <2>3. ~v
      BY <1>1
    <2> HIDE DEF v
    <2>4. Plays(<<>>, None, v, <<>>, <<>>, 0, FALSE)
      BY <1>9, <2>2, <2>3, PlaysNothing
    <2>5. Plays(Played(k), Again(k), k \in virt, emitted[k], captured[k], Blank.told[k], Blank.paused)
      BY <1>7, <2>1, <2>4 DEF v
    <2> QED BY <1>2, <1>13, <2>5 DEF Follows, Udev
  <1>15. Mirrors(c, Blank)
    BY <1>1, <1>7 DEF Mirrors
  <1>16. Serves(c, Blank)
    BY <1>1, <1>7, <1>14, <1>15 DEF Serves
  <1>17. Delivered(c)
    BY <1>9, <1>12, <1>16 DEF Delivered
  <1> QED BY <1>4, <1>5, <1>6, <1>17

\* All of it holds in every state.
LEMMA DeliveredHolds ==
  ASSUME OneGuest, ServerListens
  PROVE  Spec => [](\A c \in Clients : Mute(c) /\ Tuned(c) /\ Logs /\ Delivered(c))
  <1> DEFINE S == \A r \in Relays : Single(r) /\ Obeys(r)
             L == \A c \in Clients : Linked(c) /\ Collected(c) /\ Carried(c)
             D == \A c \in Clients : Mute(c) /\ Tuned(c) /\ Logs /\ Delivered(c)
  <1>1. Init => S
    <2> SUFFICES ASSUME Init, NEW r \in Relays PROVE Single(r) /\ Obeys(r)
      OBVIOUS
    <2>1. Target[r] \in Daemons /\ RelayConn(r) \in Connections /\ Ends(RelayConn(r)) = {r, Target[r]}
      BY RelayEndsLemma
    <2>2. Request(r) = <<>> /\ DOMAIN streams[Target[r]] = {}
      BY <2>1 DEF Init, Request
    <2>3. Single(r)
      BY <2>2 DEF Single, Taken, Got, AsksStop, Msg, None
    <2>4. Obeys(r)
      BY <2>2 DEF Obeys, Taken, Got, Msg
    <2> QED BY <2>3, <2>4
  <1>2. Init => D
    BY DeliveredInit
  <1>3. TypeInv /\ [Next]_vars /\ S => S'
    <2>1. TypeInv /\ Next /\ S => S'
      BY SingleStep, ObeysStep
    <2>2. S /\ UNCHANGED vars => S'
      BY DEF Single, Obeys, Taken, Got, Request, AsksStop, vars, daemonVars, socketVars
    <2> QED BY <2>1, <2>2
  <1>4. TypeInv /\ Stopped /\ GrabMatchesState /\ S /\ L /\ [Next]_vars /\ D => D'
    <2>1. ASSUME TypeInv, Stopped, GrabMatchesState, S, L, Next, D, NEW c \in Clients
          PROVE  (Mute(c) /\ Tuned(c) /\ Logs /\ Delivered(c))'
      <3>1. Mute(c) /\ Tuned(c) /\ Logs /\ Delivered(c) /\ Linked(c) /\ Collected(c)
        BY <2>1
      <3>2. \A r \in Relays : Obeys(r)
        BY <2>1
      <3> HIDE DEF S, L, D
      <3>3. Mute(c)'
        BY <2>1, <3>1, <3>2, MuteStep
      <3>4. Tuned(c)'
        BY <2>1, <3>1, <3>2, TunedStep
      <3>5. Logs'
        BY <2>1, <3>1, LogsStep
      <3>6. Delivered(c)'
        BY <2>1, <3>1, <3>2, DeliveredStep DEF Supported
      <3> QED BY <3>3, <3>4, <3>5, <3>6
    <2>2. ASSUME D, UNCHANGED vars, NEW c \in Clients
          PROVE  (Mute(c) /\ Tuned(c) /\ Logs /\ Delivered(c))'
      <3>1. UNCHANGED <<proc, exiting, state, peerState, devices, streams, batch, virt, captured, emitted,
                        pipe, open, backlog>>
        BY <2>2 DEF vars, daemonVars, socketVars, inputVars, logVars
      <3>2. /\ Here(c)' = Here(c) /\ Queue(c)' = Queue(c) /\ Piped(c)' = Piped(c) /\ Ear(c)' = Ear(c)
            /\ Aside(c)
        BY <3>1 DEF Here, Queue, Piped, Ear, Aside
      <3>3. Mute(c)' /\ Logs'
        BY <2>2, <3>1, <3>2 DEF Mute, Logs
      <3>4. Tuned(c)'
        BY <2>2, <3>1, <3>2 DEF Tuned
      <3>5. Delivered(c)'
        BY <2>2, <3>2, DeliveredAside
      <3> QED BY <3>3, <3>4, <3>5
    <2> QED BY <2>1, <2>2
  <1>5. Spec => []L
    BY CarriedHolds
  <1> HIDE DEF S, L, D
  <1>6. Spec => []D
    BY <1>1, <1>2, <1>3, <1>4, <1>5, Typed, StoppedHolds, GrabFollowsState, PTL DEF Spec
  <1> QED BY <1>6 DEF D

\* When a client and the server have handled all they have sent each other, both have the same
\* devices, grabbed or not, and are in the same state (rcn_device.c, rcn_peer.c).
THEOREM SidesAgree ==
  ASSUME OneGuest, ServerListens, DevicesOnce PROVE Spec => []PeersAgree
  <1> DEFINE D == \A c \in Clients : Mute(c) /\ Tuned(c) /\ Logs /\ Delivered(c)
  <1>1. TypeInv /\ GrabMatchesState /\ D => PeersAgree
    <2> SUFFICES ASSUME TypeInv, GrabMatchesState, D, NEW c \in Clients, Settled(c)
                 PROVE  devices[Server] = devices[c] /\ state[Server] = state[c]
      BY DEF PeersAgree
    <2> DEFINE s == PeerConn(c)
    <2>0. c \in Daemons /\ Server \in Daemons
      BY ClientLemma
    <2>1. /\ proc[c] = "running" /\ proc[Server] = "running" /\ ~exiting[c]
          /\ s \in DOMAIN streams[c] /\ s \in DOMAIN streams[Server]
          /\ pipe[s][Server] = <<>> /\ streams[c][s] = FreshStream /\ streams[Server][s] = FreshStream
      BY DEF Settled
    <2>2. Here(c) /\ Queue(c) = <<>> /\ Piped(c) = <<>> /\ Ear(c).state = "HEADER"
      BY <2>1 DEF Here, Queue, Piped, Ear, FreshStream, Idle, Item
    <2>3. Server \in open[s]
      BY <2>1 DEF Tuned
    <2>4. PICK H, T, n : Tale(c, H, T, n) /\ Serves(c, T[n])
      BY DEF Delivered
    <2> HIDE DEF D
    <2>5. H \in Seq(ToServer) /\ n \in Nat /\ Matched(H, n, <<>>, <<>>, TRUE, Ear(c))
      <3>1. H \in Seq(ToServer) /\ n \in 0..Len(H) /\ Channel(c, H, n)
        BY <2>4 DEF Tale
      <3>2. Matched(H, n, <<>>, <<>>, Here(c), Ear(c))
        BY <2>2, <2>3, <3>1 DEF Channel
      <3>3. Matched(H, n, <<>>, <<>>, TRUE, Ear(c))
        BY <2>2, <3>2 DEF Matched
      <3>4. Len(H) \in Nat
        BY <3>1, LenProperties
      <3>5. n \in Nat
        BY <3>1, <3>4
      <3> QED BY <3>1, <3>3, <3>5
    <2>6. n = Len(H)
      BY <2>2, <2>5, AllHandled
    <2> DEFINE x == T[n]
    <2>7. Knows(c, x)
      BY <2>2, <2>4, <2>6, TaleNow DEF Known
    <2>8. Mirrors(c, x)
      BY <2>1, <2>4, <2>7 DEF Serves, Knows
    <2> HIDE DEF x
    <2>9. state[Server] = state[c]
      <3>1. state[Server] \in {"RUNNING", "PAUSED"} /\ state[c] \in {"RUNNING", "PAUSED"}
        BY <2>0 DEF TypeInv
      <3> QED BY <2>7, <2>8, <3>1 DEF Mirrors, Knows
    <2>10. devices[Server] \in Seq(Entries) /\ devices[c] \in Seq(Entries)
      BY <2>0 DEF TypeInv, DeviceLists
    <2>11. DOMAIN devices[Server] = DOMAIN devices[c] /\ DOMAIN devices[c] = DOMAIN DeviceArg[c]
           /\ DOMAIN DeviceArg[c] = 1..x.size
      <3>1. DOMAIN DeviceArg[c] = 1..Len(DeviceArg[c])
        BY DevicesAssumption, LenProperties
      <3> QED BY <2>7, <2>8, <3>1 DEF Mirrors, Knows
    <2>12. ASSUME NEW i \in DOMAIN devices[c] PROVE devices[Server][i] = devices[c][i]
      <3>1. devices[Server][i] \in Entries /\ devices[c][i] \in Entries
        <4>1. /\ DOMAIN devices[Server] = 1..Len(devices[Server])
              /\ DOMAIN devices[c] = 1..Len(devices[c])
          BY <2>10, LenProperties
        <4>2. i \in DOMAIN devices[Server] /\ i \in DOMAIN devices[c]
          BY <2>11
        <4> QED BY <2>10, <4>1, <4>2, ElementOfSeq
      <3>2. devices[Server][i].id = devices[c][i].id
        BY <2>7, <2>8, <2>11 DEF Mirrors, Knows
      <3>3. DeviceArg[c][i] \in Captures(c)
        BY <2>11 DEF Captures
      <3>4. devices[Server][i].grabbed <=> ~x.paused
        <4>1. devices[Server][i].grabbed <=> DeviceArg[c][i] \in x.held
          BY <2>8, <2>11 DEF Mirrors
        <4>2. x.held = IF x.paused THEN {} ELSE Captures(c)
          BY <2>7 DEF Knows
        <4> QED BY <3>3, <4>1, <4>2
      <3>5. devices[c][i].grabbed <=> ~x.paused
        <4>1. peerState[c] = "CONNECTED" /\ (x.paused <=> state[c] = "PAUSED")
          BY <2>7 DEF Knows
        <4>2. devices[c][i].grabbed = (state[c] = "RUNNING")
          BY <2>1, <4>1 DEF GrabMatchesState
        <4>3. state[c] \in {"RUNNING", "PAUSED"}
          BY <2>0 DEF TypeInv
        <4> QED BY <4>1, <4>2, <4>3
      <3>6. devices[Server][i].grabbed = devices[c][i].grabbed
        BY <3>1, <3>4, <3>5 DEF Entries
      <3> QED BY <3>1, <3>2, <3>6 DEF Entries
    <2>13. devices[Server] = devices[c]
      <3>1. /\ DOMAIN devices[Server] = 1..Len(devices[Server]) /\ Len(devices[Server]) \in Nat
            /\ DOMAIN devices[c] = 1..Len(devices[c]) /\ Len(devices[c]) \in Nat
        BY <2>10, LenProperties
      <3>2. Len(devices[Server]) = Len(devices[c])
        BY <2>11, <3>1
      <3>3. \A i \in 1..Len(devices[Server]) : devices[Server][i] = devices[c][i]
        BY <2>12, <3>1, <3>2
      <3> QED BY <2>10, <3>2, <3>3, SeqEqual
    <2> QED BY <2>9, <2>13
  <1>2. Spec => []D
    BY DeliveredHolds
  <1> HIDE DEF D
  <1> QED BY <1>1, <1>2, Typed, GrabFollowsState, PTL

\* A server that is paused and has written what it queued holds no key down (rcn_device.c:
\* dev_release_virt_keys_all).
THEOREM PauseLiftsKeys ==
  ASSUME OneGuest, ServerListens PROVE Spec => []PausedKeysUp
  <1> DEFINE D == \A c \in Clients : Mute(c) /\ Tuned(c) /\ Logs /\ Delivered(c)
  <1>1. TypeInv /\ D => PausedKeysUp
    <2> SUFFICES ASSUME TypeInv, D, state[Server] = "PAUSED",
                        \A s \in UdevStreams(Server) : streams[Server][s].queue = <<>>,
                        NEW k \in virt
                 PROVE  FALSE
      BY DEF PausedKeysUp
    <2>1. k \in Devices
      BY DEF TypeInv
    <2>2. PICK c \in Clients : Delivered(c)
      BY <2>1 DEF Devices
    <2>3. PICK H, T, n : Serves(c, T[n])
      BY <2>2 DEF Delivered
    <2>4. Mirrors(c, T[n]) /\ Follows(k, T[n])
      BY <2>1, <2>3 DEF Serves, Over
    <2>5. T[n].paused
      BY <2>4 DEF Mirrors
    <2>6. Played(k) = <<>>
      <3>1. UdevStream(k) \in DOMAIN streams[Server] => UdevStream(k) \in UdevStreams(Server)
        BY <2>4 DEF Follows, UdevStreams
      <3> QED BY <3>1 DEF Played
    <2>7. Lifted(Played(k), Again(k), k \in virt)
      BY <2>4, <2>5 DEF Follows, Plays
    <2> QED BY <2>6, <2>7 DEF Lifted
  <1>2. Spec => []D
    BY DeliveredHolds
  <1> HIDE DEF D
  <1> QED BY <1>1, <1>2, Typed, PTL

\* What the streams of the server take from their queues, and write to the copy of a
\* device, is the beginning of what was captured of it: nothing is lost or reordered on the
\* way (rcn_peer.c: handler_event).  What an idle stream writes again is not counted there.
THEOREM ReplayIsInOrder ==
  ASSUME OneGuest, ServerListens PROVE Spec => []ReplayInOrder
  <1> DEFINE D == \A c \in Clients : Mute(c) /\ Tuned(c) /\ Logs /\ Delivered(c)
  <1>1. D => ReplayInOrder
    <2> SUFFICES ASSUME D, NEW k \in Devices
                 PROVE  /\ Len(emitted[k]) <= Len(captured[k])
                        /\ emitted[k] = SubSeq(captured[k], 1, Len(emitted[k]))
      BY DEF ReplayInOrder
    <2>1. PICK c \in Clients : Delivered(c) /\ Logs
      BY DEF Devices
    <2>2. PICK H, T, n : Serves(c, T[n])
      BY <2>1 DEF Delivered
    <2>3. Prefix(emitted[k], captured[k])
      BY <2>2 DEF Serves, Over, Follows, Plays
    <2> DEFINE E == emitted[k]
               C == captured[k]
    <2>4. E \in Seq(Events) /\ C \in Seq(Events)
      BY <2>1 DEF Logs
    <2>5. Len(E) <= Len(C) /\ \A i \in 1..Len(E) : E[i] = C[i]
      BY <2>3 DEF Prefix
    <2> HIDE DEF E, C
    <2>6. E = SubSeq(C, 1, Len(E))
      <3> DEFINE l == Len(E)
                 F == SubSeq(C, 1, l)
      <3>1. l \in Nat /\ l <= Len(C) /\ Len(C) \in Nat /\ DOMAIN E = 1..l
        BY <2>4, <2>5
      <3>2. Len(F) = l /\ F \in Seq(Events) /\ \A i \in 1..l : F[i] = C[i]
        BY <2>4, <3>1
      <3> HIDE DEF F
      <3> QED BY <2>4, <2>5, <3>1, <3>2
    <2> QED BY <2>5, <2>6 DEF E, C
  <1>2. Spec => []D
    BY DeliveredHolds
  <1> HIDE DEF D
  <1> QED BY <1>1, <1>2, PTL

\* What an idle stream writes again, in every pass of the loop (rcn_epoll.c: EPOLLOUT stays
\* armed; rcn_stream.c: stream_stream goes on with the fallback), is a SYN_REPORT or the key
\* event that was replayed last: no movement is made twice.
THEOREM RepeatsAreHarmless ==
  ASSUME OneGuest, ServerListens PROVE Spec => []RepeatsHarmless
  <1> DEFINE D == \A c \in Clients : Mute(c) /\ Tuned(c) /\ Logs /\ Delivered(c)
  <1>1. D => RepeatsHarmless
    <2> SUFFICES ASSUME D, NEW k \in Devices, UdevStream(k) \in DOMAIN streams[Server],
                        streams[Server][UdevStream(k)].queue = <<>>,
                        streams[Server][UdevStream(k)].interest = "EPOLLOUT"
                 PROVE  LET again == streams[Server][UdevStream(k)].fallback.msg.val
                        IN  \/ again \in Reports
                            \/ /\ again \in KeyEvents /\ emitted[k] # <<>>
                               /\ again = emitted[k][Len(emitted[k])]
      BY DEF RepeatsHarmless
    <2>1. PICK c \in Clients : Delivered(c)
      BY DEF Devices
    <2>2. PICK H, T, n : Serves(c, T[n])
      BY <2>1 DEF Delivered
    <2>3. Follows(k, T[n])
      BY <2>2 DEF Serves, Over
    <2>4. Played(k) = <<>> /\ Again(k) = streams[Server][UdevStream(k)].fallback.msg.val
      BY DEF Played, Again
    <2>5. Again(k) # None
      BY <2>3, <2>4 DEF Follows, Udev
    <2>6. Echoes(<<>>, Again(k), emitted[k])
      BY <2>3, <2>4 DEF Follows, Plays
    <2> DEFINE f == Again(k)
               E == emitted[k]
    <2>7. f \in Reports \/ (f \in KeyEvents /\ EndsWith(E, f))
      BY <2>5, <2>6 DEF Echoes
    <2> HIDE DEF f, E
    <2>8. EndsWith(E, f) => E # <<>> /\ f = E[Len(E)]
      <3>1. Len(<<>>) = 0
        OBVIOUS
      <3> QED BY <3>1 DEF EndsWith
    <2> QED BY <2>4, <2>7, <2>8 DEF f, E
  <1>2. Spec => []D
    BY DeliveredHolds
  <1> HIDE DEF D
  <1> QED BY <1>1, <1>2, PTL
================================================================================
