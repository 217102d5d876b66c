--------------------------- MODULE RcnTrafficProofs ---------------------------
(***************************************************************************)
(* What travels from a client to the server, for any number of clients,    *)
(* devices and relays: how each step moves it, and the properties of       *)
(* RcnDaemon that are about the order of messages.                         *)
(***************************************************************************)
EXTENDS RcnDaemonProofs, SequenceTheorems

-----------------------------------------------------------------------------
(* Sequences of messages, and what moving them leaves true *)

Release(k) == GrabMsg(k, FALSE)
Grab(k)    == GrabMsg(k, TRUE)

\* y is an event of the device that x releases, or grabs
Releases(x, y) == y.h = "PEER_EVENT" /\ x = Release(y.dev)
Grabs(x, y)    == y.h = "PEER_EVENT" /\ x = Grab(y.dev)

\* m tells no event of a device between its release and its next grab
Sound(m) ==
    \A i, j \in DOMAIN m : i < j /\ Releases(m[i], m[j]) => \E n \in i..j : Grabs(m[n], m[j])

\* the last that m tells of each device of K, if anything, is not its release
Regrabbed(m, K) ==
    \A k \in K : \A i \in DOMAIN m : m[i] = Release(k) =>
        \E n \in DOMAIN m : n > i /\ m[n] = Grab(k)

\* an announcement is no event, and grabbing is not releasing
LEMMA GrabMsgLemma ==
  /\ \A k, e : \A g, f \in BOOLEAN :
        /\ GrabMsg(k, g).h = "PEER_GRAB" /\ GrabMsg(k, g).dev = k
        /\ GrabMsg(k, g) = GrabMsg(e, f) <=> k = e /\ g = f
  /\ \A x, y, z : Releases(x, y) /\ Grabs(z, y) => x # y /\ z # x /\ z # y
  /\ \A x, y : Releases(x, y) => x # y
  /\ \A k : Grab(k) # Release(k)
  BY DEF GrabMsg, DevMsg, Releases, Grabs, Release, Grab

\* the middle of a sound sequence is sound, and its end tells the last of each device
LEMMA CutSound ==
  ASSUME NEW n \in Nat, NEW l \in Nat, NEW o \in Nat, NEW m, NEW w, NEW K,
         DOMAIN m = 1..n, DOMAIN w = 1..l, o + l <= n, \A i \in 1..l : w[i] = m[i + o]
  PROVE  /\ Sound(m) => Sound(w)
         /\ o + l = n /\ Regrabbed(m, K) => Regrabbed(w, K)
  <1>1. ASSUME Sound(m), NEW i \in 1..l, NEW j \in 1..l, i < j, Releases(w[i], w[j])
        PROVE  \E x \in i..j : Grabs(w[x], w[j])
    <2>1. /\ i + o \in 1..n /\ j + o \in 1..n /\ i + o < j + o
          /\ w[i] = m[i + o] /\ w[j] = m[j + o]
      BY <1>1
    <2>2. PICK x \in (i + o)..(j + o) : Grabs(m[x], w[j])
      BY <1>1, <2>1 DEF Sound
    <2>3. x - o \in i..j /\ x - o \in 1..l /\ (x - o) + o = x
      BY <1>1, <2>2
    <2> QED BY <2>2, <2>3
  <1>2. ASSUME o + l = n, Regrabbed(m, K), NEW k \in K, NEW i \in 1..l, w[i] = Release(k)
        PROVE  \E x \in 1..l : x > i /\ w[x] = Grab(k)
    <2>1. i + o \in 1..n /\ m[i + o] = Release(k)
      BY <1>2
    <2>2. PICK x \in 1..n : x > i + o /\ m[x] = Grab(k)
      BY <1>2, <2>1 DEF Regrabbed
    <2>3. x - o \in 1..l /\ x - o > i /\ (x - o) + o = x
      BY <1>2, <2>2
    <2> QED BY <2>2, <2>3
  <1> QED BY <1>1, <1>2 DEF Sound, Regrabbed

\* w is m with the message at p repeated
Repeats(m, w, n, p) ==
    /\ DOMAIN m = 1..n /\ DOMAIN w = 1..(n + 1) /\ p \in 1..n
    /\ \A i \in 1..p : w[i] = m[i]
    /\ \A i \in p..n : w[i + 1] = m[i]

\* a message may be repeated next to itself
LEMMA RepeatSound ==
  ASSUME NEW n \in Nat, NEW p \in 1..n, NEW m, NEW w, NEW K, Repeats(m, w, n, p)
  PROVE  (Sound(m) => Sound(w)) /\ (Regrabbed(m, K) => Regrabbed(w, K))
  <1> DEFINE h(i) == IF i <= p THEN i ELSE i - 1
             g(i) == IF i <= p THEN i ELSE i + 1
  <1>1. \A i \in 1..(n + 1) : h(i) \in 1..n /\ w[i] = m[h(i)]
    <2> SUFFICES ASSUME NEW i \in 1..(n + 1) PROVE h(i) \in 1..n /\ w[i] = m[h(i)]
      OBVIOUS
    <2>1. CASE i <= p
      BY <2>1 DEF Repeats
    <2>2. CASE i > p
      <3>1. i - 1 \in p..n /\ (i - 1) + 1 = i
        BY <2>2
      <3> QED BY <2>2, <3>1 DEF Repeats
    <2> QED BY <2>1, <2>2
  <1>2. \A i \in 1..n : g(i) \in 1..(n + 1) /\ w[g(i)] = m[i]
    BY DEF Repeats
  <1>3. ASSUME Sound(m), NEW i \in 1..(n + 1), NEW j \in 1..(n + 1), i < j, Releases(w[i], w[j])
        PROVE  \E x \in i..j : Grabs(w[x], w[j])
    <2>1. h(i) # h(j)
      BY <1>1, <1>3, GrabMsgLemma
    <2>2. h(i) < h(j)
      BY <1>3, <2>1
    <2> HIDE DEF h, g
    <2>3. PICK x \in h(i)..h(j) : Grabs(m[x], w[j])
      BY <1>1, <1>3, <2>2 DEF Sound, Repeats
    <2>4. x # h(i) /\ x # h(j)
      BY <1>1, <1>3, <2>3, GrabMsgLemma
    <2>5. x \in 1..n /\ g(x) \in i..j
      <3>1. x \in 1..n
        BY <1>1, <2>3
      <3> QED BY <1>3, <2>3, <2>4, <3>1 DEF g, h
    <2> QED BY <1>2, <2>3, <2>5
  <1>4. ASSUME Regrabbed(m, K), NEW k \in K, NEW i \in 1..(n + 1), w[i] = Release(k)
        PROVE  \E x \in 1..(n + 1) : x > i /\ w[x] = Grab(k)
    <2> HIDE DEF h, g
    <2>1. PICK x \in 1..n : x > h(i) /\ m[x] = Grab(k)
      BY <1>1, <1>4 DEF Regrabbed, Repeats
    <2>2. g(x) >= i
      BY <2>1 DEF g, h
    <2>3. g(x) # i
      BY <1>2, <1>4, <2>1, GrabMsgLemma
    <2>4. g(x) \in 1..(n + 1) /\ g(x) > i
      BY <1>2, <2>2, <2>3
    <2> QED BY <1>2, <2>1, <2>4
  <1> QED BY <1>3, <1>4 DEF Sound, Regrabbed, Repeats

\* and taken off if it is repeated, or the oldest
LEMMA UnrepeatSound ==
  ASSUME NEW n \in Nat, NEW p \in 1..n, NEW m, NEW w, NEW K,
         DOMAIN m = 1..n, DOMAIN w = 1..(n - 1), p = 1 \/ m[p - 1] = m[p],
         \A i \in 1..(n - 1) : w[i] = m[IF i < p THEN i ELSE i + 1]
  PROVE  (Sound(m) => Sound(w)) /\ (Regrabbed(m, K) => Regrabbed(w, K))
  <1> DEFINE h(i) == IF i < p THEN i ELSE i + 1
             g(i) == IF i < p THEN i ELSE i - 1
  <1>1. \A i \in 1..(n - 1) : h(i) \in 1..n /\ w[i] = m[h(i)]
    OBVIOUS
  <1>2. \A i \in 1..n : i > 1 \/ p > 1 => g(i) \in 1..(n - 1) /\ w[g(i)] = m[i]
    <2> SUFFICES ASSUME NEW i \in 1..n, i > 1 \/ p > 1 PROVE g(i) \in 1..(n - 1) /\ w[g(i)] = m[i]
      OBVIOUS
    <2>1. CASE i = p
      <3>1. p > 1 /\ p - 1 \in 1..(n - 1) /\ m[p - 1] = m[p]
        BY <2>1
      <3>2. w[p - 1] = m[p - 1] /\ g(i) = p - 1
        BY <2>1, <3>1
      <3> QED BY <2>1, <3>1, <3>2
    <2>2. CASE i > p
      <3>1. i - 1 \in 1..(n - 1) /\ ~(i - 1 < p) /\ (i - 1) + 1 = i
        BY <2>2
      <3> QED BY <2>2, <3>1
    <2>3. CASE i < p
      BY <2>3
    <2> QED BY <2>1, <2>2, <2>3
  <1> HIDE DEF h, g
  <1>3. ASSUME Sound(m), NEW i \in 1..(n - 1), NEW j \in 1..(n - 1), i < j, Releases(w[i], w[j])
        PROVE  \E x \in i..j : Grabs(w[x], w[j])
    <2>1. h(i) < h(j)
      BY <1>3 DEF h
    <2>2. PICK x \in h(i)..h(j) : Grabs(m[x], w[j])
      BY <1>1, <1>3, <2>1 DEF Sound
    <2>3. x \in 1..n /\ h(i) >= 1 /\ x # h(i)
      BY <1>1, <1>3, <2>2, GrabMsgLemma
    <2>4. x > 1 /\ g(x) \in i..j
      BY <1>3, <2>2, <2>3 DEF g, h
    <2> QED BY <1>2, <2>2, <2>3, <2>4
  <1>4. ASSUME Regrabbed(m, K), NEW k \in K, NEW i \in 1..(n - 1), w[i] = Release(k)
        PROVE  \E x \in 1..(n - 1) : x > i /\ w[x] = Grab(k)
    <2>1. PICK x \in 1..n : x > h(i) /\ m[x] = Grab(k)
      BY <1>1, <1>4 DEF Regrabbed
    <2>2. x > 1 /\ g(x) >= i
      BY <2>1 DEF g, h
    <2>3. PICK y \in 1..(n - 1) : y >= i /\ w[y] = Grab(k)
      BY <1>2, <2>1, <2>2
    <2>4. y # i
      BY <1>4, <2>3, GrabMsgLemma
    <2> QED BY <2>3, <2>4
  <1> QED BY <1>3, <1>4 DEF Sound, Regrabbed

\* messages that a client with the devices K in its epoll set may say, which leave it with L
Tells(ms, K, L) ==
    /\ \A j \in DOMAIN ms : ms[j].h = "PEER_EVENT" => Len(ms) = 1 /\ ms[j].dev \in K
    /\ \A k \in L : /\ \A i \in DOMAIN ms : ms[i] # Release(k)
                    /\ k \in K \/ \E i \in DOMAIN ms : ms[i] = Grab(k)

\* events may be said of devices that are grabbed, as far as m tells
LEMMA SaySound ==
  ASSUME NEW n \in Nat, NEW T, NEW ms \in Seq(T), NEW m, NEW w, NEW K, NEW L,
         DOMAIN m = 1..n, DOMAIN w = 1..(n + Len(ms)), \A i \in 1..n : w[i] = m[i],
         \A i \in DOMAIN ms : w[n + i] = ms[i],
         Tells(ms, K, L), Sound(m), Regrabbed(m, K)
  PROVE  Sound(w) /\ Regrabbed(w, L)
  <1> DEFINE a == Len(ms)
  <1>1. a \in Nat /\ DOMAIN ms = 1..a
    OBVIOUS
  <1>2. /\ \A j \in 1..a : ms[j].h = "PEER_EVENT" => a = 1 /\ ms[j].dev \in K
        /\ \A k \in L : /\ \A i \in 1..a : ms[i] # Release(k)
                        /\ k \in K \/ \E i \in 1..a : ms[i] = Grab(k)
    BY <1>1 DEF Tells
  <1>3. DOMAIN w = 1..(n + a) /\ \A i \in 1..a : w[n + i] = ms[i]
    BY <1>1
  <1> HIDE DEF a
  <1>4. \A i \in 1..(n + a) : i > n => i - n \in 1..a /\ w[i] = ms[i - n]
    <2> SUFFICES ASSUME NEW i \in 1..(n + a), i > n PROVE i - n \in 1..a /\ w[i] = ms[i - n]
      OBVIOUS
    <2>1. i - n \in 1..a /\ n + (i - n) = i
      BY <1>1
    <2> QED BY <1>3, <2>1
  <1>5. ASSUME NEW i \in 1..(n + a), NEW j \in 1..(n + a), i < j, Releases(w[i], w[j])
        PROVE  \E x \in i..j : Grabs(w[x], w[j])
    <2>1. CASE j <= n
      <3>1. i \in 1..n /\ j \in 1..n /\ w[i] = m[i] /\ w[j] = m[j]
        BY <1>5, <2>1
      <3>2. PICK x \in i..j : Grabs(m[x], m[j])
        BY <1>5, <3>1 DEF Sound
      <3>3. w[x] = m[x]
        BY <3>1, <3>2
      <3> QED BY <3>1, <3>2, <3>3
    <2>2. CASE j > n
      <3>1. j - n \in 1..a /\ w[j] = ms[j - n]
        BY <1>4, <2>2
      <3>2. ms[j - n].h = "PEER_EVENT" /\ w[i] = Release(ms[j - n].dev)
        BY <1>5, <3>1 DEF Releases
      <3>3. a = 1 /\ ms[j - n].dev \in K
        BY <1>2, <3>1, <3>2
      <3>4. i \in 1..n /\ m[i] = Release(ms[j - n].dev)
        <4>1. i \in 1..n
          BY <1>5, <3>1, <3>3
        <4>2. w[i] = m[i]
          BY <4>1
        <4> QED BY <3>2, <4>1, <4>2
      <3>5. PICK x \in 1..n : x > i /\ m[x] = Grab(ms[j - n].dev)
        BY <3>3, <3>4 DEF Regrabbed
      <3>6. x \in i..j /\ w[x] = Grab(w[j].dev)
        BY <2>2, <3>1, <3>4, <3>5
      <3> QED BY <3>1, <3>2, <3>6 DEF Grabs
    <2> QED BY <2>1, <2>2
  <1>6. ASSUME NEW k \in L, NEW i \in 1..(n + a), w[i] = Release(k)
        PROVE  \E x \in 1..(n + a) : x > i /\ w[x] = Grab(k)
    <2>1. i \in 1..n /\ m[i] = Release(k)
      BY <1>2, <1>4, <1>6
    <2>2. CASE \E y \in 1..a : ms[y] = Grab(k)
      <3>1. PICK y \in 1..a : ms[y] = Grab(k)
        BY <2>2
      <3>2. n + y \in 1..(n + a) /\ n + y > i /\ w[n + y] = Grab(k)
        BY <1>1, <1>3, <2>1, <3>1
      <3> QED BY <3>2
    <2>3. CASE k \in K
      <3>1. PICK x \in 1..n : x > i /\ m[x] = Grab(k)
        BY <2>1, <2>3 DEF Regrabbed
      <3>2. x \in 1..(n + a) /\ w[x] = Grab(k)
        BY <1>1, <3>1
      <3> QED BY <3>1, <3>2
    <2> QED BY <1>2, <2>2, <2>3
  <1> QED BY <1>3, <1>5, <1>6 DEF Sound, Regrabbed

-----------------------------------------------------------------------------
(* What a client's handlers queue for the server *)

Items(ms) == [i \in DOMAIN ms |-> Item(ms[i])]

\* the items of two lists of messages, one after the other
LEMMA ItemsLemma ==
  ASSUME NEW T, NEW S, \A t \in T : Item(t) \in S, NEW q \in Seq(S), NEW a \in Seq(T), NEW b \in Seq(T)
  PROVE  /\ Items(a) \in Seq(S) /\ Len(Items(a)) = Len(a) /\ q \o Items(a) \in Seq(S)
         /\ (q \o Items(a)) \o Items(b) = q \o Items(a \o b)
         /\ Items(a) \o Items(b) = Items(a \o b)
         /\ q \o Items(<<>>) = q
  <1>1. ASSUME NEW c \in Seq(T)
        PROVE  /\ Items(c) \in Seq(S) /\ Len(Items(c)) = Len(c)
               /\ \A i \in 1..Len(c) : Items(c)[i] = Item(c[i])
    <2>1. \A i \in 1..Len(c) : Item(c[i]) \in S
      OBVIOUS
    <2>2. DOMAIN c = 1..Len(c) /\ Len(c) \in Nat
      OBVIOUS
    <2>3. Items(c) = [i \in 1..Len(c) |-> Item(c[i])]
      BY <2>2 DEF Items
    <2> DEFINE f == Items(c)
    <2>4. f = [i \in 1..Len(c) |-> f[i]] /\ \A i \in 1..Len(c) : f[i] = Item(c[i])
      BY <2>3
    <2> HIDE DEF f
    <2>5. f \in Seq(S)
      BY <2>1, <2>2, <2>4, SeqLemma
    <2>6. DOMAIN f = 1..Len(c)
      BY <2>4
    <2>7. Len(f) = Len(c)
      BY <2>2, <2>5, <2>6
    <2> QED BY <2>4, <2>5, <2>7 DEF f
  <1>2. /\ a \o b \in Seq(T) /\ Len(a \o b) = Len(a) + Len(b) /\ Len(a) \in Nat /\ Len(b) \in Nat
        /\ \A i \in 1..(Len(a) + Len(b)) : (a \o b)[i] = IF i <= Len(a) THEN a[i] ELSE b[i - Len(a)]
    BY ConcatProperties, LenProperties
  <1> DEFINE x == Items(a)
             y == Items(b)
             z == Items(a \o b)
             l == Len(a)
             n == Len(b)
  <1>3. /\ x \in Seq(S) /\ Len(x) = l /\ \A i \in 1..l : x[i] = Item(a[i])
        /\ y \in Seq(S) /\ Len(y) = n /\ \A i \in 1..n : y[i] = Item(b[i])
        /\ z \in Seq(S) /\ Len(z) = l + n /\ \A i \in 1..(l + n) : z[i] = Item((a \o b)[i])
    BY <1>1, <1>2
  <1>4. /\ l \in Nat /\ n \in Nat
        /\ \A i \in 1..(l + n) : (a \o b)[i] = IF i <= l THEN a[i] ELSE b[i - l]
    BY <1>2
  <1>5. Items(<<>>) = <<>>
    BY DEF Items
  <1> HIDE DEF x, y, z, l, n
  <1>6. x \o y = z
    <2>1. /\ x \o y \in Seq(S) /\ Len(x \o y) = l + n
          /\ \A i \in 1..(l + n) : (x \o y)[i] = IF i <= l THEN x[i] ELSE y[i - l]
      <3> DEFINE f == x \o y
                 k == Len(x)
                 j == Len(y)
      <3>1. x \in Seq(S) /\ y \in Seq(S) /\ k = l /\ j = n
        BY <1>3
      <3>2. /\ f \in Seq(S) /\ Len(f) = k + j
            /\ \A i \in 1..(k + j) : f[i] = IF i <= k THEN x[i] ELSE y[i - k]
        BY <3>1, ConcatProperties
      <3> HIDE DEF f, k, j
      <3>3. /\ f \in Seq(S) /\ Len(f) = l + n
            /\ \A i \in 1..(l + n) : f[i] = IF i <= l THEN x[i] ELSE y[i - l]
        BY <3>1, <3>2
      <3> QED BY <3>3 DEF f
    <2> DEFINE w == x \o y
    <2> HIDE DEF w
    <2>2. ASSUME NEW i \in 1..(l + n) PROVE w[i] = z[i]
      <3>1. CASE i <= l
        <4>1. i \in 1..l
          BY <1>4, <3>1
        <4>2. z[i] = Item(a[i])
          BY <1>3, <1>4, <3>1
        <4> QED BY <1>3, <2>1, <3>1, <4>1, <4>2 DEF w
      <3>2. CASE ~(i <= l)
        <4>1. i - l \in 1..n
          BY <1>4, <3>2
        <4>2. z[i] = Item(b[i - l])
          BY <1>3, <1>4, <3>2
        <4>3. w[i] = y[i - l]
          BY <2>1, <3>2 DEF w
        <4> QED BY <1>3, <4>1, <4>2, <4>3
      <3> QED BY <3>1, <3>2
    <2>3. w \in Seq(S) /\ Len(w) = Len(z)
      BY <1>3, <2>1 DEF w
    <2>4. z \in Seq(S) /\ Len(w) = l + n
      BY <1>3, <2>1 DEF w
    <2>5. \A i \in 1..Len(w) : w[i] = z[i]
      BY <2>2, <2>4
    <2>6. w = z
      BY <2>3, <2>4, <2>5, SeqEqual
    <2> QED BY <2>6 DEF w
  <1>7. (q \o x) \o y = q \o z
    <2>1. x \in Seq(S) /\ y \in Seq(S)
      BY <1>3
    <2>2. (q \o x) \o y = q \o (x \o y)
      BY <2>1, ConcatAssociative
    <2> QED BY <1>6, <2>2
  <1>8. q \o x \in Seq(S)
    BY <1>3, ConcatProperties
  <1>9. q \o <<>> = q
    BY ConcatEmptySeq
  <1> QED BY <1>3, <1>5, <1>6, <1>7, <1>8, <1>9 DEF x, y, z, l

-----------------------------------------------------------------------------
(* Messages on their way: those in a pipe P, then those in a queue Q *)

Texts(q) == [i \in DOMAIN q |-> q[i].msg]
Flight(P, Q) == Texts(P) \o Texts(Q)

\* only the first item of Q may be half written, and P ends with its message then
Joint(P, Q) ==
    /\ \A i \in DOMAIN Q : i # 1 => Q[i].state = "HEADER"
    /\ Q # <<>> /\ Q[1].state # "HEADER" /\ P # <<>> => P[Len(P)].msg = Q[1].msg

\* K are the devices whose events may be sent, if the queue is there
Truthful(P, Q, here, K) == Sound(Flight(P, Q)) /\ (here => Regrabbed(Flight(P, Q), K))

\* the n-th message that is on its way
LEMMA FlightLemma ==
  ASSUME NEW S, NEW T, NEW P \in Seq(S), NEW Q \in Seq(T)
  PROVE  /\ Len(P) \in Nat /\ DOMAIN P = 1..Len(P)
         /\ Len(Q) \in Nat /\ DOMAIN Q = 1..Len(Q)
         /\ DOMAIN Flight(P, Q) = 1..(Len(P) + Len(Q))
         /\ \A i \in 1..Len(P) : Flight(P, Q)[i] = P[i].msg
         /\ \A i \in 1..Len(Q) : Flight(P, Q)[Len(P) + i] = Q[i].msg
  <1>1. Len(P) \in Nat /\ DOMAIN P = 1..Len(P) /\ Len(Q) \in Nat /\ DOMAIN Q = 1..Len(Q)
    OBVIOUS
  <1> DEFINE M == {P[i].msg : i \in DOMAIN P} \cup {Q[i].msg : i \in DOMAIN Q}
             p == Texts(P)
             q == Texts(Q)
             l == Len(P)
             n == Len(Q)
  <1>2. /\ p = [i \in 1..l |-> p[i]] /\ \A i \in 1..l : p[i] \in M /\ p[i] = P[i].msg
        /\ q = [i \in 1..n |-> q[i]] /\ \A i \in 1..n : q[i] \in M /\ q[i] = Q[i].msg
    BY <1>1 DEF Texts
  <1>3. l \in Nat /\ n \in Nat
    BY <1>1
  <1> HIDE DEF M, p, q, l, n
  <1>4. p \in Seq(M) /\ Len(p) = l /\ q \in Seq(M) /\ Len(q) = n
    <2>1. p \in Seq(M)
      BY <1>2, <1>3, SeqLemma
    <2>2. q \in Seq(M)
      BY <1>2, <1>3, SeqLemma
    <2>3. DOMAIN p = 1..l /\ DOMAIN q = 1..n
      BY <1>2
    <2>4. Len(p) = l
      BY <1>3, <2>1, <2>3
    <2>5. Len(q) = n
      BY <1>3, <2>2, <2>3
    <2> QED BY <2>1, <2>2, <2>4, <2>5
  <1> DEFINE f == p \o q
  <1>5. /\ f \in Seq(M) /\ Len(f) = l + n
        /\ \A i \in 1..(l + n) : f[i] = IF i <= l THEN p[i] ELSE q[i - l]
    BY <1>4, ConcatProperties
  <1> HIDE DEF f
  <1>6. DOMAIN f = 1..(l + n)
    BY <1>5
  <1>7. ASSUME NEW i \in 1..l PROVE f[i] = P[i].msg
    <2>1. i \in 1..(l + n) /\ i <= l
      BY <1>3
    <2> QED BY <1>2, <1>5, <2>1
  <1>8. ASSUME NEW i \in 1..n PROVE f[l + i] = Q[i].msg
    <2>1. l + i \in 1..(l + n) /\ ~(l + i <= l) /\ (l + i) - l = i
      BY <1>3
    <2>2. f[l + i] = q[i]
      BY <1>5, <2>1
    <2> QED BY <1>2, <2>2
  <1>9. Flight(P, Q) = f
    BY DEF Flight, f, p, q
  <1> QED BY <1>1, <1>6, <1>7, <1>8, <1>9 DEF l, n

\* reading from the pipe, or losing it, leaves what follows as true as it was
LEMMA CutKeeps ==
  ASSUME NEW S, NEW T, NEW P \in Seq(S), NEW Q \in Seq(T), NEW R \in Seq(S), NEW V \in Seq(T),
         NEW h \in BOOLEAN, NEW g \in BOOLEAN, NEW K, NEW L,
         Joint(P, Q), Truthful(P, Q, h, K),
         R = P \/ R = <<>> \/ (P # <<>> /\ R = Tail(P)),
         g => h /\ V = Q /\ L \subseteq K, ~g => V = <<>>
  PROVE  Joint(R, V) /\ Truthful(R, V, g, L)
  <1> DEFINE m == Flight(P, Q)
             w == Flight(R, V)
             a == Len(P)
             b == Len(Q)
             c == Len(R)
             e == Len(V)
  <1>1. /\ a \in Nat /\ b \in Nat /\ DOMAIN m = 1..(a + b)
        /\ \A i \in 1..a : m[i] = P[i].msg
        /\ \A i \in 1..b : m[a + i] = Q[i].msg
    BY FlightLemma
  <1>2. /\ c \in Nat /\ e \in Nat /\ DOMAIN w = 1..(c + e)
        /\ \A i \in 1..c : w[i] = R[i].msg
        /\ \A i \in 1..e : w[c + i] = V[i].msg
    BY FlightLemma
  <1>3. PICK o \in Nat : o + c = a /\ \A i \in 1..c : R[i] = P[i + o]
    <2>1. CASE R = P
      <3>1. 0 + c = a /\ \A i \in 1..c : R[i] = P[i + 0]
        BY <1>1, <2>1
      <3> QED BY <3>1
    <2>2. CASE R = <<>>
      <3>1. c = 0
        BY <2>2
      <3> QED BY <1>1, <3>1
    <2>3. CASE P # <<>> /\ R = Tail(P)
      <3>1. 1 + c = a /\ \A i \in 1..c : R[i] = P[i + 1]
        BY <2>3
      <3> QED BY <3>1
    <2> QED BY <2>1, <2>2, <2>3
  <1> HIDE DEF m, w, a, b, c, e
  <1>4. \A i \in 1..c : w[i] = m[i + o]
    <2> SUFFICES ASSUME NEW i \in 1..c PROVE w[i] = m[i + o]
      OBVIOUS
    <2>1. i + o \in 1..a
      BY <1>2, <1>3
    <2> QED BY <1>1, <1>2, <1>3, <2>1
  <1>5. CASE ~g
    <2>1. e = 0 /\ V = <<>>
      BY <1>5 DEF e
    <2>2. DOMAIN w = 1..c /\ o + c <= a + b
      BY <1>1, <1>2, <1>3, <2>1
    <2>3. Sound(w)
      <3>1. Sound(m)
        BY DEF Truthful, m
      <3> DEFINE n == a + b
      <3>2. n \in Nat /\ c \in Nat /\ DOMAIN m = 1..n /\ DOMAIN w = 1..c /\ o + c <= n
        BY <1>1, <1>2, <2>2
      <3> HIDE DEF n
      <3> QED BY <1>4, <3>1, <3>2, CutSound
    <2>4. Joint(R, V)
      BY <2>1 DEF Joint
    <2> QED BY <1>5, <2>3, <2>4 DEF Truthful, w
  <1>6. CASE g
    <2>1. h /\ V = Q /\ L \subseteq K /\ e = b
      BY <1>6 DEF e, b
    <2>2. o + (c + e) = a + b /\ c + e \in Nat /\ a + b \in Nat
      BY <1>1, <1>2, <1>3, <2>1
    <2>3. ASSUME NEW i \in 1..(c + e) PROVE w[i] = m[i + o]
      <3>1. CASE i <= c
        BY <1>2, <1>4, <3>1
      <3>2. CASE ~(i <= c)
        <4>1. i - c \in 1..e /\ c + (i - c) = i /\ a + (i - c) = i + o
          BY <1>1, <1>2, <1>3, <3>2
        <4> DEFINE j == i - c
        <4>2. j \in 1..b /\ w[i] = V[j].msg /\ m[i + o] = Q[j].msg
          BY <1>1, <1>2, <2>1, <4>1
        <4> QED BY <2>1, <4>2
      <3> QED BY <3>1, <3>2
    <2>4. Sound(m) /\ Regrabbed(m, L)
      BY <2>1 DEF Truthful, m, Regrabbed
    <2>5. DOMAIN m = 1..(a + b) /\ DOMAIN w = 1..(c + e) /\ o + (c + e) <= a + b
      BY <1>1, <1>2, <2>2
    <2>6. Sound(w) /\ Regrabbed(w, L)
      BY <2>2, <2>3, <2>4, <2>5, CutSound
    <2>7. Joint(R, V)
      <3>1. ASSUME R # <<>>, V # <<>>, V[1].state # "HEADER" PROVE R[Len(R)].msg = V[1].msg
        <4>1. c # 0
          BY <3>1 DEF c
        <4>2. c \in 1..c /\ c + o = a /\ a # 0
          BY <1>1, <1>2, <1>3, <4>1
        <4>3. P # <<>>
          BY <4>2 DEF a
        <4>4. P[a].msg = V[1].msg
          BY <2>1, <3>1, <4>3 DEF Joint, a
        <4> QED BY <1>3, <4>2, <4>4 DEF c
      <3> QED BY <2>1, <3>1 DEF Joint
    <2> QED BY <2>6, <2>7 DEF Truthful, w
  <1> QED BY <1>5, <1>6

\* so does writing a piece of the queue's first message, whether the queue stays or not
LEMMA WriteKeeps ==
  ASSUME NEW S, NEW T, NEW P \in Seq(S), NEW Q \in Seq(T), NEW V \in Seq(T), NEW u \in S,
         NEW h \in BOOLEAN, NEW g \in BOOLEAN, NEW K,
         Joint(P, Q), Truthful(P, Q, h, K), Q # <<>>, u.msg = Q[1].msg,
         g => h /\ Len(V) = Len(Q) /\ V[1].msg = Q[1].msg /\ \A i \in DOMAIN Q : i # 1 => V[i] = Q[i],
         ~g => V = <<>>
  PROVE  Joint(Append(P, u), V) /\ Truthful(Append(P, u), V, g, K)
  <1> DEFINE R == Append(P, u)
             m == Flight(P, Q)
             w == Flight(R, V)
             a == Len(P)
             b == Len(Q)
             e == Len(V)
  <1>1. /\ a \in Nat /\ b \in Nat /\ DOMAIN m = 1..(a + b) /\ DOMAIN Q = 1..b
        /\ \A i \in 1..a : m[i] = P[i].msg
        /\ \A i \in 1..b : m[a + i] = Q[i].msg
    BY FlightLemma
  <1>2. R \in Seq(S) /\ Len(R) = a + 1 /\ R[a + 1] = u /\ \A i \in 1..a : R[i] = P[i]
    OBVIOUS
  <1> HIDE DEF R
  <1>3. /\ e \in Nat /\ DOMAIN w = 1..((a + 1) + e) /\ DOMAIN V = 1..e
        /\ \A i \in 1..(a + 1) : w[i] = R[i].msg
        /\ \A i \in 1..e : w[(a + 1) + i] = V[i].msg
    <2> DEFINE r == Len(R)
    <2>0. R \in Seq(S)
      BY <1>2
    <2>1. /\ e \in Nat /\ DOMAIN w = 1..(r + e) /\ DOMAIN V = 1..e
          /\ \A i \in 1..r : w[i] = R[i].msg
          /\ \A i \in 1..e : w[r + i] = V[i].msg
      BY <2>0, FlightLemma
    <2>2. r = a + 1
      BY <1>2
    <2> HIDE DEF w, r, e, a
    <2> QED BY <2>1, <2>2
  <1>4. b # 0
    OBVIOUS
  <1> HIDE DEF m, w, a, b, e
  <1>5. \A i \in 1..(a + 1) : w[i] = m[i]
    <2> SUFFICES ASSUME NEW i \in 1..(a + 1) PROVE w[i] = m[i]
      OBVIOUS
    <2>1. CASE i = a + 1
      <3>1. 1 \in 1..b /\ a + 1 \in 1..(a + 1)
        BY <1>1, <1>4
      <3>2. w[a + 1] = u.msg /\ m[a + 1] = Q[1].msg
        BY <1>1, <1>2, <1>3, <3>1
      <3> QED BY <2>1, <3>2
    <2>2. CASE i # a + 1
      <3>1. i \in 1..a /\ i \in 1..(a + 1)
        BY <1>1, <2>2
      <3>2. m[i] = P[i].msg /\ R[i] = P[i] /\ w[i] = R[i].msg
        BY <1>1, <1>2, <1>3, <3>1
      <3> QED BY <3>2
    <2> QED BY <2>1, <2>2
  <1>6. Sound(m) /\ (h => Regrabbed(m, K))
    BY DEF Truthful, m
  <1>7. CASE ~g
    <2>1. e = 0 /\ V = <<>>
      BY <1>7 DEF e
    <2> DEFINE n == a + b
               l == a + 1
    <2>2. n \in Nat /\ l \in Nat /\ DOMAIN m = 1..n /\ DOMAIN w = 1..l /\ 0 + l <= n /\ 0 \in Nat
      BY <1>1, <1>3, <1>4, <2>1
    <2>3. \A i \in 1..l : w[i] = m[i + 0]
      BY <1>1, <1>5
    <2> HIDE DEF n, l
    <2>4. Sound(w)
      BY <1>6, <2>2, <2>3, CutSound
    <2> QED BY <1>7, <2>1, <2>4 DEF Truthful, Joint, w, R
  <1>8. CASE g
    <2>1. h /\ e = b /\ V[1].msg = Q[1].msg /\ \A i \in 1..b : i # 1 => V[i] = Q[i]
      BY <1>1, <1>8 DEF e, b
    <2> DEFINE n == a + b
               p == a + 1
    <2>2. /\ n \in Nat /\ p \in 1..n /\ DOMAIN m = 1..n /\ DOMAIN w = 1..(n + 1)
      BY <1>1, <1>3, <1>4, <2>1
    <2>3. ASSUME NEW i \in p..n PROVE w[i + 1] = m[i]
      <3>1. i - a \in 1..b /\ a + (i - a) = i /\ p + (i - a) = i + 1
        BY <1>1
      <3> DEFINE j == i - a
      <3>2. j \in 1..b /\ m[i] = Q[j].msg /\ w[i + 1] = V[j].msg
        BY <1>1, <1>3, <2>1, <3>1
      <3> HIDE DEF j
      <3> QED BY <2>1, <3>2
    <2>4. \A i \in 1..p : w[i] = m[i]
      BY <1>5
    <2> HIDE DEF n, p
    <2>5. Repeats(m, w, n, p)
      BY <2>2, <2>3, <2>4 DEF Repeats
    <2>6. Sound(w) /\ Regrabbed(w, K)
      BY <1>6, <2>1, <2>2, <2>5, RepeatSound
    <2>7. Joint(R, V)
      <3>1. \A i \in DOMAIN V : i # 1 => V[i].state = "HEADER"
        BY <1>1, <1>3, <2>1 DEF Joint
      <3>2. R[Len(R)].msg = V[1].msg
        BY <1>2, <2>1
      <3> QED BY <3>1, <3>2 DEF Joint
    <2> QED BY <2>6, <2>7 DEF Truthful, w, R
  <1> QED BY <1>7, <1>8

\* so does a step of the first item that nobody sees
LEMMA SameTexts ==
  ASSUME NEW T, NEW Q \in Seq(T), NEW V \in Seq(T), NEW P, NEW h, NEW K,
         P = <<>> \/ V[1].state = Q[1].state,
         Joint(P, Q), Truthful(P, Q, h, K), Len(V) = Len(Q), V[1].msg = Q[1].msg,
         \A i \in DOMAIN Q : i # 1 => V[i] = Q[i]
  PROVE  Joint(P, V) /\ Truthful(P, V, h, K)
  <1>1. DOMAIN V = DOMAIN Q
    OBVIOUS
  <1>2. \A i \in DOMAIN Q : V[i].msg = Q[i].msg
    OBVIOUS
  <1>3. Texts(V) = Texts(Q)
    BY <1>1, <1>2 DEF Texts
  <1>4. Q # <<>> <=> V # <<>>
    OBVIOUS
  <1>5. Joint(P, V)
    BY <1>1, <1>4 DEF Joint
  <1> QED BY <1>3, <1>5 DEF Truthful, Flight

\* and so does taking off the first item when it is written: the pipe holds it, or it was read
LEMMA WrittenKeeps ==
  ASSUME NEW S, NEW T, NEW P \in Seq(S), NEW Q \in Seq(T), NEW h \in BOOLEAN, NEW K,
         Joint(P, Q), Truthful(P, Q, h, K), Q # <<>>, Q[1].state # "HEADER"
  PROVE  Joint(P, Tail(Q)) /\ Truthful(P, Tail(Q), h, K)
  <1> DEFINE V == Tail(Q)
             m == Flight(P, Q)
             w == Flight(P, V)
             a == Len(P)
             b == Len(Q)
  <1>1. /\ a \in Nat /\ b \in Nat /\ DOMAIN m = 1..(a + b) /\ DOMAIN Q = 1..b
        /\ \A i \in 1..a : m[i] = P[i].msg
        /\ \A i \in 1..b : m[a + i] = Q[i].msg
    BY FlightLemma
  <1>2. /\ V \in Seq(T) /\ Len(V) = b - 1 /\ b # 0 /\ DOMAIN V = 1..(b - 1)
        /\ \A i \in 1..(b - 1) : V[i] = Q[i + 1]
    OBVIOUS
  <1> HIDE DEF V
  <1>3. /\ DOMAIN w = 1..(a + (b - 1))
        /\ \A i \in 1..a : w[i] = P[i].msg
        /\ \A i \in 1..(b - 1) : w[a + i] = V[i].msg
    <2> DEFINE e == Len(V)
    <2>0. V \in Seq(T)
      BY <1>2
    <2>1. /\ DOMAIN w = 1..(a + e)
          /\ \A i \in 1..a : w[i] = P[i].msg
          /\ \A i \in 1..e : w[a + i] = V[i].msg
      BY <2>0, FlightLemma
    <2>2. e = b - 1
      BY <1>2
    <2> HIDE DEF w, e, a, b
    <2> QED BY <2>1, <2>2
  <1>4. P # <<>> => a # 0 /\ P[a].msg = Q[1].msg
    BY DEF Joint
  <1>5. P = <<>> => a = 0
    OBVIOUS
  <1> HIDE DEF m, w, a, b
  <1> DEFINE n == a + b
             p == a + 1
  <1>6. n \in Nat /\ p \in 1..n /\ DOMAIN m = 1..n /\ DOMAIN w = 1..(n - 1)
    BY <1>1, <1>2, <1>3
  <1>7. p = 1 \/ m[p - 1] = m[p]
    <2> SUFFICES ASSUME a # 0 PROVE m[p - 1] = m[p]
      BY <1>1
    <2>1. a \in 1..a /\ 1 \in 1..b /\ p - 1 = a
      BY <1>1, <1>2
    <2>2. m[a] = P[a].msg /\ m[a + 1] = Q[1].msg
      BY <1>1, <2>1
    <2> QED BY <1>4, <1>5, <2>1, <2>2
  <1>8. ASSUME NEW i \in 1..(n - 1) PROVE w[i] = m[IF i < p THEN i ELSE i + 1]
    <2>1. CASE i < p
      <3>1. i \in 1..a
        BY <1>1, <2>1
      <3> QED BY <1>1, <1>3, <2>1, <3>1
    <2>2. CASE ~(i < p)
      <3>1. i - a \in 1..(b - 1) /\ a + (i - a) = i /\ (i - a) + 1 \in 1..b /\ a + ((i - a) + 1) = i + 1
        BY <1>1, <1>2, <2>2
      <3> DEFINE j == i - a
      <3>2. j \in 1..(b - 1) /\ a + j = i /\ j + 1 \in 1..b /\ a + (j + 1) = i + 1
        BY <3>1
      <3> HIDE DEF j
      <3>3. w[i] = Q[j + 1].msg
        BY <1>2, <1>3, <3>2
      <3>4. m[i + 1] = Q[j + 1].msg
        BY <1>1, <3>2
      <3> QED BY <2>2, <3>3, <3>4
    <2> QED BY <2>1, <2>2
  <1> HIDE DEF n, p
  <1>9. Sound(m) /\ (h => Regrabbed(m, K))
    BY DEF Truthful, m
  <1>10. (Sound(m) => Sound(w)) /\ (Regrabbed(m, K) => Regrabbed(w, K))
    BY <1>6, <1>7, <1>8, UnrepeatSound
  <1>11. ASSUME NEW i \in DOMAIN V PROVE V[i].state = "HEADER"
    <2>1. i + 1 \in 1..b /\ i + 1 # 1 /\ V[i] = Q[i + 1]
      BY <1>1, <1>2
    <2> QED BY <1>1, <2>1 DEF Joint
  <1>12. V # <<>> => 1 \in DOMAIN V
    BY <1>2
  <1>13. Joint(P, V)
    BY <1>11, <1>12 DEF Joint
  <1> QED BY <1>9, <1>10, <1>13 DEF Truthful, w, V

\* and so does queueing what Tells allows
LEMMA SayKeeps ==
  ASSUME NEW S, NEW T, NEW M, NEW P \in Seq(S), NEW Q \in Seq(T), NEW ms \in Seq(M),
         \A x \in M : Item(x) \in T, NEW h \in BOOLEAN, NEW K, NEW L,
         Joint(P, Q), Truthful(P, Q, h, K), h \/ K = {}, Tells(ms, K, L)
  PROVE  Joint(P, Q \o Items(ms)) /\ Truthful(P, Q \o Items(ms), TRUE, L)
  <1> DEFINE N == Items(ms)
             V == Q \o N
             m == Flight(P, Q)
             w == Flight(P, V)
             a == Len(P)
             b == Len(Q)
             e == Len(ms)
  <1>1. /\ a \in Nat /\ b \in Nat /\ DOMAIN m = 1..(a + b) /\ DOMAIN Q = 1..b
        /\ \A i \in 1..a : m[i] = P[i].msg
        /\ \A i \in 1..b : m[a + i] = Q[i].msg
    BY FlightLemma
  <1>2. e \in Nat /\ DOMAIN ms = 1..e
    OBVIOUS
  <1>3. N \in Seq(T) /\ Len(N) = e
    BY ItemsLemma
  <1>4. \A i \in 1..e : N[i] = Item(ms[i])
    BY <1>2 DEF Items
  <1> HIDE DEF N
  <1>5. /\ V \in Seq(T) /\ Len(V) = b + e
        /\ \A i \in 1..(b + e) : V[i] = IF i <= b THEN Q[i] ELSE N[i - b]
    <2> DEFINE c == Len(N)
    <2>1. N \in Seq(T)
      BY <1>3
    <2>2. /\ V \in Seq(T) /\ Len(V) = b + c
          /\ \A i \in 1..(b + c) : V[i] = IF i <= b THEN Q[i] ELSE N[i - b]
      BY <2>1, ConcatProperties
    <2>3. c = e
      BY <1>3
    <2> HIDE DEF V, b, c, e
    <2> QED BY <2>2, <2>3
  <1> HIDE DEF V
  <1>6. /\ DOMAIN w = 1..(a + (b + e)) /\ DOMAIN V = 1..(b + e)
        /\ \A i \in 1..a : w[i] = P[i].msg
        /\ \A i \in 1..(b + e) : w[a + i] = V[i].msg
    <2> DEFINE v == Len(V)
    <2>0. V \in Seq(T)
      BY <1>5
    <2>1. /\ DOMAIN w = 1..(a + v) /\ DOMAIN V = 1..v
          /\ \A i \in 1..a : w[i] = P[i].msg
          /\ \A i \in 1..v : w[a + i] = V[i].msg
      BY <2>0, FlightLemma
    <2>2. v = b + e
      BY <1>5
    <2> HIDE DEF w, v, e, a, b
    <2> QED BY <2>1, <2>2
  <1>7. Q = <<>> => b = 0
    OBVIOUS
  <1>8. Q # <<>> => b # 0
    OBVIOUS
  <1>9. V # <<>> => 1 \in DOMAIN V
    BY <1>5
  <1> HIDE DEF m, w, a, b, e
  <1>10. ASSUME NEW i \in 1..b PROVE V[i] = Q[i]
    <2>1. i \in 1..(b + e) /\ i <= b
      BY <1>1, <1>2
    <2> QED BY <1>5, <2>1
  <1>11. ASSUME NEW i \in 1..e PROVE b + i \in 1..(b + e) /\ V[b + i] = Item(ms[i])
    <2>1. b + i \in 1..(b + e) /\ ~(b + i <= b) /\ (b + i) - b = i
      BY <1>1, <1>2
    <2>2. V[b + i] = N[i]
      BY <1>5, <2>1
    <2> QED BY <1>4, <2>1, <2>2
  <1>12. ASSUME NEW i \in 1..(b + e), i > b PROVE V[i].state = "HEADER"
    <2>1. i - b \in 1..e /\ b + (i - b) = i
      BY <1>1, <1>2, <1>12
    <2>2. V[i] = Item(ms[i - b])
      BY <1>11, <2>1
    <2> QED BY <2>2 DEF Item
  <1>13. Joint(P, V)
    <2>1. ASSUME NEW i \in 1..(b + e), i # 1 PROVE V[i].state = "HEADER"
      <3>1. CASE i <= b
        <4>1. i \in 1..b
          BY <1>1, <3>1
        <4> QED BY <1>1, <1>10, <2>1, <4>1 DEF Joint
      <3>2. CASE ~(i <= b)
        BY <1>1, <1>12, <3>2
      <3> QED BY <3>1, <3>2
    <2>2. ASSUME V # <<>>, V[1].state # "HEADER", P # <<>> PROVE P[Len(P)].msg = V[1].msg
      <3>1. 1 \in 1..(b + e)
        BY <1>6, <1>9, <2>2
      <3>2. b # 0
        BY <1>1, <1>12, <2>2, <3>1
      <3>3. Q # <<>> /\ V[1] = Q[1]
        BY <1>1, <1>7, <1>10, <3>2
      <3> QED BY <2>2, <3>3 DEF Joint
    <2> QED BY <1>6, <2>1, <2>2 DEF Joint
  <1> DEFINE n == a + b
  <1>14. n \in Nat /\ DOMAIN m = 1..n /\ DOMAIN w = 1..(n + e)
    BY <1>1, <1>2, <1>6
  <1>15. ASSUME NEW i \in 1..n PROVE w[i] = m[i]
    <2>1. CASE i <= a
      <3>1. i \in 1..a
        BY <1>1, <2>1
      <3> QED BY <1>1, <1>6, <3>1
    <2>2. CASE ~(i <= a)
      <3> DEFINE j == i - a
      <3>1. j \in 1..b /\ j \in 1..(b + e) /\ a + j = i
        BY <1>1, <1>2, <2>2
      <3> HIDE DEF j
      <3>2. w[a + j] = V[j].msg /\ m[a + j] = Q[j].msg /\ V[j] = Q[j]
        BY <1>1, <1>6, <1>10, <3>1
      <3> QED BY <3>1, <3>2
    <2> QED BY <2>1, <2>2
  <1>16. ASSUME NEW i \in DOMAIN ms PROVE w[n + i] = ms[i]
    <2>1. i \in 1..e /\ b + i \in 1..(b + e) /\ V[b + i] = Item(ms[i])
      BY <1>2, <1>11
    <2>2. n + i = a + (b + i)
      BY <1>1, <1>2, <2>1
    <2>3. w[a + (b + i)] = ms[i]
      BY <1>6, <2>1 DEF Item
    <2> QED BY <2>2, <2>3
  <1> HIDE DEF n
  <1>17. Sound(m) /\ Regrabbed(m, K)
    <2>1. K = {} => Regrabbed(m, K)
      BY DEF Regrabbed
    <2> QED BY <2>1 DEF Truthful, m
  <1>18. DOMAIN w = 1..(n + Len(ms))
    BY <1>14 DEF e
  <1>19. Sound(w) /\ Regrabbed(w, L)
    BY <1>14, <1>15, <1>16, <1>17, <1>18, SaySound
  <1> QED BY <1>13, <1>19 DEF Truthful, w, V, N

-----------------------------------------------------------------------------
(* What a step does to the messages of a client *)

Here(c)  == PeerConn(c) \in DOMAIN streams[c]
Piped(c) == pipe[PeerConn(c)][Server]
Queue(c) == IF Here(c) THEN streams[c][PeerConn(c)].queue ELSE <<>>

Pieces == [msg : ToServer, part : {"header", "body"}]
Waits  == [msg : ToServer, state : ItemStates \ {"CLOSED"}]

\* the server reads, an end closes, or nothing happens
Cuts(c) ==
    /\ \/ Piped(c)' = Piped(c) \/ Piped(c)' = <<>>
       \/ Piped(c) # <<>> /\ Piped(c)' = Tail(Piped(c))
    /\ Here(c)' => Here(c) /\ Queue(c)' = Queue(c) /\ polled'[c] \subseteq polled[c]

\* V is the queue Q after a piece of its first item was written
Ahead(Q, V) ==
    Len(V) = Len(Q) /\ V[1] = Streamed(Q[1]) /\ \A i \in DOMAIN Q : i # 1 => V[i] = Q[i]

\* the client writes
Sends(c) ==
    /\ Here(c) /\ Queue(c) # <<>> /\ Queue(c)[1].state # "COMPLETE"
    /\ Piped(c)' = Append(Piped(c), Unit(Queue(c)[1]))
    /\ Here(c)' => Ahead(Queue(c), Queue(c)') /\ polled'[c] = polled[c]

\* it writes, and nobody will read it
Loses(c) ==
    /\ Here(c) /\ Here(c)' /\ Queue(c) # <<>> /\ Queue(c)[1].state # "COMPLETE"
    /\ Piped(c) = <<>> /\ Piped(c)' = <<>>
    /\ Ahead(Queue(c), Queue(c)') /\ polled'[c] = polled[c]

\* what is written leaves the queue
Pops(c) ==
    /\ Here(c) /\ Here(c)' /\ Queue(c) # <<>> /\ Queue(c)[1].state # "HEADER"
    /\ Queue(c)' = Tail(Queue(c)) /\ Piped(c)' = Piped(c) /\ polled'[c] = polled[c]

IsCrt(m)  == m.h = "PEER_DEV_CRT"
IsStop(m) == m.h = "PEER_STOP"

\* the devices client c is told to capture
Captures(c) == {DeviceArg[c][i] : i \in DOMAIN DeviceArg[c]}

\* a client says that a device exists only when it starts, and that it stops only when a
\* relay asks for it
Speaks(c, ms) ==
    /\ \A i \in DOMAIN ms : IsCrt(ms[i]) => proc[c] = "off" /\ ms[i].dev \in Captures(c)
    /\ \A i \in DOMAIN ms : IsStop(ms[i]) => ms[i] = Msg("PEER_STOP") /\ \E x : RelayStop(c, x)
    /\ \A i, j \in DOMAIN ms : IsStop(ms[i]) /\ IsStop(ms[j]) => i = j

\* the client queues ms
Queues(c, ms) ==
    /\ Here(c)' /\ Piped(c)' = Piped(c) /\ Queue(c)' = Queue(c) \o Items(ms)
    /\ Tells(ms, IF Here(c) THEN polled[c] ELSE {}, polled'[c]) /\ Speaks(c, ms)

\* the client writes nothing
Gathers(c) == Cuts(c) \/ Pops(c) \/ \E ms \in Seq(ToServer) : Queues(c, ms)

Moves(c) == Gathers(c) \/ Sends(c) \/ Loses(c)

\* what the client has written is collected before it streams again
Collected(c) == Queue(c) # <<>> /\ Queue(c)[1].state = "COMPLETE" => PeerConn(c) \in batch[c]

\* What client c says is joined, and tells no event of a device it has released.
Carried(c) ==
    Joint(Piped(c), Queue(c)) /\ Truthful(Piped(c), Queue(c), Here(c), polled[c])

\* a client's connection, and what it carries
LEMMA ClientLemma ==
  ASSUME NEW c \in Clients
  PROVE  LET s == PeerConn(c)
         IN  /\ c \in Daemons /\ Server \in Daemons /\ c # Server /\ c # Tcp
             /\ s \in Connections /\ s \in NamesOf(c) /\ s \in NamesOf(Server)
             /\ s[1] = "peer" /\ s[2] = c /\ IsSocket(s)
             /\ Ends(s) = {c, Server} /\ OtherEnd(s, c) = Server /\ OtherEnd(s, Server) = c
             /\ \A d \in Daemons : s \in NamesOf(d) => d \in {c, Server}
  <1> DEFINE s == PeerConn(c)
  <1>1. c \in Daemons /\ Server \in Daemons /\ c # Server /\ c # Tcp
    BY DaemonsLemma, NamesAssumption DEF Daemons
  <1>2. s[1] = "peer" /\ s[2] = c /\ s \in Connections
    BY DEF PeerConn, Connections
  <1>3. s \in NamesOf(c) /\ s \in NamesOf(Server)
    BY <1>1 DEF NamesOf, PeersOf
  <1>4. Ends(s) = {c, Server}
    BY <1>2 DEF Ends
  <1>5. OtherEnd(s, c) = Server /\ OtherEnd(s, Server) = c
    BY <1>1, <1>4 DEF OtherEnd
  <1>6. \A d \in Daemons : s \in NamesOf(d) => d \in {c, Server}
    BY <1>2, NamesLemma
  <1> QED BY <1>1, <1>2, <1>3, <1>4, <1>5, <1>6 DEF IsSocket

\* both are of their types
LEMMA TrafficTyped ==
  ASSUME NEW c \in Clients, NEW E, NEW p, TypedPipes(p, E), NEW ss, TypedStreams(c, ss, E)
  PROVE  LET s == PeerConn(c)
         IN  /\ p[s][Server] \in Seq(Pieces)
             /\ s \in DOMAIN ss => ss[s].queue \in Seq(Waits)
             /\ (IF s \in DOMAIN ss THEN ss[s].queue ELSE <<>>) \in Seq(Waits)
  <1> DEFINE s == PeerConn(c)
  <1>1. /\ c \in Daemons /\ c # Server /\ s \in Connections /\ Server \in Ends(s) /\ s[1] = "peer"
    BY ClientLemma
  <1>2. Units(s, Server, E) = Pieces
    BY <1>1 DEF Units, Arriving, Pieces
  <1>3. QueueItems(c, s, E) = Waits
    BY <1>1 DEF QueueItems, Sent, Waits
  <1> HIDE DEF s
  <1>4. p[s][Server] \in Seq(Pieces)
    BY <1>1, <1>2 DEF TypedPipes
  <1>5. ASSUME s \in DOMAIN ss PROVE ss[s].queue \in Seq(Waits)
    <2>1. ss[s] \in StreamsOf(c, s, E)
      BY <1>5 DEF TypedStreams
    <2> QED BY <1>3, <2>1 DEF StreamsOf, Records
  <1> QED BY <1>4, <1>5 DEF s

\* the first item of a queue is of the same message after a write
LEMMA AheadText ==
  ASSUME NEW Q \in Seq(Waits), Q # <<>>, NEW V, Ahead(Q, V) PROVE V[1].msg = Q[1].msg
  <1>1. Q[1] \in Waits
    BY HeadsLemma
  <1> QED BY <1>1 DEF Ahead, Waits, Streamed

\* whatever moves, what is said stays true
LEMMA MovesKeep ==
  ASSUME TypeInv, TypeInv', NEW c \in Clients, Carried(c), Moves(c)
  PROVE  Carried(c)'
  <1> DEFINE P == Piped(c)
             Q == Queue(c)
             R == Piped(c)'
             V == Queue(c)'
             h == Here(c)
             g == Here(c)'
             K == polled[c]
             L == polled'[c]
  <1>0. c \in Daemons
    BY ClientLemma
  <1>1. P \in Seq(Pieces) /\ Q \in Seq(Waits)
    <2>1. TypedPipes(pipe, exiting) /\ TypedStreams(c, streams[c], exiting)
      BY <1>0 DEF TypeInv
    <2> QED BY <2>1, TrafficTyped DEF Piped, Queue, Here
  <1>2. R \in Seq(Pieces) /\ V \in Seq(Waits)
    <2>1. TypedPipes(pipe', exiting') /\ TypedStreams(c, streams'[c], exiting')
      BY <1>0 DEF TypeInv
    <2> QED BY <2>1, TrafficTyped DEF Piped, Queue, Here
  <1>3. h \in BOOLEAN /\ g \in BOOLEAN /\ (~h => Q = <<>>) /\ (~g => V = <<>>)
    BY DEF Here, Queue
  <1>4. Joint(P, Q) /\ Truthful(P, Q, h, K)
    BY DEF Carried
  <1> SUFFICES Joint(R, V) /\ Truthful(R, V, g, L)
    BY DEF Carried
  <1>5. CASE Cuts(c)
    <2>1. R = P \/ R = <<>> \/ (P # <<>> /\ R = Tail(P))
      BY <1>5 DEF Cuts
    <2>2. g => h /\ V = Q /\ L \subseteq K
      BY <1>5 DEF Cuts
    <2> HIDE DEF P, Q, R, V, h, g, K, L
    <2> QED BY <1>1, <1>2, <1>3, <1>4, <2>1, <2>2, CutKeeps
  <1>6. CASE Sends(c)
    <2> DEFINE u == Unit(Q[1])
    <2>1. Q # <<>> /\ R = Append(P, u) /\ h
      BY <1>6 DEF Sends
    <2>2. /\ g => L = K
          /\ g => h /\ Len(V) = Len(Q) /\ V[1].msg = Q[1].msg /\ \A i \in DOMAIN Q : i # 1 => V[i] = Q[i]
      <3>1. g => V[1].msg = Q[1].msg
        BY <1>1, <1>6, AheadText DEF Sends
      <3> QED BY <1>6, <3>1 DEF Sends, Ahead
    <2>3. u \in Pieces /\ u.msg = Q[1].msg
      <3>1. Q[1] \in Waits
        BY <1>1, <2>1, HeadsLemma
      <3> QED BY <3>1 DEF Unit, Pieces, Waits
    <2> HIDE DEF P, Q, R, V, h, g, K, L, u
    <2>4. Joint(Append(P, u), V) /\ Truthful(Append(P, u), V, g, K)
      <3>1. P \in Seq(Pieces) /\ Q \in Seq(Waits) /\ V \in Seq(Waits) /\ u \in Pieces
        BY <1>1, <1>2, <2>3
      <3>2. h \in BOOLEAN /\ g \in BOOLEAN /\ Q # <<>> /\ u.msg = Q[1].msg /\ (~g => V = <<>>)
        BY <1>3, <2>1, <2>3
      <3> QED BY <1>4, <2>2, <3>1, <3>2, WriteKeeps
    <2> QED BY <2>1, <2>2, <2>4 DEF Truthful
  <1>7. CASE Loses(c)
    <2>1. P = <<>> /\ R = P /\ h /\ g /\ K = L
      BY <1>7 DEF Loses
    <2>2. Len(V) = Len(Q) /\ V[1].msg = Q[1].msg /\ \A i \in DOMAIN Q : i # 1 => V[i] = Q[i]
      <3>1. V[1].msg = Q[1].msg
        BY <1>1, <1>7, AheadText DEF Loses
      <3> QED BY <1>7, <3>1 DEF Loses, Ahead
    <2> HIDE DEF P, Q, R, V, h, g, K, L
    <2>3. Joint(P, V) /\ Truthful(P, V, h, K)
      BY <1>1, <1>2, <1>4, <2>1, <2>2, SameTexts
    <2> QED BY <2>1, <2>3 DEF Truthful
  <1>8. CASE Pops(c)
    <2>1. Q # <<>> /\ Q[1].state # "HEADER" /\ V = Tail(Q) /\ R = P /\ h /\ g /\ K = L
      BY <1>8 DEF Pops
    <2> HIDE DEF P, Q, R, V, h, g, K, L
    <2>2. Joint(P, Tail(Q)) /\ Truthful(P, Tail(Q), h, K)
      BY <1>1, <1>3, <1>4, <2>1, WrittenKeeps
    <2> QED BY <2>1, <2>2 DEF Truthful
  <1>9. ASSUME NEW ms \in Seq(ToServer), Queues(c, ms) PROVE Joint(R, V) /\ Truthful(R, V, g, L)
    <2> DEFINE O == IF h THEN K ELSE {}
    <2>1. R = P /\ g /\ V = Q \o Items(ms) /\ Tells(ms, O, L)
      BY <1>9 DEF Queues
    <2>2. \A x \in ToServer : Item(x) \in Waits
      BY DEF Item, Waits, ItemStates
    <2>3. Truthful(P, Q, h, O) /\ (h \/ O = {})
      BY <1>4 DEF Truthful
    <2> HIDE DEF P, Q, R, V, h, g, K, L, O
    <2>4. Joint(P, Q \o Items(ms)) /\ Truthful(P, Q \o Items(ms), TRUE, L)
      BY <1>1, <1>3, <1>4, <2>1, <2>2, <2>3, SayKeeps
    <2> QED BY <2>1, <2>4 DEF Truthful
  <1> QED BY <1>5, <1>6, <1>7, <1>8, <1>9 DEF Moves, Gathers

-----------------------------------------------------------------------------
(* The end of a daemon, and the pipe *)

\* d ends, having streamed some of what was ready
Departs(d) ==
    \E how \in {"exited", "failed"} :
        \/ ProcessEnds(d, how, pipe)
        \/ batch[d] = {} /\ \E S \in SUBSET ReadySet(d) : ProcessEnds(d, how, PipeAfter(d, S))

\* a step that is not a handler's
LEMMA FineSteps ==
  ASSUME Next
  PROVE  \/ \E d \in Daemons : Departs(d) \/ Dispatch(d) \/ Resolve(d)
         \/ \E c \in Clients : ClientStart(c)
         \/ \E r \in Relays : \/ \E h \in Commands[r] : RelayConnect(r, h)
                              \/ RelayRead(r) \/ RelayDrain(r)
                              \/ \E how \in {"closed", "failed"} : RelayEnds(r, how)
         \/ User
  <1>1. ASSUME NEW d \in Daemons, DispatchFails(d) PROVE Departs(d)
    BY <1>1 DEF DispatchFails, InLoop, Departs
  <1>2. ASSUME NEW d \in Daemons, Exit(d) PROVE Departs(d)
    BY <1>2 DEF Exit, Departs
  <1>3. ASSUME NEW d \in Killable, Kill(d) PROVE Departs(d) /\ d \in Daemons
    BY <1>3, FaultsAssumption DEF Kill, Fails, Departs
  <1>4. ASSUME NEW r \in Relays, RelayEof(r) \/ RelayGivesUp(r)
        PROVE  \E how \in {"closed", "failed"} : RelayEnds(r, how)
    BY <1>4 DEF RelayEof, RelayGivesUp
  <1> QED BY <1>1, <1>2, <1>3, <1>4 DEF Next, RelayProcess

\* what a pass of d makes of the pipe to the server
LEMMA PipeAfterPeer ==
  ASSUME TypeInv, NEW c \in Clients, NEW d \in Daemons, NEW S \in SUBSET ReadySet(d)
  PROVE  LET s == PeerConn(c)
             P == Piped(c)
             R == PipeAfter(d, S)[s][Server]
         IN  /\ d \notin {c, Server} => R = P
             /\ d = Server => R = P \/ (P # <<>> /\ R = Tail(P))
             /\ d = c => \/ R = P
                         \/ /\ Here(c) /\ s \in S /\ Writes(c, s) /\ Server \in open[s]
                            /\ R = Append(P, Unit(streams[c][s].queue[1]))
             /\ d = c /\ s \in S /\ Writes(c, s) /\ Server \in open[s]
                     => R = Append(P, Unit(streams[c][s].queue[1]))
  <1> DEFINE s == PeerConn(c)
             P == Piped(c)
             p == PipeAfter(d, S)
             R == p[s][Server]
  <1>1. /\ c \in Daemons /\ c # Server /\ s \in Connections /\ Ends(s) = {c, Server}
        /\ OtherEnd(s, c) = Server /\ OtherEnd(s, Server) = c
        /\ \A e \in Daemons : s \in NamesOf(e) => e \in {c, Server}
    BY ClientLemma
  <1>2. DOMAIN pipe[s] = {c, Server}
    BY <1>1 DEF TypeInv, TypedPipes
  <1>3. s \in S => s \in DOMAIN streams[d] /\ s \in NamesOf(d)
    BY StreamFacts DEF ReadySet
  <1>4. p[s] = IF s \notin S THEN pipe[s]
               ELSE IF Reads(d, s) THEN [pipe[s] EXCEPT ![d] = Tail(@)]
               ELSE IF Writes(d, s) /\ OtherEnd(s, d) \in open[s]
               THEN [pipe[s] EXCEPT ![OtherEnd(s, d)] = Append(@, Unit(streams[d][s].queue[1]))]
               ELSE pipe[s]
    BY <1>1 DEF PipeAfter
  <1>5. ~(Reads(d, s) /\ Writes(d, s))
    BY DEF Reads, Writes
  <1>6. CASE d \notin {c, Server}
    BY <1>1, <1>3, <1>4, <1>6 DEF Piped
  <1>7. CASE d = Server
    <2>1. CASE Reads(d, s) /\ s \in S
      <3>1. pipe[s][Server] # <<>>
        BY <1>7, <2>1 DEF Reads
      <3>2. p[s] = [pipe[s] EXCEPT ![Server] = Tail(@)]
        BY <1>4, <1>7, <2>1
      <3> QED BY <1>1, <1>2, <1>7, <3>1, <3>2 DEF Piped
    <2>2. CASE ~(Reads(d, s) /\ s \in S)
      <3>1. p[s] = pipe[s] \/ \E v : p[s] = [pipe[s] EXCEPT ![c] = v]
        BY <1>1, <1>4, <1>7, <2>2
      <3> QED BY <1>1, <1>2, <1>7, <3>1 DEF Piped
    <2> QED BY <2>1, <2>2
  <1>8. CASE d = c
    <2> DEFINE u == Unit(streams[c][s].queue[1])
    <2> HIDE DEF u
    <2>1. CASE s \in S /\ Writes(c, s) /\ Server \in open[s]
      <3>1. p[s] = [pipe[s] EXCEPT ![Server] = Append(@, u)]
        BY <1>1, <1>4, <1>5, <1>8, <2>1 DEF u
      <3>2. R = Append(P, u)
        BY <1>2, <3>1 DEF Piped
      <3> QED BY <1>1, <1>3, <1>8, <2>1, <3>2 DEF u, Here
    <2>2. CASE ~(s \in S /\ Writes(c, s) /\ Server \in open[s])
      <3>1. p[s] = pipe[s] \/ \E v : p[s] = [pipe[s] EXCEPT ![c] = v]
        BY <1>1, <1>4, <1>8, <2>2
      <3>2. R = P
        BY <1>1, <1>2, <3>1 DEF Piped
      <3> QED BY <1>1, <1>8, <2>2, <3>2
    <2> QED BY <2>1, <2>2
  <1> QED BY <1>6, <1>7, <1>8

\* what the end of d makes of the connection of c: what its last pass left of the pipe, or
\* nothing when it was the server that closed it
LEMMA DepartsPeer ==
  ASSUME TypeInv, NEW c \in Clients, NEW d \in Daemons, Departs(d)
  PROVE  LET s == PeerConn(c)
             P == Piped(c)
             R == Piped(c)'
         IN  /\ d \notin {c, Server} => R = P
             /\ d = Server => R = P \/ R = <<>> \/ (P # <<>> /\ R = Tail(P))
             /\ d = Server /\ Server \in open[s] => R = <<>>
             /\ d = c => \/ R = P
                         \/ /\ Here(c) /\ Writes(c, s) /\ batch[c] = {}
                            /\ R = Append(P, Unit(streams[c][s].queue[1]))
             /\ streams' = [streams EXCEPT ![d] = <<>>] /\ polled' = [polled EXCEPT ![d] = {}]
             /\ open'[s] = open[s] \ {d}
             /\ backlog' = [backlog EXCEPT ![d] = <<>>, ![Tcp] = IF d = Server THEN <<>> ELSE @]
             /\ \E how \in {"exited", "failed"} : proc' = [proc EXCEPT ![d] = how]
  <1> DEFINE s == PeerConn(c)
             P == Piped(c)
  <1>1. /\ c \in Daemons /\ c # Server /\ s \in Connections /\ Ends(s) = {c, Server}
    BY ClientLemma
  <1>2. PICK how \in {"exited", "failed"} :
           \/ ProcessEnds(d, how, pipe)
           \/ batch[d] = {} /\ \E S \in SUBSET ReadySet(d) : ProcessEnds(d, how, PipeAfter(d, S))
    BY DEF Departs
  <1>3. PICK p : /\ ProcessEnds(d, how, p)
                 /\ p = pipe \/ (batch[d] = {} /\ \E S \in SUBSET ReadySet(d) : p = PipeAfter(d, S))
    BY <1>2
  <1> DEFINE R == p[s][Server]
  <1>4. /\ d \notin {c, Server} => R = P
        /\ d = Server => R = P \/ (P # <<>> /\ R = Tail(P))
        /\ d = c => \/ R = P
                    \/ /\ Here(c) /\ Writes(c, s) /\ batch[c] = {}
                       /\ R = Append(P, Unit(streams[c][s].queue[1]))
    <2>1. CASE p = pipe
      BY <2>1 DEF Piped
    <2>2. CASE batch[d] = {} /\ \E S \in SUBSET ReadySet(d) : p = PipeAfter(d, S)
      BY <2>2, PipeAfterPeer
    <2> QED BY <1>3, <2>1, <2>2
  <1>5. DOMAIN p[s] = {c, Server}
    <2>1. TypedPipes(p, exiting)
      <3>1. ReadySet(d) \subseteq DOMAIN streams[d]
        BY DEF ReadySet
      <3>2. \A S \in SUBSET ReadySet(d) : TypedPipes(PipeAfter(d, S), exiting)
        BY <3>1, PipeAfterTyped
      <3> QED BY <1>3, <3>2 DEF TypeInv
    <2> QED BY <1>1, <2>1 DEF TypedPipes
  <1>6. /\ Piped(c)' = R \/ (d = Server /\ Piped(c)' = <<>>)
        /\ d = Server /\ Server \in open[s] => Piped(c)' = <<>>
    <2>1. pipe'[s] = IF d \in open[s] THEN [p[s] EXCEPT ![d] = <<>>] ELSE p[s]
      BY <1>1, <1>3 DEF ProcessEnds, HeldBy
    <2> QED BY <1>1, <1>5, <2>1 DEF Piped
  <1>7. /\ streams' = [streams EXCEPT ![d] = <<>>] /\ polled' = [polled EXCEPT ![d] = {}]
        /\ open'[s] = open[s] \ {d}
        /\ backlog' = [backlog EXCEPT ![d] = <<>>, ![Tcp] = IF d = Server THEN <<>> ELSE @]
        /\ proc' = [proc EXCEPT ![d] = how]
    BY <1>1, <1>3 DEF ProcessEnds
  <1> HIDE DEF s, P, R
  <1> QED BY <1>1, <1>4, <1>6, <1>7 DEF s, P

\* the end of a daemon empties the pipe or leaves what its last pass made of it
LEMMA DepartsMoves ==
  ASSUME TypeInv, NEW c \in Clients, Collected(c), NEW d \in Daemons, Departs(d)
  PROVE  Moves(c)
  <1> DEFINE s == PeerConn(c)
             P == Piped(c)
             R == Piped(c)'
  <1>1. c \in Daemons /\ c # Server
    BY ClientLemma
  <1>2. /\ d \notin {c, Server} => R = P
        /\ d = Server => R = P \/ R = <<>> \/ (P # <<>> /\ R = Tail(P))
        /\ d = c => \/ R = P
                    \/ /\ Here(c) /\ Writes(c, s) /\ batch[c] = {}
                       /\ R = Append(P, Unit(streams[c][s].queue[1]))
        /\ streams' = [streams EXCEPT ![d] = <<>>] /\ polled' = [polled EXCEPT ![d] = {}]
    BY DepartsPeer
  <1>3. CASE d # c
    <2>1. streams'[c] = streams[c] /\ polled'[c] = polled[c]
      BY <1>1, <1>2, <1>3 DEF TypeInv
    <2>2. Here(c)' = Here(c) /\ Queue(c)' = Queue(c)
      BY <2>1 DEF Here, Queue
    <2> QED BY <1>1, <1>2, <1>3, <2>1, <2>2 DEF Moves, Gathers, Cuts
  <1>4. CASE d = c
    <2>1. ~Here(c)'
      BY <1>1, <1>2, <1>4 DEF Here, TypeInv
    <2>2. CASE R = P
      BY <2>1, <2>2 DEF Moves, Gathers, Cuts
    <2>3. CASE R # P
      <3>1. Here(c) /\ Writes(c, s) /\ batch[c] = {} /\ R = Append(P, Unit(Queue(c)[1]))
        BY <1>1, <1>2, <1>4, <2>3 DEF Queue
      <3>2. Queue(c) # <<>> /\ Queue(c)[1].state # "COMPLETE"
        BY <1>1, <3>1, StreamFacts DEF Queue, Here, Collected
      <3> QED BY <2>1, <3>1, <3>2 DEF Moves, Sends
    <2> QED BY <2>2, <2>3
  <1> QED BY <1>3, <1>4

-----------------------------------------------------------------------------
(* A pass *)

\* one read or write of the peer's stream
LEMMA AfterIoPeer ==
  ASSUME TypeInv, NEW d \in Daemons, NEW s \in ReadySet(d), s[1] = "peer"
  PROVE  LET q == streams[d][s].queue
             f == streams[d][s].fallback
             z == AfterIo(d, s)
         IN  /\ ~Writes(d, s) => z.queue = q
             /\ Writes(d, s) => /\ q # <<>> /\ z.queue = [q EXCEPT ![1] = Streamed(@)]
                                /\ z.fallback = f
             /\ z.fallback.state = "CLOSED" /\ f.state # "CLOSED" => OtherEnd(s, d) \notin open[s]
  <1> DEFINE t == streams[d][s]
             z == AfterIo(d, s)
  <1>1. /\ s \in DOMAIN streams[d] /\ Ready(d, s) /\ IsSocket(s)
        /\ t \in Records(d, s, exiting) /\ (Writes(d, s) => t.queue # <<>>)
    BY StreamFacts DEF ReadySet, StreamsOf, IsSocket
  <1>2. CASE Writes(d, s)
    <2>1. z = [t EXCEPT !.queue[1] = Streamed(@)]
      BY <1>2 DEF AfterIo
    <2> HIDE DEF z, t
    <2>2. z.queue = [t.queue EXCEPT ![1] = Streamed(@)] /\ z.fallback = t.fallback
      BY <1>1, <2>1 DEF Records
    <2> QED BY <1>1, <1>2, <2>2 DEF z, t
  <1>3. CASE ~Writes(d, s) /\ Reads(d, s)
    <2> DEFINE g == Streamed([msg |-> Head(pipe[s][d]).msg, state |-> t.fallback.state])
    <2>1. z = [t EXCEPT !.fallback = Garbage] \/ z = [t EXCEPT !.fallback = g]
      BY <1>3 DEF AfterIo
    <2>2. g.state # "CLOSED" /\ Garbage.state # "CLOSED"
      BY DEF Streamed, Garbage
    <2> HIDE DEF z, t, g
    <2>3. z.queue = t.queue /\ z.fallback.state # "CLOSED"
      BY <1>1, <2>1, <2>2 DEF Records
    <2> QED BY <1>3, <2>3 DEF z, t
  <1>4. CASE ~Writes(d, s) /\ ~Reads(d, s)
    <2>1. z = [t EXCEPT !.fallback.state = "CLOSED"]
      BY <1>4 DEF AfterIo
    <2>2. AtEof(d, s)
      BY <1>1, <1>4 DEF Ready, Writes, Reads, Records
    <2>3. OtherEnd(s, d) \notin open[s]
      BY <2>2 DEF AtEof
    <2> HIDE DEF z, t
    <2>4. z.queue = t.queue
      BY <1>1, <2>1 DEF Records
    <2> QED BY <1>4, <2>3, <2>4 DEF z, t
  <1> QED BY <1>2, <1>3, <1>4

\* a pass opens no end of a client's connection but the server's, and that out of the backlog
LEMMA NoNewPeer ==
  ASSUME TypeInv, NEW c \in Clients
  PROVE  LET s == PeerConn(c)
         IN  /\ s \notin NewStreams(c)
             /\ s \in NewStreams(Server) => s \in Elems(backlog[Tcp])
  <1> DEFINE s == PeerConn(c)
             b == backlog[Tcp]
  <1>1. c \in Daemons /\ Server \in Daemons /\ c # Server /\ s[1] = "peer"
    BY ClientLemma
  <1>2. \A d \in Daemons : \A i \in DOMAIN Accepted(d) : Accepted(d)[i] # s
    <2> SUFFICES ASSUME NEW d \in Daemons, NEW i \in DOMAIN Accepted(d) PROVE Accepted(d)[i] # s
      OBVIOUS
    <2>1. Accepted(d) \in Seq(RelaysOf(d))
      BY AcceptedTyped
    <2>2. Accepted(d)[i] \in RelaysOf(d)
      BY <2>1
    <2> QED BY <1>1, <2>2 DEF RelaysOf, RelayConn
  <1>3. ~AcceptsPeer(c)
    BY <1>1 DEF AcceptsPeer
  <1>4. b # <<>> => Head(b) \in Elems(b)
    <2>1. b \in Seq(PeersOf(Server))
      BY DEF TypeInv
    <2> HIDE DEF b
    <2>2. b # <<>> => 1 \in DOMAIN b /\ Head(b) = b[1]
      BY <2>1
    <2> QED BY <2>2 DEF Elems
  <1>5. AcceptsPeer(Server) => b # <<>>
    BY DEF AcceptsPeer
  <1> HIDE DEF s
  <1> QED BY <1>1, <1>2, <1>3, <1>4, <1>5 DEF NewStreams, s

\* Both ends of a client's connection are open as long as they are used: a client that has
\* its stream holds its end, and nothing waits for a server that closed its own; the server
\* only takes the client's end for closed when it is.
Linked(c) ==
    LET s == PeerConn(c)
    IN  /\ Here(c) => c \in open[s] /\ (Server \notin open[s] => Piped(c) = <<>>)
        /\ s \in DOMAIN streams[Server] /\ streams[Server][s].fallback.state = "CLOSED"
             => c \notin open[s]
        /\ proc[c] = "off" => s \notin DOMAIN streams[Server] \cup Elems(backlog[Tcp])

\* a queue after one write
LEMMA AheadLemma ==
  ASSUME NEW Q \in Seq(Waits), Q # <<>>
  PROVE  Ahead(Q, [Q EXCEPT ![1] = Streamed(@)])
  <1> DEFINE x == Streamed(Q[1])
             V == [Q EXCEPT ![1] = x]
  <1> HIDE DEF x
  <1>1. Len(V) = Len(Q) /\ V[1] = x /\ \A i \in DOMAIN Q : i # 1 => V[i] = Q[i]
    OBVIOUS
  <1> HIDE DEF V
  <1>2. Ahead(Q, V)
    BY <1>1 DEF Ahead, x
  <1> QED BY <1>2 DEF V, x

\* a pass writes to the pipe, or reads from it
LEMMA DispatchMoves ==
  ASSUME TypeInv, NEW c \in Clients, Linked(c), Collected(c), NEW d \in Daemons, Dispatch(d)
  PROVE  Moves(c)
  <1> DEFINE s == PeerConn(c)
             P == Piped(c)
             R == Piped(c)'
             Q == Queue(c)
             V == Queue(c)'
  <1>1. /\ c \in Daemons /\ c # Server /\ s \in Connections /\ s[1] = "peer"
        /\ OtherEnd(s, c) = Server
    BY ClientLemma
  <1>2. /\ d \notin {c, Server} => R = P
        /\ d = Server => R = P \/ (P # <<>> /\ R = Tail(P))
        /\ d = c => \/ R = P
                    \/ /\ Here(c) /\ s \in ReadySet(d) /\ Writes(c, s)
                       /\ R = Append(P, Unit(streams[c][s].queue[1]))
        /\ d = c /\ s \in ReadySet(d) /\ Writes(c, s) /\ Server \in open[s]
              => R = Append(P, Unit(streams[c][s].queue[1]))
    <2>1. pipe' = PipeAfter(d, ReadySet(d)) /\ ReadySet(d) \in SUBSET ReadySet(d)
      BY DEF Dispatch
    <2>2. R = PipeAfter(d, ReadySet(d))[s][Server]
      BY <2>1 DEF Piped
    <2> HIDE DEF s, P, R
    <2> QED BY <2>1, <2>2, PipeAfterPeer DEF s, P
  <1>3. polled'[c] = polled[c]
    BY DEF Dispatch
  <1>4. CASE d # c
    <2>1. streams'[c] = streams[c]
      BY <1>1, <1>4, PassStreams
    <2>2. Here(c)' = Here(c) /\ V = Q
      BY <2>1 DEF Here, Queue
    <2> QED BY <1>1, <1>2, <1>3, <1>4, <2>2 DEF Moves, Gathers, Cuts
  <1>5. CASE d = c
    <2>1. /\ DOMAIN streams'[c] = DOMAIN streams[c] \cup NewStreams(c)
          /\ \A x \in DOMAIN streams[c] :
                streams'[c][x] = IF x \in ReadySet(c) THEN AfterIo(c, x) ELSE streams[c][x]
      BY <1>5, PassStreams
    <2>2. s \notin NewStreams(c)
      BY NoNewPeer
    <2>3. CASE ~Here(c)
      <3>1. ~Here(c)' /\ R = P
        BY <1>2, <1>5, <2>1, <2>2, <2>3 DEF Here
      <3> QED BY <3>1 DEF Moves, Gathers, Cuts
    <2>4. CASE Here(c) /\ ~(s \in ReadySet(c) /\ Writes(c, s))
      <3>1. Here(c)' /\ R = P
        BY <1>2, <1>5, <2>1, <2>4 DEF Here
      <3>2. streams'[c][s].queue = streams[c][s].queue
        <4>1. CASE s \in ReadySet(c)
          <5>1. AfterIo(c, s).queue = streams[c][s].queue
            BY <1>1, <2>4, <4>1, AfterIoPeer
          <5>2. streams'[c][s] = AfterIo(c, s)
            BY <2>1, <2>4, <4>1 DEF Here
          <5> QED BY <5>1, <5>2
        <4>2. CASE s \notin ReadySet(c)
          BY <2>1, <2>4, <4>2 DEF Here
        <4> QED BY <4>1, <4>2
      <3>3. V = Q
        BY <2>4, <3>1, <3>2 DEF Here, Queue
      <3> QED BY <1>3, <2>4, <3>1, <3>3 DEF Moves, Gathers, Cuts
    <2>5. CASE Here(c) /\ s \in ReadySet(c) /\ Writes(c, s)
      <3>1. Here(c)' /\ Q = streams[c][s].queue /\ V = streams'[c][s].queue
        BY <2>1, <2>5 DEF Here, Queue
      <3>2. Q # <<>> /\ V = [Q EXCEPT ![1] = Streamed(@)]
        BY <1>1, <2>1, <2>5, <3>1, AfterIoPeer DEF Here
      <3>7. Q[1].state # "COMPLETE"
        BY <1>5, <3>2 DEF Collected, Dispatch, InLoop
      <3>3. Q \in Seq(Waits)
        <4>1. TypedPipes(pipe, exiting) /\ TypedStreams(c, streams[c], exiting)
          BY <1>1 DEF TypeInv
        <4> QED BY <4>1, TrafficTyped DEF Queue, Here
      <3>4. Ahead(Q, V)
        BY <3>2, <3>3, AheadLemma
      <3>5. CASE R = Append(P, Unit(Q[1]))
        BY <1>3, <2>5, <3>1, <3>2, <3>4, <3>5, <3>7 DEF Moves, Sends
      <3>6. CASE R # Append(P, Unit(Q[1]))
        <4>1. R = P /\ Server \notin open[s]
          BY <1>2, <1>5, <2>5, <3>1, <3>6
        <4>2. P = <<>>
          BY <2>5, <4>1 DEF Linked
        <4> QED BY <1>3, <2>5, <3>1, <3>2, <3>4, <3>7, <4>1, <4>2 DEF Moves, Loses
      <3> QED BY <3>5, <3>6
    <2> QED BY <2>3, <2>4, <2>5
  <1> QED BY <1>4, <1>5

\* Both ends of a client's connection are used as Linked says after d ended,
LEMMA DepartsLinked ==
  ASSUME TypeInv, NEW c \in Clients, Linked(c), NEW d \in Daemons, Departs(d) PROVE Linked(c)'
  <1> DEFINE s == PeerConn(c)
             P == Piped(c)
             R == Piped(c)'
  <1>1. /\ c \in Daemons /\ c # Server /\ c # Tcp /\ Server \in Daemons /\ Server # Tcp
        /\ s \in Connections
    BY ClientLemma, DaemonsLemma
  <1>2. /\ d \notin {c, Server} => R = P
        /\ d = Server => R = P \/ R = <<>> \/ (P # <<>> /\ R = Tail(P))
        /\ d = Server /\ Server \in open[s] => R = <<>>
        /\ streams' = [streams EXCEPT ![d] = <<>>] /\ open'[s] = open[s] \ {d}
        /\ backlog' = [backlog EXCEPT ![d] = <<>>, ![Tcp] = IF d = Server THEN <<>> ELSE @]
        /\ \E how \in {"exited", "failed"} : proc' = [proc EXCEPT ![d] = how]
    BY DepartsPeer
  <1>3. /\ DOMAIN streams = Daemons /\ DOMAIN backlog = Daemons \cup {Tcp} /\ DOMAIN proc = Daemons
        /\ d # Tcp
    BY DaemonsLemma DEF TypeInv
  <1>4. /\ d = c => s \notin DOMAIN streams'[c] /\ proc'[c] # "off"
        /\ d # c => streams'[c] = streams[c] /\ proc'[c] = proc[c]
        /\ d = Server => DOMAIN streams'[Server] = {} /\ backlog'[Tcp] = <<>>
        /\ d # Server => streams'[Server] = streams[Server] /\ backlog'[Tcp] = backlog[Tcp]
    BY <1>1, <1>2, <1>3
  <1>5. Elems(<<>>) = {}
    BY DEF Elems
  <1>6. ASSUME Here(c)' PROVE c \in open'[s] /\ (Server \notin open'[s] => R = <<>>)
    <2>1. Here(c) /\ d # c
      BY <1>4, <1>6 DEF Here
    <2>2. c \in open[s] /\ (Server \notin open[s] => P = <<>>)
      BY <2>1 DEF Linked
    <2> QED BY <1>1, <1>2, <2>1, <2>2
  <1>7. s \in DOMAIN streams'[Server] /\ streams'[Server][s].fallback.state = "CLOSED"
           => c \notin open'[s]
    BY <1>2, <1>4 DEF Linked
  <1>8. proc'[c] = "off" => s \notin DOMAIN streams'[Server] \cup Elems(backlog'[Tcp])
    BY <1>4, <1>5 DEF Linked
  <1> QED BY <1>6, <1>7, <1>8 DEF Linked

\* after a pass,
LEMMA DispatchLinked ==
  ASSUME TypeInv, NEW c \in Clients, Linked(c), NEW d \in Daemons, Dispatch(d) PROVE Linked(c)'
  <1> DEFINE s == PeerConn(c)
             P == Piped(c)
             R == Piped(c)'
  <1>1. /\ c \in Daemons /\ c # Server /\ c # Tcp /\ Server \in Daemons /\ Server # Tcp
        /\ s[1] = "peer" /\ OtherEnd(s, Server) = c
    BY ClientLemma, DaemonsLemma
  <1>2. open' = open /\ proc' = proc
    BY DEF Dispatch
  <1>3. /\ \A e \in Daemons \ {d} : streams'[e] = streams[e]
        /\ DOMAIN streams'[d] = DOMAIN streams[d] \cup NewStreams(d)
        /\ \A x \in DOMAIN streams[d] :
              streams'[d][x] = IF x \in ReadySet(d) THEN AfterIo(d, x) ELSE streams[d][x]
        /\ \A x \in NewStreams(d) \ DOMAIN streams[d] : streams'[d][x] = FreshStream
    BY PassStreams
  <1>4. Elems(backlog'[Tcp]) \subseteq Elems(backlog[Tcp])
    <2>1. backlog'[Tcp] \in {<<>>, backlog[Tcp]}
      BY DaemonsLemma DEF Dispatch, TypeInv
    <2> QED BY <2>1 DEF Elems
  <1>5. s \notin NewStreams(c) /\ (s \in NewStreams(Server) => s \in Elems(backlog[Tcp]))
    BY NoNewPeer
  <1>6. ASSUME Here(c)' PROVE c \in open[s] /\ (Server \notin open[s] => R = <<>>)
    <2>1. Here(c)
      BY <1>1, <1>3, <1>5, <1>6 DEF Here
    <2>2. R = P \/ Server \in open[s] \/ (P # <<>> /\ R = Tail(P))
      <3>1. pipe' = PipeAfter(d, ReadySet(d)) /\ ReadySet(d) \in SUBSET ReadySet(d)
        BY DEF Dispatch
      <3>2. R = PipeAfter(d, ReadySet(d))[s][Server]
        BY <3>1 DEF Piped
      <3> HIDE DEF s, P, R
      <3> QED BY <3>1, <3>2, PipeAfterPeer DEF s, P
    <2> QED BY <2>1, <2>2 DEF Linked
  <1>7. ASSUME s \in DOMAIN streams'[Server], streams'[Server][s].fallback.state = "CLOSED"
        PROVE  c \notin open[s]
    <2>1. CASE d # Server
      BY <1>1, <1>3, <1>7, <2>1 DEF Linked
    <2>2. CASE d = Server /\ s \notin DOMAIN streams[Server]
      BY <1>3, <1>7, <2>2 DEF FreshStream, Idle, Item
    <2>3. CASE d = Server /\ s \in DOMAIN streams[Server] /\ s \notin ReadySet(Server)
      BY <1>3, <1>7, <2>3 DEF Linked
    <2>4. CASE d = Server /\ s \in DOMAIN streams[Server] /\ s \in ReadySet(Server)
      <3>1. AfterIo(Server, s).fallback.state = "CLOSED"
        BY <1>3, <1>7, <2>4
      <3>2. streams[Server][s].fallback.state # "CLOSED" => c \notin open[s]
        BY <1>1, <2>4, <3>1, AfterIoPeer
      <3> QED BY <2>4, <3>2 DEF Linked
    <2> QED BY <2>1, <2>2, <2>3, <2>4
  <1>8. ASSUME proc[c] = "off" PROVE s \notin DOMAIN streams'[Server] \cup Elems(backlog'[Tcp])
    <2>1. s \notin DOMAIN streams[Server] \cup Elems(backlog[Tcp])
      BY <1>8 DEF Linked
    <2> QED BY <1>1, <1>3, <1>4, <1>5, <2>1
  <1> QED BY <1>2, <1>6, <1>7, <1>8 DEF Linked

\* after a stream was closed, of which the other end is closed already,
LEMMA ClosedLinked ==
  ASSUME TypeInv, NEW c \in Clients, Linked(c), NEW d \in Daemons, NEW x, ResolveClosed(d, x)
  PROVE  Linked(c)'
  <1> DEFINE s == PeerConn(c)
  <1>1. c \in Daemons /\ c # Server /\ Server \in Daemons /\ s \in Connections
    BY ClientLemma
  <1>2. /\ UNCHANGED <<proc, pipe, backlog>>
        /\ x \in DOMAIN streams[d] /\ NextItem(streams[d][x]).state = "CLOSED"
        /\ streams' = [streams EXCEPT ![d] = Without(streams[d], {x})]
        /\ open'[s] = IF s = x THEN open[s] \ {d} ELSE open[s]
    BY <1>1 DEF ResolveClosed, TypeInv
  <1>3. /\ \A e \in Daemons \ {d} : streams'[e] = streams[e]
        /\ DOMAIN streams'[d] = DOMAIN streams[d] \ {x}
        /\ \A y \in DOMAIN streams[d] \ {x} : streams'[d][y] = streams[d][y]
    BY <1>2 DEF TypeInv, Without
  <1>4. streams[d][x].fallback.state = "CLOSED"
    <2> DEFINE q == streams[d][x].queue
    <2>1. q \in Seq(QueueItems(d, x, exiting))
      BY <1>2, StreamFacts
    <2>2. q # <<>> => q[1] \in QueueItems(d, x, exiting)
      BY <2>1, HeadsLemma
    <2>3. q = <<>>
      BY <1>2, <2>2 DEF NextItem, QueueItems
    <2> QED BY <1>2, <2>3 DEF NextItem
  <1>5. ASSUME Here(c)' PROVE c \in open'[s] /\ (Server \notin open'[s] => Piped(c)' = <<>>)
    <2>1. Here(c) /\ (s = x => d # c)
      BY <1>1, <1>3, <1>5 DEF Here
    <2>2. c \in open[s] /\ (Server \notin open[s] => Piped(c) = <<>>)
      BY <2>1 DEF Linked
    <2>3. ~(d = Server /\ s = x)
      BY <1>2, <1>4, <2>2 DEF Linked
    <2>4. Piped(c)' = Piped(c)
      BY <1>2 DEF Piped
    <2> QED BY <1>1, <1>2, <2>1, <2>2, <2>3, <2>4
  <1>6. s \in DOMAIN streams'[Server] /\ streams'[Server][s].fallback.state = "CLOSED"
           => c \notin open'[s]
    BY <1>1, <1>2, <1>3 DEF Linked
  <1>7. proc'[c] = "off" => s \notin DOMAIN streams'[Server] \cup Elems(backlog'[Tcp])
    BY <1>1, <1>2, <1>3 DEF Linked
  <1> QED BY <1>5, <1>6, <1>7 DEF Linked

\* and after every step.
LEMMA LinkedStep ==
  ASSUME TypeInv, NEW c \in Clients, Linked(c), Next PROVE Linked(c)'
  <1> DEFINE s == PeerConn(c)
  <1>1. c \in Daemons /\ c # Server /\ Server \in Daemons /\ s \in Connections /\ s[1] = "peer"
    BY ClientLemma
  <1>2. CASE UNCHANGED <<proc, streams, pipe[s], open[s], backlog[Tcp]>>
    BY <1>2 DEF Linked, Here, Piped
  <1>3. ASSUME NEW d \in Daemons, Resolve(d) PROVE Linked(c)'
    <2>1. CASE Fails(d)
      BY <2>1, DepartsLinked DEF Fails, Departs
    <2>2. ASSUME NEW x, Resolved(d, x) PROVE Linked(c)'
      <3>1. /\ UNCHANGED <<proc, pipe, open, backlog>>
            /\ \A e \in Daemons \ {d} : streams'[e] = streams[e]
            /\ s \in NamesOf(d) => (s \in DOMAIN streams[d] <=> s \in DOMAIN streams'[d])
            /\ s \in DOMAIN streams[d] \cap DOMAIN streams'[d] =>
                  streams'[d][s].fallback.state \in {streams[d][s].fallback.state, "HEADER"}
        BY <1>1, <2>2 DEF Resolved, StreamsResolved, Idle, Item
      <3>2. s \in NamesOf(c) /\ s \in NamesOf(Server)
        BY ClientLemma
      <3>3. /\ Here(c)' = Here(c) /\ Piped(c)' = Piped(c)
            /\ s \in DOMAIN streams'[Server] => s \in DOMAIN streams[Server]
            /\ s \in DOMAIN streams'[Server] /\ streams'[Server][s].fallback.state = "CLOSED"
                 => streams[Server][s].fallback.state = "CLOSED"
        BY <1>1, <3>1, <3>2 DEF Here, Piped
      <3> QED BY <3>1, <3>3 DEF Linked
    <2> QED BY <1>3, <2>1, <2>2, ClosedLinked, ResolveMoves
  <1>4. ASSUME NEW e \in Clients, ClientStart(e) PROVE Linked(c)'
    <2>1. /\ UNCHANGED pipe /\ proc[e] = "off" /\ proc'[e] = "running"
          /\ open' = [open EXCEPT ![PeerConn(e)] = {e, Server}]
          /\ backlog'[Tcp] = Append(backlog[Tcp], PeerConn(e)) /\ backlog[Tcp] \in Seq(PeersOf(Server))
          /\ \A f \in Daemons \ {e} : streams'[f] = streams[f] /\ proc'[f] = proc[f]
      BY StartStreams, <1>4 DEF ClientStart, TypeInv, Daemons
    <2>2. PeerConn(e) = s <=> e = c
      BY DEF PeerConn
    <2>3. e # Server
      BY <1>4, ClientLemma
    <2>4. CASE e = c
      <3>1. open'[s] = {c, Server}
        BY <1>1, <2>1, <2>4 DEF TypeInv
      <3>2. s \notin DOMAIN streams'[Server]
        BY <1>1, <2>1, <2>4 DEF Linked
      <3> QED BY <2>1, <2>4, <3>1, <3>2 DEF Linked
    <2>5. CASE e # c
      <3>1. open'[s] = open[s] /\ streams'[c] = streams[c] /\ streams'[Server] = streams[Server]
        BY <1>1, <2>1, <2>2, <2>3, <2>5 DEF TypeInv
      <3>2. Elems(backlog'[Tcp]) = Elems(backlog[Tcp]) \cup {PeerConn(e)}
        <4> DEFINE T == PeersOf(Server)
                   b == backlog[Tcp]
                   y == PeerConn(e)
        <4>1. b \in Seq(T) /\ y \in T
          BY <2>1 DEF PeersOf
        <4>2. backlog'[Tcp] = Append(b, y)
          BY <2>1
        <4> HIDE DEF T, b, y
        <4>3. Elems(b \o <<y>>) = Elems(b) \cup {y} /\ Append(b, y) = b \o <<y>>
          BY <4>1, AppendedOnce
        <4> QED BY <4>2, <4>3 DEF b, y
      <3>3. /\ Here(c)' = Here(c) /\ Piped(c)' = Piped(c) /\ proc'[c] = proc[c]
        BY <1>1, <2>1, <2>5, <3>1 DEF Here, Piped
      <3> QED BY <2>2, <2>5, <3>1, <3>2, <3>3 DEF Linked
    <2> QED BY <2>4, <2>5
  <1>5. ASSUME NEW r \in Relays,
               \/ \E h \in Commands[r] : RelayConnect(r, h)
               \/ RelayRead(r) \/ RelayDrain(r) \/ \E how \in {"closed", "failed"} : RelayEnds(r, how)
        PROVE  UNCHANGED <<proc, streams, pipe[s], open[s], backlog[Tcp]>>
    <2>1. RelayConn(r) # s /\ Target[r] # Tcp
      BY <1>1, RelayEndsLemma, DaemonsLemma
    <2> QED BY <1>1, <1>5, <2>1
            DEF RelayConnect, RelayRead, RelayDrain, RelayEnds, Others, daemonVars, TypeInv, TypedPipes
  <1>6. User => UNCHANGED <<proc, streams, pipe[s], open[s], backlog[Tcp]>>
    BY DEF User, KeyDown, KeyUp, Move, Unplug, UserUnchanged, daemonVars, socketVars
  <1> QED BY <1>2, <1>3, <1>4, <1>5, <1>6, DepartsLinked, DispatchLinked, FineSteps

-----------------------------------------------------------------------------
(* Steps that only cut, and the start of a client *)

\* closing a stream says nothing
LEMMA ClosedMoves ==
  ASSUME TypeInv, NEW c \in Clients, NEW d \in Daemons, NEW x, ResolveClosed(d, x)
  PROVE  Gathers(c)
  <1> DEFINE s == PeerConn(c)
  <1>1. c \in Daemons
    BY ClientLemma
  <1>2. /\ UNCHANGED pipe
        /\ streams' = [streams EXCEPT ![d] = Without(streams[d], {x})]
        /\ polled' = [polled EXCEPT ![d] = {k \in polled[d] : DevStream(k) # x}]
    BY DEF ResolveClosed, TypeInv
  <1>3. /\ s \in DOMAIN streams'[c] => s \in DOMAIN streams[c] /\ streams'[c][s] = streams[c][s]
        /\ polled'[c] \subseteq polled[c]
    BY <1>1, <1>2 DEF TypeInv, Without
  <1> QED BY <1>2, <1>3 DEF Gathers, Cuts, Here, Queue, Piped

\* nor does what another daemon resolves, or a client whose stream is closed
LEMMA ElsewhereMoves ==
  ASSUME TypeInv, NEW c \in Clients, NEW d \in Daemons, NEW x, Resolved(d, x), d # c \/ ~Here(c)
  PROVE  Gathers(c)
  <1> DEFINE s == PeerConn(c)
  <1>1. c \in Daemons /\ s \in NamesOf(c) /\ s[1] = "peer"
    BY ClientLemma
  <1>2. UNCHANGED pipe /\ StreamsResolved(d, x) /\ InputsResolved(d)
    BY DEF Resolved
  <1>3. CASE d # c
    <2>1. streams'[c] = streams[c]
      BY <1>1, <1>2, <1>3 DEF StreamsResolved
    <2>2. polled'[c] = polled[c]
      BY <1>1, <1>2, <1>3 DEF InputsResolved, TypeInv
    <2> QED BY <1>2, <2>1, <2>2 DEF Gathers, Cuts, Here, Queue, Piped
  <1>4. CASE d = c /\ ~Here(c)
    <2>1. ~Here(c)'
      BY <1>1, <1>2, <1>4 DEF StreamsResolved, Here
    <2> QED BY <1>2, <2>1 DEF Gathers, Cuts, Piped
  <1> QED BY <1>3, <1>4

\* nor a relay or the user
LEMMA OutsideMoves ==
  ASSUME TypeInv, NEW c \in Clients,
         \/ User
         \/ \E r \in Relays : \/ \E h \in Commands[r] : RelayConnect(r, h)
                              \/ RelayRead(r) \/ RelayDrain(r)
                              \/ \E how \in {"closed", "failed"} : RelayEnds(r, how)
  PROVE  Gathers(c)
  <1> DEFINE s == PeerConn(c)
  <1>1. s \in Connections /\ s[1] = "peer"
    BY ClientLemma
  <1>2. ASSUME NEW r \in Relays,
               \/ \E h \in Commands[r] : RelayConnect(r, h)
               \/ RelayRead(r) \/ RelayDrain(r) \/ \E how \in {"closed", "failed"} : RelayEnds(r, how)
        PROVE  UNCHANGED <<streams, pipe[s], polled>>
    <2>1. RelayConn(r) # s
      BY <1>1, RelayEndsLemma
    <2>2. UNCHANGED <<streams, polled>>
      BY <1>2 DEF RelayConnect, RelayRead, RelayDrain, RelayEnds, Others, daemonVars
    <2>3. pipe' = pipe \/ \E v : pipe' = [pipe EXCEPT ![RelayConn(r)] = v]
      BY <1>2 DEF RelayConnect, RelayRead, RelayDrain, RelayEnds
    <2> QED BY <1>1, <2>1, <2>2, <2>3 DEF TypeInv, TypedPipes
  <1>3. User => UNCHANGED <<streams, pipe[s], polled>>
    BY DEF User, KeyDown, KeyUp, Move, Unplug, UserUnchanged, daemonVars, socketVars
  <1>4. UNCHANGED <<streams, pipe[s], polled>>
    BY <1>2, <1>3
  <1> QED BY <1>4 DEF Gathers, Cuts, Here, Queue, Piped

\* what a client says of all its devices when it starts, and when it (un)grabs them
CrtMsgs(c) == [i \in DOMAIN DeviceArg[c] |-> DevMsg("PEER_DEV_CRT", DeviceArg[c][i], "info")]
GrabMsgs(c, grab) == [i \in DOMAIN DeviceArg[c] |-> GrabMsg(DeviceArg[c][i], grab)]

\* these are messages to the server,
LEMMA DeviceMsgs ==
  ASSUME NEW c \in Clients, NEW grab \in BOOLEAN
  PROVE  LET arg == DeviceArg[c]
         IN  /\ Len(arg) \in Nat /\ DOMAIN arg = 1..Len(arg) /\ \A i \in DOMAIN arg : arg[i] \in Devices
             /\ CrtMsgs(c) \in Seq(ToServer) /\ Len(CrtMsgs(c)) = Len(arg)
             /\ GrabMsgs(c, grab) \in Seq(ToServer) /\ Len(GrabMsgs(c, grab)) = Len(arg)
  <1> DEFINE arg == DeviceArg[c]
             crt == CrtMsgs(c)
             ms  == GrabMsgs(c, grab)
  <1>1. DOMAIN arg = 1..Len(arg) /\ Len(arg) \in Nat /\ \A i \in DOMAIN arg : arg[i] \in Devices
    <2>1. arg \in Seq(Devices)
      BY DevicesAssumption
    <2> QED BY <2>1
  <1>2. ASSUME NEW k \in Devices
        PROVE  DevMsg("PEER_DEV_CRT", k, "info") \in ToServer /\ GrabMsg(k, grab) \in ToServer
    <2>1. "PEER_DEV_CRT" \in Headers /\ "PEER_GRAB" \in Headers
      BY DEF Headers, DeviceHeaders
    <2>2. "info" \in Values /\ "grabbed" \in Values /\ "ungrabbed" \in Values
      BY DEF Values
    <2> QED BY <2>1, <2>2, MessagesLemma DEF GrabMsg, ToServer, DeviceHeaders
  <1>3. \A i \in 1..Len(arg) : crt[i] \in ToServer /\ ms[i] \in ToServer
    BY <1>1, <1>2 DEF CrtMsgs, GrabMsgs
  <1>4. crt = [i \in 1..Len(arg) |-> crt[i]] /\ ms = [i \in 1..Len(arg) |-> ms[i]]
    BY <1>1 DEF CrtMsgs, GrabMsgs
  <1> HIDE DEF crt, ms, arg
  <1>5. crt \in Seq(ToServer)
    BY <1>1, <1>3, <1>4, SeqLemma
  <1>6. ms \in Seq(ToServer)
    BY <1>1, <1>3, <1>4, SeqLemma
  <1> QED BY <1>1, <1>4, <1>5, <1>6 DEF crt, ms, arg

\* and the first ones that it queues.
LEMMA StartSays ==
  ASSUME TypeInv, NEW c \in Clients, ClientStart(c)
  PROVE  /\ Here(c)' /\ Queue(c)' = <<>> \o Items(CrtMsgs(c) \o GrabMsgs(c, TRUE))
         /\ polled'[c] = Captures(c)
  <1> DEFINE arg  == DeviceArg[c]
             s    == PeerConn(c)
             ids  == {arg[i] : i \in DOMAIN arg}
             ss   == [x \in {s} \cup {DevStream(k) : k \in ids} |-> FreshStream]
             msgs == CrtMsgs(c) \o GrabMsgs(c, TRUE)
  <1>1. streams'[c] = PushAll(ss, s, msgs) /\ polled'[c] = ids
    BY ClientLemma DEF ClientStart, CrtMsgs, GrabMsgs, TypeInv
  <1>2. s \in DOMAIN ss /\ ss[s] = FreshStream /\ DOMAIN PushAll(ss, s, msgs) = DOMAIN ss
    BY DEF PushAll
  <1> HIDE DEF ss, msgs
  <1>3. CASE msgs # <<>>
    <2>1. PushAll(ss, s, msgs)[s] = [FreshStream EXCEPT !.queue = @ \o Items(msgs), !.interest = "EPOLLOUT"]
      BY <1>2, <1>3 DEF PushAll, Items
    <2>2. PushAll(ss, s, msgs)[s].queue = <<>> \o Items(msgs)
      BY <2>1 DEF FreshStream
    <2> QED BY <1>1, <1>2, <2>2 DEF Here, Queue, Captures, msgs
  <1>4. CASE msgs = <<>>
    <2>1. PushAll(ss, s, msgs)[s].queue = <<>>
      BY <1>2, <1>4 DEF PushAll, FreshStream
    <2>2. <<>> \o Items(msgs) = <<>>
      <3>1. Items(<<>>) = <<>>
        BY DEF Items
      <3> QED BY <1>4, <3>1
    <2> QED BY <1>1, <1>2, <2>1, <2>2 DEF Here, Queue, Captures, msgs
  <1> QED BY <1>3, <1>4

\* What a client that starts says: its devices exist, and they are grabbed.
LEMMA StartMoves ==
  ASSUME TypeInv, Stopped, NEW c \in Clients, NEW e \in Clients, ClientStart(e)
  PROVE  Gathers(c)
  <1> DEFINE arg  == DeviceArg[c]
             s    == PeerConn(c)
             ids  == {arg[i] : i \in DOMAIN arg}
             crt  == CrtMsgs(c)
             grab == GrabMsgs(c, TRUE)
             msgs == crt \o grab
  <1>1. c \in Daemons /\ UNCHANGED pipe /\ Piped(c)' = Piped(c)
    BY ClientLemma DEF ClientStart, Piped
  <1>2. CASE e # c
    <2>1. streams'[c] = streams[c] /\ polled'[c] = polled[c]
      BY <1>1, <1>2, StartStreams DEF ClientStart, TypeInv
    <2> QED BY <1>1, <2>1 DEF Gathers, Cuts, Here, Queue
  <1>3. CASE e = c
    <2>1. ~Here(c)
      BY <1>1, <1>3 DEF ClientStart, Stopped, Here
    <2>2. polled'[c] = ids /\ Here(c)' /\ Queue(c)' = <<>> \o Items(msgs)
      BY <1>3, StartSays DEF Captures
    <2>3. DOMAIN arg = 1..Len(arg) /\ Len(arg) \in Nat
      BY DeviceMsgs
    <2>4. crt \in Seq(ToServer) /\ grab \in Seq(ToServer) /\ Len(crt) = Len(arg) /\ Len(grab) = Len(arg)
      BY DeviceMsgs
    <2> DEFINE n == Len(arg)
    <2>5. /\ \A i \in 1..n : /\ crt[i].h = "PEER_DEV_CRT" /\ crt[i].dev = arg[i]
                             /\ grab[i] = Grab(arg[i]) /\ arg[i] \in Captures(c)
          /\ \A k \in ids : \E i \in 1..n : arg[i] = k
      BY <2>3 DEF CrtMsgs, GrabMsgs, DevMsg, Grab, Captures
    <2> HIDE DEF crt, grab, arg
    <2>6. /\ msgs \in Seq(ToServer) /\ DOMAIN msgs = 1..(n + n)
          /\ \A i \in 1..(n + n) : msgs[i] = IF i <= n THEN crt[i] ELSE grab[i - n]
      <3>1. /\ Len(msgs) = Len(crt) + Len(grab) /\ msgs \in Seq(ToServer)
            /\ \A i \in 1..(Len(crt) + Len(grab)) :
                  msgs[i] = IF i <= Len(crt) THEN crt[i] ELSE grab[i - Len(crt)]
        BY <2>4, ConcatProperties
      <3> HIDE DEF msgs
      <3> QED BY <2>3, <2>4, <3>1
    <2> HIDE DEF msgs, ids, n
    <2>7. Tells(msgs, {}, ids)
      <3>0. n \in Nat
        BY <2>3 DEF n
      <3>1. ASSUME NEW i \in 1..(n + n)
            PROVE  msgs[i].h = "PEER_DEV_CRT" \/ \E k : msgs[i] = Grab(k)
        <4>1. CASE i <= n
          <5>1. i \in 1..n
            BY <3>0, <4>1
          <5> QED BY <2>5, <2>6, <4>1, <5>1
        <4>2. CASE ~(i <= n)
          <5>1. i - n \in 1..n
            BY <3>0, <4>2
          <5> QED BY <2>5, <2>6, <4>2, <5>1
        <4> QED BY <4>1, <4>2
      <3>2. ASSUME NEW k \in ids PROVE \E i \in 1..(n + n) : msgs[i] = Grab(k)
        <4>1. PICK i \in 1..n : arg[i] = k
          BY <2>5
        <4>2. i + n \in 1..(n + n) /\ ~(i + n <= n) /\ (i + n) - n = i
          BY <3>0
        <4>3. msgs[i + n] = Grab(k)
          BY <2>5, <2>6, <4>1, <4>2
        <4> QED BY <4>2, <4>3
      <3>3. ASSUME NEW i \in 1..(n + n)
            PROVE  msgs[i].h # "PEER_EVENT" /\ \A k : msgs[i] # Release(k)
        <4>1. \A k : Grab(k).h = "PEER_GRAB" /\ Release(k).h = "PEER_GRAB"
          BY GrabMsgLemma DEF Grab, Release
        <4>2. \A k, l : Grab(k) # Release(l)
          BY GrabMsgLemma DEF Grab, Release
        <4> QED BY <3>1, <4>1, <4>2
      <3> QED BY <2>6, <3>2, <3>3 DEF Tells
    <2>10. Speaks(c, msgs)
      <3>0. n \in Nat
        BY <2>3 DEF n
      <3>1. ASSUME NEW i \in 1..(n + n)
            PROVE  /\ ~IsStop(msgs[i])
                   /\ IsCrt(msgs[i]) => msgs[i].dev \in Captures(c)
        <4>1. CASE i <= n
          <5>1. i \in 1..n
            BY <3>0, <4>1
          <5>2. msgs[i] = crt[i] /\ crt[i].h = "PEER_DEV_CRT" /\ crt[i].dev = arg[i] /\ arg[i] \in Captures(c)
            BY <2>5, <2>6, <4>1, <5>1
          <5> QED BY <5>2 DEF IsStop
        <4>2. CASE ~(i <= n)
          <5>1. i - n \in 1..n
            BY <3>0, <4>2
          <5>2. msgs[i] = Grab(arg[i - n])
            BY <2>5, <2>6, <4>2, <5>1
          <5>3. \A k : Grab(k).h = "PEER_GRAB"
            BY GrabMsgLemma DEF Grab
          <5> QED BY <5>2, <5>3 DEF IsStop, IsCrt
        <4> QED BY <4>1, <4>2
      <3>2. proc[c] = "off"
        BY <1>3 DEF ClientStart
      <3> QED BY <2>6, <3>1, <3>2 DEF Speaks
    <2>9. Queues(c, msgs)
      BY <1>1, <2>1, <2>2, <2>7, <2>10 DEF Queues, Queue
    <2> QED BY <2>6, <2>9 DEF Gathers
  <1> QED BY <1>2, <1>3

-----------------------------------------------------------------------------
(* What the handlers of a client queue *)

\* the stream of c to its peer is among ss, and q is its queue
Holds(c, ss, q) ==
    LET s == PeerConn(c)
    IN  /\ s \in DOMAIN ss /\ ss[s].queue = q
        /\ ss[s] \in [queue : Seq(Waits), fallback : FallbackItems(c, s),
                      interest : {"EPOLLIN", "EPOLLOUT"}]

\* queueing adds to the queue,
LEMMA HoldsPush ==
  ASSUME NEW c \in Clients, NEW ss, NEW q, Holds(c, ss, q), NEW ms \in Seq(ToServer)
  PROVE  Holds(c, PushAll(ss, PeerConn(c), ms), q \o Items(ms))
  <1> DEFINE s == PeerConn(c)
             t == ss[s]
             tt == PushAll(ss, s, ms)
  <1>1. s \in DOMAIN ss /\ t.queue = q /\ q \in Seq(Waits)
        /\ t \in [queue : Seq(Waits), fallback : FallbackItems(c, s), interest : {"EPOLLIN", "EPOLLOUT"}]
    BY DEF Holds
  <1>2. \A x \in ToServer : Item(x) \in Waits
    BY DEF Item, Waits, ItemStates
  <1>3. q \o Items(ms) \in Seq(Waits) /\ q \o Items(<<>>) = q
    <2> DEFINE Q == q
    <2>1. Q \in Seq(Waits) /\ <<>> \in Seq(ToServer)
      BY <1>1
    <2> HIDE DEF Q
    <2>2. Q \o Items(ms) \in Seq(Waits) /\ Q \o Items(<<>>) = Q
      BY <1>2, <2>1, ItemsLemma
    <2> QED BY <2>2 DEF Q
  <1>4. CASE ms = <<>>
    BY <1>3, <1>4 DEF PushAll
  <1>5. CASE ms # <<>>
    <2> DEFINE v == t.queue \o Items(ms)
    <2>1. s \in DOMAIN tt /\ tt[s] = [t EXCEPT !.queue = v, !.interest = "EPOLLOUT"]
      BY <1>1, <1>5 DEF PushAll, Items
    <2>2. v \in Seq(Waits) /\ v = q \o Items(ms)
      BY <1>1, <1>3
    <2> HIDE DEF v, tt, t
    <2>3. tt[s].queue = v /\ tt[s] \in [queue : Seq(Waits), fallback : FallbackItems(c, s), interest : {"EPOLLIN", "EPOLLOUT"}]
      BY <1>1, <2>1, <2>2
    <2> QED BY <2>1, <2>2, <2>3 DEF Holds, tt
  <1> QED BY <1>4, <1>5

\* of one message, too,
LEMMA HoldsPushOne ==
  ASSUME NEW c \in Clients, NEW ss, NEW q, Holds(c, ss, q), NEW m \in ToServer
  PROVE  Holds(c, Push(ss, PeerConn(c), m), q \o Items(<<m>>))
  <1> DEFINE ms == <<m>>
  <1>1. ms \in Seq(ToServer) /\ Push(ss, PeerConn(c), m) = PushAll(ss, PeerConn(c), ms)
    BY DEF Push
  <1> HIDE DEF ms
  <1>2. Holds(c, PushAll(ss, PeerConn(c), ms), q \o Items(ms))
    BY <1>1, HoldsPush
  <1> QED BY <1>1, <1>2 DEF ms

\* what is told to relays does not,
LEMMA HoldsBroadcast ==
  ASSUME TypeInv, NEW c \in Clients, NEW ss, NEW q, Holds(c, ss, q), NEW h
  PROVE  Holds(c, Broadcast(c, ss, h), q)
  <1> DEFINE s == PeerConn(c)
  <1>1. s \in DOMAIN ss /\ c \in Daemons /\ s[1] = "peer"
    BY ClientLemma DEF Holds
  <1>2. s \notin RelaySet(c)
    <2>1. relayStreams[c] \in Seq(RelaysOf(c))
      BY <1>1 DEF TypeInv
    <2>2. RelaySet(c) \subseteq RelaysOf(c)
      BY <2>1 DEF RelaySet
    <2> QED BY <1>1, <2>2 DEF RelaysOf, RelayConn
  <1>3. s \in DOMAIN Broadcast(c, ss, h) /\ Broadcast(c, ss, h)[s] = ss[s]
    BY <1>1, <1>2 DEF Broadcast, PushEach
  <1> QED BY <1>3 DEF Holds

\* nor what is told to one of them,
LEMMA HoldsAnswer ==
  ASSUME NEW c \in Clients, NEW ss, NEW q, Holds(c, ss, q), NEW x, x # PeerConn(c), NEW m
  PROVE  Holds(c, Push(ss, x, m), q)
  BY DEF Holds, Push, PushAll

\* and the stream is there before the handler,
LEMMA HoldsNow ==
  ASSUME TypeInv, NEW c \in Clients, Here(c) PROVE Holds(c, streams[c], Queue(c))
  <1> DEFINE s == PeerConn(c)
  <1>1. c \in Daemons /\ c # Server /\ s[1] = "peer"
    BY ClientLemma
  <1>2. streams[c][s] \in StreamsOf(c, s, exiting) /\ s \in DOMAIN streams[c]
    BY <1>1, StreamFacts DEF Here
  <1>3. QueueItems(c, s, exiting) = Waits
    BY <1>1 DEF QueueItems, Sent, Waits
  <1> QED BY <1>2, <1>3 DEF Holds, Here, Queue, StreamsOf, Records

\* and after it.
LEMMA HoldsFinish ==
  ASSUME TypeInv, NEW c \in Clients, NEW ss, NEW q, Holds(c, ss, q), NEW x, Finish(c, x, ss)
  PROVE  Here(c)' /\ Queue(c)' = q
  <1> DEFINE s == PeerConn(c)
             t == ss[s]
             tt == Reset(ss, x)
  <1>1. c \in Daemons
    BY ClientLemma
  <1>2. streams'[c] = tt
    BY <1>1 DEF Finish, TypeInv
  <1>3. s \in DOMAIN ss /\ t.queue = q
        /\ t \in [queue : Seq(Waits), fallback : FallbackItems(c, s), interest : {"EPOLLIN", "EPOLLOUT"}]
    BY DEF Holds
  <1>c. x = s => Cleared(s, ss[s].fallback) = Idle
    BY DEF Cleared, IsSocket, PeerConn
  <1>4. s \in DOMAIN tt /\ (tt[s] = t \/ \E i : tt[s] = [t EXCEPT !.fallback = Idle, !.interest = i])
    <2>1. CASE x = s
      <3>1. tt = [ss EXCEPT ![s].fallback = Idle,
                            ![s].interest = IF ss[s].queue # <<>> \/ s[1] = "udev"
                                            THEN "EPOLLOUT" ELSE "EPOLLIN"]
        BY <1>c, <2>1 DEF Reset
      <3> QED BY <3>1, <1>3
    <2>2. CASE x # s
      BY <1>3, <2>2 DEF Reset
    <2> QED BY <2>1, <2>2
  <1> HIDE DEF tt, t
  <1>5. tt[s].queue = q
    BY <1>3, <1>4
  <1> QED BY <1>2, <1>4, <1>5 DEF Here, Queue

\* the peer's stream of a client is its connection
LEMMA PeerOfClient ==
  ASSUME TypeInv, NEW c \in Clients, PeerThere(c) PROVE peerStream[c] = PeerConn(c)
  <1>1. c \in Daemons /\ c # Server
    BY ClientLemma
  <1>2. peerStream[c] \in NamesOf(c) /\ peerStream[c] \in PeersOf(Server) \cup {NoStream}
    BY <1>1, StreamFacts DEF PeerThere, TypeInv
  <1>3. peerStream[c][1] = "peer"
    BY <1>1, <1>2, NamesLemma DEF PeersOf, PeerConn, NoStream
  <1> QED BY <1>1, <1>2, <1>3, NamesLemma DEF PeersOf

\* a control message may follow what is said of the devices
LEMMA TellsControl ==
  ASSUME NEW ms \in Seq(ToServer), NEW m \in ToServer, m.h \in PeerControls, NEW K, NEW L,
         Tells(ms, K, L), \A j \in DOMAIN ms : ms[j].h # "PEER_EVENT"
  PROVE  /\ ms \o <<m>> \in Seq(ToServer) /\ Tells(ms \o <<m>>, K, L)
  <1> DEFINE w == ms \o <<m>>
             n == Len(ms)
  <1>1. /\ n \in Nat /\ DOMAIN ms = 1..n /\ w \in Seq(ToServer) /\ DOMAIN w = 1..(n + 1)
        /\ \A i \in 1..n : w[i] = ms[i] /\ i \in 1..(n + 1)
        /\ w[n + 1] = m
    OBVIOUS
  <1> HIDE DEF w, n
  <1>2. \A k : m # Release(k)
    BY GrabMsgLemma DEF Release, PeerControls
  <1>3. ASSUME NEW i \in 1..(n + 1), i # n + 1 PROVE i \in 1..n
    BY <1>1, <1>3
  <1>4. ASSUME NEW i \in 1..(n + 1) PROVE w[i].h # "PEER_EVENT" /\ \A k \in L : w[i] # Release(k)
    <2>1. CASE i = n + 1
      BY <1>1, <1>2, <2>1 DEF PeerControls
    <2>2. CASE i # n + 1
      <3>1. i \in 1..n /\ w[i] = ms[i]
        BY <1>1, <1>3, <2>2
      <3> QED BY <1>1, <3>1 DEF Tells
    <2> QED BY <2>1, <2>2
  <1>5. ASSUME NEW k \in L, k \notin K PROVE \E i \in 1..(n + 1) : w[i] = Grab(k)
    <2>1. PICK i \in 1..n : ms[i] = Grab(k)
      BY <1>1, <1>5 DEF Tells
    <2> QED BY <1>1, <2>1
  <1>6. Tells(w, K, L)
    BY <1>1, <1>4, <1>5 DEF Tells
  <1> QED BY <1>1, <1>6 DEF w

\* and so may PEER_STOP, if a relay asks for it
LEMMA SpeaksControl ==
  ASSUME NEW c, NEW ms \in Seq(ToServer), \A j \in DOMAIN ms : ms[j].h = "PEER_GRAB"
  PROVE  /\ Speaks(c, ms)
         /\ \A h \in PeerControls : (h = "PEER_STOP" => \E x : RelayStop(c, x)) =>
               Speaks(c, ms \o <<Msg(h)>>)
  <1>1. Speaks(c, ms)
    BY DEF Speaks, IsCrt, IsStop
  <1>2. ASSUME NEW h \in PeerControls, h = "PEER_STOP" => \E x : RelayStop(c, x)
        PROVE  Speaks(c, ms \o <<Msg(h)>>)
    <2> DEFINE m == Msg(h)
               w == ms \o <<m>>
               n == Len(ms)
    <2>1. m.h = h
      BY DEF Msg
    <2> HIDE DEF m
    <2>2. /\ n \in Nat /\ DOMAIN ms = 1..n /\ DOMAIN w = 1..(n + 1)
          /\ \A i \in 1..n : w[i] = ms[i]
          /\ w[n + 1] = m
      OBVIOUS
    <2> HIDE DEF w, n
    <2>3. \A i \in 1..(n + 1) : i # n + 1 => i \in 1..n
      BY <2>2
    <2>4. ASSUME NEW i \in 1..(n + 1)
          PROVE  ~IsCrt(w[i]) /\ (IsStop(w[i]) => i = n + 1 /\ h = "PEER_STOP")
      <3>1. CASE i = n + 1
        <4>1. w[i].h = h
          BY <2>1, <2>2, <3>1
        <4> QED BY <3>1, <4>1 DEF IsCrt, IsStop, PeerControls
      <3>2. CASE i # n + 1
        <4>1. w[i].h = "PEER_GRAB"
          BY <2>2, <2>3, <3>2
        <4> QED BY <4>1 DEF IsCrt, IsStop
      <3> QED BY <3>1, <3>2
    <2>5. h = "PEER_STOP" => w[n + 1] = Msg("PEER_STOP")
      BY <2>2 DEF m
    <2>6. \A i \in 1..(n + 1) : IsStop(w[i]) => w[i] = Msg("PEER_STOP") /\ \E x : RelayStop(c, x)
      BY <1>2, <2>4, <2>5
    <2>7. Speaks(c, w)
      BY <2>2, <2>4, <2>6 DEF Speaks
    <2> QED BY <2>7 DEF w, m
  <1> QED BY <1>1, <1>2

\* What dev_ctrl_devices says of the devices it grabs or releases.
LEMMA HoldsControl ==
  ASSUME TypeInv, NEW c \in Clients, Here(c), NEW grab \in BOOLEAN,
         InputsControllable(c, grab), ControlledInputs(c, grab)
  PROVE  \E ms \in Seq(ToServer) :
            /\ ms = [i \in DOMAIN devices[c] |-> GrabMsg(devices[c][i].id, grab)]
            /\ Holds(c, ControlInputs(c, streams[c], grab), Queue(c) \o Items(ms))
            /\ Tells(ms, polled[c], polled'[c]) /\ \A j \in DOMAIN ms : ms[j].h = "PEER_GRAB"
  <1> DEFINE s == PeerConn(c)
             D == devices[c]
             ms == [i \in DOMAIN D |-> GrabMsg(D[i].id, grab)]
  <1>1. c \in Daemons /\ c # Server
    BY ClientLemma
  <1>2. D \in Seq(Entries)
    BY <1>1 DEF TypeInv, DeviceLists
  <1>3. /\ Len(D) \in Nat /\ DOMAIN D = 1..Len(D) /\ \A i \in DOMAIN D : D[i].id \in Devices
        /\ D # <<>> => 1 \in DOMAIN D
    <2> HIDE DEF D
    <2>1. Len(D) \in Nat /\ DOMAIN D = 1..Len(D) /\ \A i \in DOMAIN D : D[i] \in Entries
      BY <1>2
    <2>2. D # <<>> => 1 \in DOMAIN D
      BY <1>2
    <2> QED BY <2>1, <2>2 DEF Entries
  <1>4. polled'[c] = IF grab THEN DeviceIds(c) ELSE {}
    BY <1>1 DEF ControlledInputs, ControlledDevices, TypeInv
  <1>5. ControlInputs(c, streams[c], grab) = PushAll(streams[c], peerStream[c], ms)
    BY <1>1 DEF ControlInputs, ControlDevices
  <1>6. ms \in Seq(ToServer)
    <2>1. \A i \in 1..Len(D) : ms[i] \in ToServer
      <3>1. "PEER_GRAB" \in Headers /\ "grabbed" \in Values /\ "ungrabbed" \in Values
        BY DEF Headers, DeviceHeaders, Values
      <3> QED BY <1>3, <3>1, MessagesLemma DEF GrabMsg, ToServer, DeviceHeaders
    <2>2. ms = [i \in 1..Len(D) |-> ms[i]]
      BY <1>3
    <2> HIDE DEF ms, D
    <2> QED BY <1>3, <2>1, <2>2, SeqLemma
  <1>7. /\ \A j \in DOMAIN ms : ms[j].h = "PEER_GRAB"
        /\ Tells(ms, polled[c], polled'[c])
    <2>1. DOMAIN ms = DOMAIN D /\ \A i \in DOMAIN ms : ms[i] = GrabMsg(D[i].id, grab)
      OBVIOUS
    <2>2. DeviceIds(c) = {D[i].id : i \in DOMAIN D}
      BY DEF DeviceIds
    <2> HIDE DEF ms, D
    <2>3. \A j \in DOMAIN ms : ms[j].h = "PEER_GRAB"
      BY <2>1, GrabMsgLemma
    <2>4. ASSUME NEW k \in polled'[c]
          PROVE  (\A i \in DOMAIN ms : ms[i] # Release(k)) /\ \E i \in DOMAIN ms : ms[i] = Grab(k)
      <3>1. grab = TRUE /\ k \in DeviceIds(c)
        BY <1>4, <2>4
      <3>2. PICK i \in DOMAIN D : D[i].id = k
        BY <2>2, <3>1
      <3>3. ms[i] = Grab(k)
        BY <2>1, <3>1, <3>2 DEF Grab
      <3>4. \A j \in DOMAIN ms : ms[j] # Release(k)
        <4>1. \A e : GrabMsg(e, TRUE) # GrabMsg(k, FALSE)
          BY GrabMsgLemma
        <4> QED BY <2>1, <3>1, <4>1 DEF Release
      <3> QED BY <2>1, <3>2, <3>3, <3>4
    <2>5. \A j \in DOMAIN ms : ms[j].h # "PEER_EVENT"
      BY <2>3
    <2> QED BY <2>3, <2>4, <2>5 DEF Tells
  <1>8. Holds(c, PushAll(streams[c], s, ms), Queue(c) \o Items(ms))
    <2> HIDE DEF ms
    <2>1. Holds(c, streams[c], Queue(c))
      BY HoldsNow
    <2> QED BY <1>6, <2>1, HoldsPush
  <1>9. PushAll(streams[c], peerStream[c], ms) = PushAll(streams[c], s, ms)
    <2>1. CASE ms = <<>>
      BY <2>1 DEF PushAll
    <2>2. CASE ms # <<>>
      <3>1. D # <<>>
        BY <2>2
      <3>2. PeerThere(c)
        BY <1>1, <1>3, <3>1 DEF InputsControllable
      <3> QED BY <3>2, PeerOfClient
    <2> QED BY <2>1, <2>2
  <1>10. ms = [i \in DOMAIN devices[c] |-> GrabMsg(devices[c][i].id, grab)]
    OBVIOUS
  <1> HIDE DEF ms
  <1> QED BY <1>5, <1>6, <1>7, <1>8, <1>9, <1>10

\* what is queued twice is queued at once,
LEMMA ItemsTwice ==
  ASSUME NEW Q \in Seq(Waits), NEW a \in Seq(ToServer), NEW b \in Seq(ToServer)
  PROVE  (Q \o Items(a)) \o Items(b) = Q \o Items(a \o b)
  <1>1. \A t \in ToServer : Item(t) \in Waits
    BY DEF Item, Waits, ItemStates
  <1>2. Items(a) \in Seq(Waits) /\ Items(b) \in Seq(Waits)
    BY <1>1, ItemsLemma
  <1>3. (Q \o Items(a)) \o Items(b) = Q \o (Items(a) \o Items(b))
    BY <1>2, ConcatAssociative
  <1>4. Items(a \o b) = Items(a) \o Items(b)
    BY <1>1, ItemsLemma
  <1> QED BY <1>3, <1>4

\* one message more is queued for the peer,
LEMMA HoldsOneMore ==
  ASSUME TypeInv, NEW c \in Clients, NEW ss, NEW Q \in Seq(Waits), NEW ms \in Seq(ToServer),
         Holds(c, ss, Q \o Items(ms)), PeerThere(c), NEW m \in ToServer
  PROVE  Holds(c, Push(ss, peerStream[c], m), Q \o Items(ms \o <<m>>))
  <1> DEFINE one == <<m>>
  <1>1. peerStream[c] = PeerConn(c)
    BY PeerOfClient
  <1>2. Holds(c, Push(ss, peerStream[c], m), (Q \o Items(ms)) \o Items(one))
    BY <1>1, HoldsPushOne
  <1>3. one \in Seq(ToServer)
    OBVIOUS
  <1> HIDE DEF one
  <1>5. (Q \o Items(ms)) \o Items(one) = Q \o Items(ms \o one)
    BY <1>3, ItemsTwice
  <1> QED BY <1>2, <1>5 DEF one

\* a handler that queues ms moves what is said,
LEMMA SaysMoves ==
  ASSUME TypeInv, NEW c \in Clients, Here(c), UNCHANGED pipe, NEW ss, NEW ms \in Seq(ToServer),
         Holds(c, ss, Queue(c) \o Items(ms)), NEW x, Finish(c, x, ss),
         Tells(ms, polled[c], polled'[c]), Speaks(c, ms)
  PROVE  Gathers(c)
  <1>1. Here(c)' /\ Queue(c)' = Queue(c) \o Items(ms)
    BY HoldsFinish
  <1>2. Queues(c, ms)
    BY <1>1 DEF Queues, Piped
  <1> QED BY <1>2 DEF Gathers

\* and so does one that queues nothing for the peer
LEMMA SilentMoves ==
  ASSUME TypeInv, NEW c \in Clients, Here(c), UNCHANGED pipe, NEW ss, Holds(c, ss, Queue(c)),
         NEW x, Finish(c, x, ss), polled'[c] \subseteq polled[c]
  PROVE  Gathers(c)
  <1>1. Here(c)' /\ Queue(c)' = Queue(c)
    BY HoldsFinish
  <1> QED BY <1>1 DEF Gathers, Cuts, Piped

\* what is written leaves the queue
LEMMA WrittenPops ==
  ASSUME TypeInv, NEW c \in Clients, Here(c), ResolveWritten(c, PeerConn(c))
  PROVE  Pops(c)
  <1> DEFINE s == PeerConn(c)
             t == streams[c][s]
  <1>1. /\ UNCHANGED <<polled, pipe>> /\ NextItem(t).state = "COMPLETE"
    BY DEF ResolveWritten, socketVars
  <1>2. c \in Daemons /\ IsSocket(s)
    BY ClientLemma DEF IsSocket, PeerConn
  <1>3. /\ t.queue # <<>> /\ s \in DOMAIN streams[c] /\ s \in DOMAIN streams'[c]
        /\ streams'[c][s].queue = Tail(t.queue)
    BY <1>2, WrittenStream
  <1>4. Here(c)' /\ Queue(c)' = Tail(Queue(c)) /\ Queue(c) = t.queue
    BY <1>3 DEF Here, Queue
  <1>5. Queue(c) # <<>> /\ Queue(c)[1].state # "HEADER"
    BY <1>1, <1>3, <1>4 DEF NextItem
  <1> QED BY <1>1, <1>4, <1>5 DEF Pops, Piped

\* an entry that no handler sees
LEMMA NoHandlerMoves ==
  ASSUME TypeInv, NEW c \in Clients, Here(c), UNCHANGED pipe, ~Fails(c), NEW x,
         ResolveFreed(c, x) \/ ResolveIncomplete(c, x) \/ ResolveWritten(c, x)
  PROVE  Gathers(c)
  <1> DEFINE s == PeerConn(c)
  <1>1. CASE ResolveFreed(c, x) \/ ResolveIncomplete(c, x)
    <2>1. UNCHANGED <<streams, polled>>
      BY <1>1 DEF ResolveFreed, ResolveIncomplete
    <2> QED BY <2>1 DEF Gathers, Cuts, Here, Queue, Piped
  <1>2. CASE ResolveWritten(c, x)
    <2>1. UNCHANGED polled /\ c \in Daemons
      BY <1>2, ClientLemma DEF ResolveWritten
    <2>3. CASE x # s
      <3>1. /\ DOMAIN streams'[c] = DOMAIN streams[c]
            /\ s \in DOMAIN streams[c] => streams'[c][s] = streams[c][s]
        BY <1>2, <2>1, <2>3, WrittenStream
      <3> QED BY <2>1, <3>1 DEF Gathers, Cuts, Here, Queue, Piped
    <2>4. CASE x = s
      BY <1>2, <2>4, WrittenPops DEF Gathers
    <2> QED BY <2>3, <2>4
  <1> QED BY <1>1, <1>2

\* the handlers of what the server says; it says nothing about devices
LEMMA PeerMoves ==
  ASSUME TypeInv, NEW c \in Clients, Here(c), UNCHANGED pipe, ~Fails(c), NEW x, PeerHandler(c, x)
  PROVE  Gathers(c)
  <1>0. c \in Daemons /\ c # Server
    BY ClientLemma
  <1>1. ASSUME PeerDevCrt(c, x) \/ PeerUpdGrab(c, x) \/ PeerEvent(c, x) PROVE FALSE
    <2>1. PICK h \in DeviceHeaders : HasRead(c, x, h) /\ x[1] = "peer"
      BY <1>1 DEF PeerDevCrt, PeerUpdGrab, PeerEvent, DeviceHeaders
    <2>2. streams[c][x].fallback.msg \in Received(c, x) /\ streams[c][x].fallback.msg.h = h
      BY <1>0, <2>1, ReadLemma DEF DeviceHeaders, None
    <2> QED BY <1>0, <2>1, <2>2 DEF Received, ToClient, PeerControls, DeviceHeaders
  <1>2. ~(PeerStopServer(c, x) \/ PeerStopCrashes(c, x))
    BY <1>0 DEF PeerStopServer, PeerStopCrashes
  <1>3. ASSUME NEW h, NEW grab \in BOOLEAN, NEW reply, NEW new, PeerControl(c, x, h, grab, reply, new)
        PROVE  Gathers(c)
    <2> DEFINE held == ControlInputs(c, streams[c], grab)
    <2>1. /\ InputsControllable(c, grab) /\ ControlledInputs(c, grab)
          /\ Finish(c, x, Broadcast(c, held, reply))
      BY <1>3 DEF PeerControl
    <2>2. PICK ms \in Seq(ToServer) :
             /\ Holds(c, held, Queue(c) \o Items(ms)) /\ Tells(ms, polled[c], polled'[c])
             /\ \A j \in DOMAIN ms : ms[j].h = "PEER_GRAB"
      BY <2>1, HoldsControl
    <2> HIDE DEF held
    <2>3. Holds(c, Broadcast(c, held, reply), Queue(c) \o Items(ms))
      BY <2>2, HoldsBroadcast
    <2>4. Speaks(c, ms)
      BY <2>2, SpeaksControl
    <2> QED BY <2>1, <2>2, <2>3, <2>4, SaysMoves
  <1>4. CASE PeerStopClient(c, x)
    <2>1. Finish(c, x, Broadcast(c, streams[c], "RELAY_STOP")) /\ UNCHANGED polled
      BY <1>4 DEF PeerStopClient
    <2>2. Holds(c, Broadcast(c, streams[c], "RELAY_STOP"), Queue(c))
      BY HoldsNow, HoldsBroadcast
    <2> QED BY <2>1, <2>2, SilentMoves
  <1> QED BY <1>1, <1>2, <1>3, <1>4 DEF PeerHandler, PeerPause, PeerResume

\* the handlers of what relays ask
LEMMA RelayMoves ==
  ASSUME TypeInv, NEW c \in Clients, Here(c), UNCHANGED pipe, ~Fails(c), NEW x, RelayHandler(c, x)
  PROVE  Gathers(c)
  <1> DEFINE s == PeerConn(c)
             Q == Queue(c)
  <1>0. c \in Daemons /\ s[1] = "peer"
    BY ClientLemma
  <1>1. Holds(c, streams[c], Q)
    BY HoldsNow
  <1>2. ASSUME NEW h \in PeerControls PROVE Msg(h) \in ToServer /\ Msg(h).h = h
    BY MessagesLemma DEF Headers, PeerControls, ToServer
  <1>3. \A m \in ToServer : Item(m) \in Waits
    BY DEF Item, Waits, ItemStates
  <1>4. Q \in Seq(Waits)
    BY <1>1 DEF Holds
  <1> HIDE DEF Q
  <1>5. ASSUME NEW h \in PeerControls, NEW ss, NEW ms \in Seq(ToServer), Holds(c, ss, Q \o Items(ms)),
               PeerThere(c)
        PROVE  Holds(c, Push(ss, peerStream[c], Msg(h)), Q \o Items(ms \o <<Msg(h)>>))
    <2>1. Msg(h) \in ToServer
      BY <1>2
    <2> QED BY <1>4, <1>5, <2>1, HoldsOneMore
  <1>6. CASE RelayIdle(c, x)
    BY <1>1, <1>6, SilentMoves DEF RelayIdle, Q
  <1>7. ASSUME NEW h \in RelayHeaders, NEW m, HasRead(c, x, h), Answer(c, x, m) PROVE Gathers(c)
    <2>1. x # s
      BY <1>0, <1>7, RequestLemma
    <2>2. Holds(c, Push(streams[c], x, m), Q)
      BY <1>1, <2>1, HoldsAnswer
    <2> QED BY <1>7, <2>2, SilentMoves DEF Answer, Q
  <1>8. CASE \/ RelayStart(c, x) \/ RelayList(c, x) \/ RelayPauseAgain(c, x) \/ RelayResumeAgain(c, x)
    BY <1>7, <1>8 DEF RelayStart, RelayList, RelayPauseAgain, RelayResumeAgain,
                      AsksToPause, AsksToResume, RelayHeaders
  <1>9. CASE RelayPause(c, x)
    <2> DEFINE held == ControlInputs(c, streams[c], FALSE)
               told == Broadcast(c, held, "RELAY_PAUSE")
               none == Broadcast(c, held, "RELAY_NO_PEER")
               both == Push(told, peerStream[c], Msg("PEER_PAUSE"))
    <2>1. /\ InputsControllable(c, FALSE) /\ ControlledInputs(c, FALSE)
          /\ (Finish(c, x, both) /\ PeerThere(c)) \/ Finish(c, x, none)
      BY <1>9 DEF RelayPause
    <2>2. PICK ms \in Seq(ToServer) :
             /\ Holds(c, held, Q \o Items(ms)) /\ Tells(ms, polled[c], polled'[c])
             /\ \A j \in DOMAIN ms : ms[j].h = "PEER_GRAB"
      BY <2>1, HoldsControl DEF Q
    <2>7. Speaks(c, ms)
      BY <2>2, SpeaksControl
    <2>8. \A j \in DOMAIN ms : ms[j].h # "PEER_EVENT"
      BY <2>2
    <2> HIDE DEF held
    <2>3. Holds(c, told, Q \o Items(ms)) /\ Holds(c, none, Q \o Items(ms))
      BY <2>2, HoldsBroadcast
    <2> HIDE DEF told, none
    <2>4. CASE Finish(c, x, none)
      BY <2>2, <2>3, <2>4, <2>7, SaysMoves DEF Q
    <2>5. CASE Finish(c, x, both) /\ PeerThere(c)
      <3>1. Holds(c, both, Q \o Items(ms \o <<Msg("PEER_PAUSE")>>))
        BY <1>5, <2>3, <2>5 DEF PeerControls
      <3> HIDE DEF both
      <3>2. /\ ms \o <<Msg("PEER_PAUSE")>> \in Seq(ToServer)
            /\ Tells(ms \o <<Msg("PEER_PAUSE")>>, polled[c], polled'[c])
        BY <1>2, <2>2, <2>8, TellsControl DEF PeerControls
      <3>3. Speaks(c, ms \o <<Msg("PEER_PAUSE")>>)
        BY <2>2, SpeaksControl DEF PeerControls
      <3> QED BY <2>5, <3>1, <3>2, <3>3, SaysMoves DEF Q
    <2> QED BY <2>1, <2>4, <2>5
  <1>10. CASE RelayResume(c, x)
    <2> DEFINE held == ControlInputs(c, streams[c], TRUE)
               both == Push(held, peerStream[c], Msg("PEER_RESUME"))
    <2>1. /\ InputsControllable(c, TRUE) /\ ControlledInputs(c, TRUE)
          /\ Finish(c, x, both) /\ PeerThere(c)
      BY <1>10 DEF RelayResume
    <2>2. PICK ms \in Seq(ToServer) :
             /\ Holds(c, held, Q \o Items(ms)) /\ Tells(ms, polled[c], polled'[c])
             /\ \A j \in DOMAIN ms : ms[j].h = "PEER_GRAB"
      BY <2>1, HoldsControl DEF Q
    <2>7. Speaks(c, ms)
      BY <2>2, SpeaksControl
    <2>8. \A j \in DOMAIN ms : ms[j].h # "PEER_EVENT"
      BY <2>2
    <2> HIDE DEF held
    <2>3. Holds(c, both, Q \o Items(ms \o <<Msg("PEER_RESUME")>>))
      BY <1>5, <2>1, <2>2 DEF PeerControls
    <2> HIDE DEF both
    <2>4. /\ ms \o <<Msg("PEER_RESUME")>> \in Seq(ToServer)
          /\ Tells(ms \o <<Msg("PEER_RESUME")>>, polled[c], polled'[c])
      BY <1>2, <2>2, <2>8, TellsControl DEF PeerControls
    <2>5. Speaks(c, ms \o <<Msg("PEER_RESUME")>>)
      BY <2>2, SpeaksControl DEF PeerControls
    <2> QED BY <2>1, <2>3, <2>4, <2>5, SaysMoves DEF Q
  <1>11. CASE RelayStop(c, x)
    <2> DEFINE told == Broadcast(c, streams[c], "RELAY_STOP")
               both == Push(told, peerStream[c], Msg("PEER_STOP"))
               no   == <<>>
    <2>1. Finish(c, x, both) /\ PeerThere(c) /\ UNCHANGED polled
      BY <1>11 DEF RelayStop
    <2>2. no \in Seq(ToServer) /\ DOMAIN no = {}
      OBVIOUS
    <2>3. Q \o Items(no) = Q
      BY <1>3, <1>4, <2>2, ItemsLemma
    <2> HIDE DEF no
    <2>4. Holds(c, told, Q \o Items(no))
      BY <1>1, <2>3, HoldsBroadcast
    <2> HIDE DEF told
    <2>5. Holds(c, both, Q \o Items(no \o <<Msg("PEER_STOP")>>))
      BY <1>5, <2>1, <2>2, <2>4 DEF PeerControls
    <2> HIDE DEF both
    <2>6. Tells(no, polled[c], polled[c])
      BY <2>2 DEF Tells
    <2>7. /\ no \o <<Msg("PEER_STOP")>> \in Seq(ToServer)
          /\ Tells(no \o <<Msg("PEER_STOP")>>, polled[c], polled'[c])
      BY <1>2, <2>1, <2>2, <2>6, TellsControl DEF PeerControls
    <2>8. Speaks(c, no \o <<Msg("PEER_STOP")>>)
      BY <1>11, <2>2, SpeaksControl DEF PeerControls
    <2> QED BY <2>1, <2>5, <2>7, <2>8, SaysMoves DEF Q
  <1> QED BY <1>6, <1>8, <1>9, <1>10, <1>11 DEF RelayHandler

\* The handler of captured events says one of a device that is in the epoll set.
LEMMA EventMoves ==
  ASSUME TypeInv, NEW c \in Clients, Here(c), UNCHANGED pipe, ~Fails(c), NEW x, DevHandler(c, x)
  PROVE  Gathers(c)
  <1> DEFINE m == streams[c][x].fallback.msg
             ms == <<m>>
             ss == Push(streams[c], peerStream[c], m)
  <1>0. c \in Daemons /\ c # Server
    BY ClientLemma
  <1>1. /\ HasRead(c, x, "PEER_EVENT") /\ x[1] = "dev" /\ PeerThere(c) /\ x[2] \in polled[c]
        /\ Finish(c, x, ss) /\ UNCHANGED polled
    BY DEF DevHandler, SendEvent
  <1>2. m \in Received(c, x) /\ x \in NamesOf(c)
    BY <1>0, <1>1, ReadLemma DEF None
  <1>3. m \in ToServer /\ m.h = "PEER_EVENT" /\ m.dev = x[2]
    <2>1. x[2] \in Devices
      BY <1>0, <1>1, <1>2, NamesLemma
    <2> QED BY <1>1, <1>2, <2>1 DEF Received, ToServer, DeviceHeaders
  <1> HIDE DEF m
  <1>4. Holds(c, ss, Queue(c) \o Items(ms))
    <2>1. peerStream[c] = PeerConn(c)
      BY <1>1, PeerOfClient
    <2> QED BY <1>3, <2>1, HoldsNow, HoldsPushOne
  <1>5. ms \in Seq(ToServer) /\ Len(ms) = 1 /\ DOMAIN ms = {1} /\ ms[1] = m
    BY <1>3
  <1> HIDE DEF ms, ss
  <1>6. Tells(ms, polled[c], polled'[c])
    <2>1. \A k : m # Release(k)
      BY <1>3, GrabMsgLemma DEF Release
    <2> QED BY <1>1, <1>3, <1>5, <2>1 DEF Tells
  <1>7. Speaks(c, ms)
    BY <1>3, <1>5 DEF Speaks, IsCrt, IsStop
  <1> QED BY <1>1, <1>4, <1>5, <1>6, <1>7, SaysMoves

\* an error in another daemon is nothing to what a client says, or takes all of it
LEMMA FailsMoves ==
  ASSUME TypeInv, NEW c \in Clients, NEW d \in Daemons, Fails(d) PROVE Gathers(c)
  <1> DEFINE s == PeerConn(c)
  <1>1. c \in Daemons /\ c # Server /\ s \in Connections /\ Ends(s) = {c, Server}
    BY ClientLemma
  <1>2. /\ streams' = [streams EXCEPT ![d] = <<>>] /\ polled' = [polled EXCEPT ![d] = {}]
        /\ pipe'[s] = IF d \in open[s] THEN [pipe[s] EXCEPT ![d] = <<>>] ELSE pipe[s]
    BY <1>1 DEF Fails, ProcessEnds, HeldBy
  <1>3. Piped(c)' \in {Piped(c), <<>>}
    BY <1>1, <1>2 DEF Piped, TypeInv, TypedPipes
  <1>4. CASE d = c
    <2>1. ~Here(c)'
      BY <1>1, <1>2, <1>4 DEF Here, TypeInv
    <2> QED BY <1>3, <2>1 DEF Gathers, Cuts
  <1>5. CASE d # c
    <2>1. streams'[c] = streams[c] /\ polled'[c] = polled[c]
      BY <1>1, <1>2, <1>5 DEF TypeInv
    <2> QED BY <1>3, <2>1 DEF Gathers, Cuts, Here, Queue
  <1> QED BY <1>4, <1>5

\* Whatever a daemon resolves, what a client says moves, and nothing is written.
LEMMA ResolvingMoves ==
  ASSUME TypeInv, NEW c \in Clients, NEW d \in Daemons, Resolve(d) PROVE Gathers(c)
  <1>1. ASSUME NEW y, Resolved(d, y), ~Fails(d), ~\E x : ResolveClosed(d, x) PROVE Gathers(c)
    <2>1. CASE d # c \/ ~Here(c)
      BY <1>1, <2>1, ElsewhereMoves
    <2>2. CASE d = c /\ Here(c)
      <3>1. UNCHANGED pipe
        BY <1>1 DEF Resolved
      <3>2. PICK x : \/ ResolveFreed(c, x) \/ ResolveIncomplete(c, x) \/ ResolveWritten(c, x)
                     \/ PeerHandler(c, x) \/ RelayHandler(c, x) \/ DevHandler(c, x)
        BY <1>1, <2>2 DEF Resolve, CloseCrashes
      <3> QED BY <1>1, <2>2, <3>1, <3>2, NoHandlerMoves, PeerMoves, RelayMoves, EventMoves
    <2> QED BY <2>1, <2>2
  <1> QED BY <1>1, FailsMoves, ClosedMoves, ResolveMoves

\* Whatever happens, what a client says moves.
LEMMA NextMoves ==
  ASSUME TypeInv, Stopped, NEW c \in Clients, Linked(c), Collected(c), Next PROVE Moves(c)
  BY FineSteps, DepartsMoves, DispatchMoves, ResolvingMoves, StartMoves, OutsideMoves DEF Moves

\* What is collected next is not done before it is written: the head of a queue only
\* becomes complete by a write.
LEMMA GathersHead ==
  ASSUME TypeInv, NEW c \in Clients, Carried(c), Gathers(c),
         Queue(c)' # <<>>, Queue(c)'[1].state = "COMPLETE"
  PROVE  Queue(c) # <<>> /\ Queue(c)[1].state = "COMPLETE" /\ Queue(c)' # Tail(Queue(c)) /\ Here(c)
  <1> DEFINE P == Piped(c)
             Q == Queue(c)
             V == Queue(c)'
             h == Here(c)
  <1>1. Q \in Seq(Waits) /\ (Q # <<>> => h)
    <2>1. TypedPipes(pipe, exiting) /\ TypedStreams(c, streams[c], exiting)
      BY ClientLemma DEF TypeInv
    <2> QED BY <2>1, TrafficTyped DEF Queue, Here
  <1>2. Joint(P, Q)
    BY DEF Carried
  <1>3. V # <<>> /\ V[1].state = "COMPLETE"
    OBVIOUS
  <1>4. \/ V = Q
        \/ Q # <<>> /\ V = Tail(Q)
        \/ \E ms \in Seq(ToServer) : V = Q \o Items(ms)
    <2>1. CASE Cuts(c)
      <3>1. Here(c)'
        BY <1>3 DEF Queue
      <3> QED BY <2>1, <3>1 DEF Cuts
    <2> QED BY <2>1 DEF Gathers, Pops, Queues
  <1> HIDE DEF P, Q, V, h
  <1>5. ASSUME Q # <<>>, V = Tail(Q) PROVE FALSE
    <2>1. Len(Q) \in Nat /\ DOMAIN Q = 1..Len(Q) /\ Len(V) = Len(Q) - 1
          /\ \A i \in 1..Len(V) : V[i] = Q[i + 1]
      BY <1>1, <1>5
    <2>2. 2 \in DOMAIN Q /\ V[1] = Q[2]
      <3>1. V \in Seq(Waits)
        BY <1>1, <1>5, HeadsLemma
      <3>2. Len(V) \in Nat /\ Len(V) # 0
        BY <1>3, <3>1
      <3> QED BY <2>1, <3>2
    <2> QED BY <1>2, <1>3, <2>2 DEF Joint
  <1>6. ASSUME NEW ms \in Seq(ToServer), V = Q \o Items(ms)
        PROVE  Q # <<>> /\ V[1] = Q[1]
    <2>1. \A m \in ToServer : Item(m) \in Waits
      BY DEF Item, Waits, ItemStates
    <2> DEFINE n == Items(ms)
    <2>2. n \in Seq(Waits)
      BY <1>1, <2>1, ItemsLemma
    <2>3. \A i \in DOMAIN n : n[i].state = "HEADER"
      BY DEF Items, Item
    <2>6. V = Q \o n
      BY <1>6
    <2> HIDE DEF n
    <2>4. CASE Q # <<>>
      BY <1>1, <2>2, <2>4, <2>6
    <2>5. CASE Q = <<>>
      <3>1. V = n
        BY <2>2, <2>5, <2>6, ConcatEmptySeq
      <3>2. 1 \in DOMAIN n
        BY <1>3, <2>2, <3>1, HeadsLemma
      <3> QED BY <1>3, <2>3, <3>1, <3>2
    <2> QED BY <2>4, <2>5
  <1>7. Q # <<>> /\ Q[1].state = "COMPLETE" /\ V # Tail(Q)
    BY <1>3, <1>4, <1>5, <1>6
  <1> QED BY <1>1, <1>7 DEF Q, V, h

\* A handler is done with its entry, unless it fails.
LEMMA ResolveBatch ==
  ASSUME TypeInv, NEW d \in Daemons, NEW s \in batch[d],
         \/ ResolveFreed(d, s) \/ ResolveIncomplete(d, s) \/ ResolveClosed(d, s)
         \/ CloseCrashes(d, s) \/ ResolveWritten(d, s)
         \/ PeerHandler(d, s) \/ RelayHandler(d, s) \/ DevHandler(d, s)
  PROVE  Fails(d) \/ batch' = [batch EXCEPT ![d] = @ \ {s}]
  <1>1. PeerHandler(d, s) => Fails(d) \/ batch' = [batch EXCEPT ![d] = @ \ {s}]
    BY DEF PeerHandler, PeerDevCrt, PeerUpdGrab, PeerEvent, PeerPause, PeerResume, PeerControl,
           PeerStopClient, PeerStopServer, PeerStopCrashes, Finish
  <1>2. RelayHandler(d, s) => Fails(d) \/ batch' = [batch EXCEPT ![d] = @ \ {s}]
    BY DEF RelayHandler, RelayIdle, RelayStart, RelayList, RelayPause, RelayPauseAgain, RelayResume,
           RelayResumeAgain, RelayStop, Answer, Finish
  <1> QED BY <1>1, <1>2
          DEF ResolveFreed, ResolveIncomplete, ResolveClosed, CloseCrashes, ResolveWritten,
              DevHandler, Finish

\* Whatever a client has written is collected in the same pass.
LEMMA CollectedStep ==
  ASSUME TypeInv, Stopped, NEW c \in Clients, Linked(c), Collected(c), Carried(c), Next
  PROVE  Collected(c)'
  <1> DEFINE s == PeerConn(c)
             Q == Queue(c)
             V == Queue(c)'
  <1>1. c \in Daemons /\ s[1] = "peer" /\ DOMAIN batch = Daemons /\ DOMAIN streams = Daemons
    BY ClientLemma DEF TypeInv
  <1> SUFFICES ASSUME V # <<>>, V[1].state = "COMPLETE" PROVE s \in batch'[c]
    BY DEF Collected
  <1>2. Here(c)'
    BY DEF Queue
  <1>3. CASE streams'[c] = streams[c] /\ batch'[c] = batch[c]
    BY <1>3 DEF Collected, Queue, Here
  <1>4. CASE Gathers(c) /\ batch'[c] = batch[c]
    BY <1>4, GathersHead DEF Collected
  <1>5. ASSUME NEW d \in Daemons, Departs(d) PROVE s \in batch'[c]
    <2>1. streams' = [streams EXCEPT ![d] = <<>>]
      BY <1>5, DepartsPeer
    <2>2. batch' = [batch EXCEPT ![d] = {}]
      BY <1>5 DEF Departs, ProcessEnds
    <2>3. d # c
      BY <1>1, <1>2, <2>1 DEF Here
    <2> QED BY <1>1, <1>3, <2>1, <2>2, <2>3
  <1>6. ASSUME NEW d \in Daemons, Dispatch(d) PROVE s \in batch'[c]
    <2>0. batch' = [batch EXCEPT ![d] = ReadySet(d)] /\ batch[d] = {}
      BY <1>6 DEF Dispatch, InLoop
    <2>1. CASE d # c
      <3>1. streams'[c] = streams[c]
        BY <1>1, <1>6, <2>1, PassStreams
      <3> QED BY <1>1, <1>3, <2>0, <2>1, <3>1
    <2>2. CASE d = c /\ s \notin ReadySet(c)
      <3>1. s \in DOMAIN streams[c] /\ streams'[c][s] = streams[c][s]
        BY <1>1, <1>2, <1>6, <2>2, PassStreams, NoNewPeer DEF Here
      <3>2. V = Q
        BY <1>2, <3>1 DEF Queue, Here
      <3> QED BY <2>0, <2>2, <3>2 DEF Collected
    <2> QED BY <1>1, <2>0, <2>1, <2>2
  <1>7. ASSUME NEW d \in Daemons, Resolve(d) PROVE s \in batch'[c]
    <2>1. PICK x \in batch[d] :
             \/ ResolveFreed(d, x) \/ ResolveIncomplete(d, x) \/ ResolveClosed(d, x)
             \/ CloseCrashes(d, x) \/ ResolveWritten(d, x)
             \/ PeerHandler(d, x) \/ RelayHandler(d, x) \/ DevHandler(d, x)
      BY <1>7 DEF Resolve
    <2>2. CASE Fails(d)
      BY <1>5, <2>2 DEF Fails, Departs
    <2>3. CASE ~Fails(d)
      <3>1. batch' = [batch EXCEPT ![d] = @ \ {x}]
        BY <2>1, <2>3, ResolveBatch
      <3>2. Gathers(c)
        BY <1>7, ResolvingMoves
      <3>3. Q # <<>> /\ Q[1].state = "COMPLETE" /\ V # Tail(Q) /\ Here(c)
        BY <3>2, GathersHead
      <3>4. s \in batch[c]
        BY <3>3 DEF Collected
      <3>5. CASE d = c /\ x = s
        <4>1. s \in DOMAIN streams[c] /\ streams[c][s].queue = Q /\ NextItem(streams[c][s]) = Q[1]
          BY <3>3 DEF Queue, Here, NextItem
        <4>2. ~\E h : HasRead(c, s, h)
          BY <3>3, <4>1 DEF HasRead
        <4>3. ~PeerHandler(c, s) /\ ~RelayHandler(c, s) /\ ~DevHandler(c, s)
          BY <4>2 DEF PeerHandler, PeerDevCrt, PeerUpdGrab, PeerEvent, PeerPause, PeerResume,
                      PeerControl, PeerStopClient, PeerStopServer, PeerStopCrashes,
                      RelayHandler, RelayIdle, RelayStart, RelayList, RelayPause, RelayPauseAgain,
                      RelayResume, RelayResumeAgain, RelayStop, AsksToPause, AsksToResume, DevHandler
        <4>4. ~ResolveFreed(c, s) /\ ~ResolveIncomplete(c, s) /\ ~ResolveClosed(c, s)
          BY <3>3, <4>1 DEF ResolveFreed, ResolveIncomplete, ResolveClosed
        <4>5. ~ResolveWritten(c, s)
          BY <3>3, WrittenPops DEF Pops
        <4>6. ~CloseCrashes(c, s)
          BY <1>1 DEF CloseCrashes, IsSocket
        <4> QED BY <2>1, <3>5, <4>3, <4>4, <4>5, <4>6
      <3> QED BY <1>1, <3>1, <3>4, <3>5
    <2> QED BY <2>2, <2>3
  <1>8. ASSUME NEW e \in Clients, ClientStart(e) PROVE s \in batch'[c]
    <2>1. UNCHANGED batch
      BY <1>8 DEF ClientStart
    <2> QED BY <1>4, <1>8, <2>1, StartMoves
  <1>9. ASSUME \/ User
               \/ \E r \in Relays : \/ \E h \in Commands[r] : RelayConnect(r, h)
                                    \/ RelayRead(r) \/ RelayDrain(r)
                                    \/ \E how \in {"closed", "failed"} : RelayEnds(r, how)
        PROVE  s \in batch'[c]
    <2>1. UNCHANGED batch
      BY <1>9 DEF User, KeyDown, KeyUp, Move, Unplug, UserUnchanged, daemonVars,
                  RelayConnect, RelayRead, RelayDrain, RelayEnds, Others
    <2> QED BY <1>4, <1>9, <2>1, OutsideMoves
  <1> QED BY <1>5, <1>6, <1>7, <1>8, <1>9, FineSteps

\* what is said is true in every reachable state
LEMMA CarriedHolds == Spec => [](\A c \in Clients : Linked(c) /\ Collected(c) /\ Carried(c))
  <1> DEFINE I == \A c \in Clients : Linked(c) /\ Collected(c) /\ Carried(c)
  <1>1. Init => I
    <2> SUFFICES ASSUME Init, NEW c \in Clients PROVE Linked(c) /\ Collected(c) /\ Carried(c)
      OBVIOUS
    <2> DEFINE s == PeerConn(c)
    <2>1. /\ c \in Daemons /\ Server \in Daemons /\ c # Server /\ s \in Connections
          /\ Ends(s) = {c, Server}
      BY ClientLemma
    <2>2. /\ DOMAIN streams[c] = {} /\ DOMAIN streams[Server] = {} /\ polled[c] = {}
          /\ pipe[s][Server] = <<>> /\ backlog[Tcp] = <<>>
      BY <2>1 DEF Init
    <2>3. ~Here(c) /\ Queue(c) = <<>> /\ Piped(c) = <<>>
      BY <2>2 DEF Here, Queue, Piped
    <2>4. Linked(c)
      BY <2>2, <2>3 DEF Linked, Elems
    <2>5. Carried(c)
      <3>1. Texts(<<>>) = <<>> /\ Flight(<<>>, <<>>) = <<>>
        BY DEF Texts, Flight
      <3> QED BY <2>2, <2>3, <3>1 DEF Carried, Joint, Truthful, Sound, Regrabbed
    <2> QED BY <2>3, <2>4, <2>5 DEF Collected
  <1>2. TypeInv /\ TypeInv' /\ Stopped /\ [Next]_vars /\ I => I'
    <2>1. ASSUME TypeInv, TypeInv', Stopped, Next, I, NEW c \in Clients
          PROVE  Linked(c)' /\ Collected(c)' /\ Carried(c)'
      <3>1. Moves(c)
        BY <2>1, NextMoves
      <3> QED BY <2>1, <3>1, LinkedStep, CollectedStep, MovesKeep
    <2>2. I /\ UNCHANGED vars => I'
      BY DEF Linked, Collected, Carried, Here, Queue, Piped, vars, daemonVars, socketVars
    <2> QED BY <2>1, <2>2
  <1> HIDE DEF I
  <1>3. Spec => []I
    BY <1>1, <1>2, Typed, StoppedHolds, PTL DEF Spec
  <1> QED BY <1>3 DEF I

\* Once a client has told the server that a device is released, it sends no event of it
\* before it has told that the device is grabbed again.
THEOREM EventsFollowGrabs == Spec => []EventsOnlyWhileGrabbed
  <1> DEFINE I == \A c \in Clients : Linked(c) /\ Collected(c) /\ Carried(c)
  <1>1. I => EventsOnlyWhileGrabbed
    <2> SUFFICES ASSUME I, NEW c \in Clients, NEW i \in DOMAIN InFlight(c), NEW j \in DOMAIN InFlight(c),
                        i < j, InFlight(c)[j].h = "PEER_EVENT",
                        InFlight(c)[i] = GrabMsg(InFlight(c)[j].dev, FALSE)
                 PROVE  \E n \in i..j : InFlight(c)[n] = GrabMsg(InFlight(c)[j].dev, TRUE)
      BY DEF EventsOnlyWhileGrabbed
    <2>1. InFlight(c) = Flight(Piped(c), Queue(c))
      BY DEF InFlight, Flight, Texts, Piped, Queue, Here
    <2>2. Sound(InFlight(c))
      BY <2>1 DEF Carried, Truthful
    <2> HIDE DEF I
    <2> QED BY <2>2 DEF Sound, Releases, Grabs, Release, Grab
  <1> HIDE DEF I
  <1>2. Spec => []I
    BY CarriedHolds DEF I
  <1> QED BY <1>1, <1>2, PTL
=============================================================================
