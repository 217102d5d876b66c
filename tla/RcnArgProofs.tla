----------------------------- MODULE RcnArgProofs -----------------------------
(***************************************************************************)
(* The parser accepts the grammar and stores what is written, for any      *)
(* command lines of any length: AcceptsGrammar and ValuesAsWritten of      *)
(* RcnArg.  The proof keeps the cut of the command line into groups as far *)
(* as the index has come, and shows that no other cut is possible.         *)
(***************************************************************************)
EXTENDS RcnArg, FiniteSetTheorems, SequenceTheorems, WellFoundedInduction, TLAPS

-----------------------------------------------------------------------------
(* The words and the actions *)

\* an argument with a handler belongs to one of them
LEMMA WordSets ==
  /\ PortFlag \cap HostFlag = {} /\ PortFlag \cap DevicesFlag = {} /\ PortFlag \cap FilterFlag = {}
  /\ PortFlag \cap HelpFlag = {} /\ PortFlag \cap DebugFlag = {} /\ PortFlag \cap Subactions = {}
  /\ HostFlag \cap DevicesFlag = {} /\ HostFlag \cap FilterFlag = {} /\ HostFlag \cap HelpFlag = {}
  /\ HostFlag \cap DebugFlag = {} /\ HostFlag \cap Subactions = {}
  /\ DevicesFlag \cap FilterFlag = {} /\ DevicesFlag \cap HelpFlag = {}
  /\ DevicesFlag \cap DebugFlag = {} /\ DevicesFlag \cap Subactions = {}
  /\ FilterFlag \cap HelpFlag = {} /\ FilterFlag \cap DebugFlag = {} /\ FilterFlag \cap Subactions = {}
  /\ HelpFlag \cap DebugFlag = {} /\ HelpFlag \cap Subactions = {} /\ DebugFlag \cap Subactions = {}
  BY DEF PortFlag, HostFlag, DevicesFlag, FilterFlag, HelpFlag, DebugFlag, Subactions

\* what an action may be told, besides what it needs
Allowed == Needed(Mode) \cup {"debug"} \cup (IF Mode = "show" THEN {"filter"} ELSE {})

\* the kinds that can be needed
NeededKinds == {"port", "server", "devices", "daemon", "help"}

\* every action needs some of them, and says where its arguments begin
LEMMA ModeLemma ==
  /\ Mode \in Actions \cup {"help", "auto"}
  /\ Needed(Mode) \subseteq NeededKinds
  /\ Minimum(Mode) \in Nat /\ Minimum(Mode) >= 2
  /\ FirstArg(Mode) \in {1, 2}
  /\ "daemon" \in Needed(Mode) => Mode \in {"server", "client", "auto"}
  <1>1. Mode \in Actions \cup {"help", "auto"}
    BY DEF Mode
  <1> DEFINE m == Mode
  <1>2. m \in {"start", "connect", "server", "client", "show", "help", "auto"}
    BY <1>1 DEF Actions
  <1> HIDE DEF m
  <1>3. /\ Needed(m) \subseteq NeededKinds
        /\ Minimum(m) \in Nat /\ Minimum(m) >= 2
        /\ FirstArg(m) \in {1, 2}
        /\ "daemon" \in Needed(m) => m \in {"server", "client", "auto"}
    <2>1. CASE m = "start"
      BY <2>1 DEF Needed, NeededKinds, Minimum, FirstArg
    <2>2. CASE m = "connect"
      BY <2>2 DEF Needed, NeededKinds, Minimum, FirstArg
    <2>3. CASE m \in {"server", "client"}
      BY <2>3 DEF Needed, NeededKinds, Minimum, FirstArg
    <2>4. CASE m = "show"
      BY <2>4 DEF Needed, NeededKinds, Minimum, FirstArg
    <2>5. CASE m = "help"
      BY <2>5 DEF Needed, NeededKinds, Minimum, FirstArg
    <2>6. CASE m = "auto"
      BY <2>6 DEF Needed, NeededKinds, Minimum, FirstArg
    <2> QED BY <1>2, <2>1, <2>2, <2>3, <2>4, <2>5, <2>6
  <1> QED BY <1>1, <1>3 DEF m

-----------------------------------------------------------------------------
(* Pieces of a command line.  A piece is the words from c up to, and not       *)
(* including, n; it ends the command line if n = argc.                         *)

\* the words from a up to b
Between(a, b) == {argv[m] : m \in a..(b - 1)}

\* what kind of group a piece is
PieceKind(c, n) ==
    LET isList == Between(c + 1, n) \cap Handled = {} /\ c # argc - 1
    IN  CASE argv[c] \in PortFlag /\ n = c + 2 -> IF Atoi(argv[c + 1]) # 0 THEN "port" ELSE "wrong"
          [] argv[c] \in HostFlag /\ n = c + 2    -> "server"
          [] argv[c] \in DebugFlag /\ n = c + 2   -> "debug"
          [] argv[c] \in DevicesFlag /\ isList    -> "devices"
          [] argv[c] \in FilterFlag /\ isList     ->
                IF Between(c + 1, n) \subseteq DOMAIN Spellings /\ n - c <= 5 THEN "filter" ELSE "wrong"
          [] Between(c, n) \subseteq Subactions /\ n = argc -> "daemon"
          [] argv[c] \in HelpFlag /\ n = argc     ->
                IF Between(c + 1, n) \subseteq Helped THEN "help" ELSE "wrong"
          [] OTHER -> "wrong"

\* the group that begins at c in the cut C ends before n
Closes(C, c, n) ==
    \/ n \in C /\ n > c /\ \A e \in C : e > c => n <= e
    \/ n = argc /\ \A e \in C : e <= c

\* a set of places has a first one
LEMMA FirstOf ==
  ASSUME NEW T \in SUBSET Nat, T # {}
  PROVE  \E x \in T : \A y \in T : x <= y
  <1> DEFINE R == {ss \in Nat \X Nat : ss[1] < ss[2]}
  <1>1. IsWellFoundedOn(R, Nat)
    BY NatLessThanWellFounded DEF OpToRel
  <1>2. \A x, y \in Nat : y < x => <<y, x>> \in R
    OBVIOUS
  <1> HIDE DEF R
  <1>3. PICK x \in T : \A y \in T : ~(<<y, x>> \in R)
    BY <1>1, WFMin
  <1>4. \A y \in T : ~(y < x)
    BY <1>2, <1>3
  <1> QED BY <1>3, <1>4

\* every group ends somewhere
LEMMA GroupEnds ==
  ASSUME argv \in Seq(STRING), NEW C, C \subseteq Places, NEW c \in C
  PROVE  \E n \in (c + 1)..argc : Closes(C, c, n)
  <1>0. argc \in Nat /\ argc >= 1
    BY DEF argc
  <1>1. FirstArg(Mode) \in {1, 2}
    BY ModeLemma
  <1>2. \A d \in C : d \in Nat /\ d < argc
    BY <1>0, <1>1 DEF Places
  <1> DEFINE T == {d \in C : d > c}
  <1>3. CASE T = {}
    BY <1>0, <1>2, <1>3 DEF Closes
  <1>4. CASE T # {}
    <2>1. T \in SUBSET Nat
      BY <1>2
    <2>2. PICK n \in T : \A y \in T : n <= y
      BY <1>4, <2>1, FirstOf
    <2> QED BY <1>0, <1>2, <2>2 DEF Closes
  <1> QED BY <1>3, <1>4

\* The words of a group.
LEMMA GroupWords ==
  ASSUME argv \in Seq(STRING), NEW C, C \subseteq Places, NEW c \in C, NEW n \in (c + 1)..argc,
         Closes(C, c, n)
  PROVE  /\ Group(C, c) = SubSeq(argv, c, n - 1) /\ Group(C, c) \in Seq(STRING)
         /\ Len(Group(C, c)) = n - c
         /\ \A m \in 1..(n - c) : Group(C, c)[m] = argv[(c + m) - 1]
  <1>0. argc \in Nat /\ argc >= 1 /\ argc = Len(argv) + 1
    BY DEF argc
  <1>1. FirstArg(Mode) \in {1, 2}
    BY ModeLemma
  <1>2. \A d \in C : d \in Nat /\ d >= 1 /\ d < argc
    BY <1>0, <1>1 DEF Places
  <1>3. Group(C, c) = SubSeq(argv, c, n - 1)
    <2>1. CASE n \in C /\ n > c /\ \A e \in C : e > c => n <= e
      <3> DEFINE d == CHOOSE d \in C : d > c /\ \A e \in C : e > c => d <= e
      <3>1. d \in C /\ d > c /\ \A e \in C : e > c => d <= e
        BY <2>1
      <3>2. d = n
        <4> HIDE DEF d
        <4> QED BY <1>2, <2>1, <3>1
      <3> QED BY <2>1, <3>2 DEF Group
    <2>2. CASE n = argc /\ \A e \in C : e <= c
      <3>1. ~\E d \in C : d > c
        BY <1>2, <2>2
      <3> QED BY <2>2, <3>1 DEF Group
    <2> QED BY <2>1, <2>2 DEF Closes
  <1>4. c \in Nat /\ n \in Nat /\ 1 <= c /\ n - 1 <= Len(argv) /\ c <= n - 1
    BY <1>0, <1>2
  <1> DEFINE g == SubSeq(argv, c, n - 1)
  <1>5. g \in Seq(STRING) /\ Len(g) = n - c /\ \A m \in 1..(n - c) : g[m] = argv[(c + m) - 1]
    BY <1>0, <1>4
  <1> QED BY <1>3, <1>5

\* What a group is depends on its piece alone.
LEMMA GroupKind ==
  ASSUME argv \in Seq(STRING), NEW C, C \subseteq Places, NEW c \in C, NEW n \in (c + 1)..argc,
         Closes(C, c, n)
  PROVE  /\ Kind(C, c) = PieceKind(c, n)
         /\ Rest(Group(C, c)) = Between(c + 1, n)
  <1>0. argc \in Nat /\ argc >= 1
    BY DEF argc
  <1>1. FirstArg(Mode) \in {1, 2}
    BY ModeLemma
  <1>2. \A d \in C : d \in Nat /\ d >= 1 /\ d < argc
    BY <1>0, <1>1 DEF Places
  <1> DEFINE g == Group(C, c)
  <1>3. g \in Seq(STRING) /\ Len(g) = n - c /\ \A m \in 1..(n - c) : g[m] = argv[(c + m) - 1]
    BY GroupWords
  <1> HIDE DEF g
  <1>4. c \in Nat /\ n \in Nat /\ n > c
    BY <1>0, <1>2
  <1>5. DOMAIN g = 1..(n - c)
    BY <1>3, <1>4, LenProperties
  <1>6. Rest(g) = Between(c + 1, n)
    <2>1. ASSUME NEW w \in Rest(g) PROVE w \in Between(c + 1, n)
      <3>1. PICK m \in 2..(n - c) : w = g[m]
        BY <1>3, <2>1 DEF Rest
      <3>2. w = argv[(c + m) - 1] /\ (c + m) - 1 \in (c + 1)..(n - 1)
        BY <1>3, <1>4, <3>1
      <3> QED BY <3>2 DEF Between
    <2>2. ASSUME NEW w \in Between(c + 1, n) PROVE w \in Rest(g)
      <3>1. PICK m \in (c + 1)..(n - 1) : w = argv[m]
        BY <2>2 DEF Between
      <3> DEFINE l == (m - c) + 1
      <3>2. l \in 2..(n - c) /\ l \in 1..(n - c) /\ (c + l) - 1 = m
        BY <1>4, <3>1
      <3>3. w = g[l]
        BY <1>3, <3>1, <3>2
      <3> QED BY <1>3, <3>2, <3>3 DEF Rest
    <2> QED BY <2>1, <2>2
  <1>7. Words(g) = Between(c, n)
    <2>1. ASSUME NEW w \in Words(g) PROVE w \in Between(c, n)
      <3>1. PICK m \in 1..(n - c) : w = g[m]
        BY <1>5, <2>1 DEF Words
      <3>2. w = argv[(c + m) - 1] /\ (c + m) - 1 \in c..(n - 1)
        BY <1>3, <1>4, <3>1
      <3> QED BY <3>2 DEF Between
    <2>2. ASSUME NEW w \in Between(c, n) PROVE w \in Words(g)
      <3>1. PICK m \in c..(n - 1) : w = argv[m]
        BY <2>2 DEF Between
      <3> DEFINE l == (m - c) + 1
      <3>2. l \in 1..(n - c) /\ (c + l) - 1 = m
        BY <1>4, <3>1
      <3>3. w = g[l]
        BY <1>3, <3>1, <3>2
      <3> QED BY <1>5, <3>2, <3>3 DEF Words
    <2> QED BY <2>1, <2>2
  <1>8. g[1] = argv[c] /\ (n = c + 2 => g[2] = argv[c + 1])
    <2>1. 1 \in 1..(n - c) /\ (c + 1) - 1 = c
      BY <1>4
    <2>2. n = c + 2 => 2 \in 1..(n - c) /\ (c + 2) - 1 = c + 1
      BY <1>4
    <2>3. g[1] = argv[(c + 1) - 1]
      BY <1>3, <2>1
    <2>4. n = c + 2 => g[2] = argv[(c + 2) - 1]
      BY <1>3, <2>2
    <2> QED BY <2>1, <2>2, <2>3, <2>4
  <1>9. (\A d \in C : d <= c) <=> n = argc
    BY <1>0, <1>2, <1>4 DEF Closes
  <1>10. (Len(g) = 2 <=> n = c + 2) /\ (Len(g) <= 5 <=> n - c <= 5)
    BY <1>3, <1>4
  <1>11. Kind(C, c) = PieceKind(c, n)
    BY <1>6, <1>7, <1>8, <1>9, <1>10 DEF Kind, PieceKind, g
  <1> QED BY <1>6, <1>11 DEF g

-----------------------------------------------------------------------------
(* What the first word of a piece tells *)

\* A list goes on up to an argument with a handler.
IsListOf(flag, c, n) == argv[c] \in flag /\ Between(c + 1, n) \cap Handled = {} /\ c # argc - 1

\* The kinds one by one.
LEMMA PieceKinds ==
  ASSUME NEW c \in Nat, NEW n \in Nat, c < n
  PROVE  /\ PieceKind(c, n) = "port" <=> argv[c] \in PortFlag /\ n = c + 2 /\ Atoi(argv[c + 1]) # 0
         /\ PieceKind(c, n) = "server" <=> argv[c] \in HostFlag /\ n = c + 2
         /\ PieceKind(c, n) = "debug" <=> argv[c] \in DebugFlag /\ n = c + 2
         /\ PieceKind(c, n) = "devices" <=> IsListOf(DevicesFlag, c, n)
         /\ PieceKind(c, n) = "filter" <=> /\ IsListOf(FilterFlag, c, n)
                                           /\ Between(c + 1, n) \subseteq DOMAIN Spellings /\ n - c <= 5
         /\ PieceKind(c, n) = "daemon" <=> Between(c, n) \subseteq Subactions /\ n = argc
         /\ PieceKind(c, n) = "help" <=> /\ argv[c] \in HelpFlag /\ n = argc
                                         /\ Between(c + 1, n) \subseteq Helped
         /\ PieceKind(c, n) \in NeededKinds \cup {"debug", "filter", "wrong"}
  <1>1. argv[c] \in Between(c, n)
    BY DEF Between
  <1> DEFINE w == argv[c]
             p == w \in PortFlag /\ n = c + 2
             a == Atoi(argv[c + 1]) # 0
             s == w \in HostFlag /\ n = c + 2
             g == w \in DebugFlag /\ n = c + 2
             d == IsListOf(DevicesFlag, c, n)
             f == IsListOf(FilterFlag, c, n)
             F == Between(c + 1, n) \subseteq DOMAIN Spellings /\ n - c <= 5
             u == Between(c, n) \subseteq Subactions /\ n = argc
             h == w \in HelpFlag /\ n = argc
             H == Between(c + 1, n) \subseteq Helped
  <1>2. /\ p => ~s /\ ~g /\ ~d /\ ~f /\ ~u /\ ~h
        /\ s => ~g /\ ~d /\ ~f /\ ~u /\ ~h
        /\ g => ~d /\ ~f /\ ~u /\ ~h
        /\ d => ~f /\ ~u /\ ~h
        /\ f => ~u /\ ~h
        /\ u => ~h
    <2> DEFINE B == Between(c, n)
    <2>1. w \in B
      BY <1>1
    <2> HIDE DEF w, B
    <2>2. B \subseteq Subactions => w \in Subactions
      BY <2>1
    <2>3. d => w \in DevicesFlag
      BY DEF IsListOf, w
    <2>4. f => w \in FilterFlag
      BY DEF IsListOf, w
    <2>5. u => w \in Subactions
      BY <2>2 DEF B
    <2> HIDE DEF d, f, u
    <2> QED BY <2>3, <2>4, <2>5, WordSets
  <1>3. PieceKind(c, n) =
          CASE p -> IF a THEN "port" ELSE "wrong"
            [] s -> "server"
            [] g -> "debug"
            [] d -> "devices"
            [] f -> IF F THEN "filter" ELSE "wrong"
            [] u -> "daemon"
            [] h -> IF H THEN "help" ELSE "wrong"
            [] OTHER -> "wrong"
    BY DEF PieceKind, IsListOf
  <1> DEFINE k == PieceKind(c, n)
  <1>4. /\ k = "port" <=> p /\ a
        /\ k = "server" <=> s
        /\ k = "debug" <=> g
        /\ k = "devices" <=> d
        /\ k = "filter" <=> f /\ F
        /\ k = "daemon" <=> u
        /\ k = "help" <=> h /\ H
        /\ k \in {"port", "server", "devices", "daemon", "help", "debug", "filter", "wrong"}
    <2> HIDE DEF p, a, s, g, d, f, F, u, h, H, k
    <2>1. k = CASE p -> IF a THEN "port" ELSE "wrong"
                [] s -> "server"
                [] g -> "debug"
                [] d -> "devices"
                [] f -> IF F THEN "filter" ELSE "wrong"
                [] u -> "daemon"
                [] h -> IF H THEN "help" ELSE "wrong"
                [] OTHER -> "wrong"
      BY <1>3 DEF k
    <2> QED BY <1>2, <2>1
  <1> QED BY <1>4 DEF NeededKinds

\* Only a word with a handler begins a group.
LEMMA KindHandled ==
  ASSUME NEW c \in Nat, NEW n \in Nat, c < n, PieceKind(c, n) # "wrong"
  PROVE  argv[c] \in Handled
  <1>1. argv[c] \in Between(c, n)
    BY DEF Between
  <1>2. PieceKind(c, n) \in {"port", "server", "devices", "daemon", "help", "debug", "filter"}
    BY PieceKinds DEF NeededKinds
  <1>3. \/ argv[c] \in PortFlag \/ argv[c] \in HostFlag \/ argv[c] \in DebugFlag
        \/ argv[c] \in DevicesFlag \/ argv[c] \in FilterFlag \/ argv[c] \in HelpFlag
        \/ Between(c, n) \subseteq Subactions
    BY <1>2, PieceKinds DEF IsListOf
  <1> QED BY <1>1, <1>3 DEF Handled

\* The handlers of lists stop where a list ends.
LEMMA ListEnds ==
  ASSUME argv \in Seq(STRING), NEW j \in 1..argc
  PROVE  /\ ListEnd(j) \in j..argc
         /\ ListEnd(j) = argc \/ argv[ListEnd(j)] \in Handled
         /\ \A n \in j..(ListEnd(j) - 1) : argv[n] \notin Handled
  <1>0. argc \in Nat /\ argc >= 1
    BY DEF argc
  <1> DEFINE T == {k \in j..argc : k = argc \/ argv[k] \in Handled}
  <1>1. T \in SUBSET Nat /\ T # {}
    <2>1. argc \in T
      BY <1>0
    <2>2. T \subseteq Nat
      BY <1>0
    <2> QED BY <2>1, <2>2
  <1>2. PICK x \in T : \A y \in T : x <= y
    BY <1>1, FirstOf
  <1>3. \A n \in j..(x - 1) : argv[n] \notin Handled
    <2> SUFFICES ASSUME NEW n \in j..(x - 1), argv[n] \in Handled PROVE FALSE
      OBVIOUS
    <2>1. n \in T
      BY <1>0, <1>2
    <2> QED BY <1>2, <2>1
  <1>4. \E k \in j..argc : /\ k = argc \/ argv[k] \in Handled
                           /\ \A n \in j..(k - 1) : argv[n] \notin Handled
    BY <1>2, <1>3
  <1> QED BY <1>4 DEF ListEnd

\* A list has one end.
LEMMA OneListEnd ==
  ASSUME argv \in Seq(STRING), NEW c \in 1..(argc - 1), NEW n \in (c + 1)..argc,
         n = argc \/ argv[n] \in Handled
  PROVE  Between(c + 1, n) \cap Handled = {} <=> n = ListEnd(c + 1)
  <1>0. argc \in Nat /\ argc >= 1
    BY DEF argc
  <1> DEFINE e == ListEnd(c + 1)
  <1>1. c + 1 \in 1..argc
    BY <1>0
  <1>2. /\ e \in (c + 1)..argc /\ (e = argc \/ argv[e] \in Handled)
        /\ \A m \in (c + 1)..(e - 1) : argv[m] \notin Handled
    BY <1>1, ListEnds
  <1> HIDE DEF e
  <1>3. Between(c + 1, e) \cap Handled = {}
    BY <1>2 DEF Between
  <1>4. ASSUME n # e PROVE Between(c + 1, n) \cap Handled # {}
    <2>1. ~(n < e)
      <3> SUFFICES ASSUME n < e PROVE FALSE
        OBVIOUS
      <3>1. n # argc /\ n \in (c + 1)..(e - 1)
        BY <1>0, <1>2
      <3> QED BY <1>2, <3>1
    <2>2. e < n /\ e # argc
      BY <1>0, <1>2, <1>4, <2>1
    <2>3. argv[e] \in Handled /\ e \in (c + 1)..(n - 1)
      BY <1>0, <1>2, <2>2
    <2> QED BY <2>3 DEF Between
  <1> QED BY <1>3, <1>4 DEF e

\* What a group can be is said by its first word.
LEMMA FirstWord ==
  ASSUME NEW c \in Nat, NEW n \in Nat, c < n
  PROVE  /\ argv[c] \in PortFlag => PieceKind(c, n) \in {"port", "wrong"}
         /\ argv[c] \in HostFlag => PieceKind(c, n) \in {"server", "wrong"}
         /\ argv[c] \in DebugFlag => PieceKind(c, n) \in {"debug", "wrong"}
         /\ argv[c] \in DevicesFlag => PieceKind(c, n) \in {"devices", "wrong"}
         /\ argv[c] \in FilterFlag => PieceKind(c, n) \in {"filter", "wrong"}
         /\ argv[c] \in Subactions => PieceKind(c, n) \in {"daemon", "wrong"}
         /\ argv[c] \in HelpFlag => PieceKind(c, n) \in {"help", "wrong"}
         /\ argv[c] \notin Handled => PieceKind(c, n) = "wrong"
  <1> DEFINE w == argv[c]
             k == PieceKind(c, n)
             B == Between(c, n)
  <1>1. w \in B
    BY DEF Between
  <1>2. /\ k = "port" => w \in PortFlag
        /\ k = "server" => w \in HostFlag
        /\ k = "debug" => w \in DebugFlag
        /\ k = "devices" => w \in DevicesFlag
        /\ k = "filter" => w \in FilterFlag
        /\ k = "daemon" => B \subseteq Subactions
        /\ k = "help" => w \in HelpFlag
        /\ k \in {"port", "server", "devices", "daemon", "help", "debug", "filter", "wrong"}
    BY PieceKinds DEF IsListOf, NeededKinds
  <1>3. k # "wrong" => w \in Handled
    BY KindHandled
  <1> HIDE DEF w, k, B
  <1>4. k = "daemon" => w \in Subactions
    BY <1>1, <1>2
  <1>5. /\ w \in PortFlag => k \in {"port", "wrong"}
        /\ w \in HostFlag => k \in {"server", "wrong"}
        /\ w \in DebugFlag => k \in {"debug", "wrong"}
        /\ w \in DevicesFlag => k \in {"devices", "wrong"}
        /\ w \in FilterFlag => k \in {"filter", "wrong"}
        /\ w \in Subactions => k \in {"daemon", "wrong"}
        /\ w \in HelpFlag => k \in {"help", "wrong"}
    BY <1>2, <1>4, WordSets
  <1> QED BY <1>3, <1>5 DEF w, k

-----------------------------------------------------------------------------
(* What a handler does is to take the one piece that can begin at the index,  *)
(* or to refuse because there is none.                                        *)

Contexts ==
    [needed : SUBSET NeededKinds, optional : SUBSET {"filter"}, provided : SUBSET NeededKinds,
     port : Nat, server : STRING \cup {None}, devices : Seq(STRING),
     daemon : STRING \cup {None}, filter : SUBSET Filters, debug : Nat]

\* what parse_args works on
Parsing ==
    /\ argv \in Argvs /\ pc \in {"main", "args", "done"} /\ ctx \in Contexts
    /\ pc = "args" =>
         /\ argc >= 2 /\ argc >= Minimum(Mode) /\ i \in FirstArg(Mode)..argc
         /\ ctx.needed = Needed(Mode) /\ ctx.provided \subseteq Needed(Mode)
         /\ ctx.optional = IF Mode = "show" THEN {"filter"} ELSE {}

\* a group of kind k may come now
Offered(k) == k \in Allowed /\ k \notin ctx.provided

\* a group may end before n
Parts(n) == n = argc \/ argv[n] \in Handled

\* the piece up to j was taken for what it is, a group of kind k
Stores(k, j) ==
    /\ ctx'.needed = ctx.needed /\ ctx'.optional = ctx.optional
    /\ ctx'.provided = ctx.provided \cup ({k} \cap Needed(Mode))
    /\ ctx'.port    = IF k = "port" THEN Atoi(argv[i + 1]) ELSE ctx.port
    /\ ctx'.server  = IF k = "server" THEN argv[i + 1] ELSE ctx.server
    /\ ctx'.devices = IF k = "devices" THEN SubSeq(argv, i + 1, j - 1) ELSE ctx.devices
    /\ ctx'.daemon  = IF k = "daemon" THEN argv[argc - 1] ELSE ctx.daemon
    /\ ctx'.filter  = IF k = "filter" THEN ctx.filter \cup Named(Between(i + 1, j)) ELSE ctx.filter
    /\ ctx'.debug   = IF k = "debug" THEN Atoi(argv[i + 1]) ELSE ctx.debug

Takes(k, j) ==
    /\ pc = "args" /\ i < argc /\ j \in (i + 1)..argc /\ PieceKind(i, j) = k /\ Offered(k)
    /\ \A n \in (i + 1)..argc : Parts(n) /\ PieceKind(i, n) \in Allowed => n = j
    /\ i' = j /\ UNCHANGED <<argv, pc, outcome>> /\ ctx' \in Contexts /\ Stores(k, j)

Refuses ==
    /\ pc = "args" /\ i < argc
    /\ Reject
    /\ \A n \in (i + 1)..argc : Parts(n) => ~Offered(PieceKind(i, n))

\* what is needed is offered until it was provided
LEMMA OfferedLemma ==
  ASSUME Parsing, pc = "args"
  PROVE  /\ \A k \in NeededKinds : Offered(k) <=> ~Refused(k)
         /\ \A k \in NeededKinds : k \in Allowed <=> k \in Needed(Mode)
         /\ Offered("debug") /\ "debug" \notin Needed(Mode)
         /\ Offered("filter") <=> "filter" \in ctx.optional
         /\ "filter" \notin Needed(Mode) /\ "wrong" \notin Allowed
  BY ModeLemma DEF Parsing, Offered, Allowed, Refused, NeededKinds, Contexts

\* where the index is
LEMMA IndexLemma ==
  ASSUME Parsing, pc = "args"
  PROVE  /\ argv \in Seq(STRING) /\ argc \in Nat /\ argc >= 2 /\ argc = Len(argv) + 1
         /\ i \in Nat /\ i >= 1 /\ i <= argc
         /\ \A m \in 1..(argc - 1) : argv[m] \in STRING
         /\ \A w : Atoi(w) \in Nat
  <1>1. argv \in Seq(STRING) /\ argc = Len(argv) + 1
    BY ArgvsAssumption DEF Parsing, argc
  <1>2. FirstArg(Mode) \in {1, 2}
    BY ModeLemma
  <1>3. i \in FirstArg(Mode)..argc /\ argc >= 2
    BY DEF Parsing
  <1>4. argc \in Nat /\ i \in Nat /\ i >= 1 /\ i <= argc
    BY <1>1, <1>2, <1>3, LenProperties
  <1>5. \A m \in 1..(argc - 1) : argv[m] \in STRING
    BY <1>1, <1>4
  <1>6. \A w : Atoi(w) \in Nat
    BY NumeralsAssumption DEF Atoi
  <1> QED BY <1>1, <1>3, <1>4, <1>5, <1>6

-----------------------------------------------------------------------------
(* The handlers, one by one *)

\* -p: one value, a number that is not 0
LEMMA PortPiece == ASSUME Parsing, ArgPort PROVE Refuses \/ Takes("port", i + 2)
  <1>0. pc = "args" /\ i < argc /\ argv[i] \in PortFlag
    BY DEF ArgPort, At
  <1>1. argv \in Seq(STRING) /\ argc \in Nat /\ i \in Nat /\ i >= 1 /\ \A w : Atoi(w) \in Nat
    BY <1>0, IndexLemma
  <1>2. Offered("port") <=> ~Refused("port")
    BY <1>0, OfferedLemma DEF NeededKinds
  <1>3. \A n \in (i + 1)..argc : /\ PieceKind(i, n) \in {"port", "wrong"}
                                 /\ PieceKind(i, n) = "port" <=> n = i + 2 /\ Atoi(argv[i + 1]) # 0
    BY <1>0, <1>1, FirstWord, PieceKinds
  <1>4. "wrong" \notin Allowed
    BY <1>0, OfferedLemma
  <1>5. CASE NoValue \/ Refused("port") \/ Atoi(argv[i + 1]) = 0
    <2>1. Reject
      BY <1>5 DEF ArgPort
    <2>2. ASSUME NEW n \in (i + 1)..argc PROVE ~Offered(PieceKind(i, n))
      <3>1. PieceKind(i, n) = "port" => ~Offered("port")
        BY <1>1, <1>2, <1>3, <1>5 DEF NoValue
      <3> QED BY <1>3, <1>4, <3>1 DEF Offered
    <2> QED BY <1>0, <2>1, <2>2 DEF Refuses
  <1>6. CASE ~(NoValue \/ Refused("port") \/ Atoi(argv[i + 1]) = 0)
    <2>1. i + 2 \in (i + 1)..argc
      BY <1>1, <1>6 DEF NoValue
    <2>2. /\ i' = i + 2 /\ UNCHANGED <<argv, pc, outcome>>
          /\ ctx' = Provided("port", [ctx EXCEPT !.port = Atoi(argv[i + 1])])
      BY <1>6 DEF ArgPort, Advance
    <2>3. PieceKind(i, i + 2) = "port" /\ Offered("port")
      BY <1>2, <1>3, <1>6, <2>1
    <2>4. \A n \in (i + 1)..argc : PieceKind(i, n) \in Allowed => n = i + 2
      BY <1>3, <1>4
    <2>5. "port" \in Needed(Mode) /\ "port" \in NeededKinds
      BY <1>0, <2>3, OfferedLemma DEF Offered, NeededKinds
    <2>6. ctx' \in Contexts /\ Stores("port", i + 2)
      <3>1. ctx \in Contexts /\ Atoi(argv[i + 1]) \in Nat
        BY <1>1 DEF Parsing
      <3> QED BY <2>2, <2>5, <3>1 DEF Contexts, Stores, Provided
    <2> QED BY <1>0, <2>1, <2>2, <2>3, <2>4, <2>6 DEF Takes
  <1> QED BY <1>5, <1>6

\* -s: one value
LEMMA HostPiece == ASSUME Parsing, ArgHost PROVE Refuses \/ Takes("server", i + 2)
  <1>0. pc = "args" /\ i < argc /\ argv[i] \in HostFlag
    BY DEF ArgHost, At
  <1>1. argv \in Seq(STRING) /\ argc \in Nat /\ i \in Nat /\ i >= 1
        /\ \A m \in 1..(argc - 1) : argv[m] \in STRING
    BY <1>0, IndexLemma
  <1>2. Offered("server") <=> ~Refused("server")
    BY <1>0, OfferedLemma DEF NeededKinds
  <1>3. \A n \in (i + 1)..argc : /\ PieceKind(i, n) \in {"server", "wrong"}
                                 /\ PieceKind(i, n) = "server" <=> n = i + 2
    BY <1>0, <1>1, FirstWord, PieceKinds
  <1>4. "wrong" \notin Allowed
    BY <1>0, OfferedLemma
  <1>5. CASE NoValue \/ Refused("server")
    <2>1. Reject
      BY <1>5 DEF ArgHost
    <2>2. ASSUME NEW n \in (i + 1)..argc PROVE ~Offered(PieceKind(i, n))
      <3>1. PieceKind(i, n) = "server" => ~Offered("server")
        BY <1>1, <1>2, <1>3, <1>5 DEF NoValue
      <3> QED BY <1>3, <1>4, <3>1 DEF Offered
    <2> QED BY <1>0, <2>1, <2>2 DEF Refuses
  <1>6. CASE ~(NoValue \/ Refused("server"))
    <2>1. i + 2 \in (i + 1)..argc
      BY <1>1, <1>6 DEF NoValue
    <2>2. /\ i' = i + 2 /\ UNCHANGED <<argv, pc, outcome>>
          /\ ctx' = Provided("server", [ctx EXCEPT !.server = argv[i + 1]])
      BY <1>6 DEF ArgHost, Advance
    <2>3. PieceKind(i, i + 2) = "server" /\ Offered("server")
      BY <1>2, <1>3, <1>6, <2>1
    <2>4. \A n \in (i + 1)..argc : PieceKind(i, n) \in Allowed => n = i + 2
      BY <1>3, <1>4
    <2>5. "server" \in Needed(Mode) /\ "server" \in NeededKinds
      BY <1>0, <2>3, OfferedLemma DEF Offered, NeededKinds
    <2>6. ctx' \in Contexts /\ Stores("server", i + 2)
      <3>1. ctx \in Contexts /\ argv[i + 1] \in STRING
        BY <1>1, <2>1 DEF Parsing
      <3> QED BY <2>2, <2>5, <3>1 DEF Contexts, Stores, Provided
    <2> QED BY <1>0, <2>1, <2>2, <2>3, <2>4, <2>6 DEF Takes
  <1> QED BY <1>5, <1>6

\* -g: one value, for every action and any number of times
LEMMA DebugPiece == ASSUME Parsing, ArgDebug PROVE Refuses \/ Takes("debug", i + 2)
  <1>0. pc = "args" /\ i < argc /\ argv[i] \in DebugFlag
    BY DEF ArgDebug, At
  <1>1. argv \in Seq(STRING) /\ argc \in Nat /\ i \in Nat /\ i >= 1 /\ \A w : Atoi(w) \in Nat
    BY <1>0, IndexLemma
  <1>2. Offered("debug") /\ "debug" \notin Needed(Mode) /\ "wrong" \notin Allowed
    BY <1>0, OfferedLemma
  <1>3. \A n \in (i + 1)..argc : /\ PieceKind(i, n) \in {"debug", "wrong"}
                                 /\ PieceKind(i, n) = "debug" <=> n = i + 2
    BY <1>0, <1>1, FirstWord, PieceKinds
  <1>4. CASE NoValue
    <2>1. Reject
      BY <1>4 DEF ArgDebug
    <2>2. \A n \in (i + 1)..argc : ~Offered(PieceKind(i, n))
      BY <1>1, <1>2, <1>3, <1>4 DEF NoValue, Offered
    <2> QED BY <1>0, <2>1, <2>2 DEF Refuses
  <1>5. CASE ~NoValue
    <2>1. i + 2 \in (i + 1)..argc
      BY <1>1, <1>5 DEF NoValue
    <2>2. /\ i' = i + 2 /\ UNCHANGED <<argv, pc, outcome>>
          /\ ctx' = [ctx EXCEPT !.debug = Atoi(argv[i + 1])]
      BY <1>5 DEF ArgDebug, Advance
    <2>3. PieceKind(i, i + 2) = "debug"
      BY <1>3, <2>1
    <2>4. \A n \in (i + 1)..argc : PieceKind(i, n) \in Allowed => n = i + 2
      BY <1>2, <1>3
    <2>5. ctx' \in Contexts /\ Stores("debug", i + 2)
      <3>1. ctx \in Contexts /\ Atoi(argv[i + 1]) \in Nat
        BY <1>1 DEF Parsing
      <3> QED BY <1>2, <2>2, <3>1 DEF Contexts, Stores
    <2> QED BY <1>0, <1>2, <2>1, <2>2, <2>3, <2>4, <2>5 DEF Takes
  <1> QED BY <1>4, <1>5

\* -d: all words up to the next argument with a handler
LEMMA DevicesPiece ==
  ASSUME Parsing, ArgDevices PROVE Refuses \/ Takes("devices", ListEnd(i + 1))
  <1> DEFINE e == ListEnd(i + 1)
  <1>0. pc = "args" /\ i < argc /\ argv[i] \in DevicesFlag
    BY DEF ArgDevices, At
  <1>1. argv \in Seq(STRING) /\ argc \in Nat /\ argc = Len(argv) + 1 /\ i \in Nat /\ i >= 1
    BY <1>0, IndexLemma
  <1>2. Offered("devices") <=> ~Refused("devices")
    BY <1>0, OfferedLemma DEF NeededKinds
  <1>3. e \in (i + 1)..argc /\ Parts(e)
    <2>1. i + 1 \in 1..argc
      BY <1>0, <1>1
    <2> QED BY <1>1, <2>1, ListEnds DEF Parts
  <1>4. \A n \in (i + 1)..argc :
           /\ PieceKind(i, n) \in {"devices", "wrong"}
           /\ Parts(n) => (PieceKind(i, n) = "devices" <=> n = e /\ ~NoValue)
    <2> SUFFICES ASSUME NEW n \in (i + 1)..argc
                 PROVE  /\ PieceKind(i, n) \in {"devices", "wrong"}
                        /\ Parts(n) => (PieceKind(i, n) = "devices" <=> n = e /\ ~NoValue)
      OBVIOUS
    <2>1. n \in Nat /\ i < n /\ i \in 1..(argc - 1)
      BY <1>0, <1>1
    <2>2. PieceKind(i, n) \in {"devices", "wrong"}
      BY <1>0, <1>1, <2>1, FirstWord
    <2>3. PieceKind(i, n) = "devices" <=> IsListOf(DevicesFlag, i, n)
      BY <1>1, <2>1, PieceKinds
    <2>4. Parts(n) => (Between(i + 1, n) \cap Handled = {} <=> n = e)
      BY <1>1, <2>1, OneListEnd DEF Parts
    <2>5. i # argc - 1 <=> ~NoValue
      BY <1>0, <1>1 DEF NoValue
    <2> QED BY <1>0, <2>2, <2>3, <2>4, <2>5 DEF IsListOf
  <1>5. "wrong" \notin Allowed
    BY <1>0, OfferedLemma
  <1>6. CASE NoValue \/ Refused("devices")
    <2>1. Reject
      BY <1>6 DEF ArgDevices
    <2>2. ASSUME NEW n \in (i + 1)..argc, Parts(n) PROVE ~Offered(PieceKind(i, n))
      <3>1. PieceKind(i, n) = "devices" => ~Offered("devices")
        BY <1>2, <1>4, <1>6, <2>2
      <3> QED BY <1>4, <1>5, <3>1 DEF Offered
    <2> QED BY <1>0, <2>1, <2>2 DEF Refuses
  <1>7. CASE ~(NoValue \/ Refused("devices"))
    <2>1. /\ i' = e /\ UNCHANGED <<argv, pc, outcome>>
          /\ ctx' = Provided("devices", [ctx EXCEPT !.devices = SubSeq(argv, i + 1, e - 1)])
      BY <1>7 DEF ArgDevices, Advance
    <2> HIDE DEF e
    <2>2. PieceKind(i, e) = "devices" /\ Offered("devices")
      BY <1>2, <1>3, <1>4, <1>7
    <2>3. \A n \in (i + 1)..argc : Parts(n) /\ PieceKind(i, n) \in Allowed => n = e
      BY <1>4, <1>5
    <2>4. "devices" \in Needed(Mode) /\ "devices" \in NeededKinds
      BY <1>0, <2>2, OfferedLemma DEF Offered, NeededKinds
    <2>5. ctx' \in Contexts /\ Stores("devices", e)
      <3> DEFINE l == SubSeq(argv, i + 1, e - 1)
      <3>1. ctx \in Contexts
        BY DEF Parsing
      <3>2. l \in Seq(STRING)
        BY <1>1, <1>3
      <3>3. ctx' = Provided("devices", [ctx EXCEPT !.devices = l])
        BY <2>1
      <3> HIDE DEF l
      <3>4. /\ ctx' \in Contexts /\ ctx'.needed = ctx.needed /\ ctx'.optional = ctx.optional
            /\ ctx'.provided = ctx.provided \cup {"devices"} /\ ctx'.port = ctx.port
            /\ ctx'.server = ctx.server /\ ctx'.devices = l /\ ctx'.daemon = ctx.daemon
            /\ ctx'.filter = ctx.filter /\ ctx'.debug = ctx.debug
        BY <2>4, <3>1, <3>2, <3>3 DEF Contexts, Provided
      <3>5. {"devices"} \cap Needed(Mode) = {"devices"}
        BY <2>4
      <3> QED BY <3>4, <3>5 DEF Stores, l
    <2>6. Takes("devices", e)
      BY <1>0, <1>3, <2>1, <2>2, <2>3, <2>5 DEF Takes
    <2> QED BY <2>6 DEF e
  <1> QED BY <1>6, <1>7

\* there are four filters
LEMMA FourFilters == IsFiniteSet(Filters) /\ Cardinality(Filters) = 4
  <1>1. IsFiniteSet({}) /\ Cardinality({}) = 0
    BY FS_EmptySet
  <1>2. IsFiniteSet({"key"}) /\ Cardinality({"key"}) = 1
    BY FS_Singleton
  <1>3. IsFiniteSet({"key"} \cup {"rel"}) /\ Cardinality({"key"} \cup {"rel"}) = 2
    BY <1>2, FS_AddElement
  <1> DEFINE two == {"key"} \cup {"rel"}
             three == two \cup {"abs"}
  <1>4. IsFiniteSet(three) /\ Cardinality(three) = 3
    <2>1. "abs" \notin two
      OBVIOUS
    <2> HIDE DEF two
    <2> QED BY <1>3, <2>1, FS_AddElement DEF two
  <1>5. IsFiniteSet(three \cup {"swt"}) /\ Cardinality(three \cup {"swt"}) = 4
    <2>1. "swt" \notin three
      OBVIOUS
    <2> HIDE DEF three
    <2> QED BY <1>4, <2>1, FS_AddElement
  <1>6. Filters = three \cup {"swt"}
    BY DEF Filters
  <1> QED BY <1>5, <1>6

\* -f: at most four of the filters, up to the next argument with a handler
LEMMA FilterPiece ==
  ASSUME Parsing, ArgFilter PROVE Refuses \/ Takes("filter", ListEnd(i + 1))
  <1> DEFINE e == ListEnd(i + 1)
             words == Between(i + 1, e)
             wrong == e - (i + 1) > Cardinality(Filters) \/ ~(words \subseteq DOMAIN Spellings)
  <1>0. /\ pc = "args" /\ i < argc /\ argv[i] \in FilterFlag
        /\ NoValue \/ "filter" \notin ctx.optional => Reject
        /\ ~(NoValue \/ "filter" \notin ctx.optional) /\ wrong => Reject
        /\ ~(NoValue \/ "filter" \notin ctx.optional) /\ ~wrong =>
              Advance(e, [ctx EXCEPT !.filter = @ \cup Named(words)])
    BY DEF ArgFilter, FilterWith, At, Between
  <1>1. argv \in Seq(STRING) /\ argc \in Nat /\ argc = Len(argv) + 1 /\ i \in Nat /\ i >= 1
    BY <1>0, IndexLemma
  <1>2. (Offered("filter") <=> "filter" \in ctx.optional) /\ "filter" \notin Needed(Mode)
        /\ "wrong" \notin Allowed
    BY <1>0, OfferedLemma
  <1>3. e \in (i + 1)..argc /\ Parts(e)
    <2>1. i + 1 \in 1..argc
      BY <1>0, <1>1
    <2> QED BY <1>1, <2>1, ListEnds DEF Parts
  <1>4. \A n \in (i + 1)..argc :
           /\ PieceKind(i, n) \in {"filter", "wrong"}
           /\ Parts(n) => (PieceKind(i, n) = "filter" <=> n = e /\ ~NoValue /\ ~wrong)
    <2> SUFFICES ASSUME NEW n \in (i + 1)..argc
                 PROVE  /\ PieceKind(i, n) \in {"filter", "wrong"}
                        /\ Parts(n) => (PieceKind(i, n) = "filter" <=> n = e /\ ~NoValue /\ ~wrong)
      OBVIOUS
    <2>1. n \in Nat /\ i < n /\ i \in 1..(argc - 1)
      BY <1>0, <1>1
    <2>2. PieceKind(i, n) \in {"filter", "wrong"}
      BY <1>0, <1>1, <2>1, FirstWord
    <2>3. PieceKind(i, n) = "filter" <=> /\ IsListOf(FilterFlag, i, n)
                                         /\ Between(i + 1, n) \subseteq DOMAIN Spellings /\ n - i <= 5
      BY <1>1, <2>1, PieceKinds
    <2>4. Parts(n) => (Between(i + 1, n) \cap Handled = {} <=> n = e)
      BY <1>1, <2>1, OneListEnd DEF Parts
    <2>5. i # argc - 1 <=> ~NoValue
      BY <1>0, <1>1 DEF NoValue
    <2>6. n - i <= 5 <=> ~(n - (i + 1) > Cardinality(Filters))
      BY <1>1, FourFilters
    <2> HIDE DEF e
    <2>7. n = e => (wrong <=> ~(Between(i + 1, n) \subseteq DOMAIN Spellings /\ n - i <= 5))
      BY <2>6
    <2> QED BY <1>0, <2>2, <2>3, <2>4, <2>5, <2>7 DEF IsListOf
  <1> HIDE DEF e
  <1>5. CASE NoValue \/ "filter" \notin ctx.optional \/ wrong
    <2>1. Reject
      BY <1>0, <1>5
    <2>2. ASSUME NEW n \in (i + 1)..argc, Parts(n) PROVE ~Offered(PieceKind(i, n))
      <3>1. PieceKind(i, n) = "filter" => ~Offered("filter")
        BY <1>2, <1>4, <1>5, <2>2
      <3> QED BY <1>2, <1>4, <3>1 DEF Offered
    <2> QED BY <1>0, <2>1, <2>2 DEF Refuses
  <1>6. CASE ~(NoValue \/ "filter" \notin ctx.optional \/ wrong)
    <2>1. i' = e /\ UNCHANGED <<argv, pc, outcome>> /\ ctx' = [ctx EXCEPT !.filter = @ \cup Named(words)]
      BY <1>0, <1>6 DEF Advance
    <2>2. PieceKind(i, e) = "filter" /\ Offered("filter")
      BY <1>2, <1>3, <1>4, <1>6
    <2>3. \A n \in (i + 1)..argc : Parts(n) /\ PieceKind(i, n) \in Allowed => n = e
      BY <1>2, <1>4
    <2>4. Named(words) \subseteq Filters
      <3>1. words \subseteq DOMAIN Spellings
        BY <1>6
      <3> HIDE DEF words
      <3> QED BY <3>1, SpellingsAssumption DEF Named, Filters
    <2> HIDE DEF words
    <2>5. ctx' \in Contexts /\ Stores("filter", e)
      <3>1. ctx \in Contexts
        BY DEF Parsing
      <3>2. /\ ctx' \in Contexts /\ ctx'.needed = ctx.needed /\ ctx'.optional = ctx.optional
            /\ ctx'.provided = ctx.provided /\ ctx'.port = ctx.port
            /\ ctx'.server = ctx.server /\ ctx'.devices = ctx.devices /\ ctx'.daemon = ctx.daemon
            /\ ctx'.filter = ctx.filter \cup Named(words) /\ ctx'.debug = ctx.debug
        BY <2>1, <2>4, <3>1 DEF Contexts
      <3>3. {"filter"} \cap Needed(Mode) = {}
        BY <1>2
      <3> QED BY <3>2, <3>3 DEF Stores, words
    <2>6. Takes("filter", e)
      BY <1>0, <1>3, <2>1, <2>2, <2>3, <2>5 DEF Takes
    <2> QED BY <2>6 DEF e
  <1> QED BY <1>5, <1>6

\* a subaction: all the rest are subactions
LEMMA DaemonPiece == ASSUME Parsing, ArgDaemon PROVE Refuses \/ Takes("daemon", argc)
  <1>0. pc = "args" /\ i < argc /\ argv[i] \in Subactions
    BY DEF ArgDaemon, At
  <1>1. argv \in Seq(STRING) /\ argc \in Nat /\ i \in Nat /\ i >= 1
        /\ \A m \in 1..(argc - 1) : argv[m] \in STRING
    BY <1>0, IndexLemma
  <1>2. Offered("daemon") <=> ~Refused("daemon")
    BY <1>0, OfferedLemma DEF NeededKinds
  <1> DEFINE wrong == \E n \in i..(argc - 1) : argv[n] \notin Subactions
  <1>3. \A n \in (i + 1)..argc : /\ PieceKind(i, n) \in {"daemon", "wrong"}
                                 /\ PieceKind(i, n) = "daemon" <=> n = argc /\ ~wrong
    <2> SUFFICES ASSUME NEW n \in (i + 1)..argc
                 PROVE  /\ PieceKind(i, n) \in {"daemon", "wrong"}
                        /\ PieceKind(i, n) = "daemon" <=> n = argc /\ ~wrong
      OBVIOUS
    <2>1. PieceKind(i, n) \in {"daemon", "wrong"}
      BY <1>0, <1>1, FirstWord
    <2>2. PieceKind(i, n) = "daemon" <=> Between(i, n) \subseteq Subactions /\ n = argc
      BY <1>1, PieceKinds
    <2>3. ~wrong <=> Between(i, argc) \subseteq Subactions
      BY DEF Between
    <2> QED BY <2>1, <2>2, <2>3
  <1>4. "wrong" \notin Allowed
    BY <1>0, OfferedLemma
  <1>5. CASE Refused("daemon") \/ wrong
    <2>1. Reject
      BY <1>5 DEF ArgDaemon
    <2>2. \A n \in (i + 1)..argc : ~Offered(PieceKind(i, n))
      BY <1>2, <1>3, <1>4, <1>5 DEF Offered
    <2> QED BY <1>0, <2>1, <2>2 DEF Refuses
  <1>6. CASE ~(Refused("daemon") \/ wrong)
    <2>1. argc \in (i + 1)..argc
      BY <1>0, <1>1
    <2>2. /\ i' = argc /\ UNCHANGED <<argv, pc, outcome>>
          /\ ctx' = Provided("daemon", [ctx EXCEPT !.daemon = argv[argc - 1]])
      BY <1>6 DEF ArgDaemon, Advance
    <2>3. PieceKind(i, argc) = "daemon" /\ Offered("daemon")
      BY <1>2, <1>3, <1>6, <2>1
    <2>4. \A n \in (i + 1)..argc : PieceKind(i, n) \in Allowed => n = argc
      BY <1>3, <1>4
    <2>5. "daemon" \in Needed(Mode) /\ "daemon" \in NeededKinds
      BY <1>0, <2>3, OfferedLemma DEF Offered, NeededKinds
    <2>6. ctx' \in Contexts /\ Stores("daemon", argc)
      <3>1. argc - 1 \in 1..(argc - 1)
        BY <1>0, <1>1
      <3>2. ctx \in Contexts /\ argv[argc - 1] \in STRING
        BY <1>1, <3>1 DEF Parsing
      <3> QED BY <2>2, <2>5, <3>2 DEF Contexts, Stores, Provided
    <2> QED BY <1>0, <2>1, <2>2, <2>3, <2>4, <2>6 DEF Takes
  <1> QED BY <1>5, <1>6

\* -h: all the rest are words that have a help
LEMMA HelpPiece == ASSUME Parsing, ArgHelp PROVE Refuses \/ Takes("help", argc)
  <1>0. pc = "args" /\ i < argc /\ argv[i] \in HelpFlag
    BY DEF ArgHelp, At
  <1>1. argv \in Seq(STRING) /\ argc \in Nat /\ i \in Nat /\ i >= 1
    BY <1>0, IndexLemma
  <1>2. Offered("help") <=> ~Refused("help")
    BY <1>0, OfferedLemma DEF NeededKinds
  <1> DEFINE wrong == \E n \in (i + 1)..(argc - 1) : argv[n] \notin Helped
  <1>3. \A n \in (i + 1)..argc : /\ PieceKind(i, n) \in {"help", "wrong"}
                                 /\ PieceKind(i, n) = "help" <=> n = argc /\ ~wrong
    <2> SUFFICES ASSUME NEW n \in (i + 1)..argc
                 PROVE  /\ PieceKind(i, n) \in {"help", "wrong"}
                        /\ PieceKind(i, n) = "help" <=> n = argc /\ ~wrong
      OBVIOUS
    <2>1. PieceKind(i, n) \in {"help", "wrong"}
      BY <1>0, <1>1, FirstWord
    <2>2. PieceKind(i, n) = "help" <=> n = argc /\ Between(i + 1, n) \subseteq Helped
      BY <1>0, <1>1, PieceKinds
    <2>3. ~wrong <=> Between(i + 1, argc) \subseteq Helped
      BY DEF Between
    <2> QED BY <2>1, <2>2, <2>3
  <1>4. "wrong" \notin Allowed
    BY <1>0, OfferedLemma
  <1>5. CASE Refused("help") \/ wrong
    <2>1. Reject
      BY <1>5 DEF ArgHelp
    <2>2. \A n \in (i + 1)..argc : ~Offered(PieceKind(i, n))
      BY <1>2, <1>3, <1>4, <1>5 DEF Offered
    <2> QED BY <1>0, <2>1, <2>2 DEF Refuses
  <1>6. CASE ~(Refused("help") \/ wrong)
    <2>1. argc \in (i + 1)..argc
      BY <1>0, <1>1
    <2>2. i' = argc /\ UNCHANGED <<argv, pc, outcome>> /\ ctx' = Provided("help", ctx)
      BY <1>6 DEF ArgHelp, Advance
    <2>3. PieceKind(i, argc) = "help" /\ Offered("help")
      BY <1>2, <1>3, <1>6, <2>1
    <2>4. \A n \in (i + 1)..argc : PieceKind(i, n) \in Allowed => n = argc
      BY <1>3, <1>4
    <2>5. "help" \in Needed(Mode) /\ "help" \in NeededKinds
      BY <1>0, <2>3, OfferedLemma DEF Offered, NeededKinds
    <2>6. ctx' \in Contexts /\ Stores("help", argc)
      <3>1. ctx \in Contexts
        BY DEF Parsing
      <3> QED BY <2>2, <2>5, <3>1 DEF Contexts, Stores, Provided
    <2> QED BY <1>0, <2>1, <2>2, <2>3, <2>4, <2>6 DEF Takes
  <1> QED BY <1>5, <1>6

\* Every argument is taken for what it must be, or refused because it can be nothing.
LEMMA HandledPieces ==
  ASSUME Parsing, HandleArg PROVE Refuses \/ \E k \in Allowed : \E j \in Nat : Takes(k, j)
  <1>1. ASSUME ArgUnknown PROVE Refuses
    <2>1. pc = "args" /\ i < argc /\ argv[i] \notin Handled /\ Reject
      BY <1>1 DEF ArgUnknown
    <2>2. i \in Nat /\ argc \in Nat /\ "wrong" \notin Allowed
      BY <2>1, IndexLemma, OfferedLemma
    <2>3. \A n \in (i + 1)..argc : PieceKind(i, n) = "wrong"
      BY <2>1, <2>2, FirstWord
    <2> QED BY <2>1, <2>2, <2>3 DEF Refuses, Offered
  <1>2. ASSUME NEW k, NEW j, Takes(k, j) PROVE k \in Allowed /\ j \in Nat
    <2>1. pc = "args" /\ j \in (i + 1)..argc /\ Offered(k)
      BY <1>2 DEF Takes
    <2>2. i \in Nat /\ argc \in Nat
      BY <2>1, IndexLemma
    <2> QED BY <2>1, <2>2 DEF Offered
  <1>3. Refuses \/ \E k, j : Takes(k, j)
    BY <1>1, PortPiece, HostPiece, DebugPiece, DevicesPiece, FilterPiece, DaemonPiece, HelpPiece
       DEF HandleArg
  <1> QED BY <1>2, <1>3

-----------------------------------------------------------------------------
(* The groups that have been read.  D is the cut as far as it is known: the   *)
(* places where they begin, and the index.                                    *)

ReadOf(D) == {c \in D : c < i}

Walked(D) ==
    /\ D \subseteq Places /\ (Places # {} => FirstArg(Mode) \in D)
    /\ (\A d \in D : d <= i) /\ (i < argc => i \in D)
    /\ \A c \in ReadOf(D) : Kind(D, c) \in Allowed
    /\ \A c, d \in ReadOf(D) : Kind(D, c) = Kind(D, d) /\ Kind(D, c) \in Needed(Mode) => c = d
    /\ ctx.provided = {Kind(D, c) : c \in ReadOf(D)} \cap Needed(Mode)

\* No other cut can read the command line.
Sole(D) == \A C \in SUBSET Places : Reads(C) => D = {c \in C : c <= i}

\* What was stored is what the group that was read says.
Stored(D) ==
    /\ \A c \in ReadOf(D) :
          LET g == Group(D, c)
              k == Kind(D, c)
          IN  /\ k = "port"    => ctx.port = Atoi(g[2])
              /\ k = "server"  => ctx.server = g[2]
              /\ k = "devices" => ctx.devices = Tail(g)
              /\ k = "daemon"  => ctx.daemon = g[Len(g)] /\ ctx.daemon \in Subactions
              /\ k = "debug" /\ (\A d \in ReadOf(D) : d > c => Kind(D, d) # "debug")
                    => ctx.debug = Atoi(g[2])
    /\ ctx.filter = UNION {Named(Rest(Group(D, c))) : c \in {d \in ReadOf(D) : Kind(D, d) = "filter"}}

\* a place is an index of argv
LEMMA PlaceLemma ==
  ASSUME argv \in Seq(STRING)
  PROVE  argc \in Nat /\ \A c \in Places : c \in Nat /\ c >= 1 /\ c < argc
  <1>1. argc \in Nat
    BY LenProperties DEF argc
  <1> QED BY <1>1, ModeLemma DEF Places

\* Groups that end before p stay as they are when the cut goes on behind p.
LEMMA GroupsStay ==
  ASSUME argv \in Seq(STRING), NEW C, C \subseteq Places, NEW D, NEW p \in D,
         D = {c \in C : c <= p}, NEW c \in D, c < p
  PROVE  Kind(C, c) = Kind(D, c) /\ Group(C, c) = Group(D, c)
  <1>1. D \subseteq Places /\ c \in C /\ p \in C
    OBVIOUS
  <1>2. argc \in Nat /\ \A d \in Places : d \in Nat /\ d >= 1 /\ d < argc
    BY PlaceLemma
  <1>3. PICK n \in (c + 1)..argc : Closes(D, c, n)
    BY <1>1, GroupEnds
  <1>4. n \in D /\ n <= p /\ \A e \in D : e > c => n <= e
    <2>1. c \in Nat /\ p \in Nat /\ p > c /\ ~(p <= c)
      BY <1>1, <1>2
    <2> QED BY <1>3, <2>1 DEF Closes
  <1>5. Closes(C, c, n)
    <2>1. ASSUME NEW e \in C, e > c PROVE n <= e
      <3>1. CASE e <= p
        BY <1>4, <2>1, <3>1
      <3>2. CASE ~(e <= p)
        BY <1>1, <1>2, <1>3, <1>4, <2>1, <3>2
      <3> QED BY <3>1, <3>2
    <2>2. n \in C /\ n > c
      BY <1>1, <1>2, <1>3, <1>4
    <2> QED BY <2>1, <2>2 DEF Closes
  <1>6. Kind(D, c) = PieceKind(c, n) /\ Kind(C, c) = PieceKind(c, n)
    BY <1>1, <1>3, <1>5, GroupKind
  <1>7. Group(D, c) = SubSeq(argv, c, n - 1) /\ Group(C, c) = SubSeq(argv, c, n - 1)
    BY <1>1, <1>3, <1>5, GroupWords
  <1> QED BY <1>6, <1>7

\* In a cut that reads the command line a group ends where another can begin.
LEMMA ReadsParts ==
  ASSUME argv \in Seq(STRING), "wrong" \notin Allowed, NEW C, Reads(C), NEW c \in C
  PROVE  \E n \in (c + 1)..argc : /\ Closes(C, c, n) /\ Parts(n)
                                  /\ Kind(C, c) = PieceKind(c, n) /\ Kind(C, c) \in Allowed
  <1>1. C \subseteq Places
    BY DEF Reads
  <1>2. argc \in Nat /\ \A d \in Places : d \in Nat /\ d >= 1 /\ d < argc
    BY PlaceLemma
  <1>3. \A d \in C : Kind(C, d) \in Allowed
    BY DEF Reads, Allowed
  <1>4. PICK n \in (c + 1)..argc : Closes(C, c, n)
    BY <1>1, GroupEnds
  <1>5. Kind(C, c) = PieceKind(c, n)
    BY <1>1, <1>4, GroupKind
  <1>6. ASSUME n \in C PROVE argv[n] \in Handled
    <2>1. PICK m \in (n + 1)..argc : Closes(C, n, m)
      BY <1>1, <1>6, GroupEnds
    <2>2. PieceKind(n, m) \in Allowed
      BY <1>1, <1>3, <1>6, <2>1, GroupKind
    <2>3. n \in Nat /\ m \in Nat /\ n < m
      BY <1>1, <1>2, <1>6, <2>1
    <2> QED BY <2>2, <2>3, KindHandled
  <1>7. Parts(n)
    BY <1>4, <1>6 DEF Closes, Parts
  <1> QED BY <1>3, <1>4, <1>5, <1>7

\* The operators on the command line see nothing else.
LEMMA LineStays ==
  ASSUME argv' = argv
  PROVE  /\ argc' = argc /\ Mode' = Mode /\ Places' = Places /\ Allowed' = Allowed
         /\ Needed(Mode)' = Needed(Mode) /\ FirstArg(Mode)' = FirstArg(Mode)
         /\ Minimum(Mode)' = Minimum(Mode)
         /\ \A C, c : Group(C, c)' = Group(C, c)
         /\ \A C, c : Kind(C, c)' = Kind(C, c)
         /\ \A C : Reads(C)' = Reads(C)
         /\ Legal' = Legal
  <1>1. argc' = argc /\ Mode' = Mode
    BY DEF argc, Mode
  <1>2. Needed(Mode)' = Needed(Mode) /\ FirstArg(Mode)' = FirstArg(Mode) /\ Minimum(Mode)' = Minimum(Mode)
    BY <1>1 DEF Needed, FirstArg, Minimum
  <1>3. Places' = Places /\ Allowed' = Allowed
    BY <1>1, <1>2 DEF Places, Allowed
  <1>4. \A C, c : Group(C, c)' = Group(C, c)
    BY <1>1 DEF Group
  <1>5. \A C, c : Kind(C, c)' = Kind(C, c)
    BY <1>1, <1>4 DEF Kind
  <1>6. \A C : Reads(C)' = Reads(C)
    BY <1>1, <1>2, <1>3, <1>5 DEF Reads
  <1>7. Legal' = Legal
    BY <1>1, <1>2, <1>3, <1>6 DEF Legal
  <1> QED BY <1>1, <1>2, <1>3, <1>4, <1>5, <1>6, <1>7

\* What is refused has no cut.
LEMMA RefusedIsIllegal ==
  ASSUME Parsing, Refuses, NEW D, Walked(D), Sole(D) PROVE ~Legal
  <1> SUFFICES ASSUME NEW C \in SUBSET Places, Reads(C) PROVE FALSE
    BY DEF Legal
  <1>0. pc = "args" /\ i < argc
    BY DEF Refuses
  <1>1. argv \in Seq(STRING) /\ "wrong" \notin Allowed
    BY <1>0, IndexLemma, OfferedLemma
  <1>2. D = {c \in C : c <= i} /\ i \in D /\ D \subseteq Places
    BY <1>0 DEF Sole, Walked
  <1>3. PICK n \in (i + 1)..argc : /\ Closes(C, i, n) /\ Parts(n)
                                   /\ Kind(C, i) = PieceKind(i, n) /\ Kind(C, i) \in Allowed
    BY <1>1, <1>2, ReadsParts
  <1> DEFINE k == Kind(C, i)
  <1>4. k \in ctx.provided
    BY <1>3 DEF Refuses, Offered
  <1>5. PICK c \in ReadOf(D) : Kind(D, c) = k /\ k \in Needed(Mode)
    BY <1>4 DEF Walked
  <1>6. c \in D /\ c < i
    BY <1>5 DEF ReadOf
  <1>7. Kind(C, c) = k
    BY <1>1, <1>2, <1>5, <1>6, GroupsStay
  <1>8. c \in C /\ i \in C
    BY <1>2, <1>6
  <1> HIDE DEF k
  <1>9. PICK b \in C : \A d \in C : Kind(C, d) = k <=> d = b
    BY <1>5 DEF Reads
  <1>10. c = i
    BY <1>7, <1>8, <1>9 DEF k
  <1>11. i \in Nat
    BY <1>0, IndexLemma
  <1> QED BY <1>6, <1>10, <1>11

-----------------------------------------------------------------------------
(* The cut grows with what is taken *)

\* The cut when the piece up to j is known.
Grown(D, j) == IF j < argc THEN D \cup {j} ELSE D

\* It begins as before, and the group at the index ends where the piece does.
LEMMA GrownLemma ==
  ASSUME Parsing, NEW D, Walked(D), NEW k, NEW j, Takes(k, j), NEW E, E = Grown(D, j)
  PROVE  /\ D \subseteq E /\ E \subseteq Places
         /\ D = {c \in E : c <= i} /\ i \in D
         /\ \A d \in E : d <= j
         /\ j < argc => j \in E
         /\ ReadOf(E)' = ReadOf(D) \cup {i} /\ i \notin ReadOf(D)
         /\ Closes(E, i, j)
  <1>0. pc = "args" /\ i < argc /\ j \in (i + 1)..argc /\ i' = j /\ argv' = argv
    BY DEF Takes
  <1>1. argv \in Seq(STRING) /\ argc \in Nat /\ i \in Nat
    BY <1>0, IndexLemma
  <1>2. D \subseteq Places /\ i \in D /\ \A d \in D : d <= i
    BY <1>0 DEF Walked
  <1>3. \A d \in Places : d \in Nat /\ d >= 1 /\ d < argc
    BY <1>1, PlaceLemma
  <1>4. FirstArg(Mode) \in {1, 2} /\ FirstArg(Mode) <= i
    BY <1>0, ModeLemma DEF Parsing
  <1>5. j < argc => j \in Places
    BY <1>0, <1>1, <1>4 DEF Places
  <1>6. D \subseteq E /\ E \subseteq Places /\ (j < argc => j \in E) /\ E \subseteq D \cup {j}
        /\ (j = argc => E = D)
    <2>1. CASE j < argc
      <3>1. E = D \cup {j} /\ j \in Places /\ j # argc
        BY <1>1, <1>5, <2>1 DEF Grown
      <3> QED BY <1>2, <2>1, <3>1
    <2>2. CASE ~(j < argc)
      BY <1>2, <2>2 DEF Grown
    <2> QED BY <2>1, <2>2
  <1>7. j \in Nat /\ j > i /\ j <= argc
    BY <1>0, <1>1
  <1>8. D = {c \in E : c <= i}
    <2>1. ASSUME NEW c \in E, c <= i PROVE c \in D
      BY <1>1, <1>6, <1>7, <2>1
    <2> QED BY <1>2, <1>6, <2>1
  <1>9. \A d \in E : d <= j
    BY <1>1, <1>2, <1>3, <1>6, <1>7
  <1>10. {c \in E : c < j} = {c \in D : c < i} \cup {i}
    <2>1. ASSUME NEW c \in E, c < j PROVE c \in {d \in D : d < i} \cup {i}
      <3>1. c \in D
        BY <1>6, <1>7, <2>1
      <3> QED BY <1>1, <1>2, <1>3, <3>1
    <2>2. ASSUME NEW c \in D, c < i PROVE c \in E /\ c < j
      BY <1>1, <1>2, <1>3, <1>6, <1>7, <2>2
    <2>3. i \in E /\ i < j
      BY <1>2, <1>6, <1>7
    <2> QED BY <2>1, <2>2, <2>3
  <1>11. ReadOf(E)' = {c \in E : c < j}
    BY <1>0 DEF ReadOf
  <1>12. Closes(E, i, j)
    <2>1. CASE j < argc
      <3>1. \A e \in E : e > i => j <= e
        BY <1>1, <1>2, <1>3, <1>6, <1>7
      <3> QED BY <1>6, <1>7, <2>1, <3>1 DEF Closes
    <2>2. CASE j = argc
      BY <1>2, <1>6, <2>2 DEF Closes
    <2> QED BY <1>1, <1>7, <2>1, <2>2
  <1>13. i \notin ReadOf(D)
    BY <1>1 DEF ReadOf
  <1> QED BY <1>2, <1>6, <1>8, <1>9, <1>10, <1>11, <1>12, <1>13 DEF ReadOf

\* The groups that were read stay, and the new one is of kind k.
LEMMA GrownKinds ==
  ASSUME Parsing, NEW D, Walked(D), NEW k, NEW j, Takes(k, j), NEW E, E = Grown(D, j), NEW p, p = i
  PROVE  /\ \A c \in ReadOf(D) : /\ Kind(E, c)' = Kind(D, c)
                                 /\ Group(E, c)' = Group(D, c)
         /\ Kind(E, p)' = k
         /\ Group(E, p)' = SubSeq(argv, p, j - 1)
         /\ Rest(Group(E, p))' = Between(p + 1, j)
         /\ Len(SubSeq(argv, p, j - 1)) = j - p
         /\ \A m \in 1..(j - p) : SubSeq(argv, p, j - 1)[m] = argv[(p + m) - 1]
  <1>0. pc = "args" /\ p < argc /\ j \in (p + 1)..argc /\ argv' = argv /\ PieceKind(p, j) = k
    BY DEF Takes
  <1>1. argv \in Seq(STRING) /\ argc' = argc
    BY <1>0, IndexLemma, LineStays
  <1>2. /\ D \subseteq E /\ E \subseteq Places /\ D = {c \in E : c <= p} /\ p \in D
        /\ Closes(E, p, j)
    BY GrownLemma
  <1>3. \A C, c : Kind(C, c)' = Kind(C, c) /\ Group(C, c)' = Group(C, c)
    BY <1>0, LineStays
  <1>4. ASSUME NEW c \in ReadOf(D) PROVE Kind(E, c) = Kind(D, c) /\ Group(E, c) = Group(D, c)
    <2>1. c \in D /\ c < p
      BY DEF ReadOf
    <2> QED BY ONLY <1>1, <1>2, <2>1, GroupsStay
  <1>5. Kind(E, p) = k /\ Rest(Group(E, p)) = Between(p + 1, j)
    BY <1>0, <1>1, <1>2, GroupKind
  <1>6. /\ Group(E, p) = SubSeq(argv, p, j - 1) /\ Len(Group(E, p)) = j - p
        /\ \A m \in 1..(j - p) : Group(E, p)[m] = argv[(p + m) - 1]
    <2>1. p \in E
      BY <1>2
    <2> QED BY ONLY <1>0, <1>1, <1>2, <2>1, GroupWords
  <1>7. Rest(Group(E, p))' = Rest(Group(E, p)')
    BY DEF Rest
  <1> QED BY <1>3, <1>4, <1>5, <1>6, <1>7

\* What is known of the cut stays true,
LEMMA TakesWalked ==
  ASSUME Parsing, NEW D, Walked(D), NEW k, NEW j, Takes(k, j), NEW E, E = Grown(D, j)
  PROVE  Walked(E)'
  <1> PICK p : p = i
    OBVIOUS
  <1>0. pc = "args" /\ p < argc /\ argv' = argv /\ i' = j /\ Offered(k) /\ j \in (p + 1)..argc
    BY DEF Takes
  <1>1. argv \in Seq(STRING) /\ argc \in Nat /\ p \in Nat
    BY <1>0, IndexLemma
  <1>2. /\ argc' = argc /\ Places' = Places /\ Allowed' = Allowed /\ Needed(Mode)' = Needed(Mode)
        /\ FirstArg(Mode)' = FirstArg(Mode)
    BY <1>0, LineStays
  <1>3. /\ D \subseteq E /\ E \subseteq Places /\ p \in D /\ (\A d \in E : d <= j)
        /\ (j < argc => j \in E)
        /\ ReadOf(E)' = ReadOf(D) \cup {p} /\ p \notin ReadOf(D)
    BY GrownLemma
  <1>4. (\A c \in ReadOf(D) : Kind(E, c)' = Kind(D, c)) /\ Kind(E, p)' = k
    BY GrownKinds
  <1> DEFINE R == ReadOf(D)
             N == Needed(Mode)
  <1>5. /\ \A c \in R : Kind(D, c) \in Allowed
        /\ \A c, d \in R : Kind(D, c) = Kind(D, d) /\ Kind(D, c) \in N => c = d
        /\ ctx.provided = {Kind(D, c) : c \in R} \cap N
        /\ Places # {} => FirstArg(Mode) \in D
    BY DEF Walked
  <1>6. k \in Allowed /\ k \notin ctx.provided
    BY <1>0 DEF Offered
  <1>7. ctx'.provided = ctx.provided \cup ({k} \cap N)
    BY DEF Takes, Stores
  <1>8. (E \subseteq Places /\ (Places # {} => FirstArg(Mode) \in E))'
    BY <1>2, <1>3, <1>5
  <1>9. ((\A d \in E : d <= i) /\ (i < argc => i \in E))'
    BY <1>0, <1>2, <1>3
  <1> HIDE DEF R, N
  <1>10. \A c \in R \cup {p} : Kind(E, c)' \in Allowed
    BY <1>4, <1>5, <1>6 DEF R
  <1>11. \A c, d \in R \cup {p} : Kind(E, c)' = Kind(E, d)' /\ Kind(E, c)' \in N => c = d
    <2>1. ASSUME NEW c \in R, k \in N PROVE Kind(D, c) # k
      BY <1>5, <1>6, <2>1
    <2> QED BY <1>4, <1>5, <2>1 DEF R
  <1>12. ctx'.provided = {Kind(E, c)' : c \in R \cup {p}} \cap N
    <2>1. \A x : x \in {Kind(D, c) : c \in R} <=> \E c \in R : Kind(E, c)' = x
      BY <1>4 DEF R
    <2>2. \A x : x \in {Kind(E, c)' : c \in R \cup {p}} <=> x = k \/ \E c \in R : Kind(E, c)' = x
      BY <1>4
    <2>3. \A x : x \in ctx'.provided <=> x \in N /\ (x = k \/ \E c \in R : Kind(E, c)' = x)
      BY <1>5, <1>7, <2>1
    <2> QED BY <2>2, <2>3
  <1>13. R \cup {p} = ReadOf(E)' /\ N = Needed(Mode)'
    BY <1>2, <1>3 DEF R, N
  <1> QED BY <1>2, <1>8, <1>9, <1>10, <1>11, <1>12, <1>13 DEF Walked

\* it stays the only one,
LEMMA TakesSole ==
  ASSUME Parsing, NEW D, Walked(D), Sole(D), NEW k, NEW j, Takes(k, j), NEW E, E = Grown(D, j)
  PROVE  Sole(E)'
  <1> PICK p : p = i
    OBVIOUS
  <1>0. /\ pc = "args" /\ p < argc /\ argv' = argv /\ i' = j /\ j \in (p + 1)..argc
        /\ \A n \in (p + 1)..argc : Parts(n) /\ PieceKind(p, n) \in Allowed => n = j
    BY DEF Takes
  <1>1. argv \in Seq(STRING) /\ argc \in Nat /\ p \in Nat /\ "wrong" \notin Allowed
    BY <1>0, IndexLemma, OfferedLemma
  <1>2. Places' = Places /\ \A C : Reads(C)' = Reads(C)
    BY <1>0, LineStays
  <1>3. D \subseteq Places /\ p \in D
    BY <1>0 DEF Walked
  <1>4. \A d \in Places : d \in Nat /\ d < argc
    BY <1>1, PlaceLemma
  <1>5. E = IF j < argc THEN D \cup {j} ELSE D
    BY DEF Grown
  <1>6. ASSUME NEW C \in SUBSET Places, Reads(C) PROVE E = {c \in C : c <= j}
    <2>1. D = {c \in C : c <= p}
      BY <1>6 DEF Sole
    <2>2. p \in C
      BY <1>3, <2>1
    <2>3. PICK n \in (p + 1)..argc : /\ Closes(C, p, n) /\ Parts(n)
                                     /\ Kind(C, p) = PieceKind(p, n) /\ Kind(C, p) \in Allowed
      BY <1>1, <1>6, <2>2, ReadsParts
    <2>4. n = j
      BY <1>0, <2>3
    <2>5. Closes(C, p, j)
      BY <2>3, <2>4
    <2>6. ASSUME NEW c \in C, c <= j PROVE c \in E
      <3>1. CASE c <= p
        BY <1>5, <2>1, <3>1
      <3>2. CASE ~(c <= p)
        <4>1. c \in Nat /\ c > p /\ c < argc
          BY <1>1, <1>4, <3>2
        <4>2. j <= c
          BY <2>5, <3>2, <4>1 DEF Closes
        <4>3. c = j
          BY <1>0, <1>1, <2>6, <4>1, <4>2
        <4> QED BY <1>5, <4>1, <4>3
      <3> QED BY <3>1, <3>2
    <2>7. ASSUME NEW c \in E PROVE c \in C /\ c <= j
      <3>1. CASE c \in D
        <4>1. c \in C /\ c <= p
          BY <2>1, <3>1
        <4> QED BY <1>0, <1>1, <1>4, <4>1
      <3>2. CASE c \notin D
        <4>1. c = j /\ j < argc
          BY <1>5, <3>2
        <4>2. j # argc
          BY <1>1, <4>1
        <4> QED BY <1>0, <1>1, <2>5, <4>1, <4>2 DEF Closes
      <3> QED BY <3>1, <3>2
    <2> QED BY <2>6, <2>7
  <1> QED BY <1>0, <1>2, <1>6 DEF Sole

\* and what was stored is what it says.
LEMMA TakesStored ==
  ASSUME Parsing, NEW D, Walked(D), Stored(D), NEW k, NEW j, Takes(k, j), NEW E, E = Grown(D, j)
  PROVE  Stored(E)'
  <1> PICK p : p = i
    OBVIOUS
  <1>0. /\ pc = "args" /\ p < argc /\ argv' = argv /\ Offered(k) /\ j \in (p + 1)..argc
        /\ PieceKind(p, j) = k
    BY DEF Takes
  <1>1. argv \in Seq(STRING) /\ argc \in Nat /\ p \in Nat /\ p >= 1
    BY <1>0, IndexLemma
  <1>2. ReadOf(E)' = ReadOf(D) \cup {p} /\ p \notin ReadOf(D) /\ \A c \in ReadOf(D) : c < p
    BY GrownLemma DEF ReadOf
  <1>3. /\ \A c \in ReadOf(D) : Kind(E, c)' = Kind(D, c) /\ Group(E, c)' = Group(D, c)
        /\ Kind(E, p)' = k /\ Rest(Group(E, p))' = Between(p + 1, j)
    BY GrownKinds
  <1> PICK g : g = SubSeq(argv, p, j - 1)
    OBVIOUS
  <1>4. /\ Group(E, p)' = g /\ Len(g) = j - p /\ g \in Seq(STRING)
        /\ \A m \in 1..(j - p) : g[m] = argv[(p + m) - 1]
    <2>1. g \in Seq(STRING)
      BY <1>0, <1>1 DEF argc
    <2> QED BY <2>1, GrownKinds
  <1>5. Len(g) = j - p /\ j - p \in Nat /\ j - p >= 1 /\ j \in Nat
    <2>1. j \in Nat /\ j >= p + 1
      BY <1>0, <1>1
    <2>2. j - p \in Nat /\ j - p >= 1
      BY ONLY <1>1, <2>1
    <2> QED BY <1>4, <2>1, <2>2
  <1>6. Stores(k, j)
    BY DEF Takes
  <1>7. /\ k = "port" => ctx'.port = Atoi(g[2])
        /\ k = "server" => ctx'.server = g[2]
        /\ k = "debug" => ctx'.debug = Atoi(g[2])
    <2>1. k \in {"port", "server", "debug"} => j = p + 2
      BY <1>0, <1>1, PieceKinds
    <2>2. j = p + 2 => g[2] = argv[p + 1]
      <3>1. j = p + 2 => 2 \in 1..(j - p) /\ (p + 2) - 1 = p + 1
        BY <1>1
      <3>2. j = p + 2 => g[2] = argv[(p + 2) - 1]
        BY <1>4, <3>1
      <3> QED BY <3>1, <3>2
    <2> QED BY <1>6, <2>1, <2>2 DEF Stores
  <1>8. k = "devices" => ctx'.devices = Tail(g)
    <2> DEFINE h == SubSeq(argv, p + 1, j - 1)
    <2>1. h \in Seq(STRING) /\ Len(h) = (j - p) - 1
          /\ \A m \in 1..((j - p) - 1) : h[m] = argv[p + m]
      BY <1>0, <1>1 DEF argc
    <2>2. g \in Seq(STRING) /\ g # <<>>
      <3>1. Len(g) # 0
        BY ONLY <1>1, <1>5
      <3>2. g \in Seq(STRING) /\ Len(<<>>) = 0
        BY <1>4, EmptySeq
      <3> QED BY ONLY <3>1, <3>2
    <2>3. Tail(g) \in Seq(STRING) /\ Len(Tail(g)) = Len(g) - 1
          /\ \A m \in 1..(Len(g) - 1) : Tail(g)[m] = g[m + 1]
      BY ONLY <2>2
    <2> DEFINE t == Tail(g)
    <2> HIDE DEF h, t
    <2>4. Len(t) = Len(h) /\ \A m \in 1..Len(h) : t[m] = h[m]
      <3>1. Len(t) = (j - p) - 1 /\ Len(h) = (j - p) - 1
        BY <1>4, <2>1, <2>3 DEF t
      <3>2. ASSUME NEW m \in 1..((j - p) - 1) PROVE t[m] = h[m]
        <4>1. m + 1 \in 1..(j - p) /\ (p + (m + 1)) - 1 = p + m
          BY <1>0, <1>1
        <4>2. t[m] = g[m + 1]
          BY <1>4, <2>3 DEF t
        <4>3. g[m + 1] = argv[(p + (m + 1)) - 1]
          BY <1>4, <4>1
        <4> QED BY <2>1, <4>1, <4>2, <4>3
      <3> QED BY <3>1, <3>2
    <2>5. t = h
      BY <2>1, <2>3, <2>4, SeqEqual DEF t
    <2> QED BY <1>6, <2>5 DEF Stores, h, t
  <1>9. k = "daemon" => ctx'.daemon = g[Len(g)] /\ ctx'.daemon \in Subactions
    <2>1. k = "daemon" => j = argc /\ Between(p, argc) \subseteq Subactions
      BY <1>0, <1>1, PieceKinds
    <2>2. argc - 1 \in p..(argc - 1)
      BY <1>0, <1>1
    <2>3. argv[argc - 1] \in Between(p, argc)
      BY <2>2 DEF Between
    <2>4. Len(g) \in 1..(j - p) /\ (p + Len(g)) - 1 = j - 1
      BY ONLY <1>1, <1>5
    <2>5. g[Len(g)] = argv[j - 1]
      BY <1>4, <2>4
    <2> QED BY <1>6, <2>1, <2>3, <2>5 DEF Stores
  <1> DEFINE R == ReadOf(D)
  <1>10. \A c \in R : Kind(D, c) \in {"port", "server", "devices", "daemon"} => Kind(D, c) # k
    <2> SUFFICES ASSUME NEW c \in R, Kind(D, c) \in {"port", "server", "devices", "daemon"},
                        Kind(D, c) = k
                 PROVE  FALSE
      OBVIOUS
    <2>1. k \in Needed(Mode)
      BY <1>0, OfferedLemma DEF Offered, NeededKinds
    <2>2. k \in ctx.provided
      BY <2>1 DEF Walked
    <2> QED BY <1>0, <2>2 DEF Offered
  <1>11. ASSUME NEW c \in R
         PROVE  LET h == Group(D, c)
                    l == Kind(D, c)
                IN  /\ l = "port"    => ctx'.port = Atoi(h[2])
                    /\ l = "server"  => ctx'.server = h[2]
                    /\ l = "devices" => ctx'.devices = Tail(h)
                    /\ l = "daemon"  => ctx'.daemon = h[Len(h)] /\ ctx'.daemon \in Subactions
                    /\ l = "debug" /\ k # "debug"
                         /\ (\A d \in R : d > c => Kind(D, d) # "debug")
                         => ctx'.debug = Atoi(h[2])
    <2> DEFINE h == Group(D, c)
               l == Kind(D, c)
    <2>1. /\ l = "port"    => ctx.port = Atoi(h[2])
          /\ l = "server"  => ctx.server = h[2]
          /\ l = "devices" => ctx.devices = Tail(h)
          /\ l = "daemon"  => ctx.daemon = h[Len(h)] /\ ctx.daemon \in Subactions
          /\ l = "debug" /\ (\A d \in R : d > c => Kind(D, d) # "debug") => ctx.debug = Atoi(h[2])
      BY DEF Stored
    <2>2. /\ k # "port" => ctx'.port = ctx.port
          /\ k # "server" => ctx'.server = ctx.server
          /\ k # "devices" => ctx'.devices = ctx.devices
          /\ k # "daemon" => ctx'.daemon = ctx.daemon
          /\ k # "debug" => ctx'.debug = ctx.debug
      BY <1>6 DEF Stores
    <2>3. l \in {"port", "server", "devices", "daemon"} => l # k
      BY <1>10
    <2> HIDE DEF h, l, R
    <2> QED BY <2>1, <2>2, <2>3 DEF h, l
  <1> DEFINE S == R \cup {p}
             K(c) == Kind(E, c)'
             G(c) == Group(E, c)'
  <1>12. ASSUME NEW c \in S
         PROVE  /\ K(c) = "port"    => ctx'.port = Atoi(G(c)[2])
                /\ K(c) = "server"  => ctx'.server = G(c)[2]
                /\ K(c) = "devices" => ctx'.devices = Tail(G(c))
                /\ K(c) = "daemon"  => ctx'.daemon = G(c)[Len(G(c))] /\ ctx'.daemon \in Subactions
                /\ K(c) = "debug" /\ (\A d \in S : d > c => K(d) # "debug")
                      => ctx'.debug = Atoi(G(c)[2])
    <2>1. CASE c = p
      <3>1. K(c) = k /\ G(c) = g
        BY <1>3, <1>4, <2>1
      <3> HIDE DEF K, G
      <3> QED BY <1>7, <1>8, <1>9, <3>1
    <2>2. CASE c \in R
      <3>1. K(c) = Kind(D, c) /\ G(c) = Group(D, c)
        BY <1>3, <2>2
      <3>2. ASSUME \A d \in S : d > c => K(d) # "debug"
            PROVE  k # "debug" /\ \A d \in R : d > c => Kind(D, d) # "debug"
        <4>1. c < p /\ c \in Nat
          <5>1. c \in Places
            BY <2>2 DEF ReadOf, Walked
          <5> QED BY <1>1, <1>2, <2>2, <5>1, PlaceLemma
        <4>2. p > c /\ p \in S
          BY <1>1, <4>1
        <4> QED BY <1>3, <3>2, <4>2
      <3> DEFINE A == \A d \in S : d > c => K(d) # "debug"
      <3> HIDE DEF A
      <3>3. A => k # "debug" /\ \A d \in R : d > c => Kind(D, d) # "debug"
        BY <3>2 DEF A
      <3> HIDE DEF K, G, R, S
      <3> QED BY <1>11, <2>2, <3>1, <3>3 DEF A
    <2> QED BY <2>1, <2>2
  <1>13. ctx'.filter = UNION {Named(Rest(Group(E, c)))' : c \in {d \in S : K(d) = "filter"}}
    <2>1. ctx.filter = UNION {Named(Rest(Group(D, c))) : c \in {d \in R : Kind(D, d) = "filter"}}
      BY DEF Stored
    <2>2. ctx'.filter = IF k = "filter" THEN ctx.filter \cup Named(Between(p + 1, j)) ELSE ctx.filter
      BY <1>6 DEF Stores
    <2>3. \A c \in R : K(c) = Kind(D, c) /\ Rest(Group(E, c))' = Rest(Group(D, c))
      BY <1>3 DEF Rest
    <2>4. K(p) = k /\ Rest(Group(E, p))' = Between(p + 1, j)
      BY <1>3
    <2>5. /\ \A c \in R : Named(Rest(Group(E, c)))' = Named(Rest(Group(D, c)))
          /\ Named(Rest(Group(E, p)))' = Named(Between(p + 1, j))
      BY <2>3, <2>4 DEF Named
    <2>6. \A w : w \in ctx'.filter <=>
                  \E c \in S : K(c) = "filter" /\ w \in Named(Rest(Group(E, c)))'
      <3>1. \A w : w \in ctx.filter <=>
                     \E c \in R : Kind(D, c) = "filter" /\ w \in Named(Rest(Group(D, c)))
        BY <2>1
      <3>2. \A w : w \in ctx'.filter <=>
                     w \in ctx.filter \/ (k = "filter" /\ w \in Named(Between(p + 1, j)))
        BY <2>2
      <3> HIDE DEF K
      <3> QED BY <2>3, <2>4, <2>5, <3>1, <3>2
    <2> HIDE DEF K, S
    <2> QED BY <2>6
  <1> QED BY <1>2, <1>12, <1>13 DEF Stored

-----------------------------------------------------------------------------
(* From main to the action *)

Cut(D) == Walked(D) /\ Sole(D) /\ Stored(D)

\* What holds at each stage of an invocation.
LineInv ==
    /\ Parsing
    /\ pc = "main" => ctx.provided = {} /\ ctx.filter = {}
    /\ pc = "args" => \E D : Cut(D)
    /\ AcceptsGrammar /\ ValuesAsWritten

\* Before the first argument there is nothing to read.
LEMMA MainStep == ASSUME LineInv, Main PROVE LineInv'
  <1>0. pc = "main" /\ Parsing /\ argv' = argv
    BY DEF Main, LineInv, Reject
  <1>1. argv \in Seq(STRING) /\ argc \in Nat
    BY <1>0, ArgvsAssumption, LenProperties DEF Parsing, argc
  <1>2. /\ argc' = argc /\ Mode' = Mode /\ Places' = Places /\ Allowed' = Allowed
        /\ Needed(Mode)' = Needed(Mode) /\ FirstArg(Mode)' = FirstArg(Mode)
        /\ Minimum(Mode)' = Minimum(Mode) /\ Legal' = Legal /\ \A C : Reads(C)' = Reads(C)
    BY <1>0, LineStays
  <1>3. Minimum(Mode) \in Nat /\ Minimum(Mode) >= 2 /\ FirstArg(Mode) \in {1, 2}
        /\ Needed(Mode) \subseteq NeededKinds
    BY ModeLemma
  <1>4. CASE argc < 2 \/ argc < Minimum(Mode)
    <2>1. Reject
      BY <1>4 DEF Main
    <2>2. pc' = "done" /\ outcome'.what = "error" /\ ctx' = ctx
      BY <2>1 DEF Reject, Does
    <2>3. ~Legal
      BY <1>1, <1>3, <1>4 DEF Legal
    <2>4. Parsing'
      BY <1>0, <2>2 DEF Parsing
    <2>5. AcceptsGrammar' /\ ValuesAsWritten'
      BY <1>2, <2>2, <2>3 DEF AcceptsGrammar, ValuesAsWritten
    <2> QED BY <2>2, <2>4, <2>5 DEF LineInv
  <1>5. CASE ~(argc < 2 \/ argc < Minimum(Mode))
    <2> DEFINE f == FirstArg(Mode)
               o == IF Mode = "show" THEN {"filter"} ELSE {}
    <2>1. /\ pc' = "args" /\ i' = f
          /\ ctx' = [ctx EXCEPT !.needed = Needed(Mode), !.optional = o]
      BY <1>5 DEF Main
    <2>2. ctx \in Contexts /\ ctx.provided = {} /\ ctx.filter = {}
      BY <1>0 DEF LineInv, Parsing
    <2>3. /\ ctx' \in Contexts /\ ctx'.needed = Needed(Mode) /\ ctx'.optional = o
          /\ ctx'.provided = {} /\ ctx'.filter = {}
      <3>1. o \subseteq {"filter"}
        OBVIOUS
      <3> HIDE DEF o
      <3> QED BY <1>3, <2>1, <2>2, <3>1 DEF Contexts
    <2>4. f \in f..argc /\ argc >= 2 /\ argc >= Minimum(Mode) /\ f \in Nat
      BY <1>1, <1>3, <1>5
    <2>5. Parsing'
      <3>1. argc' >= 2 /\ argc' >= Minimum(Mode)' /\ i' \in FirstArg(Mode)'..argc'
        BY <1>2, <2>1, <2>4
      <3>2. ctx'.needed = Needed(Mode)' /\ ctx'.provided \subseteq Needed(Mode)'
        BY <1>2, <2>3
      <3>3. ctx'.optional = IF Mode' = "show" THEN {"filter"} ELSE {}
        BY <1>2, <2>3
      <3> QED BY <1>0, <2>1, <2>3, <3>1, <3>2, <3>3 DEF Parsing
    <2> HIDE DEF f, o
    <2> PICK D : D = IF f < argc THEN {f} ELSE {}
      OBVIOUS
    <2>6. ReadOf(D)' = {}
      BY <2>1, <2>4 DEF ReadOf
    <2>7. Places = f..(argc - 1)
      BY DEF Places, f
    <2>8. D \subseteq Places /\ (Places # {} => f \in D)
      BY <1>1, <2>4, <2>7
    <2>9. Walked(D)'
      <3>1. (D \subseteq Places /\ (Places # {} => FirstArg(Mode) \in D))'
        BY <1>2, <2>8 DEF f
      <3>2. ((\A d \in D : d <= i) /\ (i < argc => i \in D))'
        BY <1>2, <2>1, <2>4
      <3>3. ctx'.provided = {Kind(D, c)' : c \in {}} \cap Needed(Mode)'
        BY <2>3
      <3> QED BY <2>6, <3>1, <3>2, <3>3 DEF Walked
    <2>10. Sole(D)'
      <3>1. ASSUME NEW C \in SUBSET Places, Reads(C) PROVE D = {c \in C : c <= f}
        <4>1. Places # {} => f \in C
          BY <3>1 DEF Reads, f
        <4>2. f < argc <=> Places # {}
          <5>1. f < argc => f \in f..(argc - 1)
            BY <1>1, <2>4
          <5>2. \A c \in f..(argc - 1) : f < argc
            BY <1>1, <2>4
          <5> QED BY <2>7, <5>1, <5>2
        <4>3. \A c \in C : c \in Nat /\ c >= f
          BY <1>1, <2>4, <2>7
        <4> QED BY <2>4, <4>1, <4>2, <4>3
      <3> QED BY <1>2, <2>1, <3>1 DEF Sole
    <2>11. Stored(D)'
      <3>1. ctx'.filter = UNION {Named(Rest(Group(D, c)))' : c \in {d \in {} : Kind(D, d)' = "filter"}}
        BY <2>3
      <3> QED BY <2>6, <3>1 DEF Stored
    <2>12. AcceptsGrammar' /\ ValuesAsWritten'
      BY <2>1 DEF AcceptsGrammar, ValuesAsWritten
    <2> QED BY <2>1, <2>5, <2>9, <2>10, <2>11, <2>12 DEF LineInv, Cut
  <1> QED BY <1>4, <1>5

\* An argument makes the cut grow or shows that there is none.
LEMMA HandleStep == ASSUME LineInv, HandleArg PROVE LineInv'
  <1>0. pc = "args"
    BY DEF HandleArg, ArgPort, ArgHost, ArgDevices, ArgFilter, FilterWith, ArgHelp, ArgDebug,
           ArgDaemon, ArgUnknown, At
  <1>1. PICK D : Cut(D)
    BY <1>0 DEF LineInv
  <1>2. Parsing
    BY DEF LineInv
  <1>3. CASE Refuses
    <2>1. ~Legal
      BY <1>1, <1>2, <1>3, RefusedIsIllegal DEF Cut
    <2>2. /\ pc' = "done" /\ outcome'.what = "error" /\ ctx' = ctx /\ argv' = argv
      BY <1>3 DEF Refuses, Reject, Does
    <2>3. Legal' = Legal
      BY <2>2, LineStays
    <2>4. Parsing'
      BY <1>2, <2>2 DEF Parsing
    <2>5. AcceptsGrammar' /\ ValuesAsWritten'
      BY <2>1, <2>2, <2>3 DEF AcceptsGrammar, ValuesAsWritten
    <2> QED BY <2>2, <2>4, <2>5 DEF LineInv
  <1>4. ASSUME NEW k \in Allowed, NEW j \in Nat, Takes(k, j) PROVE LineInv'
    <2> PICK E : E = Grown(D, j)
      OBVIOUS
    <2>1. Walked(E)' /\ Sole(E)' /\ Stored(E)'
      BY <1>1, <1>2, <1>4, TakesWalked, TakesSole, TakesStored DEF Cut
    <2>2. pc' = "args" /\ argv' = argv /\ i' = j /\ j \in (i + 1)..argc /\ ctx' \in Contexts
      BY <1>4 DEF Takes
    <2>3. /\ argc' = argc /\ Mode' = Mode /\ Needed(Mode)' = Needed(Mode)
          /\ FirstArg(Mode)' = FirstArg(Mode) /\ Minimum(Mode)' = Minimum(Mode)
      BY <2>2, LineStays
    <2>4. argc \in Nat /\ i \in Nat /\ FirstArg(Mode) \in {1, 2}
      BY <1>0, <1>2, IndexLemma, ModeLemma
    <2>5. Parsing'
      <3>1. argc' >= 2 /\ argc' >= Minimum(Mode)' /\ i \in FirstArg(Mode)..argc
        BY <1>0, <1>2, <2>3 DEF Parsing
      <3>2. i' \in FirstArg(Mode)'..argc'
        BY <2>2, <2>3, <2>4, <3>1
      <3>3. ctx'.needed = Needed(Mode)' /\ ctx'.provided \subseteq Needed(Mode)'
        BY <1>0, <1>2, <1>4, <2>3 DEF Takes, Stores, Parsing
      <3>4. ctx'.optional = IF Mode' = "show" THEN {"filter"} ELSE {}
        BY <1>0, <1>2, <1>4, <2>3 DEF Takes, Stores, Parsing
      <3> QED BY <1>2, <2>2, <3>1, <3>2, <3>3, <3>4 DEF Parsing
    <2>6. AcceptsGrammar' /\ ValuesAsWritten'
      BY <2>2 DEF AcceptsGrammar, ValuesAsWritten
    <2> QED BY <2>1, <2>2, <2>5, <2>6 DEF LineInv, Cut
  <1> QED BY <1>2, <1>3, <1>4, HandledPieces

\* When all was read, the cut is complete, and it reads the command line if nothing is missing.
LEMMA ReadAll ==
  ASSUME Parsing, pc = "args", i >= argc, NEW D, Cut(D)
  PROVE  /\ ctx.needed \subseteq ctx.provided <=> Legal
         /\ ctx.needed \subseteq ctx.provided => Reads(D)
         /\ ReadOf(D) = D /\ D \subseteq Places
  <1>1. argv \in Seq(STRING) /\ argc \in Nat /\ i = argc /\ argc >= 2 /\ argc >= Minimum(Mode)
        /\ ctx.needed = Needed(Mode)
    BY IndexLemma DEF Parsing
  <1>2. \A d \in Places : d \in Nat /\ d < argc
    BY <1>1, PlaceLemma
  <1>3. D \subseteq Places /\ Places # {} => FirstArg(Mode) \in D
    BY DEF Cut, Walked
  <1>4. D \subseteq Places
    BY DEF Cut, Walked
  <1>5. ReadOf(D) = D
    BY <1>1, <1>2, <1>4 DEF ReadOf
  <1>6. /\ \A c \in D : Kind(D, c) \in Allowed
        /\ \A c, d \in D : Kind(D, c) = Kind(D, d) /\ Kind(D, c) \in Needed(Mode) => c = d
        /\ ctx.provided = {Kind(D, c) : c \in D} \cap Needed(Mode)
    BY <1>5 DEF Cut, Walked
  <1>7. ASSUME Needed(Mode) \subseteq ctx.provided PROVE Reads(D)
    <2>1. \A c \in D : \/ Kind(D, c) \in Needed(Mode) \cup {"debug"}
                       \/ Kind(D, c) = "filter" /\ Mode = "show"
      BY <1>6 DEF Allowed
    <2>2. ASSUME NEW k \in Needed(Mode) PROVE \E c \in D : \A d \in D : Kind(D, d) = k <=> d = c
      <3>1. PICK c \in D : Kind(D, c) = k
        BY <1>6, <1>7
      <3> QED BY <1>6, <3>1
    <2> QED BY <1>3, <1>4, <2>1, <2>2 DEF Reads
  <1>8. ASSUME NEW C \in SUBSET Places, Reads(C) PROVE Needed(Mode) \subseteq ctx.provided
    <2>1. D = {c \in C : c <= i}
      BY <1>8 DEF Cut, Sole
    <2>2. C = D
      BY <1>1, <1>2, <2>1
    <2>3. ASSUME NEW k \in Needed(Mode) PROVE k \in ctx.provided
      <3>1. PICK c \in C : \A d \in C : Kind(C, d) = k <=> d = c
        BY <1>8 DEF Reads
      <3> QED BY <1>6, <2>2, <3>1
    <2> QED BY <2>3
  <1> QED BY <1>1, <1>4, <1>5, <1>7, <1>8 DEF Legal

\* The action is done with what the cut says.
LEMMA PerformStep == ASSUME LineInv, Perform PROVE LineInv'
  <1>0. pc = "args" /\ i >= argc /\ Parsing /\ pc' = "done" /\ UNCHANGED <<argv, i, ctx>>
    BY DEF Perform, Reject, Does, Subaction, LineInv
  <1>1. PICK D : Cut(D)
    BY <1>0 DEF LineInv
  <1>2. /\ ctx.needed \subseteq ctx.provided <=> Legal
        /\ ctx.needed \subseteq ctx.provided => Reads(D)
        /\ ReadOf(D) = D /\ D \subseteq Places
    BY <1>0, <1>1, ReadAll
  <1>3. /\ Legal' = Legal /\ Places' = Places /\ \A C : Reads(C)' = Reads(C)
        /\ \A C, c : Kind(C, c)' = Kind(C, c) /\ Group(C, c)' = Group(C, c)
    BY <1>0, LineStays
  <1>4. Parsing'
    BY <1>0 DEF Parsing
  <1>5. CASE ~(ctx.needed \subseteq ctx.provided)
    <2>1. outcome'.what = "error"
      BY <1>5 DEF Perform, Reject, Does
    <2> QED BY <1>0, <1>2, <1>3, <1>4, <1>5, <2>1 DEF LineInv, AcceptsGrammar, ValuesAsWritten
  <1>6. CASE ctx.needed \subseteq ctx.provided
    <2>1. \A c \in D : "daemon" = Kind(D, c) => /\ ctx.daemon = Group(D, c)[Len(Group(D, c))]
                                                /\ ctx.daemon \in Subactions
      BY <1>1, <1>2 DEF Cut, Stored
    <2>2. "daemon" \in Needed(Mode) <=> Mode \in {"server", "client", "auto"}
      <3>1. Mode \in {"server", "client", "auto"} => "daemon" \in Needed(Mode)
        BY DEF Needed
      <3> QED BY <3>1, ModeLemma
    <2>3. ASSUME "daemon" \in Needed(Mode)
          PROVE  ctx.daemon \in Subactions /\ HeaderOf(ctx.daemon) # "error"
      <3>1. PICK c \in D : Kind(D, c) = "daemon"
        BY <1>2, <1>6, <2>3 DEF Reads
      <3>2. ctx.daemon \in Subactions
        BY <2>1, <3>1
      <3> QED BY <3>2 DEF Subactions, HeaderOf
    <2>4. \/ Mode \in {"start", "connect", "show", "help"} /\ outcome'.what = Mode
          \/ Mode \in {"server", "client", "auto"} /\ outcome'.what \in {HeaderOf(ctx.daemon), "no daemon"}
      <3>1. \/ Mode \in {"start", "connect"}
                /\ Does(Mode, IF Mode = "start" THEN "server" ELSE "client")
            \/ Mode \in {"show", "help"} /\ Does(Mode, None)
            \/ Mode \in {"server", "client"} /\ Does(HeaderOf(ctx.daemon), Mode)
            \/ /\ Mode = "auto"
               /\ \/ Does(HeaderOf(ctx.daemon), "client") \/ Does(HeaderOf(ctx.daemon), "server")
                  \/ Does("no daemon", None)
        BY <1>6 DEF Perform, Subaction
      <3>2. \A w, d : Does(w, d) => outcome'.what = w
        BY DEF Does
      <3> QED BY ONLY <3>1, <3>2
    <2>5. outcome'.what # "error"
      BY <2>2, <2>3, <2>4
    <2>6. AcceptsGrammar'
      BY <1>2, <1>3, <1>6, <2>5 DEF AcceptsGrammar
    <2>7. ASSUME outcome'.what \notin {"error", "no daemon"}, NEW c \in D
          PROVE  LET g == Group(D, c)
                     k == Kind(D, c)
                 IN  /\ k = "port"    => ctx.port = Atoi(g[2])
                     /\ k = "server"  => ctx.server = g[2]
                     /\ k = "devices" => ctx.devices = Tail(g)
                     /\ k = "daemon"  => outcome'.what = HeaderOf(g[Len(g)])
                     /\ k = "debug" /\ (\A d \in D : d > c => Kind(D, d) # "debug")
                           => ctx.debug = Atoi(g[2])
      <3>1. Kind(D, c) = "daemon" => outcome'.what = HeaderOf(Group(D, c)[Len(Group(D, c))])
        <4>1. Kind(D, c) = "daemon" => "daemon" \in Needed(Mode)
          BY <1>2, <1>6 DEF Reads
        <4>2. Kind(D, c) = "daemon" => outcome'.what = HeaderOf(ctx.daemon)
          BY <2>2, <2>4, <2>7, <4>1
        <4> QED BY <2>1, <4>2
      <3> QED BY <1>1, <1>2, <3>1 DEF Cut, Stored
    <2>8. ctx.filter = UNION {Named(Rest(Group(D, c))) : c \in {d \in D : Kind(D, d) = "filter"}}
      BY <1>1, <1>2 DEF Cut, Stored
    <2>9. ValuesAsWritten'
      <3>1. ctx' = ctx /\ \A c : Rest(Group(D, c))' = Rest(Group(D, c))
        BY <1>0, <1>3 DEF Rest
      <3>2. D \in SUBSET Places' /\ Reads(D)'
        BY <1>2, <1>3, <1>6
      <3>3. ctx'.filter = UNION {Named(Rest(Group(D, c)))' : c \in {d \in D : Kind(D, d)' = "filter"}}
        BY <1>3, <2>8, <3>1
      <3> QED BY <1>3, <2>7, <3>1, <3>2, <3>3 DEF ValuesAsWritten
    <2> QED BY <1>0, <1>4, <2>6, <2>9 DEF LineInv
  <1> QED BY <1>5, <1>6

\* The invariant of an invocation.
LEMMA LineHolds == Spec => []LineInv
  <1>1. Init => LineInv
    <2> SUFFICES ASSUME Init PROVE LineInv
      OBVIOUS
    <2>1. /\ argv \in Argvs /\ pc = "main"
          /\ ctx = [needed |-> {}, optional |-> {}, provided |-> {}, port |-> 0, server |-> None,
                    devices |-> <<>>, daemon |-> None, filter |-> {}, debug |-> 0]
      BY DEF Init
    <2>2. ctx \in Contexts /\ ctx.provided = {} /\ ctx.filter = {}
      <3>1. <<>> \in Seq(STRING)
        BY ONLY EmptySeq
      <3> QED BY <2>1, <3>1 DEF Contexts
    <2> QED BY <2>1, <2>2 DEF LineInv, Parsing, AcceptsGrammar, ValuesAsWritten
  <1>2. LineInv /\ [Next]_vars => LineInv'
    <2>1. LineInv /\ Next => LineInv'
      BY MainStep, HandleStep, PerformStep DEF Next
    <2>2. ASSUME LineInv, UNCHANGED vars PROVE LineInv'
      <3>1. argv' = argv /\ pc' = pc /\ i' = i /\ ctx' = ctx /\ outcome' = outcome
        BY <2>2 DEF vars
      <3>2. /\ argc' = argc /\ Mode' = Mode /\ Places' = Places /\ Allowed' = Allowed
            /\ Needed(Mode)' = Needed(Mode) /\ FirstArg(Mode)' = FirstArg(Mode)
            /\ Minimum(Mode)' = Minimum(Mode) /\ Legal' = Legal
            /\ \A C : Reads(C)' = Reads(C)
            /\ \A C, c : Kind(C, c)' = Kind(C, c) /\ Group(C, c)' = Group(C, c)
        BY <3>1, LineStays
      <3>3. Parsing'
        BY <2>2, <3>1, <3>2 DEF LineInv, Parsing
      <3>4. ASSUME NEW D, Cut(D) PROVE Cut(D)'
        <4>1. ReadOf(D)' = ReadOf(D) /\ \A c : Rest(Group(D, c))' = Rest(Group(D, c))
          BY <3>1, <3>2 DEF ReadOf, Rest
        <4>2. Walked(D)'
          BY <3>1, <3>2, <3>4, <4>1 DEF Cut, Walked
        <4>3. Sole(D)'
          BY <3>1, <3>2, <3>4 DEF Cut, Sole
        <4>4. Stored(D)'
          BY <3>1, <3>2, <3>4, <4>1 DEF Cut, Stored
        <4> QED BY <4>2, <4>3, <4>4 DEF Cut
      <3>5. AcceptsGrammar'
        BY <2>2, <3>1, <3>2 DEF LineInv, AcceptsGrammar
      <3>6. ValuesAsWritten'
        <4>1. ValuesAsWritten /\ \A C, c : Rest(Group(C, c))' = Rest(Group(C, c))
          BY <2>2, <3>2 DEF LineInv, Rest
        <4> SUFFICES ASSUME pc = "done", outcome.what \notin {"error", "no daemon"}
                     PROVE  ValuesAsWritten'
          BY <3>1 DEF ValuesAsWritten
        <4>2. PICK C \in SUBSET Places :
                 /\ Reads(C)
                 /\ \A c \in C :
                       LET g == Group(C, c)
                           k == Kind(C, c)
                       IN  /\ k = "port"    => ctx.port = Atoi(g[2])
                           /\ k = "server"  => ctx.server = g[2]
                           /\ k = "devices" => ctx.devices = Tail(g)
                           /\ k = "daemon"  => outcome.what = HeaderOf(g[Len(g)])
                           /\ k = "debug" /\ (\A d \in C : d > c => Kind(C, d) # "debug")
                                 => ctx.debug = Atoi(g[2])
                 /\ ctx.filter = UNION {Named(Rest(Group(C, c))) : c \in {d \in C : Kind(C, d) = "filter"}}
          BY <4>1 DEF ValuesAsWritten
        <4>3. C \in SUBSET Places' /\ Reads(C)'
          BY <3>2, <4>2
        <4>4. ctx'.filter = UNION {Named(Rest(Group(C, c)))' : c \in {d \in C : Kind(C, d)' = "filter"}}
          BY <3>1, <3>2, <4>1, <4>2
        <4> QED BY <3>1, <3>2, <4>2, <4>3, <4>4 DEF ValuesAsWritten
      <3> QED BY <2>2, <3>1, <3>3, <3>4, <3>5, <3>6 DEF LineInv
    <2> QED BY <2>1, <2>2
  <1> QED BY <1>1, <1>2, PTL DEF Spec

\* The parser accepts a command line if and only if it is one of the grammar: the index that
\* its handlers move is always where a group of the only possible cut begins (rcn_arg.c,
\* parse_args).
THEOREM ParserAcceptsGrammar == Spec => []AcceptsGrammar
  <1>1. LineInv => AcceptsGrammar
    BY DEF LineInv
  <1> QED BY <1>1, LineHolds, PTL

\* What an action is done with is what its group says, the last one where a flag may come again
\* (rcn_arg.c, the handlers; rcn.c).
THEOREM ValuesAreWritten == Spec => []ValuesAsWritten
  <1>1. LineInv => ValuesAsWritten
    BY DEF LineInv
  <1> QED BY <1>1, LineHolds, PTL

===============================================================================
