------------------------------- MODULE RcnArg -------------------------------
(***************************************************************************)
(* The command line: main and its actions (rcn.c) and the parser           *)
(* (rcn_arg.c), which walks argv with one index that every handler moves.  *)
(*                                                                         *)
(* A word of argv is a string that is compared and never looked into; only *)
(* atoi and, for the names of filters, strcasecmp do that.  argv[0], the   *)
(* program, is left out, so that an index is the one of the code.          *)
(***************************************************************************)
EXTENDS Naturals, Sequences, FiniteSets

CONSTANTS
    Argvs,      \* the command lines
    Numerals,   \* what atoi makes of the words that begin with a number
    Spellings   \* the filter that each word means, in whatever case it is written

ASSUME ArgvsAssumption == \A a \in Argvs : a \in Seq(STRING)
ASSUME NumeralsAssumption == \A w \in DOMAIN Numerals : Numerals[w] \in Nat

ASSUME SpellingsAssumption ==
    Spellings \in [DOMAIN Spellings -> {"key", "rel", "abs", "swt"}]

VARIABLES
    argv,
    pc,        \* "main", "args" or "done"
    i,         \* the index of parse_args
    ctx,       \* arg_ctx
    outcome    \* what the invocation does, and to which daemon

vars == <<argv, pc, i, ctx, outcome>>

argc == Len(argv) + 1
None == "none"

Atoi(w) == IF w \in DOMAIN Numerals THEN Numerals[w] ELSE 0

-----------------------------------------------------------------------------
(* The words: handlers, subactions, help_data, device_evt_str_arr *)

PortFlag    == {"-p", "--port"}
HostFlag    == {"-s", "--server"}
DevicesFlag == {"-d", "--devices"}
FilterFlag  == {"-f", "--filter"}
HelpFlag    == {"-h", "--help"}
DebugFlag   == {"-g", "--debug"}
Subactions  == {"pause", "resume", "stop", "switch", "log", "list", "ls"}
Handled     == PortFlag \cup HostFlag \cup DevicesFlag \cup FilterFlag \cup HelpFlag
                 \cup DebugFlag \cup Subactions
Actions     == {"start", "connect", "server", "client", "show"}
Helped      == Actions \cup Subactions
Filters     == {"key", "rel", "abs", "swt"}

\* the filters that words name
Named(words) == {Spellings[w] : w \in words}

\* subaction_to_rcn_msg; "log" is no request, the file is printed
HeaderOf(sub) ==
    CASE sub \in {"list", "ls"} -> "RELAY_LIST"
      [] sub = "pause"  -> "RELAY_PAUSE"
      [] sub = "resume" -> "RELAY_RESUME"
      [] sub = "stop"   -> "RELAY_STOP"
      [] sub = "switch" -> "RELAY_SWITCH"
      [] sub = "log"    -> "log"

-----------------------------------------------------------------------------
(* main *)

\* only "-h" is help, "--help" is taken for a subaction
Mode == IF argv[1] \in Actions THEN argv[1] ELSE IF argv[1] = "-h" THEN "help" ELSE "auto"

Minimum(mode) ==
    CASE mode = "start" -> 4 [] mode = "connect" -> 8
      [] mode \in {"server", "client"} -> 3 [] OTHER -> 2

Needed(mode) ==
    CASE mode = "start"   -> {"port"}
      [] mode = "connect" -> {"port", "server", "devices"}
      [] mode \in {"server", "client", "auto"} -> {"daemon"}
      [] mode = "help"    -> {"help"}
      [] mode = "show"    -> {}

\* the index parsing starts from
FirstArg(mode) == IF mode \in Actions THEN 2 ELSE 1

Does(what, d) == pc' = "done" /\ outcome' = [what |-> what, daemon |-> d]

Reject == Does("error", None) /\ UNCHANGED <<argv, i, ctx>>

\* the count is checked, then arg_ctx is told what is needed
Main ==
    /\ pc = "main"
    /\ IF argc < 2 THEN Reject
       ELSE IF argc < Minimum(Mode) THEN Reject
       ELSE /\ pc' = "args" /\ i' = FirstArg(Mode)
            /\ ctx' = [ctx EXCEPT !.needed = Needed(Mode),
                                  !.optional = IF Mode = "show" THEN {"filter"} ELSE {}]
            /\ UNCHANGED <<argv, outcome>>

-----------------------------------------------------------------------------
(* parse_args: one step for each call of handle_arg *)

At(words) == pc = "args" /\ i < argc /\ argv[i] \in words

\* the handler has stored what it read; the next argument is at j
Advance(j, c) == i' = j /\ ctx' = c /\ UNCHANGED <<argv, pc, outcome>>

NoValue == i + 1 >= argc
\* not for this action, or given already
Refused(kind) == kind \notin ctx.needed \/ kind \in ctx.provided

Provided(kind, c) == [c EXCEPT !.provided = @ \cup {kind}]

\* where the list of words that begins at j ends: at an argument that has a
\* handler, or with argv
ListEnd(j) ==
    CHOOSE k \in j..argc : /\ k = argc \/ argv[k] \in Handled
                           /\ \A n \in j..(k - 1) : argv[n] \notin Handled

ArgPort ==
    /\ At(PortFlag)
    /\ IF NoValue \/ Refused("port") THEN Reject
       ELSE IF Atoi(argv[i + 1]) = 0 THEN Reject
       ELSE Advance(i + 2, Provided("port", [ctx EXCEPT !.port = Atoi(argv[i + 1])]))

ArgHost ==
    /\ At(HostFlag)
    /\ IF NoValue \/ Refused("server") THEN Reject
       ELSE Advance(i + 2, Provided("server", [ctx EXCEPT !.server = argv[i + 1]]))

\* fault: the step back from the word that ends the list is missing, so that
\* the word is skipped; the list itself is right
SkipsFlag ==
    /\ At(DevicesFlag)
    /\ IF NoValue \/ Refused("devices") THEN Reject
       ELSE LET k == ListEnd(i + 1)
            IN  Advance(k + 1, Provided("devices", [ctx EXCEPT !.devices = SubSeq(argv, i + 1, k - 1)]))

\* fault: the word that ends the list is taken for a device as well
TakesFlag ==
    /\ At(DevicesFlag)
    /\ IF NoValue \/ Refused("devices") THEN Reject
       ELSE LET k == ListEnd(i + 1)
            IN  Advance(k, Provided("devices", [ctx EXCEPT !.devices = SubSeq(argv \o <<None>>, i + 1, k)]))

\* the list may be empty
ArgDevices ==
    /\ At(DevicesFlag)
    /\ IF NoValue \/ Refused("devices") THEN Reject
       ELSE LET k == ListEnd(i + 1)
            IN  Advance(k, Provided("devices", [ctx EXCEPT !.devices = SubSeq(argv, i + 1, k - 1)]))

FilterWith(next(_)) ==
    /\ At(FilterFlag)
    /\ LET k     == ListEnd(i + 1)
           words == {argv[n] : n \in (i + 1)..(k - 1)}
       IN  IF NoValue \/ "filter" \notin ctx.optional THEN Reject
           ELSE IF k - (i + 1) > Cardinality(Filters) \/ ~(words \subseteq DOMAIN Spellings) THEN Reject
           ELSE Advance(next(k), [ctx EXCEPT !.filter = @ \cup Named(words)])

\* fault: the step back goes to the flag itself
FilterStepsBack == LET Back(k) == i IN FilterWith(Back)

\* a filter is never marked as provided: it may be given again
ArgFilter == LET There(k) == k IN FilterWith(There)

\* the rest of argv are subactions; the last one counts
ArgDaemon ==
    /\ At(Subactions)
    /\ IF Refused("daemon") \/ \E n \in i..(argc - 1) : argv[n] \notin Subactions THEN Reject
       ELSE Advance(argc, Provided("daemon", [ctx EXCEPT !.daemon = argv[argc - 1]]))

\* the help of the program, or of each word that follows
ArgHelp ==
    /\ At(HelpFlag)
    /\ IF Refused("help") \/ \E n \in (i + 1)..(argc - 1) : argv[n] \notin Helped THEN Reject
       ELSE Advance(argc, Provided("help", ctx))

\* the only flag for every action
ArgDebug ==
    /\ At(DebugFlag)
    /\ IF NoValue THEN Reject ELSE Advance(i + 2, [ctx EXCEPT !.debug = Atoi(argv[i + 1])])

ArgUnknown == pc = "args" /\ i < argc /\ argv[i] \notin Handled /\ Reject

-----------------------------------------------------------------------------
(* What main does with it *)

Subaction(d) == Does(HeaderOf(ctx.daemon), d)

\* validate_arg_ctx, then the action; the daemon of an automatic subaction is
\* the client if one runs, else the server
Perform ==
    /\ pc = "args" /\ i >= argc
    /\ IF ~(ctx.needed \subseteq ctx.provided) THEN Reject
       ELSE /\ \/ Mode \in {"start", "connect"}
                  /\ Does(Mode, IF Mode = "start" THEN "server" ELSE "client")
               \/ Mode \in {"show", "help"} /\ Does(Mode, None)
               \/ Mode \in {"server", "client"} /\ Subaction(Mode)
               \/ Mode = "auto" /\ \/ Subaction("client") \/ Subaction("server")
                                   \/ Does("no daemon", None)
            /\ UNCHANGED <<argv, i, ctx>>

Init ==
    /\ argv \in Argvs /\ pc = "main" /\ i = 0
    /\ ctx = [needed |-> {}, optional |-> {}, provided |-> {}, port |-> 0, server |-> None,
              devices |-> <<>>, daemon |-> None, filter |-> {}, debug |-> 0]
    /\ outcome = [what |-> None, daemon |-> None]

HandleArg ==
    \/ ArgPort \/ ArgHost \/ ArgDevices \/ ArgFilter \/ ArgHelp \/ ArgDebug \/ ArgDaemon
    \/ ArgUnknown

Next == Main \/ HandleArg \/ Perform

Spec == Init /\ [][Next]_vars

FairSpec == Spec /\ WF_vars(Next)

-----------------------------------------------------------------------------
(* The grammar of a command line, without an index: its arguments can be cut *)
(* into groups, each a flag with its values.  C is the set of the places     *)
(* where a group begins.                                                     *)

Places == FirstArg(Mode)..(argc - 1)

Group(C, c) ==
    SubSeq(argv, c, IF \E d \in C : d > c THEN (CHOOSE d \in C : d > c /\ \A e \in C : e > c => d <= e) - 1
                    ELSE argc - 1)

Rest(g)  == {g[n] : n \in 2..Len(g)}
Words(g) == {g[n] : n \in DOMAIN g}

\* what a group is; a list may only be empty where something follows it
Kind(C, c) ==
    LET g       == Group(C, c)
        isList  == Rest(g) \cap Handled = {} /\ c # argc - 1
        isLast  == \A d \in C : d <= c
    IN  CASE g[1] \in PortFlag /\ Len(g) = 2 -> IF Atoi(g[2]) # 0 THEN "port" ELSE "wrong"
          [] g[1] \in HostFlag /\ Len(g) = 2    -> "server"
          [] g[1] \in DebugFlag /\ Len(g) = 2   -> "debug"
          [] g[1] \in DevicesFlag /\ isList     -> "devices"
          [] g[1] \in FilterFlag /\ isList      ->
                IF Rest(g) \subseteq DOMAIN Spellings /\ Len(g) <= 5 THEN "filter" ELSE "wrong"
          [] Words(g) \subseteq Subactions /\ isLast -> "daemon"
          [] g[1] \in HelpFlag /\ isLast        ->
                IF Rest(g) \subseteq Helped THEN "help" ELSE "wrong"
          [] OTHER -> "wrong"

\* C cuts the command line the way its action demands
Reads(C) ==
    /\ C \subseteq Places /\ (Places # {} => FirstArg(Mode) \in C)
    /\ \A c \in C : LET k == Kind(C, c)
                    IN  \/ k \in Needed(Mode) \cup {"debug"}
                        \/ k = "filter" /\ Mode = "show"
    /\ \A k \in Needed(Mode) : \E c \in C : \A d \in C : Kind(C, d) = k <=> d = c

Legal == argc >= 2 /\ argc >= Minimum(Mode) /\ \E C \in SUBSET Places : Reads(C)

\* The parser accepts exactly the command lines of the grammar, whatever the
\* order of the flags and however lists, values and subactions follow each other.
AcceptsGrammar ==
    pc = "done" => (outcome.what # "error" <=> Legal)

\* What the program goes on with is what is written: each value comes from the
\* group of its flag, a debug level and a subaction from the last one given, and
\* filters from all of theirs, in whatever case.
ValuesAsWritten ==
    pc = "done" /\ outcome.what \notin {"error", "no daemon"} =>
        \E C \in SUBSET Places :
            /\ Reads(C)
            /\ \A c \in C :
                  LET g == Group(C, c)
                      k == Kind(C, c)
                  IN  /\ k = "port"    => ctx.port = Atoi(g[2])
                      /\ k = "server"  => ctx.server = g[2]
                      /\ k = "devices" => ctx.devices = Tail(g)
                      /\ k = "daemon"  => outcome.what = HeaderOf(g[Len(g)])
                      /\ k = "debug" /\ (\A d \in C : d > c => Kind(C, d) # "debug")
                            => ctx.debug = Atoi(g[2])
            /\ ctx.filter = UNION {Named(Rest(Group(C, c))) : c \in {d \in C : Kind(C, d) = "filter"}}

\* Parsing comes to its end on every command line.
ParseEnds == <>(pc = "done")
=============================================================================
