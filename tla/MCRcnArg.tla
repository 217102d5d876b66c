------------------------------ MODULE MCRcnArg ------------------------------
(***************************************************************************)
(* Command lines made of an action and up to MaxPieces pieces: flags with  *)
(* and without their values, stray values, subactions.                     *)
(***************************************************************************)
EXTENDS RcnArg, SequencesExt

CONSTANT MaxPieces

MCNumerals == [w \in {"8000", "1"} |-> IF w = "1" THEN 1 ELSE 8000]

MCSpellings ==
    [w \in {"key", "rel", "REL", "abs", "swt"} |-> IF w = "REL" THEN "rel" ELSE w]

Pieces ==
    {<<"-p", "8000">>, <<"--port">>, <<"-s", "host">>, <<"--devices", "dev">>, <<"-d">>,
     <<"dev">>, <<"-g", "1">>, <<"-f", "key">>, <<"abs", "REL">>, <<"pause">>, <<"ls">>, <<"-h">>}

Beginnings == {<<a>> : a \in Actions \cup {"--help"}} \cup {<<>>}

MCArgvs ==
    {b \o FlattenSeq(p) : b \in Beginnings, p \in UNION {[1..n -> Pieces] : n \in 0..MaxPieces}}
=============================================================================
