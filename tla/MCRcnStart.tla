----------------------------- MODULE MCRcnStart -----------------------------
(***************************************************************************)
(* Two starts of a server, on one port or on two, and one of a client, with *)
(* one `rcn stop`; the first server may be killed.                         *)
(***************************************************************************)
EXTENDS RcnStart

CONSTANTS s1, s2, c1, u1, p1, p2

MCTypeOf == [x \in {s1, s2, c1} |-> IF x = c1 THEN "client" ELSE "server"]

\* the client is of the first server; the second may be a rival or not
MCPortsOf == [x \in {s1, s2, c1} |-> IF x = s2 THEN {p1, p2} ELSE {p1}]
=============================================================================
