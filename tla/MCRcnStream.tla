----------------------------- MODULE MCRcnStream -----------------------------
(***************************************************************************)
(* Instances of RcnStream for TLC: a bare header and a message with a body *)
(***************************************************************************)
EXTENDS RcnStream

CONSTANTS bare, full

MCMsgs    == {bare, full}
MCBodyLen == [m \in MCMsgs |-> IF m = bare THEN 0 ELSE 2]
=============================================================================
