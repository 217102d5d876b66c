----------------------------- MODULE MCRcnMemory -----------------------------
(***************************************************************************)
(* An instance of RcnMemory for TLC: two sockets, an evdev and a uinput   *)
(* stream, whose arrays start with one cell, so that they grow.            *)
(***************************************************************************)
EXTENDS RcnMemory, TLC

CONSTANTS s1, s2, d1, u1, b1, b2, b3, e1, m1, m2

MCSockets  == {s1, s2}
MCCaptured == {d1}
MCVirtual  == {u1}
MCBuffers  == {b1, b2, b3}
MCEvents   == {e1}
MCBlocks   == {m1, m2}

Symmetry == Permutations(MCBuffers)
=============================================================================
