------------------------------- MODULE RcnUtil -------------------------------
(***************************************************************************)
(* rcn_util.c: the growing array u_array.  An array has cells in use, room *)
(* for `capacity` of them, and a block of memory, by which a pointer into  *)
(* it is told from one into a block that realloc has freed.  What lies in  *)
(* the cells behind those in use is never read and not kept here.  Cells   *)
(* count from 1.  A u_queue is an array that is only added to at the end   *)
(* and removed from at the front.                                          *)
(***************************************************************************)
EXTENDS Naturals, Sequences

Full(a) == Len(a.cells) = a.capacity

\* u_array_init
NewArray(capacity, block) == [cells |-> <<>>, capacity |-> capacity, block |-> block]

\* resize: the block is the old one or another
Resized(a, extra, block) == [a EXCEPT !.capacity = @ + extra, !.block = block]

\* fault: a full array is not grown
AddedPast(a, x, block) == [a EXCEPT !.cells = Append(@, x)]

\* u_array_add: a full array doubles
Added(a, x, block) ==
    LET b == IF Full(a) THEN Resized(a, a.capacity, block) ELSE a
    IN  [b EXCEPT !.cells = Append(@, x)]

\* memmove of n cells from src to dest
MemMove(cells, dest, src, n) ==
    [i \in DOMAIN cells |-> IF i \in dest..(dest + n - 1) THEN cells[src + (i - dest)]
                            ELSE cells[i]]

\* fault: one cell too few is moved
RemovedShort(a, i) ==
    [a EXCEPT !.cells = SubSeq(MemMove(@, i, i + 1, Len(@) - i - 1), 1, Len(@) - 1)]

\* u_array_remove, u_array_remove_get
RemovedAt(a, i) ==
    [a EXCEPT !.cells = SubSeq(MemMove(@, i, i + 1, Len(@) - i), 1, Len(@) - 1)]

\* u_array_find_index: the first cell that holds x
IsIndexOf(a, x, i) ==
    i \in DOMAIN a.cells /\ a.cells[i] = x /\ \A j \in 1..(i - 1) : a.cells[j] # x
=============================================================================
