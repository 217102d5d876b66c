----------------------------- MODULE RcnSession -----------------------------
(***************************************************************************)
(* What the server is to its clients: it serves one at a time.  A client   *)
(* is admitted when nobody is served, its devices are copied one by one,   *)
(* and it leaves with all of them at once.  A client that ends in any      *)
(* other way stays the guest of the server until that ends.                *)
(***************************************************************************)
CONSTANTS
    Clients,
    DevicesOf,   \* by client, the devices it captures
    Nobody

VARIABLES
    guest,    \* the client that is served, or Nobody
    copies,   \* devices that exist on the server
    ended

Init == guest = Nobody /\ copies = {} /\ ended = FALSE

Admit(c) ==
    /\ ~ended /\ guest = Nobody
    /\ guest' = c
    /\ UNCHANGED <<copies, ended>>

Copy(k) ==
    /\ guest # Nobody /\ k \in DevicesOf[guest] \ copies
    /\ copies' = copies \cup {k}
    /\ UNCHANGED <<guest, ended>>

Leave ==
    /\ guest # Nobody
    /\ guest' = Nobody /\ copies' = {}
    /\ UNCHANGED ended

\* the server ends, whoever is its guest
End == ~ended /\ ended' = TRUE /\ guest' = Nobody /\ copies' = {}

Next ==
    \/ \E c \in Clients : Admit(c)
    \/ guest # Nobody /\ \E k \in DevicesOf[guest] : Copy(k)
    \/ Leave \/ End

Spec == Init /\ [][Next]_<<guest, copies, ended>>
=============================================================================
