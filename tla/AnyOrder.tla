------------------------------ MODULE AnyOrder ------------------------------
(***************************************************************************)
(* What SendMessage relies on when it serves the members of a group: each  *)
(* recipient is served once, in any order and overlapping, and the call    *)
(* returns when all of them have been.                                     *)
(***************************************************************************)
CONSTANT Recipient

VARIABLES
    waiting,   \* recipients nobody has begun to serve
    busy,      \* recipients being served
    returned   \* whether the call has returned

vars == <<waiting, busy, returned>>

Init ==
    /\ waiting \in SUBSET Recipient
    /\ busy = {}
    /\ returned = FALSE

Begin(u) ==
    /\ ~returned
    /\ u \in waiting
    /\ waiting' = waiting \ {u}
    /\ busy' = busy \cup {u}
    /\ UNCHANGED returned

End(u) ==
    /\ ~returned
    /\ u \in busy
    /\ busy' = busy \ {u}
    /\ UNCHANGED <<waiting, returned>>

Return ==
    /\ ~returned
    /\ waiting = {}
    /\ busy = {}
    /\ returned' = TRUE
    /\ UNCHANGED <<waiting, busy>>

Next == Return \/ \E u \in Recipient : Begin(u) \/ End(u)

Spec == Init /\ [][Next]_vars
=============================================================================
