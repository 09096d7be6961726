----------------------------- MODULE EventQueue -----------------------------
(***************************************************************************)
(* What a subscriber of the event bus is promised, without saying how: an  *)
(* event that was published is given to the group's callback once, or it   *)
(* is lost; it is never given twice and never comes back.                  *)
(***************************************************************************)
CONSTANT Event

VARIABLE fate   \* what became of each event

TypeOK == fate \in [Event -> {"absent", "queued", "handled", "lost"}]

Init == fate = [e \in Event |-> "absent"]

Publish(e) ==
    /\ fate[e] = "absent"
    /\ fate' = [fate EXCEPT ![e] = "queued"]

Handle(e) ==
    /\ fate[e] = "queued"
    /\ fate' = [fate EXCEPT ![e] = "handled"]

\* A reader loses what it was given, all of it at once.
Lose(E) ==
    /\ \A e \in E : fate[e] = "queued"
    /\ fate' = [e \in Event |-> IF e \in E THEN "lost" ELSE fate[e]]

Next ==
    \/ \E e \in Event : Publish(e) \/ Handle(e)
    \/ \E E \in SUBSET Event : Lose(E)

Spec == Init /\ [][Next]_fate
=============================================================================
