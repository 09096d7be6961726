-------------------------- MODULE MessageContract --------------------------
(***************************************************************************)
(* What SendMessage promises, without saying how: once a message is        *)
(* accepted every recipient is decided exactly once -- the message is      *)
(* handed over, by a push or through the offline queue, or it is given up  *)
(* after a failure -- and a sender that is told OK knows that every        *)
(* recipient has been decided.                                             *)
(***************************************************************************)
CONSTANTS Msg, User

VARIABLES
    fate,   \* what became of each message for each user
    reply   \* what the sender has been told

TypeOK ==
    /\ fate \in [Msg -> [User -> {"none", "accepted", "handed", "lost"}]]
    /\ reply \in [Msg -> {"none", "ok", "error"}]

Init ==
    /\ fate = [m \in Msg |-> [u \in User |-> "none"]]
    /\ reply = [m \in Msg |-> "none"]

\* The message is stored for the users in S.
Accept(m, S) ==
    /\ reply[m] = "none"
    /\ \A u \in User : fate[m][u] = "none"
    /\ fate' = [fate EXCEPT ![m] = [u \in User |-> IF u \in S THEN "accepted" ELSE "none"]]
    /\ UNCHANGED reply

\* One recipient is decided.
Decide(m, u, f) ==
    /\ fate[m][u] = "accepted"
    /\ fate' = [fate EXCEPT ![m][u] = f]
    /\ UNCHANGED reply

\* The sender is told OK.
Confirm(m) ==
    /\ reply[m] = "none"
    /\ \E u \in User : fate[m][u] # "none"
    /\ \A u \in User : fate[m][u] # "accepted"
    /\ reply' = [reply EXCEPT ![m] = "ok"]
    /\ UNCHANGED fate

\* The calls in D fail, several at once in a crash: recipients not decided
\* yet are given up.
GiveUp(D) ==
    /\ \A m \in D : reply[m] = "none"
    /\ fate' = [m \in Msg |->
                  IF m \in D
                  THEN [u \in User |-> IF fate[m][u] = "accepted" THEN "lost" ELSE fate[m][u]]
                  ELSE fate[m]]
    /\ reply' = [m \in Msg |-> IF m \in D THEN "error" ELSE reply[m]]

Next ==
    \/ \E m \in Msg, S \in (SUBSET User) \ {{}} : Accept(m, S)
    \/ \E m \in Msg, u \in User, f \in {"handed", "lost"} : Decide(m, u, f)
    \/ \E m \in Msg : Confirm(m)
    \/ \E D \in SUBSET Msg : GiveUp(D)

Spec == Init /\ [][Next]_<<fate, reply>>
=============================================================================
