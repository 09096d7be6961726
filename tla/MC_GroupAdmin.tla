--------------------------- MODULE MC_GroupAdmin ---------------------------
(* Up to three users and three overlapping requests on their group. *)
EXTENDS GroupAdmin, TLC

CONSTANTS a, b, c, r1, r2, r3

TwoUsers   == {a, b}
ThreeUsers == {a, b, c}
TwoReqs    == {r1, r2}
ThreeReqs  == {r1, r2, r3}
AllKinds   == {"promote", "demote", "remove", "add", "join", "reset", "leave",
               "update", "code", "get", "list", "lookup"}
Demotions  == {"promote", "demote"}

\* Users, and requests, are interchangeable, for safety only.
Swaps == Permutations(User) \cup Permutations(Req)
=============================================================================
