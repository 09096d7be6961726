------------------------------ MODULE EventLog ------------------------------
(***************************************************************************)
(* What a group of subscribers to a partitioned log is promised: in each   *)
(* partition the callback gets the entries in order, and once the group    *)
(* has committed there, every one of them, more than once perhaps.  Before *)
(* the first commit the group may skip what is in the partition.           *)
(***************************************************************************)
EXTENDS Sequences, Naturals

CONSTANT Part

VARIABLES
    fate,     \* what became of the entries of each partition
    anchored  \* partitions in which the group has committed

vars == <<fate, anchored>>

Init ==
    /\ fate = [q \in Part |-> <<>>]
    /\ anchored = {}

Publish(q) ==
    /\ fate' = [fate EXCEPT ![q] = Append(@, "queued")]
    /\ UNCHANGED anchored

\* An entry that is given to the callback again changes nothing here.
Handle(q, i) ==
    /\ fate[q][i] # "handled"
    /\ \A j \in 1..(i - 1) : fate[q][j] # "queued"
    /\ fate' = [fate EXCEPT ![q][i] = "handled"]
    /\ UNCHANGED anchored

Skip(q) ==
    /\ q \notin anchored
    /\ fate' = [fate EXCEPT ![q] =
                  [i \in DOMAIN @ |-> IF @[i] = "queued" THEN "skipped" ELSE @[i]]]
    /\ UNCHANGED anchored

Commit(Q) ==
    /\ \A q \in Q : \E i \in DOMAIN fate[q] : fate[q][i] = "handled"
    /\ anchored' = anchored \cup Q
    /\ UNCHANGED fate

Next ==
    \/ \E q \in Part : Publish(q) \/ Skip(q)
    \/ \E q \in Part : \E i \in DOMAIN fate[q] : Handle(q, i)
    \/ \E Q \in SUBSET Part : Commit(Q)

Spec == Init /\ [][Next]_vars
=============================================================================
