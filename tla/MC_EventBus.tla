---------------------------- MODULE MC_EventBus ----------------------------
(* Two processes of one group, on a stream or on two partitions. *)
EXTENDS EventBus

CONSTANTS p1, p2, qa, qb

MCProc == {p1, p2}
MCPart == {qa, qb}
MCPartEvents == [q \in MCPart |-> IF q = qa THEN 2 ELSE 1]
=============================================================================
