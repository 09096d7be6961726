---------------------------- MODULE MC_Services ----------------------------
(* Two requests to each of the services in turn, and up to three faults. *)
EXTENDS Services, TLC

CONSTANTS c1, c2

TwoRequests == {c1, c2}
=============================================================================
