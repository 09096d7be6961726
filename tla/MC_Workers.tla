----------------------------- MODULE MC_Workers -----------------------------
(***************************************************************************)
(* Up to four batches for up to three workers, the last batch full or not; *)
(* three messages for two senders and a queue of one; two connections of   *)
(* one user, where every channel has room for one payload.  What is not    *)
(* part of a behaviour is fixed.                                           *)
(***************************************************************************)
EXTENDS Workers

CONSTANTS w1, w2, w3, s1, s2, m1, m2, m3, d1, d2, only

MCWorker  == {w1, w2, w3}
MCSender  == {s1, s2}
MCMessage == {m1, m2, m3}
MCConn    == {d1, d2}
MCUser    == {only}
MCUserOf  == [c \in MCConn |-> only]

MCInit == WorkersInit /\ (part # "fanout" => n = 0)

MCSpec == MCInit /\ [][WorkersNext]_workersVars /\ WorkersFairness
=============================================================================
