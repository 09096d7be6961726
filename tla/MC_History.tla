----------------------------- MODULE MC_History -----------------------------
(* A few messages, some with equal time stamps, and one paging client. *)
EXTENDS History

\* None given, one below the maximum, the maximum, and one above.
MCLimits == 0..3
=============================================================================
