--------------------------- MODULE MC_GatewayHub ---------------------------
(* Two connections, d1 and d2, that are two devices of one user. *)
EXTENDS GatewayHub

CONSTANTS d1, d2, u

MCConn == {d1, d2}
MCUser == {u}
MCUserOf == [c \in MCConn |-> u]
=============================================================================
