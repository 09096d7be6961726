--------------------------- MODULE MC_Middleware ---------------------------
(***************************************************************************)
(* A limit of one and three requests over three windows; two clients with  *)
(* tokens that need keys or do not, and three key sets.  What is not part  *)
(* of a behaviour is fixed.                                                *)
(***************************************************************************)
EXTENDS Middleware

CONSTANTS r1, r2, r3, c1, c2
MCRequest == {r1, r2, r3}
MCClient  == {c1, c2}

Signed(alg, kid) == [alg |-> alg, kid |-> kid, top |-> "", meta |-> "user"]
MCToken == {Signed("ecdsa", TRUE), Signed("hmac", FALSE),
            [alg |-> "none", kid |-> FALSE, top |-> "", meta |-> ""]}

MCInit == MiddlewareInit /\ (part # "jwks" => base /\ \A c \in Client : token[c].alg = "none")

MCSpec == MCInit /\ [][MiddlewareNext]_<<part, vars, jwksVars>> /\ MiddlewareFairness
=============================================================================
