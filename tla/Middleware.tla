----------------------------- MODULE Middleware -----------------------------
(***************************************************************************)
(* The two middlewares of the gateway that keep state beyond a request.    *)
(* They share none of it: a behaviour is one of the rate limiter or one of *)
(* the key cache, and the other stays as it begins.                        *)
(***************************************************************************)
EXTENDS RateLimit

CONSTANTS Client, Token, MaxVersions  \* of the key cache

VARIABLES part, base, version, cached, fresh, token, at, got, phone, overtaken, misses

Jwks == INSTANCE JwksCache WITH faults <- misses

ASSUME MiddlewareAssumption == Jwks!JwksAssumption

jwksVars == <<base, version, cached, fresh, token, at, got, phone, overtaken, misses>>

MiddlewareInit == part \in {"rate", "jwks"} /\ Init /\ Jwks!JwksInit

MiddlewareNext ==
    \/ part = "rate" /\ Next /\ UNCHANGED <<part, jwksVars>>
    \/ part = "jwks" /\ Jwks!JwksNext /\ UNCHANGED <<part, vars>>

MiddlewareFairness == part = "jwks" => Jwks!JwksFairness

MiddlewareSpec ==
    MiddlewareInit /\ [][MiddlewareNext]_<<part, vars, jwksVars>> /\ MiddlewareFairness
-----------------------------------------------------------------------------
\* States are what they should be, and, see RateLimit, only a failed or
\* repeated command or the end of the process leaves a counter without a TTL.
MiddlewareInv == TypeOK /\ Jwks!TypeOK /\ LeakHasCause

\* See JwksCache: a fetch that hangs holds up no other request.
HangsAlone == part = "jwks" => Jwks!HangsAlone

\* See JwksCache: older keys come back only where two fetches overlapped.
OlderOnlyByOverlap == Jwks!OlderOnlyByOverlap

\* See JwksCache: the newest keys get into the cache and stay.
KeysConverge == part = "jwks" => Jwks!KeysConverge
=============================================================================
