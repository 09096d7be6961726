----------------------------- MODULE JwksCache -----------------------------
(***************************************************************************)
(* AuthMiddleware with parseToken and the cache of verification keys of    *)
(* loadJWKSKeys (pkg/middleware/middleware.go), shared by all requests.    *)
(*                                                                         *)
(* A key set is named by its version; the provider replaces its keys from  *)
(* time to time.  The cache is read and written under its lock, and the    *)
(* fetch between the two holds no lock.  The ten minutes an entry is fresh *)
(* are left open.  Each client sends one request at a time and keeps its   *)
(* token.  The fetch has neither a time limit nor the request's context:   *)
(* an answer, or the rest of one, may come late or never.                  *)
(***************************************************************************)
EXTENDS Naturals

CONSTANTS
    Client,       \* clients, one request at a time
    Token,        \* records: [alg, kid, top, meta], what parseToken looks at
    MaxVersions,  \* bound: key sets the provider publishes
    MaxFaults     \* bound: failed and hanging fetches

JwksAssumption ==
    /\ Token \subseteq [alg : {"none", "hmac", "ecdsa", "other"}, kid : BOOLEAN,
                        top : {"", "phone"}, meta : {"", "user"}]
    /\ MaxVersions \in Nat \ {0} /\ MaxFaults \in Nat

VARIABLES
    base,      \* whether the provider's URL is configured
    version,   \* the key set the provider publishes
    cached,    \* the version in the cache, 0 for none
    fresh,     \* whether it has not expired
    token,     \* the token of each client
    at,        \* where its request is
    got,       \* the version its fetch returned
    phone,     \* the phone number of its claims
    overtaken, \* history: requests that hold keys while another stored its own
    faults     \* failed and hanging fetches so far

jwksVars == <<base, version, cached, fresh, token, at, got, phone, overtaken, faults>>

TypeOK ==
    /\ base \in BOOLEAN
    /\ version \in 1..MaxVersions
    /\ cached \in 0..version
    /\ fresh \in BOOLEAN /\ (fresh => cached # 0)
    /\ token \in [Client -> Token]
    /\ at \in [Client -> {"idle", "parse", "lookup", "fetch", "hung", "store", "claims", "handler"}]
    /\ got \in [Client -> 0..version]
    /\ phone \in [Client -> {"", "phone", "user"}]
    /\ overtaken \subseteq Client
    /\ faults \in 0..MaxFaults

JwksInit ==
    /\ base \in BOOLEAN
    /\ version = 1
    /\ cached = 0 /\ fresh = FALSE
    /\ token \in [Client -> Token]
    /\ at = [c \in Client |-> "idle"]
    /\ got = [c \in Client |-> 0]
    /\ phone = [c \in Client |-> ""]
    /\ overtaken = {}
    /\ faults = 0

-----------------------------------------------------------------------------
Goto(c, place) == at' = [at EXCEPT ![c] = place]

Rotate ==
    /\ version < MaxVersions /\ version' = version + 1
    /\ UNCHANGED <<base, cached, fresh, token, at, got, phone, overtaken, faults>>

Expire ==
    /\ fresh /\ fresh' = FALSE
    /\ UNCHANGED <<base, version, cached, token, at, got, phone, overtaken, faults>>

Arrive(c) ==
    /\ at[c] = "idle" /\ Goto(c, "parse")
    /\ UNCHANGED <<base, version, cached, fresh, token, got, phone, overtaken, faults>>

\* Only an ECDSA signature with a key id asks for the keys.
NeedsKeys(t) == t.alg = "ecdsa" /\ t.kid

Parse(c) ==
    /\ at[c] = "parse"
    /\ Goto(c, CASE token[c].alg = "none" -> "handler"
                 [] NeedsKeys(token[c])   -> "lookup"
                 [] OTHER                 -> "claims")
    /\ phone' = [phone EXCEPT ![c] = ""]
    /\ UNCHANGED <<base, version, cached, fresh, token, got, overtaken, faults>>

\* Mutant: an entry never expires.
HitOnceStored == cached # 0

\* The entry is there and has not expired.
Hit == cached # 0 /\ fresh

\* Mutant: the lock is kept until the fetched keys are stored.
LockedOverFetch(place) == place \in {"fetch", "hung", "store"}

\* Where a request keeps jwksMu locked from one step to the next: nowhere, it
\* unlocks before the fetch and locks again behind it.
Locked(place) == FALSE

LockFree(c) == \A d \in Client \ {c} : ~Locked(at[d])

\* Mutant: a failed fetch stores the keys of the one before.
StoresAnyway == "store"

\* The error of the load is the error of the parser, which is not returned.
WithoutKeys == "claims"

\* Without a URL there is nothing to ask; otherwise the cache is read, under
\* its lock.
Lookup(c) ==
    /\ at[c] = "lookup"
    /\ LockFree(c)
    /\ Goto(c, IF ~base THEN WithoutKeys ELSE IF Hit THEN "claims" ELSE "fetch")
    /\ UNCHANGED <<base, version, cached, fresh, token, got, phone, overtaken, faults>>

\* An answer has the keys of its moment; an error, another status or a set
\* without usable keys gives none.
Answered(c) ==
    /\ \/ /\ got' = [got EXCEPT ![c] = version]
          /\ Goto(c, "store")
          /\ UNCHANGED faults
       \/ /\ faults < MaxFaults /\ faults' = faults + 1
          /\ Goto(c, WithoutKeys)
          /\ UNCHANGED got
    /\ overtaken' = overtaken \ {c}
    /\ UNCHANGED <<base, version, cached, fresh, token, phone>>

Fetch(c) == at[c] = "fetch" /\ Answered(c)

\* The provider, or the way to it, goes silent ...
Hang(c) ==
    /\ at[c] = "fetch" /\ Goto(c, "hung")
    /\ faults < MaxFaults /\ faults' = faults + 1
    /\ UNCHANGED <<base, version, cached, fresh, token, got, phone, overtaken>>

\* ... and may answer after all.
LateAnswer(c) == at[c] = "hung" /\ Answered(c)

Store(c) ==
    /\ at[c] = "store"
    /\ LockFree(c)
    /\ cached' = got[c] /\ fresh' = TRUE
    /\ overtaken' = overtaken \cup {d \in Client : at[d] = "store"}
    /\ Goto(c, "claims")
    /\ UNCHANGED <<base, version, token, got, phone, faults>>

\* The phone number comes from the token's payload, verified or not: the one
\* at the top, else the one in user_metadata.
Claims(c) ==
    /\ at[c] = "claims"
    /\ phone' = [phone EXCEPT ![c] = IF token[c].top # "" THEN token[c].top ELSE token[c].meta]
    /\ Goto(c, "handler")
    /\ UNCHANGED <<base, version, cached, fresh, token, got, overtaken, faults>>

\* next.ServeHTTP, which returns.
Handler(c) ==
    /\ at[c] = "handler" /\ Goto(c, "idle")
    /\ UNCHANGED <<base, version, cached, fresh, token, got, phone, overtaken, faults>>

-----------------------------------------------------------------------------
RequestStep(c) ==
    Parse(c) \/ Lookup(c) \/ Fetch(c) \/ Store(c) \/ Claims(c) \/ Handler(c)

JwksNext ==
    \/ Rotate \/ Expire
    \/ \E c \in Client : Arrive(c) \/ RequestStep(c) \/ Hang(c) \/ LateAnswer(c)

\* Requests go on and keep coming, and entries grow old; rotations, failures
\* and a provider that went silent owe nothing.
JwksFairness ==
    /\ WF_jwksVars(Expire)
    /\ \A c \in Client : WF_jwksVars(Arrive(c) \/ RequestStep(c))
-----------------------------------------------------------------------------
\* A fetch that hangs holds up its own request and nobody else's: every other
\* one reaches its handler, for the lock is free while keys are fetched.
HangsAlone ==
    \A c \in Client : (at[c] # "idle") ~> (at[c] \in {"handler", "hung"})

\* The cache goes back to an older key set only where a request held it while
\* another stored a newer one, for want of a lock around the fetch.
OlderOnlyByOverlap ==
    [][cached' < cached => \E c \in overtaken : at[c] = "store" /\ got[c] = cached']_jwksVars

\* ... and that passes: after the last rotation, expiry brings the newest keys
\* and no late answer replaces them for good, as long as some client that
\* needs them keeps coming back.
KeysConverge ==
    \A c \in Client :
      base /\ NeedsKeys(token[c]) /\ []<>(at[c] = "handler") => <>[](cached = version)
=============================================================================
