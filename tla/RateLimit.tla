----------------------------- MODULE RateLimit -----------------------------
(***************************************************************************)
(* The fixed-window rate limits: RateLimitMiddleware (pkg/middleware), one *)
(* request of a client per goroutine, and allowWSMessage of the hub.  Both *)
(* count in a Redis key that names the client and the window, INCR first   *)
(* and EXPIRE when the count is 1; one client's requests are modelled.     *)
(*                                                                         *)
(* Time advances between any two steps, so a command may arrive in a later *)
(* window than the one its request read from the clock.  A command may     *)
(* fail and be applied nevertheless, and the Redis client may have sent    *)
(* it twice when the first reply was lost.  The process may end between    *)
(* any two commands; what it had sent is done before it is gone.           *)
(***************************************************************************)
EXTENDS Naturals, FiniteSets

CONSTANTS
    Request,    \* requests of one client
    Limit,      \* requests a window admits (200; 60 in the hub)
    Window,     \* length of a window, and the TTL of its key (one minute)
    MaxTime,    \* bound: the clock
    MaxFaults   \* bound: failed or repeated commands, and ends of the process

ASSUME RateAssumption ==
    /\ IsFiniteSet(Request)
    /\ Limit \in Nat \ {0}
    /\ Window \in Nat \ {0}
    /\ MaxTime \in Nat
    /\ MaxFaults \in Nat

WindowOf(t) == t \div Window
Key == 0..WindowOf(MaxTime)

VARIABLES
    now,      \* the clock
    pc,       \* where each request is; cut: between its two commands, for ever
    stamp,    \* the window it read
    count,    \* the counter of each key; 0 for a key that does not exist
    expires,  \* when the key expires; 0 while it has no TTL
    lives,    \* history: how often each key has expired
    harmed,   \* history: keys one of whose commands failed or was repeated
    faults    \* failures so far

redisVars == <<count, expires, lives>>
vars == <<now, pc, stamp, count, expires, lives, harmed, faults>>

TypeOK ==
    /\ now \in 0..MaxTime
    /\ pc \in [Request -> {"idle", "stamped", "first", "admitted", "rejected", "cut"}]
    /\ stamp \in [Request -> Key]
    /\ count \in [Key -> 0..(Cardinality(Request) + MaxFaults)]
    /\ expires \in [Key -> 0..(MaxTime + Window)]
    /\ \A k \in Key : count[k] = 0 => expires[k] = 0
    /\ lives \in [Key -> Nat]
    /\ harmed \subseteq Key
    /\ faults \in 0..MaxFaults

Init ==
    /\ now = 0
    /\ pc = [r \in Request |-> "idle"]
    /\ stamp = [r \in Request |-> 0]
    /\ count = [k \in Key |-> 0]
    /\ expires = [k \in Key |-> 0]
    /\ lives = [k \in Key |-> 0]
    /\ harmed = {}
    /\ faults = 0

-----------------------------------------------------------------------------
\* The clock advances, and Redis drops the keys whose time has come.
Tick ==
    /\ now < MaxTime
    /\ now' = now + 1
    /\ LET gone == {k \in Key : expires[k] > 0 /\ expires[k] <= now + 1}
       IN  /\ count' = [k \in Key |-> IF k \in gone THEN 0 ELSE count[k]]
           /\ expires' = [k \in Key |-> IF k \in gone THEN 0 ELSE expires[k]]
           /\ lives' = [k \in Key |-> IF k \in gone THEN lives[k] + 1 ELSE lives[k]]
    /\ UNCHANGED <<pc, stamp, harmed, faults>>

\* time.Now().Unix() / window.
KeyOf(t) == t \div Window

\* A request reads the clock and names its key.
Arrive(r) ==
    /\ pc[r] = "idle"
    /\ pc' = [pc EXCEPT ![r] = "stamped"]
    /\ stamp' = [stamp EXCEPT ![r] = KeyOf(now)]
    /\ UNCHANGED <<now, redisVars, harmed, faults>>

\* A command on key k is done once without an error, or costs a fault.
Smooth == UNCHANGED <<harmed, faults>>
Harm(k) ==
    /\ faults < MaxFaults
    /\ faults' = faults + 1
    /\ harmed' = harmed \cup {k}

Within(c) == c <= Limit

\* Mutant: the TTL is set when the limit is reached.
SetsTTLLater(c) == c > Limit

\* EXPIRE is sent by the request that created the key.
SetsTTL(c) == c = 1

\* Where a request goes with the count INCR returned.
Judge(r, c) ==
    pc' = [pc EXCEPT ![r] = IF SetsTTL(c) THEN "first"
                            ELSE IF Within(c) THEN "admitted" ELSE "rejected"]

\* INCR.  When its reply is lost the counter has moved, and the client sends
\* it again; an error rejects the request, whether the counter moved or not.
Incr(r) ==
    LET k == stamp[r]
    IN  /\ pc[r] = "stamped"
        /\ \/ /\ count' = [count EXCEPT ![k] = @ + 1]
              /\ Judge(r, count[k] + 1)
              /\ Smooth
           \/ /\ count' = [count EXCEPT ![k] = @ + 1]
              /\ UNCHANGED pc
              /\ Harm(k)
           \/ /\ count' \in {count, [count EXCEPT ![k] = @ + 1]}
              /\ pc' = [pc EXCEPT ![r] = "rejected"]
              /\ Harm(k)
        /\ UNCHANGED <<now, stamp, expires, lives>>

\* Mutant: the TTL is half a window.
HalfTTL == now + Window \div 2

\* The whole length of a window from now on.
TTL == now + Window

\* EXPIRE, once or again after a lost reply; its error is ignored.  A key
\* that is gone stays gone.  A request with count 1 is within any limit.
Expire(r) ==
    LET k == stamp[r]
        set == IF count[k] = 0 THEN expires ELSE [expires EXCEPT ![k] = TTL]
    IN  /\ pc[r] = "first"
        /\ \/ expires' = set /\ pc' = [pc EXCEPT ![r] = "admitted"] /\ Smooth
           \/ /\ expires' \in {expires, set}
              /\ pc' \in {pc, [pc EXCEPT ![r] = "admitted"]}
              /\ Harm(k)
        /\ UNCHANGED <<now, stamp, count, lives>>

\* The process ends, with the requests it has in hand.
Exit ==
    /\ faults < MaxFaults
    /\ faults' = faults + 1
    /\ pc' = [r \in Request |-> CASE pc[r] = "stamped" -> "rejected"
                                [] pc[r] = "first"   -> "cut"
                                [] OTHER             -> pc[r]]
    /\ UNCHANGED <<now, stamp, redisVars, harmed>>

-----------------------------------------------------------------------------
Step(r) == Incr(r) \/ Expire(r)

Next == Tick \/ Exit \/ \E r \in Request : Arrive(r) \/ Step(r)

Spec == Init /\ [][Next]_vars
-----------------------------------------------------------------------------
(* Safety *)

Admitted(k) == {r \in Request : stamp[r] = k /\ pc[r] \in {"first", "admitted"}}

\* A window admits no more than Limit requests, however they overlap and
\* whatever fails; only a key that has expired counts anew, and it does so
\* for requests that read the clock in a window that is over.
LimitHolds ==
    \A k \in Key :
      /\ Cardinality(Admitted(k)) <= Limit * (1 + lives[k])
      /\ lives[k] > 0 => k < WindowOf(now)

\* A key without a TTL stays for ever.  That takes a command that failed or
\* was repeated, or a process that ended between INCR and EXPIRE: otherwise
\* some request is about to set the TTL.
LeakHasCause ==
    \A k \in Key :
      count[k] > 0 /\ expires[k] = 0 =>
        k \in harmed \/ \E r \in Request : pc[r] \in {"first", "cut"} /\ stamp[r] = k
=============================================================================
