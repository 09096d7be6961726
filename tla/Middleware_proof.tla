--------------------------- MODULE Middleware_proof ---------------------------
(***************************************************************************)
(* Proofs about the middlewares: the rate limits for any number of         *)
(* requests, any limit and any length of the window; the key cache for any *)
(* clients, tokens, rotations and failed fetches.                          *)
(***************************************************************************)
EXTENDS Middleware, FiniteSetTheorems, TLAPS

-----------------------------------------------------------------------------
(* The rate limiter *)

\* Requests that have sent their INCR for key k.
Spent(k) == {r \in Request : stamp[r] = k /\ pc[r] \notin {"idle", "stamped"}}

\* Nobody is ahead of the clock, a TTL ends behind the window of its key, and
\* a key that has expired belongs to a window that is over.
TimeInv ==
    /\ \A r \in Request : stamp[r] <= WindowOf(now)
    /\ \A k \in Key : expires[k] > 0 => k < WindowOf(expires[k])
    /\ \A k \in Key : lives[k] > 0 => k < WindowOf(now)

\* A counter is what requests and faults have made it.
CountInv == \A k \in Key : count[k] <= Cardinality(Spent(k)) + faults

\* In each finished life of its key a window admitted no more than Limit, in
\* this one no more than Limit and than the counter says.
AdmitInv ==
    \A k \in Key :
      /\ Cardinality(Admitted(k)) <= Limit * lives[k] + count[k]
      /\ Cardinality(Admitted(k)) <= Limit * lives[k] + Limit

\* TypeOK without the bound on the counters, which CountInv gives.
Types ==
    /\ now \in 0..MaxTime
    /\ pc \in [Request -> {"idle", "stamped", "first", "admitted", "rejected", "cut"}]
    /\ stamp \in [Request -> Key]
    /\ count \in [Key -> Nat]
    /\ expires \in [Key -> 0..(MaxTime + Window)]
    /\ \A k \in Key : count[k] = 0 => expires[k] = 0
    /\ lives \in [Key -> Nat]
    /\ harmed \subseteq Key
    /\ faults \in 0..MaxFaults

IInv == Types /\ TimeInv /\ CountInv /\ AdmitInv /\ LeakHasCause

-----------------------------------------------------------------------------
\* Windows follow each other in the order of time, each Window long.
LEMMA Windows ==
    ASSUME NEW t \in Nat
    PROVE  /\ WindowOf(t) \in Nat
           /\ WindowOf(t + Window) = WindowOf(t) + 1
           /\ \A s \in Nat : s <= t => WindowOf(s) <= WindowOf(t)
  <1>1. \A w \in Nat \ {0} :
          /\ t \div w \in Nat
          /\ (t + w) \div w = (t \div w) + 1
          /\ \A s \in Nat : s <= t => s \div w <= t \div w
    OBVIOUS
  <1> QED
    BY <1>1, RateAssumption DEF WindowOf

\* Counting requests, with one more among them or not.
LEMMA Counting ==
    ASSUME NEW S \in SUBSET Request, NEW r \in Request
    PROVE  /\ Cardinality(S) \in Nat
           /\ Cardinality(S) <= Cardinality(Request)
           /\ r \notin S => Cardinality(S \cup {r}) = Cardinality(S) + 1
  <1>1. IsFiniteSet(S) /\ IsFiniteSet(Request)
    BY RateAssumption, FS_Subset
  <1> QED
    BY <1>1, FS_Subset, FS_CardinalityType, FS_AddElement

\* The invariant of the counters bounds them.
LEMMA TypesToTypeOK == Types /\ CountInv => TypeOK
  <1> SUFFICES ASSUME Types, CountInv PROVE TypeOK
    OBVIOUS
  <1>1. count \in [Key -> 0..(Cardinality(Request) + MaxFaults)]
    <2>1. ASSUME NEW k \in Key PROVE count[k] \in 0..(Cardinality(Request) + MaxFaults)
      <3>1. Spent(k) \in SUBSET Request
        BY DEF Spent
      <3>2. Cardinality(Request) \in Nat /\ IsFiniteSet(Request)
        BY RateAssumption, FS_CardinalityType
      <3>3. Cardinality(Spent(k)) \in Nat /\ Cardinality(Spent(k)) <= Cardinality(Request)
        BY <3>1, <3>2, FS_Subset, FS_CardinalityType
      <3> QED
        BY <3>2, <3>3, RateAssumption DEF Types, CountInv
    <2> QED
      BY <2>1 DEF Types
  <1> QED
    BY <1>1 DEF Types, TypeOK

-----------------------------------------------------------------------------
LEMMA InitInv == Init => IInv
  <1> SUFFICES ASSUME Init PROVE IInv
    OBVIOUS
  <1>1. WindowOf(0) = 0 /\ WindowOf(MaxTime) \in Nat
    BY Windows, RateAssumption DEF WindowOf
  <1>2. Types
    BY <1>1, RateAssumption DEF Init, Types, Key
  <1>3. TimeInv
    BY <1>1 DEF Init, TimeInv, Key
  <1>4. \A k \in Key : Spent(k) = {} /\ Admitted(k) = {}
    BY DEF Init, Spent, Admitted
  <1>5. Cardinality({}) = 0
    BY FS_EmptySet
  <1>6. CountInv /\ AdmitInv
    <2>1. Limit * 0 = 0 /\ Limit \in Nat
      BY RateAssumption
    <2>2. \A k \in Key : count[k] = 0 /\ lives[k] = 0 /\ faults = 0
      BY DEF Init
    <2>3. \A k \in Key : Cardinality(Spent(k)) = 0 /\ Cardinality(Admitted(k)) = 0
      BY <1>4, <1>5, Zenon
    <2>4. ASSUME NEW k \in Key
          PROVE  /\ count[k] <= Cardinality(Spent(k)) + faults
                 /\ Cardinality(Admitted(k)) <= Limit * lives[k] + count[k]
                 /\ Cardinality(Admitted(k)) <= Limit * lives[k] + Limit
      BY <2>1, <2>2, <2>3
    <2> QED
      BY <2>4 DEF CountInv, AdmitInv
  <1>7. LeakHasCause
    BY DEF Init, LeakHasCause
  <1> QED
    BY <1>2, <1>3, <1>6, <1>7 DEF IInv

\* Each step keeps the invariant.
LEMMA StepInv == IInv /\ [Next]_vars => IInv'
  <1> SUFFICES ASSUME IInv, [Next]_vars PROVE IInv'
    OBVIOUS
  <1> USE DEF IInv
  <1>0. /\ now \in Nat /\ WindowOf(now) \in Nat
        /\ WindowOf(MaxTime) \in Nat
        /\ \A k \in Key : k \in Nat
    <2>1. now \in Nat /\ MaxTime \in Nat
      BY RateAssumption DEF Types
    <2>2. WindowOf(now) \in Nat /\ WindowOf(MaxTime) \in Nat
      BY <2>1, Windows
    <2> QED
      BY <2>1, <2>2 DEF Key
  <1>1. CASE Tick
    <2> DEFINE gone == {k \in Key : expires[k] > 0 /\ expires[k] <= now + 1}
    <2>1. /\ now < MaxTime /\ now' = now + 1
          /\ count' = [k \in Key |-> IF k \in gone THEN 0 ELSE count[k]]
          /\ expires' = [k \in Key |-> IF k \in gone THEN 0 ELSE expires[k]]
          /\ lives' = [k \in Key |-> IF k \in gone THEN lives[k] + 1 ELSE lives[k]]
          /\ UNCHANGED <<pc, stamp, harmed, faults>>
      BY <1>1 DEF Tick
    <2>2. Types'
      BY <2>1, RateAssumption DEF Types
    <2>3. TimeInv'
      <3>1. WindowOf(now + 1) \in Nat /\ WindowOf(now) <= WindowOf(now + 1)
        BY <1>0, Windows
      <3>2. \A r \in Request : stamp'[r] <= WindowOf(now')
        BY <1>0, <2>1, <3>1 DEF TimeInv, Types
      <3>3. \A k \in Key : expires'[k] > 0 => k < WindowOf(expires'[k])
        BY <2>1 DEF TimeInv
      <3>4. ASSUME NEW k \in Key, lives'[k] > 0 PROVE k < WindowOf(now')
        <4>1. CASE k \in gone
          <5>1. expires[k] \in Nat /\ expires[k] <= now + 1 /\ k < WindowOf(expires[k])
            BY <4>1, RateAssumption DEF TimeInv, Types
          <5>2. WindowOf(expires[k]) <= WindowOf(now + 1) /\ WindowOf(expires[k]) \in Nat
            BY <5>1, <1>0, Windows
          <5> QED
            BY <5>1, <5>2, <3>1, <2>1, <1>0
        <4>2. CASE k \notin gone
          BY <4>2, <2>1, <3>1, <3>4, <1>0 DEF TimeInv
        <4> QED
          BY <4>1, <4>2
      <3> QED
        BY <3>2, <3>3, <3>4 DEF TimeInv
    <2>4. \A k \in Key : Spent(k)' = Spent(k) /\ Admitted(k)' = Admitted(k)
      BY <2>1 DEF Spent, Admitted
    <2>5. \A k \in Key : Cardinality(Spent(k)) \in Nat /\ Cardinality(Admitted(k)) \in Nat
      BY RateAssumption, FS_Subset, FS_CardinalityType DEF Spent, Admitted
    <2>6. CountInv'
      BY <2>1, <2>4, <2>5 DEF CountInv, Types
    <2>7. AdmitInv'
      <3> SUFFICES ASSUME NEW k \in Key
                   PROVE  /\ Cardinality(Admitted(k)') <= Limit * lives'[k] + count'[k]
                          /\ Cardinality(Admitted(k)') <= Limit * lives'[k] + Limit
        BY DEF AdmitInv
      <3>1. CASE k \in gone
        <4>1. lives'[k] = lives[k] + 1 /\ count'[k] = 0 /\ lives[k] \in Nat
          BY <3>1, <2>1 DEF Types
        <4>2. Limit * (lives[k] + 1) = Limit * lives[k] + Limit /\ Limit * lives[k] \in Nat
          BY <4>1, RateAssumption
        <4> QED
          BY <4>1, <4>2, <2>4, <2>5, RateAssumption DEF AdmitInv
      <3>2. CASE k \notin gone
        BY <3>2, <2>1, <2>4 DEF AdmitInv
      <3> QED
        BY <3>1, <3>2
    <2>8. LeakHasCause'
      BY <2>1 DEF LeakHasCause
    <2> QED
      BY <2>2, <2>3, <2>6, <2>7, <2>8
  <1>2. ASSUME NEW r \in Request, Arrive(r) PROVE IInv'
    <2>1. WindowOf(now) \in Key /\ KeyOf(now) = WindowOf(now)
      <3>1. now <= MaxTime /\ MaxTime \in Nat
        BY RateAssumption DEF Types
      <3>2. WindowOf(now) <= WindowOf(MaxTime)
        BY <3>1, <1>0, Windows
      <3>3. KeyOf(now) = WindowOf(now)
        BY DEF KeyOf, WindowOf
      <3> QED
        BY <1>0, <3>2, <3>3 DEF Key
    <2>2. Types'
      BY <1>2, <2>1 DEF Arrive, Types, redisVars
    <2>3. TimeInv'
      BY <1>2, <2>1, <1>0 DEF Arrive, TimeInv, Types, redisVars
    <2>4. \A k \in Key : Spent(k)' = Spent(k) /\ Admitted(k)' = Admitted(k)
      BY <1>2 DEF Arrive, Spent, Admitted, Types
    <2>5. CountInv' /\ AdmitInv'
      BY <1>2, <2>4 DEF Arrive, CountInv, AdmitInv, redisVars
    <2>6. LeakHasCause'
      BY <1>2 DEF Arrive, LeakHasCause, redisVars, Types
    <2> QED
      BY <2>2, <2>3, <2>5, <2>6
  <1>3. ASSUME NEW r \in Request, Incr(r) PROVE IInv'
    <2>0. PICK k \in Key : k = stamp[r]
      BY DEF Types
    <2> DEFINE c == count[k] + 1
    <2>1. /\ count[k] \in Nat /\ pc[r] = "stamped"
          /\ UNCHANGED <<now, stamp, expires, lives>>
      BY <1>3, <2>0 DEF Incr, Types
    <2>2. \/ /\ count' = [count EXCEPT ![k] = @ + 1] /\ Judge(r, c) /\ Smooth
          \/ /\ count' = [count EXCEPT ![k] = @ + 1] /\ UNCHANGED pc /\ Harm(k)
          \/ /\ count' \in {count, [count EXCEPT ![k] = @ + 1]}
             /\ pc' = [pc EXCEPT ![r] = "rejected"] /\ Harm(k)
      BY <1>3, <2>0 DEF Incr
    <2>3. Types'
      BY <2>0, <2>1, <2>2, RateAssumption DEF Types, Judge, Smooth, Harm
    <2>4. TimeInv'
      BY <2>1 DEF TimeInv
    <2>5. \A j \in Key : /\ Cardinality(Spent(j)) \in Nat /\ Cardinality(Spent(j)') \in Nat
                         /\ Cardinality(Admitted(j)) \in Nat
      BY RateAssumption, FS_Subset, FS_CardinalityType DEF Spent, Admitted
    <2>6. \A j \in Key \ {k} : Spent(j)' = Spent(j) /\ Admitted(j)' = Admitted(j)
      BY <2>0, <2>1, <2>2 DEF Spent, Admitted, Judge, Types
    <2>7. r \notin Spent(k) /\ r \notin Admitted(k)
      BY <2>0, <2>1 DEF Spent, Admitted
    <2>8. /\ Cardinality(Spent(k) \cup {r}) = Cardinality(Spent(k)) + 1
          /\ Cardinality(Admitted(k) \cup {r}) = Cardinality(Admitted(k)) + 1
      BY <2>7, Counting DEF Spent, Admitted
    <2>9. \A j \in Key \ {k} : count'[j] = count[j] /\ lives'[j] = lives[j]
      BY <2>0, <2>1, <2>2 DEF Types
    <2>10. CountInv'
      <3>1. \/ Spent(k)' = Spent(k) \cup {r} /\ count'[k] \in {count[k], c} /\ faults' >= faults
            \/ Spent(k)' = Spent(k) /\ count'[k] = c /\ faults' = faults + 1
        BY <2>0, <2>1, <2>2 DEF Spent, Judge, Smooth, Harm, Types
      <3>2. \/ Cardinality(Spent(k)') = Cardinality(Spent(k)) + 1 /\ count'[k] \in {count[k], c} /\ faults' >= faults
            \/ Cardinality(Spent(k)') = Cardinality(Spent(k)) /\ count'[k] = c /\ faults' = faults + 1
        BY <3>1, <2>8, Zenon
      <3>5. count'[k] <= Cardinality(Spent(k)') + faults'
        <4>1. count[k] <= Cardinality(Spent(k)) + faults
          BY DEF CountInv
        <4>2. Cardinality(Spent(k)) \in Nat /\ faults \in Nat /\ faults' \in Nat
          BY <2>3, <2>5 DEF Types
        <4> QED
          BY <3>2, <4>1, <4>2, <2>1
      <3>3. faults' >= faults /\ faults \in Nat /\ faults' \in Nat
        BY <2>2, <2>3 DEF Smooth, Harm, Types
      <3>4. \A j \in Key \ {k} : count'[j] <= Cardinality(Spent(j)') + faults'
        BY <3>3, <2>5, <2>6, <2>9 DEF CountInv, Types
      <3> QED
        BY <3>4, <3>5 DEF CountInv
    <2>11. AdmitInv'
      <3>1. \/ Admitted(k)' = Admitted(k) /\ count'[k] \in {count[k], c}
            \/ Admitted(k)' = Admitted(k) \cup {r} /\ count'[k] = c /\ c <= Limit
        BY <2>0, <2>1, <2>2, RateAssumption DEF Admitted, Judge, SetsTTL, Within, Types
      <3>2. Limit * lives[k] \in Nat /\ lives'[k] = lives[k] /\ Limit \in Nat
        BY <2>1, RateAssumption DEF Types
      <3>3. /\ Cardinality(Admitted(k)') <= Limit * lives'[k] + count'[k]
            /\ Cardinality(Admitted(k)') <= Limit * lives'[k] + Limit
        <4>1. \/ Cardinality(Admitted(k)') = Cardinality(Admitted(k)) /\ count'[k] \in {count[k], c}
              \/ Cardinality(Admitted(k)') = Cardinality(Admitted(k)) + 1 /\ count'[k] = c /\ c <= Limit
          BY <3>1, <2>8, Zenon
        <4>2. /\ Cardinality(Admitted(k)) <= Limit * lives[k] + count[k]
              /\ Cardinality(Admitted(k)) <= Limit * lives[k] + Limit
              /\ Cardinality(Admitted(k)) \in Nat
          BY <2>5 DEF AdmitInv
        <4> QED
          BY <3>2, <4>1, <4>2, <2>1
      <3>4. \A j \in Key \ {k} :
              /\ Cardinality(Admitted(j)') <= Limit * lives'[j] + count'[j]
              /\ Cardinality(Admitted(j)') <= Limit * lives'[j] + Limit
        BY <2>6, <2>9 DEF AdmitInv
      <3> QED
        BY <3>3, <3>4 DEF AdmitInv
    <2>12. LeakHasCause'
      <3> SUFFICES ASSUME NEW j \in Key, count'[j] > 0, expires'[j] = 0
                   PROVE  j \in harmed' \/ \E q \in Request : pc'[q] \in {"first", "cut"} /\ stamp'[q] = j
        BY DEF LeakHasCause
      <3>1. CASE count[j] = 0
        BY <3>1, <2>0, <2>1, <2>2, <2>9 DEF Judge, SetsTTL, Harm, Types
      <3>2. CASE count[j] > 0
        BY <3>2, <2>0, <2>1, <2>2 DEF LeakHasCause, Judge, Smooth, Harm, Types
      <3> QED
        BY <3>1, <3>2 DEF Types
    <2> QED
      BY <2>3, <2>4, <2>10, <2>11, <2>12
  <1>4. ASSUME NEW r \in Request, Expire(r) PROVE IInv'
    <2> DEFINE k == stamp[r]
               set == IF count[k] = 0 THEN expires ELSE [expires EXCEPT ![k] = TTL]
    <2>1. /\ k \in Key /\ pc[r] = "first"
          /\ UNCHANGED <<now, stamp, count, lives>>
          /\ \/ expires' = set /\ pc' = [pc EXCEPT ![r] = "admitted"] /\ Smooth
             \/ /\ expires' \in {expires, set}
                /\ pc' \in {pc, [pc EXCEPT ![r] = "admitted"]}
                /\ Harm(k)
      BY <1>4 DEF Expire, Types
    <2>2. TTL \in 1..(MaxTime + Window) /\ TTL = now + Window
      BY RateAssumption DEF TTL, Types
    <2>3. Types'
      BY <2>1, <2>2, RateAssumption DEF Types, Smooth, Harm
    <2>4. TimeInv'
      <3>1. k < WindowOf(TTL)
        BY <2>1, <2>2, <1>0, Windows DEF TimeInv, Types
      <3> QED
        BY <2>1, <2>2, <3>1 DEF TimeInv, Types
    <2>5. \A j \in Key : Spent(j)' = Spent(j) /\ Admitted(j)' = Admitted(j)
      BY <2>1 DEF Spent, Admitted, Types
    <2>6. \A j \in Key : Cardinality(Spent(j)) \in Nat
      BY RateAssumption, FS_Subset, FS_CardinalityType DEF Spent
    <2>7. faults' >= faults /\ faults \in Nat /\ faults' \in Nat
      BY <2>1, <2>3 DEF Smooth, Harm, Types
    <2>8. CountInv'
      BY <2>1, <2>5, <2>6, <2>7 DEF CountInv, Types
    <2>9. AdmitInv'
      BY <2>1, <2>5 DEF AdmitInv
    <2>10. LeakHasCause'
      BY <2>1, <2>2 DEF LeakHasCause, Smooth, Harm, Types
    <2> QED
      BY <2>3, <2>4, <2>8, <2>9, <2>10
  <1>5. CASE Exit
    <2>1. /\ faults < MaxFaults /\ faults' = faults + 1
          /\ pc' = [r \in Request |-> CASE pc[r] = "stamped" -> "rejected"
                                      [] pc[r] = "first"   -> "cut"
                                      [] OTHER             -> pc[r]]
          /\ UNCHANGED <<now, stamp, count, expires, lives, harmed>>
      BY <1>5 DEF Exit, redisVars
    <2>2. Types'
      BY <2>1, RateAssumption DEF Types
    <2>3. TimeInv'
      BY <2>1 DEF TimeInv
    <2>4. \A k \in Key : Spent(k) \subseteq Spent(k)' /\ Admitted(k)' \subseteq Admitted(k)
      BY <2>1 DEF Spent, Admitted, Types
    <2>5. \A k \in Key : /\ IsFiniteSet(Spent(k)') /\ IsFiniteSet(Admitted(k))
                         /\ Cardinality(Spent(k)) \in Nat /\ Cardinality(Spent(k)') \in Nat
                         /\ Cardinality(Admitted(k)) \in Nat /\ Cardinality(Admitted(k)') \in Nat
      BY RateAssumption, FS_Subset, FS_CardinalityType DEF Spent, Admitted
    <2>6. \A k \in Key : /\ Cardinality(Spent(k)) <= Cardinality(Spent(k)')
                         /\ Cardinality(Admitted(k)') <= Cardinality(Admitted(k))
      BY <2>4, <2>5, FS_Subset
    <2>7. CountInv'
      <3> SUFFICES ASSUME NEW k \in Key PROVE count'[k] <= Cardinality(Spent(k)') + faults'
        BY DEF CountInv
      <3>1. count[k] <= Cardinality(Spent(k)) + faults /\ count[k] \in Nat /\ faults \in Nat
        BY DEF CountInv, Types
      <3> QED
        BY <2>1, <2>5, <2>6, <3>1
    <2>8. AdmitInv'
      <3> SUFFICES ASSUME NEW k \in Key
                   PROVE  /\ Cardinality(Admitted(k)') <= Limit * lives'[k] + count'[k]
                          /\ Cardinality(Admitted(k)') <= Limit * lives'[k] + Limit
        BY DEF AdmitInv
      <3>1. /\ Cardinality(Admitted(k)) <= Limit * lives[k] + count[k]
            /\ Cardinality(Admitted(k)) <= Limit * lives[k] + Limit
        BY DEF AdmitInv
      <3>2. Limit * lives[k] \in Nat /\ Limit \in Nat /\ count[k] \in Nat
        BY RateAssumption DEF Types
      <3> QED
        BY <2>1, <2>5, <2>6, <3>1, <3>2
    <2>9. LeakHasCause'
      <3> SUFFICES ASSUME NEW k \in Key, count[k] > 0, expires[k] = 0
                   PROVE  k \in harmed \/ \E r \in Request : pc'[r] \in {"first", "cut"} /\ stamp[r] = k
        BY <2>1 DEF LeakHasCause
      <3>1. k \in harmed \/ \E r \in Request : pc[r] \in {"first", "cut"} /\ stamp[r] = k
        BY DEF LeakHasCause
      <3> QED
        BY <2>1, <3>1
    <2> QED
      BY <2>2, <2>3, <2>7, <2>8, <2>9
  <1>6. CASE UNCHANGED vars
    <2>1. \A k \in Key : Spent(k)' = Spent(k) /\ Admitted(k)' = Admitted(k)
      BY <1>6 DEF vars, Spent, Admitted
    <2> QED
      BY <1>6, <2>1 DEF vars, Types, TimeInv, CountInv, AdmitInv, LeakHasCause
  <1> QED
    BY <1>1, <1>2, <1>3, <1>4, <1>5, <1>6 DEF Next, Step

-----------------------------------------------------------------------------
\* The strengthened invariant of the rate limits holds in every reachable
\* state, whatever commands fail, come late or are repeated, and wherever the
\* process ends.
THEOREM Inductive == Spec => []IInv
  BY InitInv, StepInv, PTL DEF Spec

\* The state of the limiter keeps its types; in particular a counter is never
\* more than requests and faults have made it.
THEOREM TypeCorrect == Spec => []TypeOK
  <1>1. IInv => TypeOK
    BY TypesToTypeOK DEF IInv
  <1> QED
    BY <1>1, Inductive, PTL

\* A counter without a TTL is about to get one, unless a command on its key
\* failed or was repeated, or the process ended between the two commands of
\* RateLimitMiddleware, INCR and EXPIRE.
THEOREM LeaksExplained == Spec => []LeakHasCause
  <1>1. IInv => LeakHasCause
    BY DEF IInv
  <1> QED
    BY <1>1, Inductive, PTL

\* What the invariant says of every window, of the present life and the past ones.
LEMMA LimitFollows == IInv => LimitHolds
  <1> SUFFICES ASSUME IInv, NEW k \in Key
               PROVE  /\ Cardinality(Admitted(k)) <= Limit * (1 + lives[k])
                      /\ lives[k] > 0 => k < WindowOf(now)
    BY DEF LimitHolds
  <1>1. Limit * (1 + lives[k]) = Limit * lives[k] + Limit
    BY RateAssumption DEF IInv, Types
  <1> QED
    BY <1>1 DEF IInv, AdmitInv, TimeInv

\* A window admits its limit once for each life of its key, and a key lives
\* once in its own window: with any limit, window and overlap of requests.
THEOREM WindowLimit == Spec => []LimitHolds
  BY LimitFollows, Inductive, PTL

-----------------------------------------------------------------------------
(* The key cache *)

\* JwksAssumption, for the cache of this module.
LEMMA JwksConstants == MaxVersions \in Nat \ {0} /\ MaxFaults \in Nat
  BY MiddlewareAssumption DEF Jwks!JwksAssumption

\* The phone numbers a token may bring.
LEMMA TokenPhones == \A t \in Token : t.top \in {"", "phone"} /\ t.meta \in {"", "user"}
  BY MiddlewareAssumption DEF Jwks!JwksAssumption

\* A request about to store has keys, and older ones than the cache only when
\* somebody stored since its fetch.
HeldInv ==
    \A c \in Client : at[c] = "store" =>
      got[c] >= 1 /\ (got[c] < cached => c \in overtaken)

JwksIInv == Jwks!TypeOK /\ HeldInv

\* The cache is empty and nobody has asked.
LEMMA JwksInitIInv == Jwks!JwksInit => JwksIInv
  <1> SUFFICES ASSUME Jwks!JwksInit PROVE JwksIInv
    OBVIOUS
  <1>1. /\ base \in BOOLEAN /\ version = 1 /\ cached = 0 /\ fresh = FALSE /\ token \in [Client -> Token]
        /\ at = [c \in Client |-> "idle"] /\ got = [c \in Client |-> 0]
        /\ phone = [c \in Client |-> ""] /\ overtaken = {} /\ misses = 0
    BY DEF Jwks!JwksInit
  <1>2. version \in 1..MaxVersions /\ cached \in 0..version /\ misses \in 0..MaxFaults
    <2>1. 1 \in 1..MaxVersions /\ 0 \in 0..1 /\ 0 \in 0..MaxFaults
      BY JwksConstants
    <2> QED
      BY <1>1, <2>1
  <1>3. at \in [Client -> {"idle", "parse", "lookup", "fetch", "hung", "store", "claims", "handler"}]
    BY <1>1
  <1>4. got \in [Client -> 0..version] /\ phone \in [Client -> {"", "phone", "user"}]
    <2>1. 0 \in 0..version
      <3>1. version = 1
        BY DEF Jwks!JwksInit
      <3> QED
        BY <3>1
    <2>2. [c \in Client |-> 0] \in [Client -> 0..version]
      BY <2>1
    <2>3. [c \in Client |-> ""] \in [Client -> {"", "phone", "user"}]
      OBVIOUS
    <2> QED
      BY <1>1, <2>2, <2>3
  <1>5. Jwks!TypeOK
    BY <1>1, <1>2, <1>3, <1>4 DEF Jwks!TypeOK
  <1> QED
    BY <1>1, <1>5 DEF JwksIInv, HeldInv

\* Steps that change neither keys nor cache.
LEMMA RequestKeeps ==
    ASSUME JwksIInv, NEW c \in Client,
           \/ Jwks!Arrive(c) \/ Jwks!Parse(c) \/ Jwks!Lookup(c) \/ Jwks!Hang(c)
           \/ Jwks!Claims(c) \/ Jwks!Handler(c)
    PROVE  JwksIInv' /\ UNCHANGED cached
  <1>a. /\ at \in [Client -> {"idle", "parse", "lookup", "fetch", "hung", "store", "claims", "handler"}]
        /\ phone \in [Client -> {"", "phone", "user"}] /\ token \in [Client -> Token]
    BY DEF JwksIInv, Jwks!TypeOK
  <1>1. UNCHANGED <<base, version, cached, fresh, token, got, overtaken>>
    BY DEF Jwks!Arrive, Jwks!Parse, Jwks!Lookup, Jwks!Hang, Jwks!Claims, Jwks!Handler
  <1>m. misses' \in 0..MaxFaults
    <2>1. misses \in 0..MaxFaults
      BY DEF JwksIInv, Jwks!TypeOK
    <2>2. misses' = misses \/ (misses < MaxFaults /\ misses' = misses + 1)
      BY DEF Jwks!Arrive, Jwks!Parse, Jwks!Lookup, Jwks!Hang, Jwks!Claims, Jwks!Handler
    <2> QED
      BY <2>1, <2>2, JwksConstants
  <1>2. PICK place \in {"idle", "parse", "lookup", "fetch", "hung", "claims", "handler"} :
          at' = [at EXCEPT ![c] = place]
    BY DEF Jwks!Arrive, Jwks!Parse, Jwks!Lookup, Jwks!Hang, Jwks!Claims, Jwks!Handler, Jwks!Goto,
           Jwks!WithoutKeys
  <1>3. phone' \in [Client -> {"", "phone", "user"}]
    <2>1. CASE phone' = phone
      BY <1>a, <2>1
    <2>2. CASE Jwks!Parse(c)
      BY <1>a, <2>2 DEF Jwks!Parse
    <2>3. CASE Jwks!Claims(c)
      <3>1. token[c].top \in {"", "phone"} /\ token[c].meta \in {"", "user"}
        BY <1>a, TokenPhones
      <3> QED
        BY <1>a, <2>3, <3>1 DEF Jwks!Claims
    <2> QED
      BY <2>1, <2>2, <2>3 DEF Jwks!Arrive, Jwks!Lookup, Jwks!Hang, Jwks!Handler
  <1>4. /\ at' \in [Client -> {"idle", "parse", "lookup", "fetch", "hung", "store", "claims", "handler"}]
        /\ \A d \in Client : at'[d] = "store" => at[d] = "store"
    BY <1>a, <1>2
  <1>5. Jwks!TypeOK'
    BY <1>1, <1>m, <1>3, <1>4 DEF JwksIInv, Jwks!TypeOK
  <1>6. HeldInv'
    BY <1>1, <1>4 DEF JwksIInv, HeldInv
  <1> QED
    BY <1>1, <1>5, <1>6 DEF JwksIInv

\* A fetch gets the keys of its moment, and no newer ones are in the cache.
LEMMA FetchKeeps ==
    ASSUME JwksIInv, NEW c \in Client, Jwks!Answered(c)
    PROVE  JwksIInv' /\ UNCHANGED cached
  <1>a. /\ at \in [Client -> {"idle", "parse", "lookup", "fetch", "hung", "store", "claims", "handler"}]
        /\ got \in [Client -> 0..version] /\ version \in 1..MaxVersions /\ cached \in 0..version
        /\ misses \in 0..MaxFaults /\ overtaken \subseteq Client
    BY DEF JwksIInv, Jwks!TypeOK
  <1>1. /\ UNCHANGED <<base, version, cached, fresh, token, phone>> /\ overtaken' = overtaken \ {c}
    BY DEF Jwks!Answered
  <1>2. PICK place \in {"store", "claims"} : at' = [at EXCEPT ![c] = place]
    BY DEF Jwks!Answered, Jwks!Goto, Jwks!WithoutKeys
  <1>3. /\ at' \in [Client -> {"idle", "parse", "lookup", "fetch", "hung", "store", "claims", "handler"}]
        /\ at'[c] = place /\ \A d \in Client \ {c} : at'[d] = at[d]
    BY <1>a, <1>2
  <1>4. /\ got' \in [Client -> 0..version] /\ \A d \in Client \ {c} : got'[d] = got[d]
        /\ at'[c] = "store" => got'[c] = version
        /\ misses' \in 0..MaxFaults
    <2>1. CASE got' = [got EXCEPT ![c] = version] /\ UNCHANGED misses
      <3>1. version \in 0..version
        BY <1>a, JwksConstants
      <3> QED
        BY <1>a, <2>1, <3>1
    <2>2. CASE misses < MaxFaults /\ misses' = misses + 1 /\ at' = [at EXCEPT ![c] = "claims"] /\ UNCHANGED got
      <3>1. misses' \in 0..MaxFaults
        BY <1>a, <2>2, JwksConstants
      <3>2. at'[c] # "store"
        BY <1>a, <2>2
      <3> QED
        BY <1>a, <2>2, <3>1, <3>2
    <2> QED
      BY <2>1, <2>2 DEF Jwks!Answered, Jwks!Goto, Jwks!WithoutKeys
  <1>5. Jwks!TypeOK'
    BY <1>a, <1>1, <1>3, <1>4 DEF JwksIInv, Jwks!TypeOK
  <1>6. HeldInv'
    <2> SUFFICES ASSUME NEW d \in Client, at'[d] = "store"
                 PROVE  got'[d] >= 1 /\ (got'[d] < cached => d \in overtaken')
      BY <1>1 DEF HeldInv
    <2>1. CASE d = c
      BY <1>a, <1>4, <2>1, JwksConstants
    <2>2. CASE d # c
      BY <1>1, <1>3, <1>4, <2>2 DEF JwksIInv, HeldInv
    <2> QED
      BY <2>1, <2>2
  <1> QED
    BY <1>1, <1>5, <1>6 DEF JwksIInv

\* Who stores makes all others that hold keys overtaken.
LEMMA StoreKeeps ==
    ASSUME JwksIInv, NEW c \in Client, Jwks!Store(c)
    PROVE  JwksIInv' /\ cached' = got[c] /\ at[c] = "store"
  <1>a. /\ at \in [Client -> {"idle", "parse", "lookup", "fetch", "hung", "store", "claims", "handler"}]
        /\ got \in [Client -> 0..version] /\ overtaken \subseteq Client
    BY DEF JwksIInv, Jwks!TypeOK
  <1>1. /\ UNCHANGED <<base, version, token, got, phone, misses>> /\ at[c] = "store"
        /\ cached' = got[c] /\ fresh' = TRUE
        /\ overtaken' = overtaken \cup {d \in Client : at[d] = "store"}
        /\ at' = [at EXCEPT ![c] = "claims"]
    BY DEF Jwks!Store, Jwks!Goto
  <1>2. /\ at' \in [Client -> {"idle", "parse", "lookup", "fetch", "hung", "store", "claims", "handler"}]
        /\ \A d \in Client : at'[d] = "store" => at[d] = "store" /\ d \in overtaken'
    BY <1>a, <1>1
  <1>3. got[c] \in 0..version /\ got[c] # 0
    BY <1>a, <1>1 DEF JwksIInv, HeldInv
  <1>4. Jwks!TypeOK'
    BY <1>a, <1>1, <1>2, <1>3 DEF JwksIInv, Jwks!TypeOK
  <1>5. HeldInv'
    BY <1>1, <1>2 DEF JwksIInv, HeldInv
  <1> QED
    BY <1>1, <1>4, <1>5 DEF JwksIInv

\* Every step of the cache and its requests keeps the invariant, and puts older
\* keys into the cache only for a request that was overtaken.
LEMMA JwksStep ==
    ASSUME JwksIInv, Jwks!JwksNext \/ UNCHANGED jwksVars
    PROVE  /\ JwksIInv'
           /\ cached' < cached => \E c \in overtaken : at[c] = "store" /\ got[c] = cached'
  <1>0. version \in 1..MaxVersions /\ cached \in 0..version
    BY DEF JwksIInv, Jwks!TypeOK
  <1>a. cached \in Nat /\ version \in 1..MaxVersions
    BY <1>0, JwksConstants
  <1>b. ~(cached < cached)
    BY <1>a
  <1>1. CASE Jwks!Rotate
    <2>1. /\ version' = version + 1 /\ version < MaxVersions
          /\ UNCHANGED <<base, cached, fresh, token, at, got, phone, overtaken, misses>>
      BY <1>1 DEF Jwks!Rotate
    <2>2. version' \in 1..MaxVersions /\ \A i \in 0..version : i \in 0..version'
      BY <1>a, <2>1, JwksConstants
    <2>3. got' \in [Client -> 0..version']
      BY <2>1, <2>2 DEF JwksIInv, Jwks!TypeOK
    <2>4. Jwks!TypeOK'
      BY <2>1, <2>2, <2>3 DEF JwksIInv, Jwks!TypeOK
    <2>5. HeldInv'
      BY <2>1 DEF JwksIInv, HeldInv
    <2> QED
      BY <1>b, <2>1, <2>4, <2>5 DEF JwksIInv
  <1>2. CASE Jwks!Expire \/ UNCHANGED jwksVars
    <2>1. /\ fresh' \in {fresh, FALSE}
          /\ UNCHANGED <<base, version, cached, token, at, got, phone, overtaken, misses>>
      BY <1>2 DEF Jwks!Expire, jwksVars
    <2>2. fresh' \in BOOLEAN /\ (fresh' => cached # 0)
      <3>1. fresh \in BOOLEAN /\ (fresh => cached # 0)
        BY DEF JwksIInv, Jwks!TypeOK
      <3>2. CASE fresh' = fresh
        BY <3>1, <3>2
      <3>3. CASE fresh' = FALSE
        BY <3>3
      <3> QED
        BY <2>1, <3>2, <3>3
    <2>3. Jwks!TypeOK'
      BY <2>1, <2>2 DEF JwksIInv, Jwks!TypeOK
    <2>4. HeldInv'
      BY <2>1 DEF JwksIInv, HeldInv
    <2> QED
      BY <1>b, <2>1, <2>3, <2>4 DEF JwksIInv
  <1>3. ASSUME NEW c \in Client,
               Jwks!Arrive(c) \/ Jwks!RequestStep(c) \/ Jwks!Hang(c) \/ Jwks!LateAnswer(c)
        PROVE  /\ JwksIInv'
               /\ cached' < cached => \E d \in overtaken : at[d] = "store" /\ got[d] = cached'
    <2>1. CASE Jwks!Store(c)
      <3>1. JwksIInv' /\ cached' = got[c] /\ at[c] = "store"
        BY <2>1, StoreKeeps
      <3>2. got[c] < cached => c \in overtaken
        BY <3>1 DEF JwksIInv, HeldInv
      <3> QED
        BY <3>1, <3>2
    <2>2. CASE ~Jwks!Store(c)
      <3>1. JwksIInv' /\ cached' = cached
        BY <1>3, <2>2, RequestKeeps, FetchKeeps DEF Jwks!RequestStep, Jwks!Fetch, Jwks!LateAnswer
      <3> QED
        BY <1>b, <3>1
    <2> QED
      BY <2>1, <2>2
  <1> QED
    BY <1>1, <1>2, <1>3 DEF Jwks!JwksNext

-----------------------------------------------------------------------------
(* The two together *)

\* The inductive invariants of both middlewares.
MiddlewareIInv == IInv /\ JwksIInv

\* They hold whichever middleware runs.
THEOREM MiddlewareInductive == MiddlewareSpec => []MiddlewareIInv
  <1>1. MiddlewareInit => MiddlewareIInv
    BY InitInv, JwksInitIInv DEF MiddlewareInit, MiddlewareIInv
  <1>2. MiddlewareIInv /\ [MiddlewareNext]_<<part, vars, jwksVars>> => MiddlewareIInv'
    <2> SUFFICES ASSUME MiddlewareIInv, [MiddlewareNext]_<<part, vars, jwksVars>>
                 PROVE  MiddlewareIInv'
      OBVIOUS
    <2>1. (Next \/ UNCHANGED vars) /\ (Jwks!JwksNext \/ UNCHANGED jwksVars)
      BY DEF MiddlewareNext
    <2> QED
      BY <2>1, StepInv, JwksStep DEF MiddlewareIInv
  <1> QED
    BY <1>1, <1>2, PTL DEF MiddlewareSpec

\* The states of both middlewares are what they should be, and a counter stays
\* without a TTL only if a command on its key failed or was repeated, or the
\* process ended between INCR and EXPIRE.
THEOREM MiddlewareIsRight == MiddlewareSpec => []MiddlewareInv
  <1>1. MiddlewareIInv => MiddlewareInv
    BY TypesToTypeOK DEF MiddlewareIInv, IInv, JwksIInv, MiddlewareInv
  <1> QED
    BY <1>1, MiddlewareInductive, PTL

\* loadJWKSKeys puts older keys back only where a request held them while another
\* stored its own, for any number of requests, rotations and failures.
THEOREM OlderKeysOnlyByOverlap == MiddlewareSpec => OlderOnlyByOverlap
  <1>1. ASSUME MiddlewareIInv, [MiddlewareNext]_<<part, vars, jwksVars>>
        PROVE  cached' < cached => \E c \in overtaken : at[c] = "store" /\ got[c] = cached'
    <2>1. Jwks!JwksNext \/ UNCHANGED jwksVars
      BY <1>1 DEF MiddlewareNext
    <2> QED
      BY <1>1, <2>1, JwksStep DEF MiddlewareIInv
  <1> QED
    BY <1>1, MiddlewareInductive, PTL DEF MiddlewareSpec, OlderOnlyByOverlap, Jwks!OlderOnlyByOverlap

\* fixedWindowAllow keeps its limit beside AuthMiddleware as it does alone.
THEOREM LimitHoldsBesideKeys == MiddlewareSpec => []LimitHolds
  <1>1. MiddlewareIInv => LimitHolds
    BY LimitFollows DEF MiddlewareIInv
  <1> QED
    BY <1>1, MiddlewareInductive, PTL
=============================================================================
