---------------------------- MODULE Workers_proof ----------------------------
(***************************************************************************)
(* Proofs about the parts whose goroutines share channels: groupFanout for *)
(* lists of any length, any batch size and any number of workers; the      *)
(* notification pool for any number of workers, messages and attempts and  *)
(* any capacity; the hub of pkg/ws for any connections, users and room.    *)
(***************************************************************************)
EXTENDS Workers, FiniteSetTheorems, SequenceTheorems, TLAPS

-----------------------------------------------------------------------------
(* groupFanout *)

\* What is left of a worker's batch, and the workers the WaitGroup counts.
Rest(w) == at[w]..upto[w]
Live    == {w \in Worker : worker[w] \notin {"unborn", "exited"}}

\* Only a worker in its loop has something left, and one that serves somebody
\* serves the first of it.
IdleInv ==
    \A w \in Worker :
      /\ worker[w] \in {"unborn", "ready", "receive", "exited"} => at[w] > upto[w]
      /\ worker[w] = "serving" => at[w] <= upto[w]

\* The recipients before next are served or left with exactly one worker.
PartInv ==
    /\ next >= 1
    /\ \A u \in served : u < next
    /\ \A w \in Worker : \A u \in Rest(w) :
         /\ 1 <= u /\ u < next /\ u \notin served
         /\ \A v \in Worker \ {w} : u \notin Rest(v)
    /\ \A u \in 1..n : u < next => u \in served \/ \E w \in Worker : u \in Rest(w)

\* The channel is closed behind the last batch, and nobody leaves before.
PhaseInv ==
    /\ main \in {"wait", "returned"} => next > n
    /\ open <=> main \in {"spawn", "feed"}
    /\ \A w \in Worker : worker[w] = "exited" => ~open

\* The WaitGroup counts the workers that were started and have not left.
CountInv == wg = Cardinality(Live)

\* The caller starts as many workers as it means to, and at least one.
StartInv ==
    /\ Cardinality(Started) <= Workers
    /\ main # "spawn" => Cardinality(Started) = Workers

IInv == TypeOK /\ IdleInv /\ PartInv /\ PhaseInv /\ CountInv /\ StartInv /\ NoWorkerLeft

-----------------------------------------------------------------------------
\* Counting one worker more or less.
LEMMA LiveCount ==
    ASSUME NEW S \in SUBSET Worker, NEW w \in Worker
    PROVE  /\ Cardinality(S) \in 0..WorkerCount
           /\ w \notin S => Cardinality(S \cup {w}) = Cardinality(S) + 1
           /\ w \in S => Cardinality(S \ {w}) = Cardinality(S) - 1
           /\ Cardinality(S) = 0 => S = {}
  <1>1. IsFiniteSet(S) /\ IsFiniteSet(Worker)
    BY FanoutAssumption, FS_Subset
  <1>2. Cardinality(S) \in Nat /\ Cardinality(S) <= Cardinality(Worker)
    BY <1>1, FS_Subset, FS_CardinalityType
  <1>3. w \notin S => Cardinality(S \cup {w}) = Cardinality(S) + 1
    BY <1>1, FS_AddElement
  <1>4. w \in S => Cardinality(S \ {w}) = Cardinality(S) - 1
    BY <1>1, FS_RemoveElement
  <1>5. Cardinality(S) = 0 => S = {}
    BY <1>1, FS_EmptySet
  <1>6. Cardinality(S) \in 0..WorkerCount
    BY <1>2, FanoutAssumption
  <1> QED
    BY <1>3, <1>4, <1>5, <1>6

\* The last recipient of a batch: not behind the list, not before its first.
LEMMA EndOfBatch ==
    ASSUME n \in Nat, next \in Nat, 1 <= next, next <= n
    PROVE  End \in next..n /\ End < next + BatchSize /\ \A u \in 1..n : u < next + BatchSize => u <= End
  BY FanoutAssumption DEF End

\* There is a worker for each batch, but never none nor more than allowed.
LEMMA WorkersMeant == n \in Nat => Workers \in 1..WorkerCount
  <1> SUFFICES ASSUME n \in Nat PROVE Workers \in 1..WorkerCount
    OBVIOUS
  <1>1. Batches \in Int
    BY FanoutAssumption DEF Batches
  <1> QED
    BY <1>1, FanoutAssumption DEF Workers

\* The invariant holds initially: nobody is started, nothing is served.
LEMMA InitIInv == Init => IInv
  <1> SUFFICES ASSUME Init PROVE IInv
    OBVIOUS
  <1>1. worker \in [Worker -> {"unborn", "ready", "receive", "next", "serving", "exited"}]
    BY DEF Init
  <1>2. n \in 0..MaxRecipients /\ open \in BOOLEAN /\ wg \in 0..WorkerCount
    BY FanoutAssumption DEF Init
  <1>3. at \in [Worker -> Nat] /\ upto \in [Worker -> 0..n]
    BY FanoutAssumption DEF Init
  <1>4. TypeOK
    BY <1>1, <1>2, <1>3 DEF Init, TypeOK
  <1>5. IdleInv /\ PartInv /\ PhaseInv /\ NoWorkerLeft
    BY DEF Init, IdleInv, PartInv, PhaseInv, NoWorkerLeft, Rest
  <1>6. CountInv
    <2>1. Live = {}
      BY DEF Init, Live
    <2> QED
      BY <2>1, FS_EmptySet DEF Init, CountInv
  <1>7. StartInv
    <2>1. Started = {} /\ main = "spawn"
      BY DEF Init, Started
    <2>2. Workers \in 1..WorkerCount
      BY <1>2, WorkersMeant, FanoutAssumption
    <2>3. Cardinality(Started) = 0
      BY <2>1, FS_EmptySet
    <2> QED
      BY <2>1, <2>2, <2>3, FanoutAssumption DEF StartInv
  <1> QED
    BY <1>4, <1>5, <1>6, <1>7 DEF IInv

\* The WaitGroup stays the number of live workers: it goes up with a start
\* and down with the end of a range, and at no other time.
LEMMA CountPreserved == IInv /\ [Next]_vars => CountInv'
  <1> SUFFICES ASSUME IInv, [Next]_vars PROVE CountInv'
    OBVIOUS
  <1> USE DEF IInv, TypeOK, CountInv
  <1>1. ASSUME NEW w \in Worker, Spawn(w) PROVE CountInv'
    <2>1. w \notin Live /\ Live' = Live \cup {w}
      BY <1>1 DEF Spawn, Live
    <2>2. wg' = wg + 1
      BY <1>1 DEF Spawn, Added
    <2>3. Live \in SUBSET Worker
      BY DEF Live
    <2> QED
      BY <2>1, <2>2, <2>3, LiveCount
  <1>2. ASSUME NEW w \in Worker, Exit(w) PROVE CountInv'
    <2>1. w \in Live /\ Live' = Live \ {w}
      BY <1>2 DEF Exit, Live
    <2>2. wg' = wg - 1
      BY <1>2 DEF Exit
    <2>3. Live \in SUBSET Worker
      BY DEF Live
    <2> QED
      BY <2>1, <2>2, <2>3, LiveCount
  <1>3. ASSUME NEW w \in Worker, Feed(w) \/ Receive(w) \/ Deliver(w) \/ Delivered(w)
        PROVE  CountInv'
    <2>1. Live' = Live
      BY <1>3 DEF Feed, Receive, Deliver, Delivered, Live
    <2> QED
      BY <1>3, <2>1 DEF Feed, Receive, Deliver, Delivered
  <1>4. CASE Spawned \/ Close \/ Return \/ UNCHANGED vars
    BY <1>4 DEF Spawned, Close, Return, vars, Live
  <1> QED
    BY <1>1, <1>2, <1>3, <1>4 DEF Next, MainStep, WorkerStep

\* Every step keeps the types; a batch ends within the list.
LEMMA TypePreserved == IInv /\ [Next]_vars => TypeOK'
  <1> SUFFICES ASSUME IInv, [Next]_vars PROVE TypeOK'
    OBVIOUS
  <1>0. wg' \in 0..WorkerCount
    <2>1. Live' \in SUBSET Worker
      BY DEF Live
    <2>2. Cardinality(Live') \in 0..WorkerCount
      <3>1. CASE Worker = {}
        BY <2>1, <3>1, FS_EmptySet, FanoutAssumption
      <3>2. CASE Worker # {}
        BY <2>1, <3>2, LiveCount
      <3> QED
        BY <3>1, <3>2
    <2> QED
      BY <2>2, CountPreserved DEF CountInv
  <1> USE FanoutAssumption DEF IInv, TypeOK
  <1>1. ASSUME NEW w \in Worker, Spawn(w) PROVE TypeOK'
    BY <1>0, <1>1 DEF Spawn
  <1>2. ASSUME NEW w \in Worker, Feed(w) PROVE TypeOK'
    <2>1. End \in 0..n
      BY <1>2, EndOfBatch DEF Feed, PartInv
    <2> QED
      BY <1>0, <1>2, <2>1 DEF Feed
  <1>3. CASE Spawned \/ Close \/ Return
    BY <1>0, <1>3 DEF Spawned, Close, Return, OpenAfterFeed
  <1>4. ASSUME NEW w \in Worker, Receive(w) \/ Deliver(w) \/ Exit(w) PROVE TypeOK'
    BY <1>0, <1>4 DEF Receive, Deliver, Exit
  <1>5. ASSUME NEW w \in Worker, Delivered(w) PROVE TypeOK'
    <2>1. at[w] <= upto[w] /\ at[w] \in Nat /\ upto[w] \in 0..n
      BY <1>5 DEF Delivered, IdleInv
    <2>2. at[w] \in Rest(w)
      BY <2>1 DEF Rest
    <2>3. 1 <= at[w]
      BY <2>2 DEF PartInv
    <2>4. at[w] \in 1..n
      BY <2>1, <2>3
    <2>5. served' \subseteq 1..n
      BY <1>5, <2>4 DEF Delivered
    <2>6. at' \in [Worker -> Nat]
      BY <1>5, <2>1 DEF Delivered
    <2>7. worker' \in [Worker -> {"unborn", "ready", "receive", "next", "serving", "exited"}]
      BY <1>5 DEF Delivered
    <2> QED
      BY <1>0, <1>5, <2>5, <2>6, <2>7 DEF Delivered
  <1>6. CASE UNCHANGED vars
    BY <1>6 DEF vars
  <1> QED
    BY <1>1, <1>2, <1>3, <1>4, <1>5, <1>6 DEF Next, MainStep, WorkerStep

\* A worker enters its loop with a batch and leaves it with nothing left.
LEMMA IdlePreserved == IInv /\ [Next]_vars => IdleInv'
  <1> SUFFICES ASSUME IInv, [Next]_vars PROVE IdleInv'
    OBVIOUS
  <1> USE FanoutAssumption DEF IInv, TypeOK, IdleInv
  <1>1. ASSUME NEW w \in Worker, Spawn(w) \/ Feed(w) PROVE IdleInv'
    BY <1>1 DEF Spawn, Feed
  <1>2. CASE Spawned \/ Close \/ Return
    BY <1>2 DEF Spawned, Close, Return
  <1>3. ASSUME NEW w \in Worker, Receive(w) \/ Deliver(w) \/ Delivered(w) \/ Exit(w)
        PROVE  IdleInv'
    BY <1>3 DEF Receive, Deliver, Delivered, Exit
  <1>4. CASE UNCHANGED vars
    BY <1>4 DEF vars
  <1> QED
    BY <1>1, <1>2, <1>3, <1>4 DEF Next, MainStep, WorkerStep

\* A batch moves the recipients from next on to one worker, which moves them
\* to those served one by one.
LEMMA PartPreserved == IInv /\ [Next]_vars => PartInv'
  <1> SUFFICES ASSUME IInv, [Next]_vars PROVE PartInv'
    OBVIOUS
  <1> USE FanoutAssumption DEF IInv, TypeOK
  <1>1. ASSUME NEW w \in Worker, Feed(w) PROVE PartInv'
    <2>1. Rest(w) = {} /\ Rest(w)' = next..End
      BY <1>1 DEF Feed, IdleInv, Rest
    <2>2. \A v \in Worker \ {w} : Rest(v)' = Rest(v)
      BY <1>1 DEF Feed, Rest
    <2>3. End \in next..n /\ End < next + BatchSize
            /\ \A u \in 1..n : u < next + BatchSize => u <= End
      BY <1>1, EndOfBatch DEF Feed, PartInv
    <2>4. next' = next + BatchSize /\ served' = served /\ n' = n
      BY <1>1 DEF Feed
    <2>5. next' >= 1 /\ \A u \in served' : u < next'
      BY <2>4 DEF PartInv
    <2>6. ASSUME NEW u \in Rest(w)'
          PROVE  1 <= u /\ u < next' /\ u \notin served' /\ \A v \in Worker \ {w} : u \notin Rest(v)'
      <3>1. u \in Nat /\ next <= u /\ u < next + BatchSize
        BY <2>1, <2>3
      <3>2. u \notin served
        BY <3>1 DEF PartInv
      <3>3. \A v \in Worker \ {w} : u \notin Rest(v)
        BY <3>1 DEF PartInv
      <3>4. 1 <= u
        BY <3>1 DEF PartInv
      <3> QED
        BY <3>1, <3>2, <3>3, <3>4, <2>2, <2>4
    <2>7. ASSUME NEW v \in Worker, v # w, NEW u \in Rest(v)'
          PROVE  1 <= u /\ u < next' /\ u \notin served' /\ \A x \in Worker \ {v} : u \notin Rest(x)'
      <3>1. u \in Rest(v) /\ u \in Nat
        <4>1. u \in Rest(v)
          BY <2>2, <2>7
        <4>2. at[v] \in Nat /\ upto[v] \in Nat
          BY <2>7
        <4> QED
          BY <4>1, <4>2 DEF Rest
      <3>2. 1 <= u /\ u < next /\ u \notin served /\ \A x \in Worker \ {v} : u \notin Rest(x)
        BY <3>1 DEF PartInv
      <3>3. u \notin Rest(w)'
        BY <2>6, <2>7
      <3>4. u < next + BatchSize
        BY <3>1, <3>2
      <3> QED
        BY <2>2, <2>4, <3>2, <3>3, <3>4
    <2>8. ASSUME NEW u \in 1..n, u < next'
          PROVE  u \in served' \/ \E v \in Worker : u \in Rest(v)'
      <3>1. CASE u >= next
        BY <2>1, <2>3, <2>4, <2>8, <3>1
      <3>2. CASE u < next
        BY <2>1, <2>2, <2>4, <3>2 DEF PartInv
      <3> QED
        BY <3>1, <3>2
    <2> QED
      BY <2>4, <2>5, <2>6, <2>7, <2>8 DEF PartInv
  <1>2. ASSUME NEW w \in Worker, Delivered(w) PROVE PartInv'
    <2>1. at[w] \in Rest(w) /\ Rest(w)' = Rest(w) \ {at[w]}
      BY <1>2 DEF Delivered, IdleInv, Rest
    <2>2. \A v \in Worker \ {w} : Rest(v)' = Rest(v)
      BY <1>2 DEF Delivered, Rest
    <2>3. next' = next /\ n' = n /\ served' = served \cup {at[w]}
      BY <1>2 DEF Delivered
    <2> QED
      BY <2>1, <2>2, <2>3 DEF PartInv
  <1>3. ASSUME n' = n, next' = next, served' = served, at' = at, upto' = upto
        PROVE  PartInv'
    BY <1>3 DEF PartInv, Rest
  <1>4. CASE Spawned \/ Close \/ Return \/ UNCHANGED vars
    BY <1>3, <1>4 DEF Spawned, Close, Return, vars
  <1>5. ASSUME NEW w \in Worker, Spawn(w) \/ Receive(w) \/ Deliver(w) \/ Exit(w) PROVE PartInv'
    BY <1>3, <1>5 DEF Spawn, Receive, Deliver, Exit
  <1> QED
    BY <1>1, <1>2, <1>4, <1>5 DEF Next, MainStep, WorkerStep

\* The channel is closed once, after the last batch.
LEMMA PhasePreserved == IInv /\ [Next]_vars => PhaseInv'
  <1> SUFFICES ASSUME IInv, [Next]_vars PROVE PhaseInv'
    OBVIOUS
  <1> USE DEF IInv, TypeOK, PhaseInv
  <1>1. ASSUME NEW w \in Worker, Spawn(w) \/ Feed(w) PROVE PhaseInv'
    BY <1>1, FanoutAssumption DEF Spawn, Feed
  <1>2. CASE Spawned \/ Close \/ Return
    BY <1>2 DEF Spawned, Close, Return, OpenAfterFeed
  <1>3. ASSUME NEW w \in Worker, Receive(w) \/ Deliver(w) \/ Delivered(w) \/ Exit(w)
        PROVE  PhaseInv'
    BY <1>3 DEF Receive, Deliver, Delivered, Exit
  <1>4. CASE UNCHANGED vars
    BY <1>4 DEF vars
  <1> QED
    BY <1>1, <1>2, <1>3, <1>4 DEF Next, MainStep, WorkerStep

\* Return needs a WaitGroup at zero: nobody is live then, and nobody is
\* started after.
LEMMA NoWorkerPreserved == IInv /\ [Next]_vars => NoWorkerLeft'
  <1> SUFFICES ASSUME IInv, [Next]_vars, main' = "returned", NEW w \in Worker
               PROVE  worker'[w] \in {"unborn", "exited"}
    BY DEF NoWorkerLeft
  <1>1. CASE Return
    <2>1. Live \in SUBSET Worker /\ Cardinality(Live) = 0
      BY <1>1 DEF Return, Live, IInv, CountInv
    <2>2. Live = {}
      BY <2>1, LiveCount
    <2> QED
      BY <1>1, <2>2 DEF Return, Live
  <1>2. CASE main = "returned"
    BY <1>2 DEF IInv, NoWorkerLeft, Next, MainStep, WorkerStep, Spawn, Spawned, Feed, Close,
                Return, Receive, Deliver, Delivered, Exit, vars
  <1>3. Return \/ main = "returned"
    BY DEF Next, MainStep, WorkerStep, Spawn, Spawned, Feed, Close, Receive, Deliver,
           Delivered, Exit, vars
  <1> QED
    BY <1>1, <1>2, <1>3

\* The caller goes on to its batches with all its workers started.
LEMMA StartPreserved == IInv /\ [Next]_vars => StartInv'
  <1> SUFFICES ASSUME IInv, [Next]_vars PROVE StartInv'
    OBVIOUS
  <1> USE DEF IInv, StartInv
  <1>a. Workers \in Nat /\ Workers' = Workers
    <2>1. n \in Nat /\ n' = n
      BY FanoutAssumption DEF TypeOK, Next, MainStep, WorkerStep, Spawn, Spawned, Feed, Close,
         Return, Receive, Deliver, Delivered, Exit, vars
    <2> QED
      BY <2>1, WorkersMeant, FanoutAssumption DEF Workers, Batches
  <1>1. ASSUME NEW w \in Worker, Spawn(w) PROVE StartInv'
    <2>1. Started \in SUBSET Worker /\ w \notin Started /\ Started' = Started \cup {w}
      BY <1>1 DEF Spawn, Started, TypeOK
    <2>2. Cardinality(Started') = Cardinality(Started) + 1 /\ Cardinality(Started) \in Nat
      BY <2>1, LiveCount, FanoutAssumption
    <2>3. main = "spawn" /\ main' = main /\ Cardinality(Started) < Workers
      BY <1>1 DEF Spawn
    <2> QED
      BY <1>a, <2>2, <2>3
  <1>2. ASSUME Started' = Started, main = "spawn" => main' = "spawn" PROVE StartInv'
    BY <1>a, <1>2
  <1>3. CASE Spawned
    BY <1>a, <1>3 DEF Spawned, Started
  <1>4. CASE Close \/ Return \/ UNCHANGED vars
    BY <1>2, <1>4 DEF Close, Return, Started, vars
  <1>5. ASSUME NEW w \in Worker, Feed(w) \/ WorkerStep(w) PROVE StartInv'
    <2>1. Started' = Started
      BY <1>5 DEF TypeOK, Started, Feed, WorkerStep, Receive, Deliver, Delivered, Exit
    <2>2. main = "spawn" => main' = "spawn"
      BY <1>5 DEF Feed, WorkerStep, Receive, Deliver, Delivered, Exit
    <2> QED
      BY <1>2, <2>1, <2>2
  <1> QED
    BY <1>1, <1>3, <1>4, <1>5 DEF Next, MainStep

-----------------------------------------------------------------------------
\* The strengthened invariant of groupFanout.
THEOREM Inductive == Spec => []IInv
  <1>1. IInv /\ [Next]_vars => IInv'
    BY TypePreserved, IdlePreserved, PartPreserved, PhasePreserved, CountPreserved,
       StartPreserved, NoWorkerPreserved DEF IInv
  <1> QED
    BY InitIInv, <1>1, PTL DEF Spec

\* The state of the caller, the channel and the workers keeps its types.
THEOREM TypeCorrect == Spec => []TypeOK
  <1>1. IInv => TypeOK
    BY DEF IInv
  <1> QED
    BY Inductive, <1>1, PTL

\* When groupFanout returns, every worker it started has left.
THEOREM NoGoroutineLeaks == Spec => []NoWorkerLeft
  <1>1. IInv => NoWorkerLeft
    BY DEF IInv
  <1> QED
    BY Inductive, <1>1, PTL

\* Main waits for the WaitGroup only while somebody lives, and for a receiver
\* only while somebody was started and nobody has left.
THEOREM NeverWaitsForNobody == Spec => []FanoutInv
  <1>1. IInv => NeverStuck
    <2> SUFFICES ASSUME IInv, main # "returned" PROVE CanGoOn
      BY DEF NeverStuck
    <2> USE DEF IInv
    <2>0. Started \in SUBSET Worker /\ Live \in SUBSET Worker
      BY DEF Started, Live
    <2>a. Workers \in 1..WorkerCount /\ WorkerCount \in Nat
      BY WorkersMeant, FanoutAssumption DEF TypeOK
    <2>b. ASSUME NEW w \in Worker, worker[w] \notin {"unborn", "exited"}, worker[w] # "receive"
          PROVE  CanGoOn
      BY <2>b DEF CanGoOn, TypeOK
    <2>1. CASE main = "spawn"
      <3>1. Cardinality(Started) <= Workers /\ Cardinality(Started) \in Nat
        <4>1. Cardinality(Started) \in Nat
          BY <2>0, FS_Subset, FS_CardinalityType, FanoutAssumption
        <4> QED
          BY <4>1 DEF StartInv
      <3>2. Started = Worker => Cardinality(Started) = WorkerCount
        BY FanoutAssumption
      <3>3. Started = Worker => Cardinality(Started) = Workers
        BY <2>a, <3>1, <3>2
      <3>4. Cardinality(Started) = Workers \/ (Cardinality(Started) < Workers /\ Started # Worker)
        BY <2>a, <3>1, <3>3
      <3> QED
        BY <2>1, <3>4 DEF CanGoOn
    <2>2. CASE main = "feed"
      <3>1. Started # {}
        BY <2>2, <2>a, FS_EmptySet DEF StartInv
      <3>2. PICK w \in Worker : worker[w] # "unborn"
        BY <3>1 DEF Started
      <3>3. worker[w] # "exited"
        BY <2>2 DEF PhaseInv
      <3>4. CASE worker[w] = "receive"
        BY <2>2, <3>4 DEF CanGoOn
      <3> QED
        BY <2>b, <3>2, <3>3, <3>4
    <2>3. CASE main = "wait"
      <3>1. CASE wg = 0
        BY <2>3, <3>1 DEF CanGoOn
      <3>2. CASE wg # 0
        <4>1. Live # {}
          BY <3>2, FS_EmptySet DEF CountInv
        <4>2. PICK w \in Worker : worker[w] \notin {"unborn", "exited"}
          BY <4>1 DEF Live
        <4>3. ~open
          BY <2>3 DEF PhaseInv
        <4>4. CASE worker[w] = "receive"
          BY <4>3, <4>4 DEF CanGoOn
        <4> QED
          BY <2>b, <4>2, <4>4
      <3> QED
        BY <3>1, <3>2
    <2> QED
      BY <2>1, <2>2, <2>3 DEF TypeOK
  <1>2. IInv => FanoutInv
    BY <1>1 DEF IInv, FanoutInv
  <1> QED
    BY Inductive, <1>2, PTL

-----------------------------------------------------------------------------
(* No goroutine goes round in circles *)

\* Who is being served is one of the list, not served yet, and nobody else's.
LEMMA ServedAlone ==
    ASSUME IInv, NEW w \in Worker, worker[w] = "serving"
    PROVE  /\ at[w] \in 1..n /\ at[w] \notin served
           /\ \A v \in Worker \ {w} : at[w] \notin Rest(v)
  <1> USE DEF IInv, TypeOK
  <1>1. at[w] <= upto[w] /\ at[w] \in Nat /\ upto[w] \in 0..n
    BY DEF IdleInv
  <1>2. at[w] \in Rest(w)
    BY <1>1 DEF Rest
  <1>3. 1 <= at[w] /\ at[w] \notin served /\ \A v \in Worker \ {w} : at[w] \notin Rest(v)
    BY <1>2 DEF PartInv
  <1> QED
    BY <1>1, <1>3

\* The order of the tuples, place by place.
LEMMA PlaceByPlace ==
    ASSUME NEW s, NEW t,
           \/ s[1] < t[1]
           \/ s[1] = t[1] /\ s[2] < t[2]
           \/ s[1] = t[1] /\ s[2] = t[2] /\ s[3] < t[3]
           \/ s[1] = t[1] /\ s[2] = t[2] /\ s[3] = t[3] /\ s[4] < t[4]
           \/ s[1] = t[1] /\ s[2] = t[2] /\ s[3] = t[3] /\ s[4] = t[4] /\ s[5] < t[5]
    PROVE  Below(s, t)
  <1>1. ASSUME NEW i \in 1..5, s[i] < t[i], \A j \in 1..(i - 1) : s[j] = t[j]
        PROVE  Below(s, t)
    BY <1>1 DEF Below
  <1>2. CASE s[1] < t[1]
    <2>1. 1 \in 1..5 /\ \A j \in 1..(1 - 1) : FALSE
      OBVIOUS
    <2>2. s[1] < t[1] /\ \A j \in 1..(1 - 1) : s[j] = t[j]
      BY <1>2, <2>1
    <2> QED
      BY <1>1, <2>1, <2>2
  <1>3. CASE s[1] = t[1] /\ s[2] < t[2]
    <2>1. 2 \in 1..5 /\ \A j \in 1..(2 - 1) : j = 1
      OBVIOUS
    <2>2. s[2] < t[2] /\ \A j \in 1..(2 - 1) : s[j] = t[j]
      BY <1>3, <2>1
    <2> QED
      BY <1>1, <2>1, <2>2
  <1>4. CASE s[1] = t[1] /\ s[2] = t[2] /\ s[3] < t[3]
    <2>1. 3 \in 1..5 /\ \A j \in 1..(3 - 1) : j = 1 \/ j = 2
      OBVIOUS
    <2>2. s[3] < t[3] /\ \A j \in 1..(3 - 1) : s[j] = t[j]
      BY <1>4, <2>1
    <2> QED
      BY <1>1, <2>1, <2>2
  <1>5. CASE s[1] = t[1] /\ s[2] = t[2] /\ s[3] = t[3] /\ s[4] < t[4]
    <2>1. 4 \in 1..5 /\ \A j \in 1..(4 - 1) : j = 1 \/ j = 2 \/ j = 3
      OBVIOUS
    <2>2. s[4] < t[4] /\ \A j \in 1..(4 - 1) : s[j] = t[j]
      BY <1>5, <2>1
    <2> QED
      BY <1>1, <2>1, <2>2
  <1>6. CASE s[1] = t[1] /\ s[2] = t[2] /\ s[3] = t[3] /\ s[4] = t[4] /\ s[5] < t[5]
    <2>1. 5 \in 1..5 /\ \A j \in 1..(5 - 1) : j = 1 \/ j = 2 \/ j = 3 \/ j = 4
      OBVIOUS
    <2>2. s[5] < t[5] /\ \A j \in 1..(5 - 1) : s[j] = t[j]
      BY <1>6, <2>1
    <2> QED
      BY <1>1, <2>1, <2>2
  <1> QED
    BY <1>2, <1>3, <1>4, <1>5, <1>6

\* What is left is counted by natural numbers.
Counted ==
    /\ MainLeft \in Nat /\ ListLeft \in Nat /\ WorkersLeft \in Nat
    /\ Cardinality(WorkersIn({"unborn"})) \in Nat
    /\ Cardinality((1..n) \ served) \in Nat
    /\ LeftToDo \in [1..5 -> Nat]

LEMMA LeftIsCounted == TypeOK => Counted
  <1> SUFFICES ASSUME TypeOK PROVE Counted
    OBVIOUS
  <1>1. \A S : Cardinality(WorkersIn(S)) \in Nat
    <2> SUFFICES ASSUME NEW S PROVE Cardinality(WorkersIn(S)) \in Nat
      OBVIOUS
    <2>1. WorkersIn(S) \in SUBSET Worker
      BY DEF WorkersIn
    <2> QED
      BY <2>1, FS_Subset, FS_CardinalityType, FanoutAssumption
  <1>2. Cardinality((1..n) \ served) \in Nat
    <2>1. IsFiniteSet(1..n)
      BY FS_Interval, FanoutAssumption DEF TypeOK
    <2> QED
      BY <2>1, FS_Subset, FS_CardinalityType
  <1>3. MainLeft \in Nat
    BY DEF MainLeft
  <1>4. ListLeft \in Nat
    BY FanoutAssumption DEF ListLeft, TypeOK
  <1>5. WorkersLeft \in Nat
    BY <1>1 DEF WorkersLeft
  <1>6. LeftToDo \in [1..5 -> Nat]
    BY <1>1, <1>2, <1>3, <1>4, <1>5 DEF LeftToDo
  <1> QED
    BY <1>1, <1>2, <1>3, <1>4, <1>5, <1>6 DEF Counted

\* A worker that goes on is nearer to the end of its way, and at no other's
\* expense.
LEMMA WorkerNearer ==
    ASSUME TypeOK, NEW w \in Worker, NEW place, worker' = [worker EXCEPT ![w] = place],
           \/ worker[w] \in {"ready", "next"} /\ place \in {"receive", "serving"}
           \/ worker[w] = "receive" /\ place = "exited"
    PROVE  WorkersLeft' < WorkersLeft /\ WorkersIn({"unborn"})' = WorkersIn({"unborn"})
  <1> DEFINE A == WorkersIn({"ready", "next"})
             B == WorkersIn({"ready", "next", "receive", "serving"})
  <1>a. worker \in [Worker -> {"unborn", "ready", "receive", "next", "serving", "exited"}]
    BY DEF TypeOK
  <1>b. A \in SUBSET Worker /\ B \in SUBSET Worker
    BY DEF WorkersIn
  <1>c. Cardinality(A) \in Nat /\ Cardinality(B) \in Nat
    BY <1>b, FS_Subset, FS_CardinalityType, FanoutAssumption
  <1>d. WorkersLeft' = Cardinality(A') + Cardinality(B') /\ WorkersLeft = Cardinality(A) + Cardinality(B)
    BY DEF WorkersLeft
  <1>1. CASE worker[w] \in {"ready", "next"} /\ place \in {"receive", "serving"}
    <2>1. w \in A /\ A' = A \ {w} /\ B' = B
      BY <1>a, <1>1 DEF WorkersIn
    <2>2. Cardinality(A') = Cardinality(A) - 1 /\ Cardinality(B') = Cardinality(B)
      BY <1>b, <2>1, LiveCount
    <2> QED
      BY <1>a, <1>c, <1>d, <1>1, <2>2 DEF WorkersIn
  <1>2. CASE worker[w] = "receive" /\ place = "exited"
    <2>1. w \in B /\ B' = B \ {w} /\ A' = A
      BY <1>a, <1>2 DEF WorkersIn
    <2>2. Cardinality(B') = Cardinality(B) - 1 /\ Cardinality(A') = Cardinality(A)
      BY <1>b, <2>1, LiveCount
    <2> QED
      BY <1>a, <1>c, <1>d, <1>2, <2>2 DEF WorkersIn
  <1> QED
    BY <1>1, <1>2

\* Every step of groupFanout leaves less to do: with NeverWaitsForNobody, it
\* returns for any list, any size of the batches and any number of workers.
THEOREM EndsAfterAll == Spec => EveryStepCounts
  <1>1. IInv /\ Counted /\ Counted' /\ Next
          => Below(LeftToDo', LeftToDo) /\ LeftToDo \in [1..5 -> Nat]
    <2> SUFFICES ASSUME IInv, Counted, Counted', Next
                 PROVE  Below(LeftToDo', LeftToDo) /\ LeftToDo \in [1..5 -> Nat]
      OBVIOUS
    <2> DEFINE Unborn == Cardinality(WorkersIn({"unborn"}))
               Unserved == Cardinality((1..n) \ served)
    <2>a. Unborn \in Nat /\ Unserved \in Nat /\ LeftToDo \in [1..5 -> Nat]
      BY DEF Counted
    <2>b. /\ LeftToDo[1] = MainLeft /\ LeftToDo[2] = Unborn /\ LeftToDo[3] = ListLeft
          /\ LeftToDo[4] = Unserved /\ LeftToDo[5] = WorkersLeft
          /\ LeftToDo'[1] = MainLeft' /\ LeftToDo'[2] = Unborn' /\ LeftToDo'[3] = ListLeft'
          /\ LeftToDo'[4] = Unserved' /\ LeftToDo'[5] = WorkersLeft'
      BY DEF LeftToDo
    <2>c. /\ worker \in [Worker -> {"unborn", "ready", "receive", "next", "serving", "exited"}]
          /\ n \in Nat /\ next \in Nat
      BY FanoutAssumption DEF IInv, TypeOK
    <2> HIDE DEF Unborn, Unserved
    <2>1. CASE Spawned \/ Close \/ Return
      <3>1. MainLeft' < MainLeft
        BY <2>1 DEF Spawned, Close, Return, MainLeft
      <3> QED
        BY <3>1, <2>a, <2>b, PlaceByPlace
    <2>2. ASSUME NEW w \in Worker, Spawn(w) PROVE Below(LeftToDo', LeftToDo)
      <3>1. WorkersIn({"unborn"}) \in SUBSET Worker
        BY DEF WorkersIn
      <3>2. w \in WorkersIn({"unborn"}) /\ WorkersIn({"unborn"})' = WorkersIn({"unborn"}) \ {w}
        BY <2>2, <2>c DEF Spawn, WorkersIn
      <3>3. Unborn' = Unborn - 1
        BY <3>1, <3>2, LiveCount DEF Unborn
      <3>4. MainLeft' = MainLeft
        BY <2>2 DEF Spawn, MainLeft
      <3>5. Unborn' < Unborn
        BY <2>a, <3>3
      <3> QED
        BY <3>4, <3>5, <2>b, PlaceByPlace
    <2>3. ASSUME NEW w \in Worker, Feed(w) PROVE Below(LeftToDo', LeftToDo)
      <3>1. WorkersIn({"unborn"})' = WorkersIn({"unborn"})
        BY <2>3, <2>c DEF Feed, WorkersIn
      <3>2. next <= n /\ next' = next + BatchSize /\ n' = n /\ BatchSize \in Nat \ {0}
        BY <2>3, FanoutAssumption DEF Feed
      <3>3. ListLeft = n + 1 - next /\ ListLeft' = IF next' > n THEN 0 ELSE n + 1 - next'
        BY <2>c, <3>2 DEF ListLeft
      <3>4. ListLeft' < ListLeft
        BY <2>c, <3>2, <3>3
      <3>5. MainLeft' = MainLeft
        BY <2>3 DEF Feed, MainLeft
      <3>6. Unborn' = Unborn
        BY <3>1 DEF Unborn
      <3> QED
        BY <3>4, <3>5, <3>6, <2>b, PlaceByPlace
    <2>4. ASSUME NEW w \in Worker, Receive(w) \/ Deliver(w) \/ Exit(w)
          PROVE  Below(LeftToDo', LeftToDo)
      <3>1. PICK place : /\ worker' = [worker EXCEPT ![w] = place]
                         /\ \/ worker[w] \in {"ready", "next"} /\ place \in {"receive", "serving"}
                            \/ worker[w] = "receive" /\ place = "exited"
        BY <2>4 DEF Receive, Deliver, Exit
      <3>2. WorkersLeft' < WorkersLeft /\ WorkersIn({"unborn"})' = WorkersIn({"unborn"})
        BY <3>1, WorkerNearer DEF IInv
      <3>3. UNCHANGED <<main, n, next, served>>
        BY <2>4 DEF Receive, Deliver, Exit
      <3>4. MainLeft' = MainLeft /\ Unborn' = Unborn /\ ListLeft' = ListLeft /\ Unserved' = Unserved
        BY <3>2, <3>3 DEF MainLeft, ListLeft, Unborn, Unserved
      <3> QED
        BY <3>2, <3>4, <2>b, PlaceByPlace
    <2>5. ASSUME NEW w \in Worker, Delivered(w) PROVE Below(LeftToDo', LeftToDo)
      <3>1. at[w] \in 1..n /\ at[w] \notin served
        BY <2>5, ServedAlone DEF Delivered
      <3>2. ((1..n) \ served)' = ((1..n) \ served) \ {at[w]}
        BY <2>5 DEF Delivered
      <3>3. Unserved' = Unserved - 1
        <4>1. IsFiniteSet(1..n)
          BY <2>c, FS_Interval
        <4>2. IsFiniteSet((1..n) \ served) /\ at[w] \in (1..n) \ served
          BY <3>1, <4>1, FS_Subset
        <4>3. Cardinality(((1..n) \ served) \ {at[w]}) = Cardinality((1..n) \ served) - 1
          BY <4>2, FS_RemoveElement
        <4> QED
          BY <3>2, <4>3 DEF Unserved
      <3>4. WorkersIn({"unborn"})' = WorkersIn({"unborn"})
        BY <2>5, <2>c DEF Delivered, WorkersIn
      <3>5. MainLeft' = MainLeft /\ Unborn' = Unborn /\ ListLeft' = ListLeft
        BY <2>5, <3>4 DEF Delivered, MainLeft, ListLeft, Unborn
      <3>6. Unserved' < Unserved
        BY <2>a, <3>3
      <3> QED
        BY <3>5, <3>6, <2>b, PlaceByPlace
    <2> QED
      BY <2>a, <2>1, <2>2, <2>3, <2>4, <2>5 DEF Next, MainStep, WorkerStep
  <1>2. IInv => Counted
    BY LeftIsCounted DEF IInv
  <1> QED
    BY Inductive, <1>1, <1>2, PTL DEF Spec, EveryStepCounts

-----------------------------------------------------------------------------
(* The workers implement AnyOrder *)

\* deliverToRecipient is called for one who waited.
LEMMA DeliverBegins ==
    ASSUME IInv, NEW w \in Worker, Deliver(w), main # "returned"
    PROVE  at[w] \in 1..n /\ Service!Begin(at[w])
  <1> USE DEF IInv, TypeOK
  <1>1. at[w] \in Rest(w) /\ at[w] \in 1..n
    <2>1. at[w] <= upto[w] /\ at[w] \in Nat /\ upto[w] \in 0..n
      BY DEF Deliver
    <2>2. at[w] \in Rest(w)
      BY <2>1 DEF Rest
    <2>3. 1 <= at[w]
      BY <2>2 DEF PartInv
    <2> QED
      BY <2>1, <2>2, <2>3
  <1>2. at[w] \notin served /\ \A v \in Worker \ {w} : at[w] \notin Rest(v)
    BY <1>1 DEF PartInv
  <1>3. at[w] \notin Busy
    <2> SUFFICES ASSUME NEW v \in Worker, worker[v] = "serving", at[v] = at[w] PROVE FALSE
      BY DEF Busy
    <2>1. v # w
      BY DEF Deliver
    <2>2. at[v] \notin Rest(w)
      BY <2>1, ServedAlone
    <2> QED
      BY <1>1, <2>2
  <1>4. Busy' = Busy \cup {at[w]}
    BY DEF Deliver, Busy
  <1>5. n' = n /\ served' = served /\ main' = main
    BY DEF Deliver
  <1> QED
    BY <1>1, <1>2, <1>3, <1>4, <1>5 DEF Service!Begin

\* When it returns, that recipient has been served, and nobody else.
LEMMA DeliveredEnds ==
    ASSUME IInv, NEW w \in Worker, Delivered(w), main # "returned"
    PROVE  at[w] \in 1..n /\ Service!End(at[w])
  <1> USE DEF IInv, TypeOK
  <1>1. worker[w] = "serving" /\ n' = n /\ served' = served \cup {at[w]} /\ main' = main
    BY DEF Delivered
  <1>2. at[w] \in 1..n
    BY <1>1, ServedAlone
  <1>3. at[w] \in Busy
    BY <1>1 DEF Busy
  <1>4. Busy' = Busy \ {at[w]}
    <2>1. \A v \in Worker \ {w} : at'[v] = at[v] /\ worker'[v] = worker[v]
      BY DEF Delivered
    <2>2. worker'[w] # "serving"
      BY DEF Delivered
    <2>3. ASSUME NEW v \in Worker \ {w}, worker[v] = "serving" PROVE at[v] # at[w]
      <3>1. at[w] \notin Rest(v)
        BY <1>1, ServedAlone
      <3>2. at[v] <= upto[v] /\ at[v] \in Nat /\ upto[v] \in Nat
        BY <2>3 DEF IdleInv
      <3>3. at[v] \in Rest(v)
        BY <3>2 DEF Rest
      <3> QED
        BY <3>1, <3>3
    <2>4. Busy' \subseteq Busy \ {at[w]}
      BY <2>1, <2>2, <2>3 DEF Busy
    <2>5. Busy \ {at[w]} \subseteq Busy'
      BY <2>1 DEF Busy
    <2> QED
      BY <2>4, <2>5
  <1> QED
    BY <1>1, <1>2, <1>3, <1>4 DEF Service!End

\* groupFanout returns with everybody served.
LEMMA ReturnReturns == ASSUME IInv, Return PROVE Service!Return
  <1> USE DEF IInv, TypeOK
  <1>1. Live = {}
    <2>1. Live \in SUBSET Worker /\ Cardinality(Live) = 0
      BY DEF Return, Live, CountInv
    <2>2. CASE Worker = {}
      BY <2>1, <2>2
    <2>3. CASE Worker # {}
      BY <2>1, <2>3, LiveCount
    <2> QED
      BY <2>2, <2>3
  <1>2. Busy = {} /\ Busy' = Busy
    BY <1>1 DEF Return, Busy, Live
  <1>3. \A w \in Worker : at[w] > upto[w]
    BY <1>1 DEF Live, IdleInv
  <1>4. \A w \in Worker : Rest(w) = {}
    BY <1>3 DEF Rest
  <1>5. next > n
    BY DEF Return, PhaseInv
  <1>6. 1..n \subseteq served
    BY <1>4, <1>5 DEF PartInv
  <1>7. n' = n /\ served' = served /\ main = "wait" /\ main' = "returned"
    BY DEF Return
  <1> QED
    BY <1>2, <1>6, <1>7 DEF Service!Return

\* No recipient is skipped or served twice, for lists of any length and any
\* number of workers: groupFanout implements AnyOrder.
THEOREM Refinement == Spec => ImplementsAnyOrder
  <1>1. Init => Service!Init
    <2> SUFFICES ASSUME Init PROVE Service!Init
      OBVIOUS
    <2>1. Busy = {}
      BY DEF Init, Busy
    <2>2. 1..n \subseteq Recipient
      BY FanoutAssumption DEF Init, Recipient
    <2>3. (main = "returned") = FALSE
      BY DEF Init
    <2> QED
      BY <2>1, <2>2, <2>3 DEF Service!Init
  <1>2. IInv /\ [Next]_vars => [Service!Next]_(Service!vars)
    <2> SUFFICES ASSUME IInv, [Next]_vars PROVE [Service!Next]_(Service!vars)
      OBVIOUS
    <2>0. 1..n \subseteq Recipient
      BY FanoutAssumption DEF IInv, TypeOK, Recipient
    <2>1. ASSUME NEW w \in Worker, Deliver(w) \/ Delivered(w)
          PROVE  main # "returned"
      BY <2>1 DEF IInv, NoWorkerLeft, Deliver, Delivered
    <2>2. ASSUME NEW w \in Worker, Deliver(w) PROVE Service!Next
      <3>1. at[w] \in Recipient /\ Service!Begin(at[w])
        BY <2>0, <2>1, <2>2, DeliverBegins
      <3> QED
        BY <3>1 DEF Service!Next
    <2>3. ASSUME NEW w \in Worker, Delivered(w) PROVE Service!Next
      <3>1. at[w] \in Recipient /\ Service!End(at[w])
        BY <2>0, <2>1, <2>3, DeliveredEnds
      <3> QED
        BY <3>1 DEF Service!Next
    <2>4. CASE Return
      BY <2>4, ReturnReturns DEF Service!Next
    <2>5. ASSUME NEW w \in Worker, Spawn(w) \/ Feed(w) \/ Receive(w) \/ Exit(w)
          PROVE  UNCHANGED Service!vars
      <3>1. n' = n /\ served' = served /\ main' = main
        BY <2>5 DEF Spawn, Feed, Receive, Exit
      <3>2. Busy' = Busy
        BY <2>5 DEF Spawn, Feed, Receive, Exit, Busy, IInv, TypeOK
      <3> QED
        BY <3>1, <3>2 DEF Service!vars
    <2>6. CASE Spawned \/ Close
      BY <2>6 DEF Spawned, Close, Service!vars, Busy
    <2>7. CASE UNCHANGED vars
      BY <2>7 DEF vars, Service!vars, Busy
    <2> QED
      BY <2>2, <2>3, <2>4, <2>5, <2>6, <2>7 DEF Next, MainStep, WorkerStep
  <1> QED
    BY Inductive, <1>1, <1>2, PTL DEF Spec, ImplementsAnyOrder, Service!Spec

-----------------------------------------------------------------------------
(* Sequences, and what is assumed of the parts *)

\* What Append does to the places of a channel.
LEMMA Appended ==
    ASSUME NEW S, NEW q \in Seq(S), NEW x \in S
    PROVE  /\ Append(q, x) \in Seq(S) /\ Len(Append(q, x)) = Len(q) + 1 /\ Len(q) \in Nat
           /\ DOMAIN q = 1..Len(q) /\ DOMAIN Append(q, x) = 1..(Len(q) + 1)
           /\ Append(q, x)[Len(q) + 1] = x /\ \A i \in DOMAIN q : Append(q, x)[i] = q[i]
  <1>1. /\ Append(q, x) \in Seq(S) /\ Len(Append(q, x)) = Len(q) + 1
        /\ Append(q, x)[Len(q) + 1] = x /\ \A i \in 1..Len(q) : Append(q, x)[i] = q[i]
    BY AppendProperties
  <1>2. Len(q) \in Nat /\ DOMAIN q = 1..Len(q) /\ DOMAIN Append(q, x) = 1..Len(Append(q, x))
    BY <1>1, LenProperties
  <1> QED
    BY <1>1, <1>2

\* What is left of a channel when its head was taken.
LEMMA TailLeft ==
    ASSUME NEW S, NEW q \in Seq(S), q # <<>>
    PROVE  /\ Len(q) \in Nat \ {0} /\ DOMAIN q = 1..Len(q) /\ Head(q) = q[1] /\ q[1] \in S
           /\ Tail(q) \in Seq(S) /\ Len(Tail(q)) = Len(q) - 1 /\ DOMAIN Tail(q) = 1..(Len(q) - 1)
           /\ \A i \in DOMAIN Tail(q) : i + 1 \in DOMAIN q /\ i + 1 # 1 /\ Tail(q)[i] = q[i + 1]
  <1>1. /\ Head(q) \in S /\ Tail(q) \in Seq(S) /\ Len(Tail(q)) = Len(q) - 1
        /\ \A i \in 1..Len(Tail(q)) : Tail(q)[i] = q[i + 1]
    BY HeadTailProperties
  <1>2. /\ Len(q) \in Nat /\ DOMAIN q = 1..Len(q) /\ DOMAIN Tail(q) = 1..Len(Tail(q))
        /\ Len(Tail(q)) \in Nat /\ Head(q) = q[1]
    BY <1>1, LenProperties
  <1> QED
    BY <1>1, <1>2

\* PoolAssumption, for the pool of this module.
LEMMA PoolConstants == Message # {} /\ Capacity \in Nat /\ Attempts \in Nat \ {0}
  BY WorkersAssumption DEF Pool!PoolAssumption

-----------------------------------------------------------------------------
(* The notification pool *)

Occupied(w) == sender[w] \in {"send", "pause"}

\* A message is queued once and waits for its first attempt.
JobsInv ==
    /\ \A i, j \in DOMAIN jobs : i # j => jobs[i] # jobs[j]
    /\ \A i \in DOMAIN jobs :
         /\ jobs[i] \in offered \ refused /\ failures[jobs[i]] = 0
         /\ \A w \in Sender : Occupied(w) => held[w] # jobs[i]

\* A busy worker has a message of its own, with attempts left when it posts.
HeldInv ==
    \A w \in Sender : Occupied(w) =>
      /\ held[w] \in offered \ refused
      /\ sender[w] = "send" => failures[held[w]] < Attempts
      /\ \A v \in Sender \ {w} : Occupied(v) => held[v] # held[w]

\* Where an accepted message is.
Kept(m) ==
    \/ \E i \in DOMAIN jobs : jobs[i] = m
    \/ \E w \in Sender : Occupied(w) /\ held[w] = m
    \/ m \in posted \/ failures[m] = Attempts \/ cancelled

PoolIInv ==
    /\ Pool!TypeOK /\ JobsInv /\ HeldInv
    /\ \A m \in Message \ offered : failures[m] = 0
    /\ \A m \in offered \ refused : Kept(m)
    /\ stop = "returned" => Pool!AllDone

USE DEF Occupied

\* Nothing is offered and nobody is busy yet.
LEMMA PoolInitIInv == Pool!PoolInit => PoolIInv
  <1> SUFFICES ASSUME Pool!PoolInit PROVE PoolIInv
    OBVIOUS
  <1>1. held \in [Sender -> Message]
    <2>1. (CHOOSE m \in Message : TRUE) \in Message
      BY PoolConstants
    <2>2. held = [w \in Sender |-> CHOOSE m \in Message : TRUE]
      BY DEF Pool!PoolInit
    <2> QED
      BY <2>1, <2>2
  <1>2. /\ jobs = <<>> /\ offered = {} /\ refused = {} /\ posted = {} /\ cancelled = FALSE
        /\ sender = [w \in Sender |-> "select"] /\ failures = [m \in Message |-> 0]
        /\ stop = "not called"
    BY DEF Pool!PoolInit
  <1>3. jobs \in Seq(Message) /\ Len(jobs) = 0 /\ DOMAIN jobs = {}
    <2>1. jobs \in Seq(Message) /\ Len(jobs) = 0
      BY <1>2, EmptySeq
    <2> QED
      BY <2>1, LenProperties
  <1>c. 0 \in 0..Attempts /\ 0 <= Capacity
    BY PoolConstants
  <1>4. failures \in [Message -> 0..Attempts] /\ Len(jobs) <= Capacity
    BY <1>2, <1>3, <1>c
  <1>5. Pool!TypeOK
    BY <1>1, <1>2, <1>3, <1>4 DEF Pool!TypeOK
  <1>6. JobsInv /\ HeldInv
    BY <1>2, <1>3 DEF JobsInv, HeldInv
  <1> QED
    BY <1>2, <1>5, <1>6 DEF PoolIInv

\* Enqueue: the message is new, so nobody has it.
LEMMA EnqueueKeeps == ASSUME PoolIInv, NEW m \in Message, Pool!Enqueue(m) PROVE PoolIInv'
  <1>1. /\ m \notin offered /\ offered' = offered \cup {m} /\ refused \subseteq offered /\ failures[m] = 0
        /\ UNCHANGED <<sender, held, failures, posted, cancelled, stop>>
    BY DEF Pool!Enqueue, PoolIInv, Pool!TypeOK
  <1>2. CASE Len(jobs) < Capacity /\ jobs' = Append(jobs, m) /\ UNCHANGED refused
    <2>1. /\ jobs \in Seq(Message) /\ jobs' \in Seq(Message) /\ Len(jobs') = Len(jobs) + 1
          /\ DOMAIN jobs = 1..Len(jobs) /\ DOMAIN jobs' = 1..(Len(jobs) + 1)
          /\ jobs'[Len(jobs) + 1] = m /\ \A i \in DOMAIN jobs : jobs'[i] = jobs[i]
          /\ Len(jobs) \in Nat
      <3>1. jobs \in Seq(Message) /\ jobs' = Append(jobs, m)
        BY <1>2 DEF PoolIInv, Pool!TypeOK
      <3> QED
        BY <3>1, Appended
    <2>2. Pool!TypeOK'
      <3>1. Len(jobs') <= Capacity
        BY <1>2, <2>1, PoolConstants
      <3> QED
        BY <1>1, <1>2, <2>1, <3>1 DEF PoolIInv, Pool!TypeOK
    <2>3. \A w \in Sender : Occupied(w) => held[w] # m
      BY <1>1 DEF PoolIInv, HeldInv
    <2>4. \A i \in DOMAIN jobs : jobs[i] # m
      BY <1>1 DEF PoolIInv, JobsInv
    <2>5. JobsInv'
      <3>1. \A i \in DOMAIN jobs' : i \in DOMAIN jobs \/ (i = Len(jobs) + 1 /\ jobs'[i] = m)
        BY <2>1
      <3>2. \A i, j \in DOMAIN jobs' : i # j => jobs'[i] # jobs'[j]
        BY <2>1, <2>4, <3>1 DEF PoolIInv, JobsInv
      <3>3. ASSUME NEW i \in DOMAIN jobs'
            PROVE  /\ jobs'[i] \in offered' \ refused' /\ failures[jobs'[i]] = 0
                   /\ \A w \in Sender : Occupied(w) => held[w] # jobs'[i]
        BY <1>1, <1>2, <2>1, <2>3, <3>1, <3>3 DEF PoolIInv, JobsInv
      <3> QED
        BY <1>1, <3>2, <3>3 DEF JobsInv
    <2>6. HeldInv'
      BY <1>1, <1>2 DEF PoolIInv, HeldInv
    <2>7. \A k \in offered' \ refused' : Kept(k)'
      BY <1>1, <1>2, <2>1 DEF PoolIInv, Kept
    <2> QED
      BY <1>1, <2>2, <2>5, <2>6, <2>7 DEF PoolIInv, Pool!AllDone
  <1>3. CASE Len(jobs) = Capacity /\ refused' = refused \cup {m} /\ UNCHANGED jobs
    <2>1. offered' \ refused' = offered \ refused
      BY <1>1, <1>3
    <2>2. Pool!TypeOK'
      BY <1>1, <1>3, <2>1 DEF PoolIInv, Pool!TypeOK
    <2>3. JobsInv' /\ HeldInv'
      BY <1>1, <1>3, <2>1 DEF PoolIInv, JobsInv, HeldInv
    <2>4. \A k \in offered' \ refused' : Kept(k)'
      BY <1>1, <1>3, <2>1 DEF PoolIInv, Kept
    <2> QED
      BY <1>1, <2>2, <2>3, <2>4 DEF PoolIInv, Pool!AllDone
  <1> QED
    BY <1>2, <1>3 DEF Pool!Enqueue

\* A worker takes the head of the queue, which then nobody else has.
LEMMA TakeKeeps == ASSUME PoolIInv, NEW w \in Sender, Pool!Take(w) PROVE PoolIInv'
  <1>1. /\ sender[w] = "select" /\ jobs # <<>> /\ jobs' = Tail(jobs)
        /\ held' = [held EXCEPT ![w] = Head(jobs)] /\ sender' = [sender EXCEPT ![w] = "send"]
        /\ UNCHANGED <<offered, refused, failures, posted, cancelled, stop>>
    BY DEF Pool!Take, Pool!At
  <1>a. jobs \in Seq(Message)
    BY DEF PoolIInv, Pool!TypeOK
  <1>2. /\ Len(jobs) \in Nat \ {0} /\ Head(jobs) = jobs[1]
        /\ DOMAIN jobs = 1..Len(jobs) /\ 1 \in DOMAIN jobs /\ jobs[1] \in Message
    BY <1>1, <1>a, TailLeft
  <1>3. /\ jobs' \in Seq(Message) /\ Len(jobs') = Len(jobs) - 1
        /\ DOMAIN jobs' = 1..(Len(jobs) - 1)
        /\ \A i \in DOMAIN jobs' : i + 1 \in DOMAIN jobs /\ i + 1 # 1 /\ jobs'[i] = jobs[i + 1]
    BY <1>1, <1>a, TailLeft
  <1>4. Pool!TypeOK'
    <2>a. Len(jobs) <= Capacity
      BY DEF PoolIInv, Pool!TypeOK
    <2>1. Len(jobs') <= Capacity
      <3>1. Len(jobs) \in Nat /\ Len(jobs') = Len(jobs) - 1
        BY <1>2, <1>3
      <3> QED
        BY <2>a, <3>1, PoolConstants
    <2>2. held' \in [Sender -> Message]
      BY <1>1, <1>2 DEF PoolIInv, Pool!TypeOK
    <2>3. sender' \in [Sender -> {"select", "send", "pause", "gone"}]
      BY <1>1, <1>2 DEF PoolIInv, Pool!TypeOK
    <2>4. jobs' \in Seq(Message)
      BY <1>3
    <2>5. /\ offered' \subseteq Message /\ refused' \subseteq offered' /\ posted' \subseteq offered' \ refused'
          /\ failures' \in [Message -> 0..Attempts] /\ cancelled' \in BOOLEAN
          /\ stop' \in {"not called", "waits", "returned"}
      BY <1>1 DEF PoolIInv, Pool!TypeOK
    <2> QED
      BY <2>1, <2>2, <2>3, <2>4, <2>5 DEF Pool!TypeOK
  <1>5. /\ \A v \in Sender \ {w} : sender'[v] = sender[v] /\ held'[v] = held[v]
        /\ sender'[w] = "send" /\ held'[w] = jobs[1]
    BY <1>1, <1>2 DEF PoolIInv, Pool!TypeOK
  <1>6. JobsInv'
    <2>1. \A i, j \in DOMAIN jobs' : i # j => jobs'[i] # jobs'[j]
      BY <1>2, <1>3 DEF PoolIInv, JobsInv
    <2>2. ASSUME NEW i \in DOMAIN jobs'
          PROVE  /\ jobs'[i] \in offered \ refused /\ failures[jobs'[i]] = 0
                 /\ \A v \in Sender : Occupied(v)' => held'[v] # jobs'[i]
      BY <1>2, <1>3, <1>5 DEF PoolIInv, JobsInv
    <2> QED
      BY <1>1, <2>1, <2>2 DEF JobsInv
  <1>7. HeldInv'
    <2>1. jobs[1] \in offered \ refused /\ failures[jobs[1]] = 0
      BY <1>2 DEF PoolIInv, JobsInv
    <2>2. \A v \in Sender : Occupied(v) => held[v] # jobs[1]
      BY <1>2 DEF PoolIInv, JobsInv
    <2>3. 0 < Attempts
      BY WorkersAssumption DEF Pool!PoolAssumption
    <2> QED
      BY <1>1, <1>5, <2>1, <2>2, <2>3 DEF PoolIInv, HeldInv
  <1>8. \A m \in offered' \ refused' : Kept(m)'
    <2> TAKE m \in offered' \ refused'
    <2>1. Kept(m)
      BY <1>1 DEF PoolIInv
    <2>2. CASE \E i \in DOMAIN jobs : jobs[i] = m
      <3>1. PICK i \in DOMAIN jobs : jobs[i] = m
        BY <2>2
      <3>2. CASE i = 1
        BY <1>5, <3>1, <3>2 DEF Kept
      <3>3. CASE i # 1
        <4>1. i - 1 \in DOMAIN jobs' /\ jobs'[i - 1] = jobs[(i - 1) + 1] /\ (i - 1) + 1 = i
          BY <1>2, <1>3, <3>1, <3>3
        <4> QED
          BY <3>1, <4>1 DEF Kept
      <3> QED
        BY <3>2, <3>3
    <2>3. CASE \E v \in Sender : Occupied(v) /\ held[v] = m
      BY <1>1, <1>5, <2>3 DEF Kept
    <2> QED
      BY <1>1, <2>1, <2>2, <2>3 DEF Kept
  <1> QED
    BY <1>1, <1>4, <1>6, <1>7, <1>8 DEF PoolIInv, Pool!AllDone

\* The other steps of a worker leave the queue, and nobody else's message.
LEMMA WorkerKeeps ==
    ASSUME PoolIInv, NEW w \in Sender, Pool!Quit(w) \/ Pool!Send(w) \/ Pool!Resume(w) \/ Pool!GiveUp(w)
    PROVE  PoolIInv'
  <1>a. /\ sender \in [Sender -> {"select", "send", "pause", "gone"}] /\ failures \in [Message -> 0..Attempts]
        /\ held \in [Sender -> Message] /\ posted \subseteq offered \ refused /\ offered \subseteq Message
    BY DEF PoolIInv, Pool!TypeOK
  <1>1. UNCHANGED <<jobs, offered, refused, held, cancelled, stop>>
    BY DEF Pool!Quit, Pool!Send, Pool!Resume, Pool!GiveUp
  <1>2. sender[w] # "gone"
    BY DEF Pool!Quit, Pool!Send, Pool!Resume, Pool!GiveUp
  <1>3. ASSUME NEW place \in {"select", "send", "pause", "gone"}, sender' = [sender EXCEPT ![w] = place],
               posted \subseteq posted', posted' \subseteq offered \ refused,
               failures' \in [Message -> 0..Attempts],
               \A m \in Message : failures'[m] # failures[m] => Occupied(w) /\ m = held[w] /\ failures[m] < Attempts,
               place \in {"send", "pause"} => Occupied(w),
               place = "send" => failures'[held[w]] < Attempts,
               place \in {"select", "gone"} /\ Occupied(w) =>
                 held[w] \in posted' \/ failures'[held[w]] = Attempts \/ cancelled
        PROVE  PoolIInv'
    <2>1. Pool!TypeOK'
      BY <1>a, <1>1, <1>3 DEF PoolIInv, Pool!TypeOK
    <2>2. /\ \A v \in Sender \ {w} : sender'[v] = sender[v]
          /\ sender'[w] = place /\ \A v \in Sender : Occupied(v)' => Occupied(v)
      BY <1>a, <1>3
    <2>3. JobsInv'
      <3>1. \A i \in DOMAIN jobs : jobs[i] \in Message /\ failures[jobs[i]] = 0 /\ (Occupied(w) => held[w] # jobs[i])
        BY <1>a DEF PoolIInv, JobsInv
      <3>2. \A i \in DOMAIN jobs : failures'[jobs[i]] = 0
        BY <1>3, <3>1
      <3> QED
        BY <1>1, <2>2, <3>2 DEF PoolIInv, JobsInv
    <2>4. HeldInv'
      <3> SUFFICES ASSUME NEW v \in Sender, Occupied(v)'
                   PROVE  /\ held[v] \in offered \ refused
                          /\ sender'[v] = "send" => failures'[held[v]] < Attempts
                          /\ \A x \in Sender \ {v} : Occupied(x)' => held[x] # held[v]
        BY <1>1 DEF HeldInv
      <3>1. Occupied(v) /\ held[v] \in offered \ refused /\ held[v] \in Message
        BY <1>a, <2>2 DEF PoolIInv, HeldInv
      <3>2. \A x \in Sender \ {v} : Occupied(x)' => held[x] # held[v]
        BY <2>2, <3>1 DEF PoolIInv, HeldInv
      <3>3. CASE v = w
        BY <1>3, <2>2, <3>1, <3>2, <3>3
      <3>4. CASE v # w
        <4>1. Occupied(w) => held[w] # held[v]
          BY <3>1, <3>4 DEF PoolIInv, HeldInv
        <4>2. failures'[held[v]] = failures[held[v]]
          BY <1>3, <3>1, <4>1
        <4>3. sender[v] = "send" => failures[held[v]] < Attempts
          BY <3>1 DEF PoolIInv, HeldInv
        <4> QED
          BY <2>2, <3>1, <3>2, <3>4, <4>2, <4>3
      <3> QED
        BY <3>3, <3>4
    <2>5. \A m \in Message \ offered' : failures'[m] = 0
      <3> TAKE m \in Message \ offered'
      <3>1. failures[m] = 0 /\ (Occupied(w) => held[w] # m)
        BY <1>1 DEF PoolIInv, HeldInv
      <3> QED
        BY <1>3, <3>1
    <2>6. \A m \in offered' \ refused' : Kept(m)'
      <3> TAKE m \in offered' \ refused'
      <3>1. Kept(m) /\ m \in Message
        BY <1>a, <1>1 DEF PoolIInv
      <3>2. CASE Occupied(w) /\ held[w] = m
        BY <1>1, <1>3, <2>2, <3>2 DEF Kept
      <3>3. CASE \E v \in Sender \ {w} : Occupied(v) /\ held[v] = m
        BY <1>1, <2>2, <3>3 DEF Kept
      <3>4. CASE failures[m] = Attempts
        <4>1. failures'[m] = Attempts
          BY <1>3, <3>1, <3>4, PoolConstants
        <4> QED
          BY <4>1 DEF Kept
      <3> QED
        BY <1>1, <1>3, <3>1, <3>2, <3>3, <3>4 DEF Kept
    <2>7. stop' # "returned"
      BY <1>1, <1>2 DEF PoolIInv, Pool!AllDone
    <2> QED
      BY <2>1, <2>3, <2>4, <2>5, <2>6, <2>7 DEF PoolIInv
  <1>4. CASE Pool!Quit(w)
    <2>1. sender[w] = "select" /\ sender' = [sender EXCEPT ![w] = "gone"] /\ UNCHANGED <<failures, posted>>
      BY <1>4 DEF Pool!Quit, Pool!At
    <2> QED
      BY <1>a, <1>3, <2>1
  <1>5. CASE Pool!Send(w)
    <2>1. sender[w] = "send" /\ Occupied(w) /\ held[w] \in offered \ refused /\ failures[held[w]] < Attempts
      BY <1>5 DEF Pool!Send, PoolIInv, HeldInv
    <2>2. CASE posted' = posted \cup {held[w]} /\ sender' = [sender EXCEPT ![w] = "select"] /\ UNCHANGED failures
      BY <1>a, <1>3, <2>1, <2>2
    <2>3. CASE failures' = [failures EXCEPT ![held[w]] = @ + 1] /\ sender' = [sender EXCEPT ![w] = "pause"] /\ UNCHANGED posted
      <3>1. failures[held[w]] + 1 \in 0..Attempts /\ held[w] \in Message
        BY <1>a, <2>1, PoolConstants
      <3>2. /\ failures' \in [Message -> 0..Attempts]
            /\ \A m \in Message : failures'[m] # failures[m] => m = held[w]
        BY <1>a, <2>3, <3>1
      <3> QED
        BY <1>a, <1>3, <2>1, <2>3, <3>2
    <2> QED
      BY <1>5, <2>2, <2>3 DEF Pool!Send, Pool!At
  <1>6. CASE Pool!Resume(w)
    <2>1. Occupied(w) /\ UNCHANGED <<failures, posted>> /\ failures[held[w]] \in 0..Attempts
      BY <1>a, <1>6 DEF Pool!Resume
    <2>2. CASE failures[held[w]] < Attempts /\ sender' = [sender EXCEPT ![w] = "send"]
      BY <1>a, <1>3, <2>1, <2>2
    <2>3. CASE ~(failures[held[w]] < Attempts) /\ sender' = [sender EXCEPT ![w] = "select"]
      <3>1. failures[held[w]] = Attempts
        BY <2>1, <2>3, PoolConstants
      <3> QED
        BY <1>a, <1>3, <2>1, <2>3, <3>1
    <2> QED
      BY <1>6, <2>2, <2>3 DEF Pool!Resume, Pool!At, Pool!AnotherAttempt
  <1>7. CASE Pool!GiveUp(w)
    <2>1. cancelled /\ Occupied(w) /\ sender' = [sender EXCEPT ![w] = "select"] /\ UNCHANGED <<failures, posted>>
      BY <1>7 DEF Pool!GiveUp, Pool!At
    <2> QED
      BY <1>a, <1>3, <2>1
  <1> QED
    BY <1>4, <1>5, <1>6, <1>7

\* Every step of the pool keeps its invariant.
LEMMA PoolStep == ASSUME PoolIInv, Pool!PoolNext \/ UNCHANGED poolVars PROVE PoolIInv'
  <1>1. CASE Pool!Cancel
    <2>1. cancelled' = TRUE /\ UNCHANGED <<jobs, offered, refused, sender, held, failures, posted, stop>>
      BY <1>1 DEF Pool!Cancel
    <2>2. Pool!TypeOK' /\ JobsInv' /\ HeldInv'
      BY <2>1 DEF PoolIInv, Pool!TypeOK, JobsInv, HeldInv
    <2>3. \A m \in offered' \ refused' : Kept(m)'
      BY <2>1 DEF Kept
    <2> QED
      BY <2>1, <2>2, <2>3 DEF PoolIInv, Pool!AllDone
  <1>2. CASE Pool!Stop \/ Pool!StopReturns
    <2>1. /\ UNCHANGED <<jobs, offered, refused, sender, held, failures, posted, cancelled>>
          /\ stop' \in {"waits", "returned"} /\ (stop' = "returned" => Pool!AllDone)
      BY <1>2 DEF Pool!Stop, Pool!StopReturns
    <2>2. Pool!TypeOK' /\ JobsInv' /\ HeldInv'
      BY <2>1 DEF PoolIInv, Pool!TypeOK, JobsInv, HeldInv
    <2>3. \A m \in offered' \ refused' : Kept(m)'
      BY <2>1 DEF PoolIInv, Kept
    <2> QED
      BY <2>1, <2>2, <2>3 DEF PoolIInv, Pool!AllDone
  <1>3. CASE UNCHANGED poolVars
    <2>1. UNCHANGED <<jobs, offered, refused, sender, held, failures, posted, cancelled, stop>>
      BY <1>3 DEF poolVars
    <2>2. Pool!TypeOK' /\ JobsInv' /\ HeldInv'
      BY <2>1 DEF PoolIInv, Pool!TypeOK, JobsInv, HeldInv
    <2>3. \A m \in offered' \ refused' : Kept(m)'
      BY <2>1 DEF PoolIInv, Kept
    <2> QED
      BY <2>1, <2>2, <2>3 DEF PoolIInv, Pool!AllDone
  <1>4. CASE \E m \in Message : Pool!Enqueue(m)
    BY <1>4, EnqueueKeeps
  <1>5. CASE \E w \in Sender : Pool!SenderStep(w)
    BY <1>5, TakeKeeps, WorkerKeeps DEF Pool!SenderStep
  <1> QED
    BY <1>1, <1>2, <1>3, <1>4, <1>5 DEF Pool!PoolNext

\* The two properties of the pool.
LEMMA PoolHolds == ASSUME PoolIInv PROVE Pool!TypeOK /\ Pool!KeepsJobs /\ Pool!QuietAfterStop
  <1>1. Pool!KeepsJobs
    <2> SUFFICES ASSUME NEW m \in offered \ refused
                 PROVE  \/ m \in Pool!Waiting \cup Pool!InHand \cup posted
                        \/ failures[m] = Attempts \/ cancelled
      BY DEF Pool!KeepsJobs
    <2>1. Kept(m)
      BY DEF PoolIInv
    <2>2. (\E i \in DOMAIN jobs : jobs[i] = m) => m \in Pool!Waiting
      BY DEF Pool!Waiting
    <2>3. (\E w \in Sender : Occupied(w) /\ held[w] = m) => m \in Pool!InHand
      BY DEF Pool!InHand
    <2> QED
      BY <2>1, <2>2, <2>3 DEF Kept
  <1>2. Pool!QuietAfterStop
    BY DEF PoolIInv, Pool!QuietAfterStop, Pool!AllDone, Pool!InHand
  <1> QED
    BY <1>1, <1>2 DEF PoolIInv

-----------------------------------------------------------------------------
(* The connection hub of pkg/ws *)

\* The module FiniteSets of the instance is the one of the library's theorems.
LEMMA SameCounting ==
    (Ws!IsFiniteSet(Conn) <=> IsFiniteSet(Conn)) /\ Ws!Cardinality(Conn) = Cardinality(Conn)
  <1>1. Ws!IsFiniteSet(Conn) <=> IsFiniteSet(Conn)
    BY DEF Ws!IsFiniteSet, IsFiniteSet
  <1>2. Ws!Cardinality(Conn) = Cardinality(Conn)
    BY DEF Ws!Cardinality, Cardinality
  <1> QED
    BY <1>1, <1>2

\* HubAssumption, for the hub of this module.
LEMMA HubConstants ==
    /\ IsFiniteSet(Conn) /\ UserOf \in [Conn -> User]
    /\ HubRoom \in Nat \ {0} /\ SendRoom \in Nat \ {0} /\ MaxFrames \in Nat
  BY WorkersAssumption, SameCounting DEF Ws!HubAssumption

\* The bound of offline is a number.
LEMMA ConnCount == Ws!Cardinality(Conn) = Cardinality(Conn) /\ Cardinality(Conn) \in Nat
  BY HubConstants, SameCounting, FS_CardinalityType

\* Before Register has met the hub.
Ahead(c) == reader[c] \in {"new", "register"}

Leaving == {"unregister", "close"}

\* What the hub knows has an open channel, and a connection it has not met yet
\* too; only a pump that began the cleanup goes to Unregister and Close.
PlaceInv ==
    /\ panicked # "hub" /\ (clients \subseteq usable \/ ended)
    /\ \A c \in Conn :
         /\ Ahead(c) => c \in usable /\ c \notin clients
         /\ reader[c] \in Leaving \/ writer[c] \in Leaving => c \in closed

\* Connections of u that the hub has dropped, and handlers with a frame.
Past(u)  == {c \in Conn : UserOf[c] = u /\ ~Ahead(c) /\ c \notin clients}
Handling == {c \in Conn : reader[c] = "handler"}

\* A user is reported once for each dropped connection at most; frames that
\* are being handled are not broadcast yet.
CountsInv ==
    /\ \A x \in User : offline[x] <= Cardinality(Past(x))
    /\ sent + Cardinality(Handling) <= frames

\* What a client was sent and what waits for it.
Line(c) == written[c] \o send[c]

Ordered(s) ==
    \A i, j \in DOMAIN s : i < j /\ s[j] <= MaxFrames => s[i] < s[j] \/ s[i] > MaxFrames

\* Everything in the hub's channel is newer than what came out of it.
OrderInv ==
    /\ \A i, j \in DOMAIN broadcast : i < j => broadcast[i].frame < broadcast[j].frame
    /\ \A c \in Conn :
         /\ Ordered(Line(c))
         /\ \A i \in DOMAIN Line(c) :
              \/ Line(c)[i] > MaxFrames
              \/ /\ Line(c)[i] <= sent
                 /\ \A k \in DOMAIN broadcast : Line(c)[i] < broadcast[k].frame

HubIInv == Ws!TypeOK /\ PlaceInv /\ CountsInv /\ OrderInv

USE DEF Ahead, Leaving

\* Moving the head of a channel to what was written leaves the line.
LEMMA WriteLine ==
    ASSUME NEW S, NEW a \in Seq(S), NEW q \in Seq(S), q # <<>>
    PROVE  Append(a, Head(q)) \o Tail(q) = a \o q
  <1>1. Head(q) \in S /\ Tail(q) \in Seq(S) /\ <<Head(q)>> \in Seq(S)
    BY HeadTailProperties
  <1>2. Append(a, Head(q)) = a \o <<Head(q)>>
    BY <1>1, AppendIsConcat
  <1>3. (a \o <<Head(q)>>) \o Tail(q) = a \o (<<Head(q)>> \o Tail(q))
    BY <1>1, ConcatAssociative
  <1>4. <<Head(q)>> \o Tail(q) = q
    BY <1>1
  <1> QED
    BY <1>2, <1>3, <1>4

\* A line grows at its end.
LEMMA GrowLine ==
    ASSUME NEW S, NEW a \in Seq(S), NEW q \in Seq(S), NEW x \in S
    PROVE  a \o Append(q, x) = Append(a \o q, x)
  <1>1. /\ Append(q, x) = q \o <<x>> /\ Append(a \o q, x) = (a \o q) \o <<x>> /\ <<x>> \in Seq(S)
    BY AppendIsConcat, ConcatProperties
  <1>2. (a \o q) \o <<x>> = a \o (q \o <<x>>)
    BY <1>1, ConcatAssociative
  <1> QED
    BY <1>1, <1>2

\* An ordered line stays so when a newer payload, or a caller's, joins it.
LEMMA OrderGrows ==
    ASSUME NEW s \in Seq(Ws!Payload), NEW x \in Ws!Payload, Ordered(s),
           x > MaxFrames \/ \A i \in DOMAIN s : s[i] > MaxFrames \/ s[i] < x
    PROVE  Ordered(Append(s, x))
  <1> DEFINE t == Append(s, x)
  <1>1. /\ Len(t) = Len(s) + 1 /\ Len(s) \in Nat /\ DOMAIN s = 1..Len(s) /\ DOMAIN t = 1..(Len(s) + 1)
        /\ t[Len(s) + 1] = x /\ \A i \in DOMAIN s : t[i] = s[i]
    <2>1. /\ Len(t) = Len(s) + 1 /\ t[Len(s) + 1] = x /\ \A i \in 1..Len(s) : t[i] = s[i]
          /\ t \in Seq(Ws!Payload)
      BY AppendProperties
    <2> QED
      BY <2>1, LenProperties
  <1> HIDE DEF t
  <1> SUFFICES ASSUME NEW i \in DOMAIN t, NEW j \in DOMAIN t, i < j, t[j] <= MaxFrames
               PROVE  t[i] < t[j] \/ t[i] > MaxFrames
    BY DEF Ordered, t
  <1>2. CASE j = Len(s) + 1
    <2>1. i \in DOMAIN s /\ t[j] = x /\ x \in Nat
      BY <1>1, <1>2 DEF Ws!Payload
    <2> QED
      BY <1>1, <2>1, HubConstants
  <1>3. CASE j # Len(s) + 1
    BY <1>1, <1>3 DEF Ordered
  <1> QED
    BY <1>2, <1>3

\* Every channel is open and empty, and the hub has met nobody.
LEMMA HubInitIInv == Ws!Init => HubIInv
  <1> SUFFICES ASSUME Ws!Init PROVE HubIInv
    OBVIOUS
  <1>1. /\ down = FALSE /\ ended = FALSE /\ clients = {} /\ broadcast = <<>> /\ frames = 0 /\ sent = 0
        /\ send = [c \in Conn |-> <<>>] /\ usable = Conn
        /\ reader = [c \in Conn |-> "new"] /\ writer = [c \in Conn |-> "new"]
        /\ closed = {} /\ gone = {} /\ written = [c \in Conn |-> <<>>]
        /\ offline = [x \in User |-> 0] /\ panicked = "nothing"
    BY DEF Ws!Init
  <1>2. DOMAIN broadcast = {} /\ Len(broadcast) = 0 /\ broadcast \in Seq([frame : 1..sent, to : SUBSET User])
    <2>1. broadcast \in Seq([frame : 1..sent, to : SUBSET User]) /\ Len(broadcast) = 0
      BY <1>1, EmptySeq
    <2> QED
      BY <2>1, LenProperties
  <1>4. Ws!TypeOK
    <2>1. send \in [Conn -> Seq(Ws!Payload)] /\ written \in [Conn -> Seq(Ws!Payload)]
      BY <1>1
    <2>2. \A c \in Conn : Len(send[c]) <= SendRoom
      BY <1>1, HubConstants
    <2>3. offline \in [User -> 0..Ws!Cardinality(Conn)]
      BY <1>1, ConnCount
    <2>4. Len(broadcast) <= HubRoom /\ frames \in 0..MaxFrames /\ sent \in 0..frames
      BY <1>1, <1>2, HubConstants
    <2> QED
      BY <1>1, <1>2, <2>1, <2>2, <2>3, <2>4 DEF Ws!TypeOK, Ws!Places
  <1>5. PlaceInv
    BY <1>1 DEF PlaceInv
  <1>6. CountsInv
    <2>1. Handling = {} /\ \A x \in User : Past(x) = {}
      BY <1>1 DEF Handling, Past
    <2>2. Cardinality({}) = 0
      BY FS_EmptySet
    <2>3. \A x \in User : offline[x] = 0 /\ Cardinality(Past(x)) = 0
      BY <1>1, <2>1, <2>2
    <2>4. Cardinality(Handling) = 0
      BY <2>1, <2>2
    <2> QED
      BY <1>1, <2>3, <2>4 DEF CountsInv
  <1>7. OrderInv
    <2>1. ASSUME NEW c \in Conn PROVE DOMAIN Line(c) = {}
      <3>1. Line(c) = <<>>
        BY <1>1 DEF Line
      <3> QED
        BY <3>1
    <2> QED
      BY <1>2, <2>1 DEF OrderInv, Ordered
  <1> QED
    BY <1>4, <1>5, <1>6, <1>7 DEF HubIInv

\* Steps that leave the payloads alone leave their order.
LEMMA OrderStays ==
    ASSUME OrderInv, UNCHANGED <<broadcast, sent, send, written>>
    PROVE  OrderInv'
  <1>1. \A c \in Conn : Line(c)' = Line(c)
    BY DEF Line
  <1> QED
    BY <1>1 DEF OrderInv, Ordered

\* The counts depend on the readers and on the connections the hub has.
LEMMA CountsStay ==
    ASSUME Ws!TypeOK, CountsInv, UNCHANGED <<clients, sent>>, frames' \in Nat, frames <= frames',
           \A x \in User : offline'[x] <= offline[x] /\ offline'[x] \in Nat,
           \A c \in Conn : (Ahead(c)' <=> Ahead(c)) /\ (reader'[c] = "handler" <=> reader[c] = "handler")
    PROVE  CountsInv'
  <1>1. Handling' = Handling /\ \A x \in User : Past(x)' = Past(x)
    BY DEF Handling, Past
  <1>2. /\ \A x \in User : Cardinality(Past(x)) \in Nat /\ offline[x] \in Nat
        /\ Cardinality(Handling) \in Nat /\ sent \in Nat /\ frames \in Nat
    <2>1. IsFiniteSet(Handling) /\ \A x \in User : IsFiniteSet(Past(x))
      BY HubConstants, FS_Subset DEF Handling, Past
    <2>2. Cardinality(Handling) \in Nat /\ \A x \in User : Cardinality(Past(x)) \in Nat
      BY <2>1, FS_CardinalityType
    <2>3. offline \in [User -> 0..Cardinality(Conn)] /\ frames \in 0..MaxFrames /\ sent \in 0..frames
      BY ConnCount DEF Ws!TypeOK
    <2> QED
      BY <2>2, <2>3, ConnCount, HubConstants
  <1> QED
    BY <1>1, <1>2 DEF CountsInv

\* Steps of a pump between its places, and what else leaves the hub alone.
LEMMA PumpKeeps ==
    ASSUME HubIInv,
           \/ Ws!Cancel \/ \E x \in User : Ws!OfflineDone(x)
           \/ \E c \in Conn :
                Ws!Serve(c) \/ Ws!ReadFails(c) \/ Ws!WriterLeaves(c) \/ Ws!Cleanup(c) \/ Ws!CloseSocket(c)
    PROVE  HubIInv'
  <1> DEFINE Keeps ==
        /\ UNCHANGED <<ended, clients, broadcast, sent, frames, send, usable, written, panicked>>
        /\ down' \in BOOLEAN
        /\ offline' \in [User -> 0..Cardinality(Conn)] /\ \A x \in User : offline'[x] <= offline[x]
        /\ reader' \in [Conn -> {"new", "register", "read", "handler", "cleanup"} \cup Ws!Places]
        /\ writer' \in [Conn -> {"new", "write", "cleanup"} \cup Ws!Places]
        /\ gone' \subseteq closed' /\ closed \subseteq closed' /\ closed' \subseteq Conn
        /\ \A c \in Conn :
             /\ (Ahead(c)' <=> Ahead(c)) /\ (reader'[c] = "handler" <=> reader[c] = "handler")
             /\ reader'[c] \in Leaving \/ writer'[c] \in Leaving => c \in closed'
  <1>a. /\ reader \in [Conn -> {"new", "register", "read", "handler", "cleanup"} \cup Ws!Places]
        /\ writer \in [Conn -> {"new", "write", "cleanup"} \cup Ws!Places]
        /\ gone \subseteq closed /\ closed \subseteq Conn /\ down \in BOOLEAN
        /\ offline \in [User -> 0..Cardinality(Conn)]
    BY ConnCount DEF HubIInv, Ws!TypeOK
  <1>b. \A c \in Conn : reader[c] \in Leaving \/ writer[c] \in Leaving => c \in closed
    BY DEF HubIInv, PlaceInv
  <1>1. ASSUME Ws!Cancel PROVE Keeps
    <2>1. /\ UNCHANGED <<ended, clients, broadcast, sent, frames, send, usable, written, panicked>>
          /\ UNCHANGED <<offline, reader, writer, gone, closed>> /\ down' = TRUE
      BY <1>1 DEF Ws!Cancel, Ws!hub, Ws!chan, Ws!pumps
    <2>2. \A x \in User : offline'[x] <= offline[x]
      BY <1>a, <2>1, ConnCount
    <2> QED
      BY <1>a, <1>b, <2>1, <2>2
  <1>2. ASSUME NEW x \in User, Ws!OfflineDone(x) PROVE Keeps
    <2>1. /\ UNCHANGED <<ended, clients, broadcast, sent, frames, send, usable, written, panicked>>
          /\ UNCHANGED <<down, reader, writer, gone, closed>>
          /\ offline[x] > 0 /\ offline' = [offline EXCEPT ![x] = @ - 1]
      BY <1>2 DEF Ws!OfflineDone, Ws!chan, Ws!pumps
    <2>2. /\ offline' \in [User -> 0..Cardinality(Conn)]
          /\ \A y \in User : offline'[y] <= offline[y]
      BY <1>a, <2>1, ConnCount
    <2> QED
      BY <1>a, <1>b, <2>1, <2>2
  <1>3. ASSUME NEW c \in Conn, Ws!Serve(c) \/ Ws!ReadFails(c) \/ Ws!WriterLeaves(c) \/ Ws!Cleanup(c) \/ Ws!CloseSocket(c)
        PROVE Keeps
    <2>1. UNCHANGED <<down, offline, ended, clients, broadcast, sent, frames, send, usable, written, panicked>>
      BY <1>3 DEF Ws!Serve, Ws!ReadFails, Ws!WriterLeaves, Ws!Cleanup, Ws!CloseSocket, Ws!hub, Ws!chan
    <2>2. \A x \in User : offline'[x] <= offline[x]
      BY <1>a, <2>1, ConnCount
    <2>3. CASE Ws!Serve(c)
      <3>1. /\ reader[c] = "new" /\ reader' = [reader EXCEPT ![c] = "register"]
            /\ UNCHANGED <<writer, gone, closed>>
        BY <2>3 DEF Ws!Serve
      <3> QED
        BY <1>a, <1>b, <2>1, <2>2, <3>1
    <2>4. CASE Ws!ReadFails(c)
      <3>1. /\ reader[c] = "read" /\ reader' = [reader EXCEPT ![c] = "cleanup"]
            /\ UNCHANGED <<writer, gone, closed>>
        BY <2>4 DEF Ws!ReadFails
      <3> QED
        BY <1>a, <1>b, <2>1, <2>2, <3>1
    <2>5. CASE Ws!WriterLeaves(c)
      <3>1. /\ writer[c] = "write" /\ writer' = [writer EXCEPT ![c] = "cleanup"]
            /\ UNCHANGED <<reader, gone, closed>>
        BY <2>5 DEF Ws!WriterLeaves
      <3> QED
        BY <1>a, <1>b, <2>1, <2>2, <3>1
    <2>6. CASE Ws!Cleanup(c) \/ Ws!CloseSocket(c)
      <3>1. PICK from \in {"cleanup", "close"}, to \in {"done", "unregister"} :
              /\ \/ reader[c] = from /\ reader' = [reader EXCEPT ![c] = to] /\ UNCHANGED writer
                 \/ writer[c] = from /\ writer' = [writer EXCEPT ![c] = to] /\ UNCHANGED reader
              /\ \/ from = "cleanup" /\ closed' = closed \cup {c} /\ gone' = gone
                 \/ from = "close" /\ gone' = gone \cup {c} /\ closed' = closed
        BY <2>6 DEF Ws!Cleanup, Ws!CloseSocket, Ws!Moves
      <3>2. c \in closed'
        BY <1>b, <3>1
      <3>3. CASE reader[c] = from /\ reader' = [reader EXCEPT ![c] = to] /\ UNCHANGED writer
        <4>1. reader' \in [Conn -> {"new", "register", "read", "handler", "cleanup"} \cup Ws!Places]
          BY <1>a, <3>3 DEF Ws!Places
        <4> QED
          BY <1>a, <1>b, <2>1, <2>2, <3>1, <3>2, <3>3, <4>1
      <3>4. CASE writer[c] = from /\ writer' = [writer EXCEPT ![c] = to] /\ UNCHANGED reader
        <4>1. writer' \in [Conn -> {"new", "write", "cleanup"} \cup Ws!Places]
          BY <1>a, <3>4 DEF Ws!Places
        <4> QED
          BY <1>a, <1>b, <2>1, <2>2, <3>1, <3>2, <3>4, <4>1
      <3> QED
        BY <3>1, <3>3, <3>4
    <2> QED
      BY <1>3, <2>3, <2>4, <2>5, <2>6
  <1>4. Keeps
    BY <1>1, <1>2, <1>3
  <1> HIDE DEF Keeps
  <1>5. Ws!TypeOK'
    BY <1>4, ConnCount DEF HubIInv, Ws!TypeOK, Keeps
  <1>6. PlaceInv'
    BY <1>4 DEF HubIInv, PlaceInv, Keeps
  <1>7. CountsInv'
    <2>1. frames' \in Nat /\ frames <= frames' /\ \A x \in User : offline'[x] \in Nat
      BY <1>4, ConnCount, HubConstants DEF Keeps, HubIInv, Ws!TypeOK
    <2> QED
      BY <1>4, <2>1, CountsStay DEF Keeps, HubIInv
  <1>8. OrderInv'
    BY <1>4, OrderStays DEF Keeps, HubIInv
  <1> QED
    BY <1>5, <1>6, <1>7, <1>8 DEF HubIInv

\* Register: the connection's channel is open, and the hub has it now.
LEMMA RegisterKeeps == ASSUME HubIInv, NEW c \in Conn, Ws!Register(c) PROVE HubIInv'
  <1>1. /\ reader[c] = "register" /\ clients' = clients \cup {c} /\ ~ended
        /\ reader' = [reader EXCEPT ![c] = "read"] /\ writer' = [writer EXCEPT ![c] = "write"]
        /\ UNCHANGED <<down, ended, broadcast, sent, offline, frames, send, usable, closed, gone, written, panicked>>
    BY DEF Ws!Register, Ws!chan, Ws!Selects
  <1>a. /\ reader \in [Conn -> {"new", "register", "read", "handler", "cleanup"} \cup Ws!Places]
        /\ writer \in [Conn -> {"new", "write", "cleanup"} \cup Ws!Places]
    BY DEF HubIInv, Ws!TypeOK
  <1>2. /\ reader' \in [Conn -> {"new", "register", "read", "handler", "cleanup"} \cup Ws!Places]
        /\ writer' \in [Conn -> {"new", "write", "cleanup"} \cup Ws!Places]
        /\ reader'[c] = "read" /\ writer'[c] = "write"
        /\ \A d \in Conn \ {c} : reader'[d] = reader[d] /\ writer'[d] = writer[d]
    BY <1>a, <1>1
  <1>3. Ws!TypeOK'
    BY <1>1, <1>2 DEF HubIInv, Ws!TypeOK
  <1>4. PlaceInv'
    <2>1. c \in usable
      BY <1>1 DEF HubIInv, PlaceInv
    <2> QED
      BY <1>1, <1>2, <2>1 DEF HubIInv, PlaceInv
  <1>5. CountsInv'
    <2>1. Handling' = Handling /\ \A x \in User : Past(x)' = Past(x)
      BY <1>1, <1>2 DEF Handling, Past
    <2> QED
      BY <1>1, <2>1 DEF HubIInv, CountsInv
  <1>6. OrderInv'
    BY <1>1, OrderStays DEF HubIInv
  <1> QED
    BY <1>3, <1>4, <1>5, <1>6 DEF HubIInv

\* Unregister closes an open channel, once.
LEMMA UnregisterKeeps == ASSUME HubIInv, NEW c \in Conn, Ws!Unregister(c) PROVE HubIInv'
  <1>a. /\ reader \in [Conn -> {"new", "register", "read", "handler", "cleanup"} \cup Ws!Places]
        /\ writer \in [Conn -> {"new", "write", "cleanup"} \cup Ws!Places]
        /\ offline \in [User -> 0..Cardinality(Conn)] /\ usable \subseteq Conn /\ clients \subseteq Conn
        /\ UserOf[c] \in User
    BY ConnCount, HubConstants DEF HubIInv, Ws!TypeOK
  <1>1. /\ ~ended
        /\ \/ reader[c] = "unregister" /\ reader' = [reader EXCEPT ![c] = "close"] /\ UNCHANGED writer
           \/ writer[c] = "unregister" /\ writer' = [writer EXCEPT ![c] = "close"] /\ UNCHANGED reader
        /\ UNCHANGED <<down, ended, broadcast, sent, frames, send, closed, gone, written>>
    BY DEF Ws!Unregister, Ws!Selects
  <1>2. /\ reader' \in [Conn -> {"new", "register", "read", "handler", "cleanup"} \cup Ws!Places]
        /\ writer' \in [Conn -> {"new", "write", "cleanup"} \cup Ws!Places]
        /\ \A d \in Conn : (Ahead(d)' <=> Ahead(d)) /\ (reader'[d] = "handler" <=> reader[d] = "handler")
        /\ \A d \in Conn \ {c} : reader'[d] = reader[d] /\ writer'[d] = writer[d]
        /\ c \in closed
    <2>1. c \in closed
      BY <1>1 DEF HubIInv, PlaceInv
    <2>2. CASE reader[c] = "unregister" /\ reader' = [reader EXCEPT ![c] = "close"] /\ UNCHANGED writer
      <3>1. reader' \in [Conn -> {"new", "register", "read", "handler", "cleanup"} \cup Ws!Places]
        BY <1>a, <2>2 DEF Ws!Places
      <3> QED
        BY <1>a, <2>1, <2>2, <3>1
    <2>3. CASE writer[c] = "unregister" /\ writer' = [writer EXCEPT ![c] = "close"] /\ UNCHANGED reader
      <3>1. writer' \in [Conn -> {"new", "write", "cleanup"} \cup Ws!Places]
        BY <1>a, <2>3 DEF Ws!Places
      <3> QED
        BY <1>a, <2>1, <2>3, <3>1
    <2> QED
      BY <1>1, <2>2, <2>3
  <1>3. OrderInv'
    BY <1>1, OrderStays DEF HubIInv
  <1>4. CASE c \notin clients
    <2>1. UNCHANGED <<clients, usable, offline, panicked>>
      BY <1>4 DEF Ws!Unregister
    <2>2. Ws!TypeOK' /\ PlaceInv'
      <3>1. Ws!TypeOK'
        BY <1>1, <1>2, <2>1 DEF HubIInv, Ws!TypeOK
      <3> QED
        BY <1>1, <1>2, <2>1, <3>1 DEF HubIInv, PlaceInv
    <2>3. CountsInv'
      <3>1. Handling' = Handling /\ \A x \in User : Past(x)' = Past(x)
        BY <1>2, <2>1 DEF Handling, Past
      <3> QED
        BY <1>1, <2>1, <3>1 DEF HubIInv, CountsInv
    <2> QED
      BY <1>3, <2>2, <2>3 DEF HubIInv
  <1>5. CASE c \in clients
    <2>1. /\ clients \subseteq usable /\ ~Ahead(c) /\ panicked # "hub"
      BY <1>1, <1>5 DEF HubIInv, PlaceInv
    <2>2. /\ clients' = clients \ {c} /\ usable' = usable \ {c} /\ panicked' = panicked
          /\ offline' \in {offline, [offline EXCEPT ![UserOf[c]] = @ + 1]}
      BY <1>5, <2>1 DEF Ws!Unregister, Ws!Closes, Ws!Without
    <2>3. /\ \A x \in User : IsFiniteSet(Past(x)) /\ Cardinality(Past(x)) \in Nat
          /\ \A x \in User \ {UserOf[c]} : Past(x)' = Past(x)
          /\ Past(UserOf[c])' = Past(UserOf[c]) \cup {c} /\ c \notin Past(UserOf[c])
          /\ Handling' = Handling
      <3>1. \A x \in User : IsFiniteSet(Past(x)) /\ Cardinality(Past(x)) \in Nat
        BY HubConstants, FS_Subset, FS_CardinalityType DEF Past
      <3> QED
        BY <1>2, <1>5, <2>1, <2>2, <3>1 DEF Past, Handling
    <2>4. Cardinality(Past(UserOf[c])') = Cardinality(Past(UserOf[c])) + 1
      BY <1>a, <2>3, FS_AddElement
    <2>5. \A x \in User : offline'[x] <= Cardinality(Past(x)')
      <3> TAKE x \in User
      <3>1. offline[x] <= Cardinality(Past(x)) /\ offline[x] \in Nat /\ Cardinality(Past(x)) \in Nat
        BY <1>a, <2>3, ConnCount DEF HubIInv, CountsInv
      <3>2. CASE x = UserOf[c]
        <4>1. offline'[x] \in {offline[x], offline[x] + 1}
          BY <1>a, <2>2, <3>2
        <4> QED
          BY <2>4, <3>1, <3>2, <4>1
      <3>3. CASE x # UserOf[c]
        BY <1>a, <2>2, <2>3, <3>1, <3>3
      <3> QED
        BY <3>2, <3>3
    <2>6. offline' \in [User -> 0..Cardinality(Conn)]
      <3>1. ASSUME NEW x \in User PROVE offline'[x] \in 0..Cardinality(Conn)
        <4>1. offline'[x] \in Nat
          BY <1>a, <2>2, ConnCount
        <4>2. Cardinality(Past(x)') <= Cardinality(Conn) /\ Cardinality(Past(x)') \in Nat
          <5>1. Past(x)' \subseteq Conn
            BY DEF Past
          <5>2. IsFiniteSet(Past(x)') /\ Cardinality(Past(x)') <= Cardinality(Conn)
            BY <5>1, HubConstants, FS_Subset
          <5> QED
            BY <5>2, FS_CardinalityType
        <4> QED
          BY <2>5, <4>1, <4>2, ConnCount
      <3>2. offline' = [x \in User |-> offline'[x]]
        BY <1>a, <2>2
      <3> QED
        BY <3>1, <3>2
    <2>7. Ws!TypeOK'
      BY <1>a, <1>1, <1>2, <2>2, <2>6, ConnCount DEF HubIInv, Ws!TypeOK
    <2>8. PlaceInv'
      BY <1>1, <1>2, <2>1, <2>2 DEF HubIInv, PlaceInv
    <2>9. CountsInv'
      BY <1>1, <2>3, <2>5 DEF HubIInv, CountsInv
    <2> QED
      BY <1>3, <2>7, <2>8, <2>9 DEF HubIInv
  <1> QED
    BY <1>4, <1>5

\* closeAll closes what the hub has, and what it has is open.
LEMMA EndKeeps == ASSUME HubIInv, Ws!End PROVE HubIInv'
  <1>1. /\ clients \subseteq usable /\ ended' = TRUE /\ usable' = usable \ clients
        /\ UNCHANGED <<down, clients, broadcast, sent, offline, frames, send, reader, writer,
                       closed, gone, written, panicked>>
    <2>1. clients \subseteq usable
      BY DEF Ws!End, Ws!Selects, HubIInv, PlaceInv
    <2> QED
      BY <2>1 DEF Ws!End, Ws!Closes, Ws!pumps
  <1>2. Ws!TypeOK'
    BY <1>1 DEF HubIInv, Ws!TypeOK
  <1>3. PlaceInv'
    BY <1>1 DEF HubIInv, PlaceInv
  <1>4. CountsInv'
    <2>1. Handling' = Handling /\ \A x \in User : Past(x)' = Past(x)
      BY <1>1 DEF Handling, Past
    <2> QED
      BY <1>1, <2>1 DEF HubIInv, CountsInv
  <1>5. OrderInv'
    BY <1>1, OrderStays DEF HubIInv
  <1> QED
    BY <1>2, <1>3, <1>4, <1>5 DEF HubIInv

\* The handlers can be counted.
LEMMA HandlingIsFinite == IsFiniteSet(Handling) /\ Cardinality(Handling) \in Nat
  <1>1. IsFiniteSet(Handling)
    BY HubConstants, FS_Subset DEF Handling
  <1> QED
    BY <1>1, FS_CardinalityType

\* A frame that was read is counted, and its reader is in the handler.
LEMMA ReadKeeps == ASSUME HubIInv, NEW c \in Conn, Ws!Read(c) PROVE HubIInv'
  <1>1. /\ reader[c] = "read" /\ frames < MaxFrames /\ frames' = frames + 1
        /\ reader' = [reader EXCEPT ![c] = "handler"]
        /\ UNCHANGED <<down, ended, clients, broadcast, sent, offline, send, usable, writer,
                       closed, gone, written, panicked>>
    BY DEF Ws!Read, Ws!hub, Ws!chan
  <1>a. /\ reader \in [Conn -> {"new", "register", "read", "handler", "cleanup"} \cup Ws!Places]
        /\ frames \in 0..MaxFrames /\ sent \in 0..frames
    BY DEF HubIInv, Ws!TypeOK
  <1>2. /\ reader' \in [Conn -> {"new", "register", "read", "handler", "cleanup"} \cup Ws!Places]
        /\ reader'[c] = "handler" /\ \A d \in Conn \ {c} : reader'[d] = reader[d]
    BY <1>a, <1>1
  <1>3. frames' \in 0..MaxFrames /\ sent' \in 0..frames'
    BY <1>a, <1>1, HubConstants
  <1>4. Ws!TypeOK'
    BY <1>1, <1>2, <1>3 DEF HubIInv, Ws!TypeOK
  <1>5. PlaceInv'
    BY <1>1, <1>2 DEF HubIInv, PlaceInv
  <1>6. CountsInv'
    <2>1. /\ Handling' = Handling \cup {c} /\ c \notin Handling
          /\ \A x \in User : Past(x)' = Past(x)
      BY <1>1, <1>2 DEF Handling, Past
    <2>2. Cardinality(Handling') = Cardinality(Handling) + 1
      BY <2>1, HandlingIsFinite, FS_AddElement
    <2>3. sent + Cardinality(Handling) <= frames
      BY DEF HubIInv, CountsInv
    <2>4. sent' + Cardinality(Handling') <= frames'
      BY <1>a, <1>1, <2>2, <2>3, HandlingIsFinite, HubConstants
    <2> QED
      BY <1>1, <2>1, <2>4 DEF HubIInv, CountsInv
  <1>7. OrderInv'
    BY <1>1, OrderStays DEF HubIInv
  <1> QED
    BY <1>4, <1>5, <1>6, <1>7 DEF HubIInv

\* What is in the hub's channel and what has left it.
LEMMA QueueTyped ==
    ASSUME HubIInv, NEW i \in DOMAIN broadcast
    PROVE  broadcast[i].frame \in 1..sent
  <1> DEFINE R == [frame : 1..sent, to : SUBSET User]
  <1>1. broadcast \in Seq(R)
    BY DEF HubIInv, Ws!TypeOK
  <1> HIDE DEF R
  <1>2. i \in 1..Len(broadcast)
    BY <1>1, LenProperties
  <1>3. broadcast[i] \in R
    BY <1>1, <1>2, ElementOfSeq
  <1> QED
    BY <1>3 DEF R

\* The lines are sequences of payloads.
LEMMA LineTyped ==
    ASSUME HubIInv, NEW c \in Conn
    PROVE  /\ written[c] \in Seq(Ws!Payload) /\ send[c] \in Seq(Ws!Payload) /\ Line(c) \in Seq(Ws!Payload)
           /\ \A i \in DOMAIN Line(c) : Line(c)[i] \in Ws!Payload /\ Line(c)[i] \in Nat
  <1>1. written[c] \in Seq(Ws!Payload) /\ send[c] \in Seq(Ws!Payload)
    BY DEF HubIInv, Ws!TypeOK
  <1>2. Line(c) \in Seq(Ws!Payload)
    BY <1>1, ConcatProperties DEF Line
  <1>3. ASSUME NEW i \in DOMAIN Line(c) PROVE Line(c)[i] \in Ws!Payload
    <2>1. i \in 1..Len(Line(c))
      BY <1>2, LenProperties
    <2> QED
      BY <1>2, <2>1, ElementOfSeq
  <1>4. Ws!Payload \subseteq Nat
    BY HubConstants DEF Ws!Payload
  <1> QED
    BY <1>1, <1>2, <1>3, <1>4

\* Broadcast: the new payload is newer than all others.
LEMMA BroadcastKeeps == ASSUME HubIInv, NEW c \in Conn, Ws!Broadcast(c) PROVE HubIInv'
  <1>1. PICK to \in SUBSET User : broadcast' = Append(broadcast, [frame |-> sent + 1, to |-> to])
    BY DEF Ws!Broadcast
  <1>2. /\ reader[c] = "handler" /\ Len(broadcast) < HubRoom /\ sent' = sent + 1
        /\ reader' = [reader EXCEPT ![c] = "read"]
        /\ UNCHANGED <<down, ended, clients, offline, frames, send, usable, writer,
                       closed, gone, written, panicked>>
    BY DEF Ws!Broadcast, Ws!chan
  <1>a. /\ reader \in [Conn -> {"new", "register", "read", "handler", "cleanup"} \cup Ws!Places]
        /\ frames \in 0..MaxFrames /\ sent \in 0..frames
        /\ broadcast \in Seq([frame : 1..sent, to : SUBSET User])
    BY DEF HubIInv, Ws!TypeOK
  <1>3. /\ reader' \in [Conn -> {"new", "register", "read", "handler", "cleanup"} \cup Ws!Places]
        /\ reader'[c] = "read" /\ \A d \in Conn \ {c} : reader'[d] = reader[d]
    BY <1>a, <1>2
  <1>4. CountsInv' /\ sent' \in 0..frames'
    <2>1. /\ Handling' = Handling \ {c} /\ c \in Handling
          /\ \A x \in User : Past(x)' = Past(x)
      BY <1>2, <1>3 DEF Handling, Past
    <2>2. Cardinality(Handling') = Cardinality(Handling) - 1 /\ Cardinality(Handling') \in Nat
      <3>1. IsFiniteSet(Handling') /\ Cardinality(Handling') = Cardinality(Handling) - 1
        BY <2>1, HandlingIsFinite, FS_RemoveElement
      <3> QED
        BY <3>1, FS_CardinalityType
    <2>3. sent + Cardinality(Handling) <= frames
      BY DEF HubIInv, CountsInv
    <2>4. sent' + Cardinality(Handling') <= frames' /\ sent' \in 0..frames'
      BY <1>a, <1>2, <2>2, <2>3, HandlingIsFinite, HubConstants
    <2> QED
      BY <1>2, <2>1, <2>4 DEF HubIInv, CountsInv
  <1>5. PlaceInv'
    BY <1>2, <1>3 DEF HubIInv, PlaceInv
  <1> DEFINE o == [frame |-> sent + 1, to |-> to]
             R == [frame : 1..(sent + 1), to : SUBSET User]
  <1>6. /\ DOMAIN broadcast = 1..Len(broadcast) /\ DOMAIN broadcast' = 1..(Len(broadcast) + 1)
        /\ Len(broadcast) \in Nat /\ Len(broadcast') = Len(broadcast) + 1
        /\ broadcast'[Len(broadcast) + 1] = o /\ \A i \in DOMAIN broadcast : broadcast'[i] = broadcast[i]
        /\ broadcast' \in Seq(R)
    <2>1. [frame : 1..sent, to : SUBSET User] \subseteq R
      BY <1>a
    <2>2. broadcast \in Seq(R)
      BY <1>a, <2>1, SeqMonotonic
    <2>3. o \in R
      BY <1>a
    <2> HIDE DEF o, R
    <2>4. broadcast' = Append(broadcast, o)
      BY <1>1 DEF o
    <2> QED
      BY <2>2, <2>3, <2>4, Appended
  <1>7. Ws!TypeOK'
    <2>1. Len(broadcast') <= HubRoom
      BY <1>2, <1>6, HubConstants
    <2>2. broadcast' \in Seq([frame : 1..sent', to : SUBSET User])
      BY <1>2, <1>6
    <2> QED
      BY <1>2, <1>3, <1>4, <2>1, <2>2 DEF HubIInv, Ws!TypeOK
  <1>8. \A i \in DOMAIN broadcast : broadcast[i].frame \in 1..sent
    BY QueueTyped
  <1>9. OrderInv'
    <2>1. ASSUME NEW i \in DOMAIN broadcast', NEW j \in DOMAIN broadcast', i < j
          PROVE  broadcast'[i].frame < broadcast'[j].frame
      <3>1. i \in DOMAIN broadcast
        BY <1>6, <2>1
      <3>2. CASE j = Len(broadcast) + 1
        BY <1>a, <1>6, <1>8, <3>1, <3>2
      <3>3. CASE j # Len(broadcast) + 1
        <4>1. j \in DOMAIN broadcast
          BY <1>6, <3>3
        <4> QED
          BY <1>6, <2>1, <3>1, <4>1 DEF HubIInv, OrderInv
      <3> QED
        BY <3>2, <3>3
    <2>2. \A d \in Conn : Line(d)' = Line(d)
      BY <1>2 DEF Line
    <2>3. ASSUME NEW d \in Conn, NEW i \in DOMAIN Line(d), ~(Line(d)[i] > MaxFrames)
          PROVE  /\ Line(d)[i] <= sent'
                 /\ \A k \in DOMAIN broadcast' : Line(d)[i] < broadcast'[k].frame
      <3>1. Line(d)[i] <= sent /\ \A k \in DOMAIN broadcast : Line(d)[i] < broadcast[k].frame
        BY <2>3 DEF HubIInv, OrderInv
      <3>2. Line(d)[i] \in Nat
        BY LineTyped
      <3>3. Line(d)[i] < sent + 1 /\ Line(d)[i] <= sent'
        BY <1>a, <1>2, <3>1, <3>2
      <3>4. \A k \in DOMAIN broadcast' : k \in DOMAIN broadcast \/ k = Len(broadcast) + 1
        BY <1>6
      <3> QED
        BY <1>6, <3>1, <3>3, <3>4
    <2>4. \A d \in Conn : Ordered(Line(d))
      BY DEF HubIInv, OrderInv
    <2> QED
      BY <2>1, <2>2, <2>3, <2>4 DEF OrderInv, Ordered
  <1> QED
    BY <1>4, <1>5, <1>7, <1>9 DEF HubIInv

\* What the hub puts into a channel joins the line.
LEMMA LineJoins ==
    ASSUME HubIInv, NEW c \in Conn, NEW x \in Ws!Payload
    PROVE  written[c] \o Append(send[c], x) = Append(Line(c), x)
  <1>1. written[c] \in Seq(Ws!Payload) /\ send[c] \in Seq(Ws!Payload)
    BY LineTyped
  <1>2. \A a, q \in Seq(Ws!Payload) : a \o Append(q, x) = Append(a \o q, x)
    BY GrowLine
  <1>3. written[c] \o Append(send[c], x) = Append(written[c] \o send[c], x)
    BY <1>1, <1>2
  <1> QED
    BY <1>3 DEF Line

\* A payload that joins a line is newer than those before it, or a caller's.
LEMMA LineGrows ==
    ASSUME HubIInv, NEW c \in Conn, NEW x \in Ws!Payload, written'[c] = written[c],
           send'[c] = Append(send[c], x), sent' = sent, NEW B, B \subseteq DOMAIN broadcast,
           x > MaxFrames \/ x <= sent,
           x > MaxFrames \/ \A i \in DOMAIN Line(c) : Line(c)[i] > MaxFrames \/ Line(c)[i] < x,
           x > MaxFrames \/ \A k \in B : x < broadcast[k].frame
    PROVE  /\ Ordered(Line(c)')
           /\ \A i \in DOMAIN Line(c)' :
                \/ Line(c)'[i] > MaxFrames
                \/ Line(c)'[i] <= sent /\ \A k \in B : Line(c)'[i] < broadcast[k].frame
  <1>1. Line(c)' = Append(Line(c), x)
    <2>1. Line(c)' = written[c] \o Append(send[c], x)
      BY DEF Line
    <2> QED
      BY <2>1, LineJoins
  <1>2. Ordered(Line(c))
    BY DEF HubIInv, OrderInv
  <1>3. Ordered(Line(c)')
    BY <1>1, <1>2, LineTyped, OrderGrows
  <1>4. ASSUME NEW i \in DOMAIN Line(c)'
        PROVE  \/ Line(c)'[i] > MaxFrames
               \/ Line(c)'[i] <= sent /\ \A k \in B : Line(c)'[i] < broadcast[k].frame
    <2>1. (i \in DOMAIN Line(c) /\ Line(c)'[i] = Line(c)[i]) \/ Line(c)'[i] = x
      BY <1>1, LineTyped, Appended
    <2>2. CASE i \in DOMAIN Line(c) /\ Line(c)'[i] = Line(c)[i]
      BY <2>2 DEF HubIInv, OrderInv
    <2> QED
      BY <2>1, <2>2
  <1> QED
    BY <1>3, <1>4

\* deliver: the oldest payload of the channel joins the lines with room.
LEMMA DeliverKeeps == ASSUME HubIInv, Ws!Deliver PROVE HubIInv'
  <1> DEFINE R == [frame : 1..sent, to : SUBSET User]
             x == broadcast[1].frame
             To == Ws!Targets(broadcast[1].to)
  <1>a. /\ broadcast \in Seq(R) /\ broadcast # <<>> /\ sent \in 0..frames /\ frames \in 0..MaxFrames
        /\ Len(broadcast) <= HubRoom /\ send \in [Conn -> Seq(Ws!Payload)]
        /\ \A c \in Conn : Len(send[c]) <= SendRoom
    BY DEF Ws!Deliver, HubIInv, Ws!TypeOK
  <1> HIDE DEF R
  <1>1. /\ Head(broadcast) = broadcast[1] /\ DOMAIN broadcast = 1..Len(broadcast) /\ Len(broadcast) \in Nat \ {0}
        /\ Tail(broadcast) \in Seq(R) /\ Len(Tail(broadcast)) = Len(broadcast) - 1
        /\ DOMAIN Tail(broadcast) = 1..(Len(broadcast) - 1)
        /\ \A i \in DOMAIN Tail(broadcast) :
             i + 1 \in DOMAIN broadcast /\ i + 1 # 1 /\ Tail(broadcast)[i] = broadcast[i + 1]
    BY <1>a, TailLeft
  <1>2. /\ broadcast' = Tail(broadcast)
        /\ send' = [c \in Conn |-> IF c \in To /\ Len(send[c]) < SendRoom
                                   THEN Append(send[c], x) ELSE send[c]]
        /\ panicked' = IF To \subseteq usable THEN panicked ELSE "hub"
        /\ UNCHANGED <<down, ended, clients, sent, offline, frames, usable, reader, writer, closed, gone, written>>
    BY <1>1 DEF Ws!Deliver, Ws!Taken, Ws!pumps
  <1>3. panicked' = panicked
    <2>1. clients \subseteq usable
      BY DEF Ws!Deliver, Ws!Selects, HubIInv, PlaceInv
    <2>2. To \subseteq clients
      BY DEF Ws!Targets
    <2> QED
      BY <1>2, <2>1, <2>2
  <1> HIDE DEF To, x
  <1>4. x \in 1..sent /\ x \in Ws!Payload
    <2>1. x \in 1..sent
      BY <1>1, QueueTyped DEF x
    <2> QED
      BY <1>a, <2>1, HubConstants DEF Ws!Payload
  <1>5. Ws!TypeOK'
    <2>1. ASSUME NEW c \in Conn PROVE send'[c] \in Seq(Ws!Payload) /\ Len(send'[c]) <= SendRoom
      <3>1. send[c] \in Seq(Ws!Payload) /\ Len(send[c]) \in Nat
        BY <1>a, LenProperties
      <3>2. CASE send'[c] = send[c]
        BY <1>a, <3>2
      <3>3. CASE send'[c] = Append(send[c], x) /\ Len(send[c]) < SendRoom
        <4>1. send'[c] \in Seq(Ws!Payload) /\ Len(send'[c]) = Len(send[c]) + 1
          BY <1>4, <3>1, <3>3, Appended
        <4> QED
          BY <3>1, <3>3, <4>1, HubConstants
      <3> QED
        BY <1>2, <3>2, <3>3
    <2>2. send' \in [Conn -> Seq(Ws!Payload)]
      BY <1>2, <2>1
    <2>3. broadcast' \in Seq([frame : 1..sent', to : SUBSET User]) /\ Len(broadcast') <= HubRoom
      <3>1. broadcast' \in Seq(R) /\ Len(broadcast') <= HubRoom
        BY <1>a, <1>1, <1>2, HubConstants
      <3> QED
        BY <1>2, <3>1 DEF R
    <2> QED
      BY <1>2, <1>3, <2>1, <2>2, <2>3 DEF HubIInv, Ws!TypeOK
  <1>6. PlaceInv'
    BY <1>2, <1>3 DEF HubIInv, PlaceInv
  <1>7. CountsInv'
    <2>1. Handling' = Handling /\ \A u \in User : Past(u)' = Past(u)
      BY <1>2 DEF Handling, Past
    <2> QED
      BY <1>2, <2>1 DEF HubIInv, CountsInv
  <1>8. OrderInv'
    <2> DEFINE B == DOMAIN broadcast \ {1}
    <2>1. \A k \in B : x < broadcast[k].frame
      <3> TAKE k \in B
      <3>1. 1 \in DOMAIN broadcast /\ k \in DOMAIN broadcast /\ 1 < k
        BY <1>1
      <3> QED
        BY <3>1 DEF HubIInv, OrderInv, x
    <2>2. \A c \in Conn : \A i \in DOMAIN Line(c) : Line(c)[i] > MaxFrames \/ Line(c)[i] < x
      <3>1. 1 \in DOMAIN broadcast
        BY <1>1
      <3> QED
        BY <3>1 DEF HubIInv, OrderInv, x
    <2>3. B \subseteq DOMAIN broadcast
      OBVIOUS
    <2> HIDE DEF B
    <2>4. ASSUME NEW c \in Conn
          PROVE  /\ Ordered(Line(c)')
                 /\ \A i \in DOMAIN Line(c)' :
                      \/ Line(c)'[i] > MaxFrames
                      \/ Line(c)'[i] <= sent /\ \A k \in B : Line(c)'[i] < broadcast[k].frame
      <3>1. CASE send'[c] = send[c]
        <4>1. Line(c)' = Line(c)
          BY <1>2, <3>1 DEF Line
        <4> QED
          BY <4>1, <2>3 DEF HubIInv, OrderInv
      <3>2. CASE send'[c] = Append(send[c], x)
        <4>1. x <= sent /\ written'[c] = written[c] /\ sent' = sent
          BY <1>2, <1>4
        <4> QED
          BY <1>4, <2>1, <2>2, <2>3, <3>2, <4>1, LineGrows
      <3> QED
        BY <1>2, <3>1, <3>2
    <2>5. \A k \in DOMAIN broadcast' : k + 1 \in B /\ broadcast'[k] = broadcast[k + 1]
      BY <1>1, <1>2 DEF B
    <2>6. ASSUME NEW i \in DOMAIN broadcast', NEW j \in DOMAIN broadcast', i < j
          PROVE  broadcast'[i].frame < broadcast'[j].frame
      <3>1. i + 1 \in DOMAIN broadcast /\ j + 1 \in DOMAIN broadcast /\ i + 1 < j + 1
        BY <1>1, <1>2, <2>6
      <3>2. broadcast[i + 1].frame < broadcast[j + 1].frame
        BY <3>1 DEF HubIInv, OrderInv
      <3> QED
        BY <2>5, <3>2
    <2> QED
      BY <1>2, <2>4, <2>5, <2>6 DEF OrderInv, Ordered
  <1> QED
    BY <1>5, <1>6, <1>7, <1>8 DEF HubIInv

\* Write moves a payload along its line.
LEMMA WriteKeeps == ASSUME HubIInv, NEW c \in Conn, Ws!Write(c) PROVE HubIInv'
  <1>1. /\ send[c] # <<>> /\ written' = [written EXCEPT ![c] = Append(@, Head(send[c]))]
        /\ send' = [send EXCEPT ![c] = Tail(@)]
        /\ UNCHANGED <<down, ended, clients, broadcast, sent, offline, frames, usable, reader, writer,
                       closed, gone, panicked>>
    BY DEF Ws!Write, Ws!hub, Ws!pumps
  <1>a. /\ send \in [Conn -> Seq(Ws!Payload)] /\ written \in [Conn -> Seq(Ws!Payload)]
        /\ \A d \in Conn : Len(send[d]) <= SendRoom
    BY DEF HubIInv, Ws!TypeOK
  <1>2. /\ Head(send[c]) \in Ws!Payload /\ Tail(send[c]) \in Seq(Ws!Payload)
        /\ Len(Tail(send[c])) = Len(send[c]) - 1 /\ Len(send[c]) \in Nat
    BY <1>a, <1>1, TailLeft
  <1>3. Append(written[c], Head(send[c])) \in Seq(Ws!Payload)
    BY <1>a, <1>2, Appended
  <1>4. Ws!TypeOK'
    <2>1. send' \in [Conn -> Seq(Ws!Payload)] /\ written' \in [Conn -> Seq(Ws!Payload)]
      BY <1>a, <1>1, <1>2, <1>3
    <2>2. Len(Tail(send[c])) <= SendRoom
      BY <1>a, <1>2, HubConstants
    <2>3. \A d \in Conn : Len(send'[d]) <= SendRoom
      BY <1>a, <1>1, <2>2
    <2> QED
      BY <1>1, <2>1, <2>3 DEF HubIInv, Ws!TypeOK
  <1>5. PlaceInv'
    BY <1>1 DEF HubIInv, PlaceInv
  <1>6. CountsInv'
    <2>1. Handling' = Handling /\ \A u \in User : Past(u)' = Past(u)
      BY <1>1 DEF Handling, Past
    <2> QED
      BY <1>1, <2>1 DEF HubIInv, CountsInv
  <1>7. \A d \in Conn : Line(d)' = Line(d)
    <2> TAKE d \in Conn
    <2>1. CASE d = c
      <3>1. written'[c] = Append(written[c], Head(send[c])) /\ send'[c] = Tail(send[c])
        BY <1>a, <1>1
      <3> QED
        BY <1>a, <1>1, <2>1, <3>1, WriteLine DEF Line
    <2>2. CASE d # c
      BY <1>a, <1>1, <2>2 DEF Line
    <2> QED
      BY <2>1, <2>2
  <1>8. OrderInv'
    BY <1>1, <1>7 DEF HubIInv, OrderInv, Ordered
  <1> QED
    BY <1>4, <1>5, <1>6, <1>8 DEF HubIInv

\* Conn.Send: its payload has a number of its own, or its caller panics.
LEMMA SendKeeps == ASSUME HubIInv, NEW c \in Conn, Ws!Send(c) PROVE HubIInv'
  <1>1. /\ frames < MaxFrames /\ frames' = frames + 1
        /\ UNCHANGED <<down, ended, clients, broadcast, sent, offline, usable, reader, writer, closed, gone, written>>
    BY DEF Ws!Send, Ws!hub, Ws!pumps
  <1>a. /\ send \in [Conn -> Seq(Ws!Payload)] /\ frames \in 0..MaxFrames /\ sent \in 0..frames
        /\ \A d \in Conn : Len(send[d]) <= SendRoom
    BY DEF HubIInv, Ws!TypeOK
  <1>2. frames' \in 0..MaxFrames /\ sent' \in 0..frames' /\ frames' \in Nat /\ frames <= frames'
    BY <1>a, <1>1, HubConstants
  <1>3. CountsInv'
    <2>1. \A u \in User : offline'[u] <= offline[u] /\ offline'[u] \in Nat
      <3>1. offline \in [User -> 0..Cardinality(Conn)]
        BY ConnCount DEF HubIInv, Ws!TypeOK
      <3> QED
        BY <1>1, <3>1, ConnCount
    <2> QED
      BY <1>1, <1>2, <2>1, CountsStay DEF HubIInv
  <1>4. CASE panicked' = "caller" /\ UNCHANGED send
    <2>1. Ws!TypeOK' /\ PlaceInv'
      BY <1>1, <1>2, <1>4 DEF HubIInv, Ws!TypeOK, PlaceInv
    <2>2. OrderInv'
      BY <1>1, <1>4, OrderStays DEF HubIInv
    <2> QED
      BY <1>3, <2>1, <2>2 DEF HubIInv
  <1>5. CASE Len(send[c]) < SendRoom /\ send' = [send EXCEPT ![c] = Append(@, MaxFrames + frames + 1)] /\ UNCHANGED panicked
    <2> DEFINE x == MaxFrames + frames + 1
    <2>1. x \in Ws!Payload /\ x > MaxFrames
      BY <1>a, <1>1, HubConstants DEF Ws!Payload
    <2>2. send' = [send EXCEPT ![c] = Append(send[c], x)]
      BY <1>5
    <2> HIDE DEF x
    <2>3. Append(send[c], x) \in Seq(Ws!Payload) /\ Len(Append(send[c], x)) = Len(send[c]) + 1 /\ Len(send[c]) \in Nat
      BY <1>a, <2>1, Appended
    <2>4. Ws!TypeOK'
      <3>1. Len(Append(send[c], x)) <= SendRoom
        BY <1>5, <2>3, HubConstants
      <3>2. send' \in [Conn -> Seq(Ws!Payload)] /\ \A d \in Conn : Len(send'[d]) <= SendRoom
        BY <1>a, <2>2, <2>3, <3>1
      <3> QED
        BY <1>1, <1>2, <1>5, <3>2 DEF HubIInv, Ws!TypeOK
    <2>5. PlaceInv'
      BY <1>1, <1>5 DEF HubIInv, PlaceInv
    <2>6. ASSUME NEW d \in Conn
          PROVE  /\ Ordered(Line(d)')
                 /\ \A i \in DOMAIN Line(d)' :
                      \/ Line(d)'[i] > MaxFrames
                      \/ /\ Line(d)'[i] <= sent
                         /\ \A k \in DOMAIN broadcast : Line(d)'[i] < broadcast[k].frame
      <3>1. CASE d = c
        <4>1. send'[c] = Append(send[c], x) /\ written'[c] = written[c] /\ sent' = sent
          BY <1>a, <1>1, <2>2
        <4> QED
          BY <2>1, <3>1, <4>1, LineGrows
      <3>2. CASE d # c
        <4>1. Line(d)' = Line(d)
          BY <1>a, <1>1, <2>2, <3>2 DEF Line
        <4> QED
          BY <4>1 DEF HubIInv, OrderInv
      <3> QED
        BY <3>1, <3>2
    <2>7. OrderInv'
      BY <1>1, <2>6 DEF HubIInv, OrderInv, Ordered
    <2> QED
      BY <1>3, <2>4, <2>5, <2>7 DEF HubIInv
  <1> QED
    BY <1>4, <1>5 DEF Ws!Send

\* Every step of the hub, its pumps and their callers keeps the invariant.
LEMMA HubStep == ASSUME HubIInv, Ws!Next \/ UNCHANGED wsVars PROVE HubIInv'
  <1>1. CASE UNCHANGED wsVars
    <2>1. /\ UNCHANGED <<down, ended, clients, broadcast, frames, sent, send, usable>>
          /\ UNCHANGED <<reader, writer, closed, gone, written, offline, panicked>>
      BY <1>1 DEF wsVars
    <2>2. Ws!TypeOK' /\ PlaceInv'
      BY <2>1 DEF HubIInv, Ws!TypeOK, PlaceInv
    <2>3. CountsInv'
      BY <2>1 DEF HubIInv, CountsInv, Past, Handling
    <2>4. OrderInv'
      BY <2>1, OrderStays DEF HubIInv
    <2> QED
      BY <2>2, <2>3, <2>4 DEF HubIInv
  <1>2. CASE Ws!HubStep
    BY <1>2, DeliverKeeps, EndKeeps, RegisterKeeps, UnregisterKeeps DEF Ws!HubStep
  <1>3. CASE Ws!Cancel \/ \E x \in User : Ws!OfflineDone(x)
    BY <1>3, PumpKeeps
  <1>4. ASSUME NEW c \in Conn,
               \/ Ws!Serve(c) \/ Ws!Read(c) \/ Ws!Broadcast(c) \/ Ws!ReadFails(c)
               \/ Ws!Write(c) \/ Ws!WriterLeaves(c) \/ Ws!Cleanup(c) \/ Ws!CloseSocket(c) \/ Ws!Send(c)
        PROVE  HubIInv'
    BY <1>4, PumpKeeps, ReadKeeps, BroadcastKeeps, WriteKeeps, SendKeeps
  <1> QED
    BY <1>1, <1>2, <1>3, <1>4 DEF Ws!Next

\* The two properties of the hub.
LEMMA HubHolds == ASSUME HubIInv PROVE Ws!Inv /\ Ws!BroadcastsInOrder
  <1>1. Ws!Inv
    BY DEF HubIInv, PlaceInv, Ws!Inv, Ws!HubNeverPanics
  <1>2. Ws!BroadcastsInOrder
    BY DEF HubIInv, OrderInv, Ordered, Line, Ws!BroadcastsInOrder
  <1> QED
    BY <1>1, <1>2

-----------------------------------------------------------------------------
(* The three parts together *)

\* A behaviour of the parts is one of groupFanout and one of the hub, which
\* may do nothing.
LEMMA Parts == WorkersSpec => Spec /\ Ws!Spec
  <1>1. WorkersInit => Init /\ Ws!Init
    BY DEF WorkersInit
  <1>2. [WorkersNext]_workersVars => [Next]_vars
    <2> SUFFICES ASSUME [WorkersNext]_workersVars PROVE [Next]_vars
      OBVIOUS
    <2>1. CASE UNCHANGED workersVars
      BY <2>1 DEF workersVars
    <2>2. CASE WorkersNext
      BY <2>2 DEF WorkersNext
    <2> QED
      BY <2>1, <2>2
  <1>3. [WorkersNext]_workersVars => [Ws!Next]_(Ws!vars)
    <2> SUFFICES ASSUME [WorkersNext]_workersVars PROVE [Ws!Next]_(Ws!vars)
      OBVIOUS
    <2>1. Ws!Next \/ UNCHANGED wsVars
      BY DEF WorkersNext, workersVars
    <2>2. UNCHANGED wsVars => UNCHANGED Ws!vars
      BY DEF wsVars, Ws!vars, Ws!hub, Ws!chan, Ws!pumps
    <2> QED
      BY <2>1, <2>2
  <1> QED
    BY <1>1, <1>2, <1>3, PTL DEF WorkersSpec, Spec, Ws!Spec

\* The inductive invariants of the three parts.
WorkersIInv == IInv /\ PoolIInv /\ HubIInv

\* Whatever the goroutines of the parts do, the inductive invariants hold.
THEOREM WorkersInductive == WorkersSpec => []WorkersIInv
  <1>1. WorkersInit => PoolIInv /\ HubIInv
    BY PoolInitIInv, HubInitIInv DEF WorkersInit
  <1>2. PoolIInv /\ [WorkersNext]_workersVars => PoolIInv'
    <2> SUFFICES ASSUME PoolIInv, [WorkersNext]_workersVars PROVE PoolIInv'
      OBVIOUS
    <2>1. Pool!PoolNext \/ UNCHANGED poolVars
      BY DEF WorkersNext, workersVars
    <2> QED
      BY <2>1, PoolStep
  <1>3. HubIInv /\ [WorkersNext]_workersVars => HubIInv'
    <2> SUFFICES ASSUME HubIInv, [WorkersNext]_workersVars PROVE HubIInv'
      OBVIOUS
    <2>1. Ws!Next \/ UNCHANGED wsVars
      BY DEF WorkersNext, workersVars
    <2> QED
      BY <2>1, HubStep
  <1> QED
    BY <1>1, <1>2, <1>3, Parts, Inductive, PTL DEF WorkersSpec, WorkersIInv

\* A message that Enqueue accepted is kept until it is posted or its attempts
\* are over, Stop leaves nobody posting, and the hub of pkg/ws neither sends to
\* nor closes a channel that is closed.
THEOREM WorkersAreRight == WorkersSpec => []WorkersInv
  <1>1. WorkersIInv => WorkersInv
    BY PoolHolds, HubHolds DEF WorkersIInv, WorkersInv, IInv
  <1> QED
    BY <1>1, WorkersInductive, PTL

\* The clients of pkg/ws get broadcasts in the order in which the hub took
\* them, however slow they are.
THEOREM Ordering == WorkersSpec => []BroadcastsInOrder
  <1>1. WorkersIInv => BroadcastsInOrder
    BY HubHolds DEF WorkersIInv, BroadcastsInOrder
  <1> QED
    BY <1>1, WorkersInductive, PTL

\* Both together are what the abstraction says, and nothing goes on for ever.
THEOREM FanoutIsRefined == Spec => FanoutRefines
  BY Refinement, EndsAfterAll DEF FanoutRefines

\* The same in the system of the three parts: groupFanout leaves no worker, is
\* never stuck, implements AnyOrder and comes to its end.
THEOREM FanoutAmongWorkers == WorkersSpec => []FanoutInv /\ FanoutRefines
  BY Parts, NeverWaitsForNobody, FanoutIsRefined
=============================================================================
