---------------------------- MODULE GroupFanout ----------------------------
(***************************************************************************)
(* groupFanout and batchRecipients of chat-service (cmd/server.go): the    *)
(* caller cuts the recipients into batches, starts workers, hands them the *)
(* batches over an unbuffered channel, closes it and waits.                *)
(*                                                                         *)
(* A recipient is named by its place in the list.  deliverToRecipient is   *)
(* a beginning and an end here; MessageDelivery has its steps.             *)
(***************************************************************************)
EXTENDS Integers, FiniteSets

CONSTANTS
    Worker,        \* the goroutines there may be
    WorkerCount,   \* groupWorkerCount, 20
    BatchSize,     \* 64
    MaxRecipients  \* bound: recipients of one message

ASSUME FanoutAssumption ==
    /\ WorkerCount \in Nat \ {0}
    /\ IsFiniteSet(Worker) /\ Cardinality(Worker) = WorkerCount
    /\ BatchSize \in Nat \ {0}
    /\ MaxRecipients \in Nat

Recipient == 1..MaxRecipients

VARIABLES
    n,        \* the recipients are 1..n
    main,     \* where groupFanout is
    next,     \* first recipient of the next batch
    open,     \* whether the channel jobs is open
    wg,       \* counter of the WaitGroup
    worker,   \* where each worker is
    at,       \* the recipient of its batch a worker has come to ...
    upto,     \* ... and the last one
    served    \* recipients deliverToRecipient returned for

vars == <<n, main, next, open, wg, worker, at, upto, served>>

TypeOK ==
    /\ n \in 0..MaxRecipients
    /\ main \in {"spawn", "feed", "wait", "returned"}
    /\ next \in Nat
    /\ open \in BOOLEAN
    /\ wg \in 0..WorkerCount
    /\ worker \in [Worker -> {"unborn", "ready", "receive", "next", "serving", "exited"}]
    /\ at \in [Worker -> Nat]
    /\ upto \in [Worker -> 0..n]
    /\ served \subseteq 1..n

Init ==
    /\ n \in 0..MaxRecipients
    /\ main = "spawn"
    /\ next = 1
    /\ open = TRUE
    /\ wg = 0
    /\ worker = [w \in Worker |-> "unborn"]
    /\ at = [w \in Worker |-> 1]
    /\ upto = [w \in Worker |-> 0]
    /\ served = {}

-----------------------------------------------------------------------------
\* Mutant: a batch ends with the first recipient of the following one.
EndOverlapping == IF next + BatchSize > n THEN n ELSE next + BatchSize

\* The last recipient of the batch that starts at next.
End == IF next + BatchSize - 1 > n THEN n ELSE next + BatchSize - 1

\* How many batches there are.
Batches == (n + BatchSize - 1) \div BatchSize

\* One worker for each batch, at most groupWorkerCount and at least one.
Workers ==
    IF WorkerCount <= Batches THEN WorkerCount
    ELSE IF Batches < 1 THEN 1 ELSE Batches

Started == {w \in Worker : worker[w] # "unborn"}

\* Mutant: the WaitGroup counts the first worker only.
AddedOnce == IF Started = {} THEN 1 ELSE 0

\* wg.Add(1) before each worker is started.
Added == 1

\* A worker is counted and started; it begins to run later.
Spawn(w) ==
    /\ main = "spawn"
    /\ worker[w] = "unborn"
    /\ Cardinality(Started) < Workers
    /\ wg' = wg + Added
    /\ worker' = [worker EXCEPT ![w] = "ready"]
    /\ UNCHANGED <<n, main, next, open, at, upto, served>>

Spawned ==
    /\ main = "spawn"
    /\ Cardinality(Started) = Workers
    /\ main' = "feed"
    /\ UNCHANGED <<n, next, open, wg, worker, at, upto, served>>

\* jobs <- b: the channel has no buffer, some worker is receiving.
Feed(w) ==
    /\ main = "feed"
    /\ next <= n
    /\ worker[w] = "receive"
    /\ at' = [at EXCEPT ![w] = next]
    /\ upto' = [upto EXCEPT ![w] = End]
    /\ worker' = [worker EXCEPT ![w] = "next"]
    /\ next' = next + BatchSize
    /\ UNCHANGED <<n, main, open, wg, served>>

\* Mutant: the channel is left open.
LeftOpen == TRUE

\* close(jobs).
OpenAfterFeed == FALSE

Close ==
    /\ main = "feed"
    /\ next > n
    /\ open' = OpenAfterFeed
    /\ main' = "wait"
    /\ UNCHANGED <<n, next, wg, worker, at, upto, served>>

\* wg.Wait, and groupFanout returns.
Return ==
    /\ main = "wait"
    /\ wg = 0
    /\ main' = "returned"
    /\ UNCHANGED <<n, next, open, wg, worker, at, upto, served>>

-----------------------------------------------------------------------------
\* The worker reaches its receive, for the first time or with a batch done.
Receive(w) ==
    /\ \/ worker[w] = "ready"
       \/ worker[w] = "next" /\ at[w] > upto[w]
    /\ worker' = [worker EXCEPT ![w] = "receive"]
    /\ UNCHANGED <<n, main, next, open, wg, at, upto, served>>

\* deliverToRecipient is called ...
Deliver(w) ==
    /\ worker[w] = "next"
    /\ at[w] <= upto[w]
    /\ worker' = [worker EXCEPT ![w] = "serving"]
    /\ UNCHANGED <<n, main, next, open, wg, at, upto, served>>

\* ... and returns, whether it succeeded or not.
Delivered(w) ==
    /\ worker[w] = "serving"
    /\ served' = served \cup {at[w]}
    /\ at' = [at EXCEPT ![w] = @ + 1]
    /\ worker' = [worker EXCEPT ![w] = "next"]
    /\ UNCHANGED <<n, main, next, open, wg, upto>>

\* The channel is closed: the range ends and wg.Done runs.
Exit(w) ==
    /\ worker[w] = "receive"
    /\ ~open
    /\ wg' = wg - 1
    /\ worker' = [worker EXCEPT ![w] = "exited"]
    /\ UNCHANGED <<n, main, next, open, at, upto, served>>

-----------------------------------------------------------------------------
MainStep == Spawned \/ Close \/ Return \/ \E w \in Worker : Spawn(w) \/ Feed(w)

WorkerStep(w) == Receive(w) \/ Deliver(w) \/ Delivered(w) \/ Exit(w)

Next == MainStep \/ \E w \in Worker : WorkerStep(w)

Spec == Init /\ [][Next]_vars

\* Goroutines that can run do, and deliverToRecipient returns (CallsFinish of
\* MessageDelivery).
FairSpec == Spec /\ WF_vars(MainStep) /\ \A w \in Worker : WF_vars(WorkerStep(w))
-----------------------------------------------------------------------------
(* Safety *)

\* groupFanout leaves no goroutine behind: when it returns, every worker it
\* started has left its range, also those that never got a batch.
NoWorkerLeft ==
    main = "returned" => \A w \in Worker : worker[w] \in {"unborn", "exited"}

\* What some goroutine could do next: main, with its wait for a receiver or for
\* the WaitGroup, or a worker.
CanGoOn ==
    \/ /\ main = "spawn"
       /\ Cardinality(Started) = Workers \/ (Cardinality(Started) < Workers /\ Started # Worker)
    \/ main = "feed" /\ (next > n \/ \E w \in Worker : worker[w] = "receive")
    \/ main = "wait" /\ wg = 0
    \/ \E w \in Worker : worker[w] \in {"ready", "next", "serving"} \/ (worker[w] = "receive" /\ ~open)

\* Caller and workers never all wait for each other: with the channel, which has
\* no buffer, or with the WaitGroup.
NeverStuck == main # "returned" => CanGoOn

\* How groupFanout ends, and that nothing keeps it from ending.
FanoutInv == NoWorkerLeft /\ NeverStuck

(* Progress *)

WorkersIn(places) == {w \in Worker : worker[w] \in places}

\* What is left of main's way, of the list to hand out, and of the workers'
\* ways to their next receive, call or exit.
MainLeft == CASE main = "spawn" -> 3 [] main = "feed" -> 2 [] main = "wait" -> 1 [] OTHER -> 0
ListLeft == IF next > n THEN 0 ELSE n + 1 - next
WorkersLeft ==
    Cardinality(WorkersIn({"ready", "next"}))
    + Cardinality(WorkersIn({"ready", "next", "receive", "serving"}))

\* All that is left to do, the most significant first; second and fourth are
\* the workers to start and the recipients to serve.
LeftToDo ==
    <<MainLeft, Cardinality(WorkersIn({"unborn"})), ListLeft, Cardinality((1..n) \ served),
      WorkersLeft>>

\* The lexicographic order of such tuples, which has no endless descent.
Below(s, t) == \E i \in 1..5 : s[i] < t[i] /\ \A j \in 1..(i - 1) : s[j] = t[j]

\* No goroutine goes round in circles: every step of groupFanout leaves less to
\* do.  As somebody can always go on, it returns.
EveryStepCounts == [][Below(LeftToDo', LeftToDo) /\ LeftToDo \in [1..5 -> Nat]]_vars

(* Liveness *)

\* It returns for every length of the list: one that is empty, shorter than
\* a batch, a multiple of the batch size or with more batches than workers.
FanoutReturns == <>(main = "returned")

(* The workers implement AnyOrder *)
Busy == {at[w] : w \in {v \in Worker : worker[v] = "serving"}}

Service == INSTANCE AnyOrder WITH
    waiting <- (1..n) \ (served \cup Busy),
    busy <- Busy,
    returned <- main = "returned"

\* No recipient is skipped or served twice, however batches and workers meet,
\* and groupFanout does not return while one is being served.
ImplementsAnyOrder == Service!Spec

\* It implements AnyOrder without going round in circles.
FanoutRefines == ImplementsAnyOrder /\ EveryStepCounts
=============================================================================
