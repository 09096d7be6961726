------------------------------ MODULE KafkaBus ------------------------------
(***************************************************************************)
(* The event bus on Kafka (pkg/eventbus/kafka.go): one topic, one consumer *)
(* group and the processes that subscribe with it.  The broker and the     *)
(* group protocol of the client library are modelled from the way kafka.go *)
(* configures and calls them.                                              *)
(*                                                                         *)
(* An entry is named by its partition and its place there.  A member reads *)
(* each partition it was assigned with a goroutine of its own, marks an    *)
(* entry after the callback returned, and commits its marks from time to   *)
(* time and when its session ends.  Offsets count entries; None says that  *)
(* the group never committed in a partition.                               *)
(*                                                                         *)
(* Entries carry no key, so the partition of an event is any of them.  A   *)
(* send that is repeated appends another entry.                            *)
(***************************************************************************)
EXTENDS Integers, FiniteSets

CONSTANTS
    Proc,       \* processes that subscribe
    Part,       \* partitions of the topic
    MaxEvents,  \* bound: entries appended to each partition
    MaxFaults,  \* bound: failed commits, crashes and expulsions
    MaxStops    \* bound: processes asked to shut down

KafkaAssumption ==
    /\ IsFiniteSet(Part)
    /\ MaxEvents \in [Part -> Nat] /\ MaxFaults \in Nat /\ MaxStops \in Nat

None == -1

VARIABLES
    n,         \* length of each partition
    committed, \* the group's committed offset in each partition
    st,        \* where the subscription goroutine of each process is
    claim,     \* partitions assigned to its session
    pos,       \* offset its claim has reached, None before the claim started
    busy,      \* partitions whose callback is running
    dirty,     \* partitions with marks that are not committed
    stopping,  \* processes whose subscription is cancelled
    handled,   \* entries the callback was given ...
    again,     \* ... and those it was given more than once
    skipped,   \* entries a claim without a committed offset passed over
    faults, stops

log == <<n, committed>>
session == <<claim, pos, busy, dirty>>
history == <<handled, again, skipped>>
budget == <<faults, stops>>
kvars == <<n, committed, st, claim, pos, busy, dirty, stopping, handled, again, skipped, faults, stops>>

Entries(q) == 1..n[q]

TypeOK ==
    /\ \A q \in Part : n[q] \in 0..MaxEvents[q] /\ committed[q] \in None..n[q]
    /\ st \in [Proc -> {"down", "deaf", "joining", "in", "expelled", "stopped"}]
    /\ claim \in [Proc -> SUBSET Part]
    /\ \A p \in Proc, q \in Part : pos[p][q] \in None..n[q]
    /\ \A p \in Proc : busy[p] \cup dirty[p] \subseteq claim[p]
    /\ stopping \subseteq Proc
    /\ \A q \in Part : again[q] \subseteq handled[q] /\ handled[q] \cup skipped[q] \subseteq Entries(q)
    /\ faults \in 0..MaxFaults /\ stops \in 0..MaxStops

KInit ==
    /\ n = [q \in Part |-> 0]
    /\ committed = [q \in Part |-> None]
    /\ st = [p \in Proc |-> "down"]
    /\ claim = [p \in Proc |-> {}]
    /\ pos = [p \in Proc |-> [q \in Part |-> None]]
    /\ busy = [p \in Proc |-> {}]
    /\ dirty = [p \in Proc |-> {}]
    /\ stopping = {}
    /\ handled = [q \in Part |-> {}]
    /\ again = [q \in Part |-> {}]
    /\ skipped = [q \in Part |-> {}]
    /\ faults = 0 /\ stops = 0

-----------------------------------------------------------------------------
Fail == faults < MaxFaults /\ faults' = faults + 1

\* SendMessage waits for all replicas.  An error may hide an entry that was
\* appended; one that was not changes nothing here.
Publish(q) ==
    /\ n[q] < MaxEvents[q]
    /\ n' = [n EXCEPT ![q] = @ + 1]
    /\ UNCHANGED <<committed, st, session, stopping, history, budget>>

\* NewConsumerGroup: when it fails the caller logs the error and goes on.
Subscribe(p) ==
    /\ st[p] \in {"down", "stopped"}
    /\ stopping' = stopping \ {p}
    /\ \/ st' = [st EXCEPT ![p] = "joining"] /\ UNCHANGED faults
       \/ st' = [st EXCEPT ![p] = "deaf"] /\ Fail
    /\ UNCHANGED <<log, session, history, stops>>

Members == {p \in Proc : st[p] = "in"}
Joining == {p \in Proc : st[p] = "joining"}

\* The coordinator asks for a rebalance when a process joins or one is gone.
Unsettled == Joining # {} \/ UNION {claim[p] : p \in Members} # Part

\* Round robin: nobody gets two partitions more than another.
Balanced(owner) ==
    \A p, r \in Joining :
      Cardinality({q \in Part : owner[q] = p}) <= 1 + Cardinality({q \in Part : owner[q] = r})

\* Every member has given up its session and joined again.
Rebalance ==
    /\ Members = {} /\ Joining # {}
    /\ \E owner \in [Part -> Joining] :
         /\ Balanced(owner)
         /\ claim' = [p \in Proc |-> IF p \in Joining THEN {q \in Part : owner[q] = p} ELSE claim[p]]
    /\ st' = [p \in Proc |-> IF p \in Joining THEN "in" ELSE st[p]]
    /\ UNCHANGED <<log, pos, busy, dirty, stopping, history, budget>>

\* Mutant: a claim always starts at the end.
InitialAlwaysNewest(q) == n[q]

\* Where a claim starts: Offsets.Initial = OffsetNewest without a commit.
Initial(q) == IF committed[q] = None THEN n[q] ELSE committed[q]

\* The goroutine of a claim is started and asks for its offset.
Start(p, q) ==
    /\ q \in claim[p] /\ pos[p][q] = None
    /\ pos' = [pos EXCEPT ![p][q] = Initial(q)]
    /\ skipped' = [skipped EXCEPT ![q] = @ \cup ((1..Initial(q)) \ handled[q])]
    /\ UNCHANGED <<log, st, claim, busy, dirty, stopping, handled, again, budget>>

\* fn is called with the next message of the claim.  A member that was
\* expelled goes on until it is told.
Handle(p, q) ==
    /\ q \in claim[p] \ busy[p]
    /\ pos[p][q] # None /\ pos[p][q] < n[q]
    /\ LET i == pos[p][q] + 1 IN
         /\ handled' = [handled EXCEPT ![q] = @ \cup {i}]
         /\ again' = [again EXCEPT ![q] = IF i \in handled[q] THEN @ \cup {i} ELSE @]
    /\ busy' = [busy EXCEPT ![p] = @ \cup {q}]
    /\ UNCHANGED <<log, st, claim, pos, dirty, stopping, skipped, budget>>

\* fn returned; the message is marked.
Mark(p, q) ==
    /\ q \in busy[p]
    /\ busy' = [busy EXCEPT ![p] = @ \ {q}]
    /\ pos' = [pos EXCEPT ![p][q] = @ + 1]
    /\ dirty' = [dirty EXCEPT ![p] = @ \cup {q}]
    /\ UNCHANGED <<log, st, claim, stopping, history, budget>>

\* The marks of a member reach the coordinator; those of an expelled one are
\* refused.
Flushed(p) ==
    IF st[p] = "in" THEN [q \in Part |-> IF q \in dirty[p] THEN pos[p][q] ELSE committed[q]]
    ELSE committed

\* Commit by the timer of the library; a failed one is repeated later.
AutoCommit(p) ==
    /\ st[p] = "in" /\ dirty[p] # {}
    /\ committed' = Flushed(p)
    /\ dirty' = [dirty EXCEPT ![p] = {}]
    /\ UNCHANGED <<n, st, claim, pos, busy, stopping, history, budget>>

NoSession(p) ==
    /\ claim' = [claim EXCEPT ![p] = {}]
    /\ pos' = [pos EXCEPT ![p] = [q \in Part |-> None]]
    /\ busy' = [busy EXCEPT ![p] = {}]
    /\ dirty' = [dirty EXCEPT ![p] = {}]

\* Mutant: the loop ends with the session.
ConsumeOnce(p) == "stopped"

\* The loop around Consume returns when it finds its context cancelled.
LoopHead(p) == IF p \in stopping THEN "stopped" ELSE "joining"

\* Mutant: ConsumeClaim hands the messages to goroutines and returns.
HandedOver(p) == TRUE

\* ConsumeClaim returns between two messages.
Returned(p) == busy[p] = {}

\* Consume returns: the callbacks have returned, the marks are committed.
EndSession(p) ==
    /\ st[p] \in {"in", "expelled"}
    /\ Returned(p)
    /\ st[p] = "expelled" \/ p \in stopping \/ Unsettled
    /\ \/ committed' = Flushed(p) /\ UNCHANGED faults
       \/ dirty[p] # {} /\ Fail /\ UNCHANGED committed
    /\ st' = [st EXCEPT ![p] = LoopHead(p)]
    /\ NoSession(p)
    /\ UNCHANGED <<n, stopping, history, stops>>

\* A process that waits to join is cancelled.
Leave(p) ==
    /\ st[p] = "joining" /\ p \in stopping
    /\ st' = [st EXCEPT ![p] = "stopped"]
    /\ UNCHANGED <<log, session, stopping, history, budget>>

\* The subscription's context is cancelled, by main or by Shutdown.
Cancel(p) ==
    /\ st[p] \in {"joining", "in", "expelled"} /\ p \notin stopping
    /\ stops < MaxStops /\ stops' = stops + 1
    /\ stopping' = stopping \cup {p}
    /\ UNCHANGED <<log, st, session, history, faults>>

\* The coordinator does not hear from a member in time.
Expel(p) ==
    /\ st[p] = "in" /\ Fail
    /\ st' = [st EXCEPT ![p] = "expelled"]
    /\ UNCHANGED <<log, session, stopping, history, stops>>

Crash(p) ==
    /\ st[p] \notin {"down", "stopped"} /\ Fail
    /\ st' = [st EXCEPT ![p] = "down"]
    /\ NoSession(p)
    /\ UNCHANGED <<log, stopping, history, stops>>

-----------------------------------------------------------------------------
ClaimStep(p, q) == Start(p, q) \/ Handle(p, q) \/ Mark(p, q)
LoopStep(p) == EndSession(p) \/ Leave(p)

KNext ==
    \/ \E q \in Part : Publish(q)
    \/ Rebalance
    \/ \E p \in Proc :
         \/ Subscribe(p) \/ LoopStep(p) \/ AutoCommit(p)
         \/ Cancel(p) \/ Expel(p) \/ Crash(p)
         \/ \E q \in Part : ClaimStep(p, q)

KSpec == KInit /\ [][KNext]_kvars

\* The goroutines of a process and the coordinator go on; timers, operators
\* and failures owe nothing.
KFairness ==
    /\ WF_kvars(Rebalance)
    /\ \A p \in Proc : WF_kvars(LoopStep(p)) /\ \A q \in Part : WF_kvars(ClaimStep(p, q))
-----------------------------------------------------------------------------
\* Nothing is given to the callback twice unless something failed: sessions
\* that end in order commit what they handled before the next one starts.
RepeatedOnlyByFault == faults = 0 => \A q \in Part : again[q] = {}

fate ==
    [q \in Part |->
       [i \in Entries(q) |->
          CASE i \in handled[q] -> "handled"
            [] i \in skipped[q] \ handled[q] -> "skipped"
            [] OTHER -> "queued"]]

anchored == {q \in Part : committed[q] # None}

Log == INSTANCE EventLog

\* The bus implements EventLog: at least once and in order where the group
\* has committed, through rebalances, crashes and expelled members.
KafkaImplementsLog == Log!Spec

Consumes(p) == st[p] \in {"joining", "in", "expelled"} /\ p \notin stopping

\* While some process consumes for good, what was published to a partition in
\* which the group has committed reaches the callback.
KafkaServed ==
    <>[](\E p \in Proc : Consumes(p))
      => []<>(\A q \in anchored : Entries(q) \subseteq handled[q] \cup skipped[q])
=============================================================================
