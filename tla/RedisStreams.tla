---------------------------- MODULE RedisStreams ----------------------------
(***************************************************************************)
(* The event bus on Redis streams (pkg/eventbus/eventbus.go), with one     *)
(* stream, one consumer group and the processes that subscribe with it,    *)
(* as the instances of chat-service do with "chat-service-status".         *)
(*                                                                         *)
(* An event is named by its place in the stream.  Redis keeps the group's  *)
(* last-delivered place and the entries delivered and not acknowledged.    *)
(* Every XREADGROUP call uses a new consumer name and asks for entries     *)
(* never delivered, so an entry whose reader lost it stays pending.        *)
(*                                                                         *)
(* Each Redis command may fail, and a failed one may have been applied.    *)
(* The block time of XREADGROUP and the pause after an error are left out: *)
(* a read that finds nothing changes nothing.                              *)
(***************************************************************************)
EXTENDS Naturals

CONSTANTS
    Proc,       \* processes that subscribe
    ReadCount,  \* entries one XREADGROUP may return (16)
    MaxEvents,  \* bound: events published
    MaxFaults   \* bound: failed commands and crashes

ASSUME StreamAssumption ==
    /\ ReadCount \in Nat \ {0}
    /\ MaxEvents \in Nat
    /\ MaxFaults \in Nat

Event == 1..MaxEvents

VARIABLES
    len,      \* length of the stream
    group,    \* whether the consumer group exists
    last,     \* its last-delivered place
    pending,  \* entries delivered to some consumer and not acknowledged
    pc,       \* where each process' subscription goroutine is
    cur,      \* the entry a process is busy with ...
    upto,     \* ... and the last one of its batch
    stopping, \* processes whose subscription context is cancelled
    calls,    \* how often the callback was called with each event
    seen,     \* the event each process called back last
    faults    \* failures so far

redisVars == <<len, group, last, pending>>
procVars  == <<pc, cur, upto, stopping>>
history   == <<calls, seen>>
vars == <<len, group, last, pending, pc, cur, upto, stopping, calls, seen, faults>>

TypeOK ==
    /\ len \in 0..MaxEvents
    /\ group \in BOOLEAN
    /\ last \in 0..len
    /\ pending \subseteq 1..last
    /\ pc \in [Proc -> {"down", "deaf", "read", "handle", "ack", "stopped"}]
    /\ cur \in [Proc -> Nat]
    /\ upto \in [Proc -> 0..last]
    /\ stopping \subseteq Proc
    /\ calls \in [Event -> Nat]
    /\ seen \in [Proc -> 0..last]
    /\ faults \in 0..MaxFaults

Init ==
    /\ len = 0
    /\ group = FALSE
    /\ last = 0
    /\ pending = {}
    /\ pc = [p \in Proc |-> "down"]
    /\ cur = [p \in Proc |-> 1]
    /\ upto = [p \in Proc |-> 0]
    /\ stopping = {}
    /\ calls = [e \in Event |-> 0]
    /\ seen = [p \in Proc |-> 0]
    /\ faults = 0

-----------------------------------------------------------------------------
Fail == faults < MaxFaults /\ faults' = faults + 1
NoFail == UNCHANGED faults

\* Commands sent with a cancelled context fail without being charged.
FailAs(p) == IF p \in stopping THEN NoFail ELSE Fail

\* XADD.  A call that fails without effect changes nothing here.
Publish ==
    /\ len < MaxEvents
    /\ len' = len + 1
    /\ UNCHANGED <<group, last, pending, procVars, history, faults>>

\* Mutant: the group is created at the end of the stream.
GroupStartAtEnd == len

\* XGROUP CREATE ... MKSTREAM with start "0".
GroupStart == 0

\* A process starts and subscribes.  An existing group is kept (BUSYGROUP);
\* any other error is returned to the caller, which only logs it.
Subscribe(p) ==
    /\ pc[p] \in {"down", "stopped"}
    /\ stopping' = stopping \ {p}
    /\ \/ /\ group' = TRUE
          /\ last' = IF group THEN last ELSE GroupStart
          /\ pc' = [pc EXCEPT ![p] = "read"]
          /\ NoFail
       \/ /\ pc' = [pc EXCEPT ![p] = "deaf"]
          /\ Fail
          /\ \/ group' = TRUE /\ last' = IF group THEN last ELSE GroupStart
             \/ UNCHANGED <<group, last>>
    /\ UNCHANGED <<len, pending, cur, upto, history>>

\* Mutant: the read asks for the pending entries as well (id "0", not ">").
FirstUnreadOrPending ==
    IF pending = {} THEN last + 1 ELSE CHOOSE e \in pending : \A f \in pending : e <= f

\* XREADGROUP with id ">": the entry after the last one delivered.
FirstUnread == last + 1

\* Redis delivers up to ReadCount entries to a new consumer.
Deliver(k) ==
    /\ last' = last + k
    /\ pending' = pending \cup (last + 1)..(last + k)
    /\ UNCHANGED <<len, group>>

\* The loop returns when it finds its context cancelled.
LoopHead(p) == IF p \in stopping THEN "stopped" ELSE "read"

\* The reply arrives, also when the context was cancelled meanwhile.
Read(p) ==
    /\ pc[p] = "read"
    /\ \E k \in 1..ReadCount :
         /\ k = ReadCount \/ last + k = len
         /\ last + k <= len
         /\ Deliver(k)
         /\ cur' = [cur EXCEPT ![p] = FirstUnread]
         /\ upto' = [upto EXCEPT ![p] = last + k]
    /\ pc' = [pc EXCEPT ![p] = "handle"]
    /\ UNCHANGED <<stopping, history, faults>>

\* The command was executed and its reply is lost: the goroutine pauses and
\* reads on, or returns when its context is cancelled.
ReadLosesReply(p) ==
    /\ pc[p] = "read"
    /\ \E k \in 1..ReadCount :
         /\ k = ReadCount \/ last + k = len
         /\ last + k <= len
         /\ Deliver(k)
    /\ FailAs(p)
    /\ pc' = [pc EXCEPT ![p] = LoopHead(p)]
    /\ UNCHANGED <<cur, upto, stopping, history>>

\* A read that waits, or waits to be repeated, when the context is cancelled.
Stop(p) ==
    /\ pc[p] = "read"
    /\ p \in stopping
    /\ pc' = [pc EXCEPT ![p] = "stopped"]
    /\ UNCHANGED <<redisVars, cur, upto, stopping, history, faults>>

\* fn is called with the next entry of the batch, whatever the context.
Handle(p) ==
    /\ pc[p] = "handle"
    /\ calls' = [calls EXCEPT ![cur[p]] = @ + 1]
    /\ seen' = [seen EXCEPT ![p] = cur[p]]
    /\ pc' = [pc EXCEPT ![p] = "ack"]
    /\ UNCHANGED <<redisVars, cur, upto, stopping, faults>>

\* Mutant: XACK names the whole batch.
AckedWithBatch(p) == cur[p]..upto[p]

\* XACK names one entry.
Acked(p) == {cur[p]}

\* The entry is acknowledged; an error is ignored.  Then the next one.
Ack(p) ==
    /\ pc[p] = "ack"
    /\ \/ pending' = pending \ Acked(p) /\ p \notin stopping /\ NoFail
       \/ pending' \in {pending, pending \ Acked(p)} /\ FailAs(p)
    /\ cur' = [cur EXCEPT ![p] = @ + 1]
    /\ pc' = [pc EXCEPT ![p] = IF cur[p] < upto[p] THEN "handle" ELSE LoopHead(p)]
    /\ UNCHANGED <<len, group, last, upto, stopping, history>>

\* The process is asked to shut down.
Cancel(p) ==
    /\ pc[p] \in {"read", "handle", "ack"}
    /\ p \notin stopping
    /\ stopping' = stopping \cup {p}
    /\ UNCHANGED <<redisVars, pc, cur, upto, history, faults>>

Crash(p) ==
    /\ pc[p] # "down"
    /\ pc' = [pc EXCEPT ![p] = "down"]
    /\ Fail
    /\ UNCHANGED <<redisVars, cur, upto, stopping, history>>

-----------------------------------------------------------------------------
Step(p) == Read(p) \/ Stop(p) \/ Handle(p) \/ Ack(p)

Next ==
    \/ Publish
    \/ \E p \in Proc :
         Subscribe(p) \/ Step(p) \/ ReadLosesReply(p) \/ Cancel(p) \/ Crash(p)

Spec == Init /\ [][Next]_vars

\* A goroutine goes on; publishers, operators and failures owe nothing.
FairSpec == Spec /\ \A p \in Proc : WF_vars(Step(p))
-----------------------------------------------------------------------------
\* Entries a process has in memory and has not given to the callback.
InHand(p) ==
    CASE pc[p] = "handle" -> cur[p]..upto[p]
      [] pc[p] = "ack"    -> (cur[p] + 1)..upto[p]
      [] OTHER            -> {}

\* Pending, not handled and in nobody's memory.
Stranded(e) == e \in pending /\ calls[e] = 0 /\ \A p \in Proc : e \notin InHand(p)

(* Safety *)

\* Redis forgets no entry that no callback has seen: what is not pending was
\* handled, though acknowledgements come one by one and may be lost.
AckedWasHandled == \A e \in Event : e <= last /\ e \notin pending => calls[e] > 0

(* Action properties *)

\* The events a process handles come in the order of the stream, over its
\* restarts too and whatever other processes read in between.
HandledInOrder == [][\A p \in Proc : seen'[p] # seen[p] => seen'[p] > seen[p]]_vars

(* Liveness *)

Consumes(p) == pc[p] \in {"read", "handle", "ack"} /\ p \notin stopping

\* When some process consumes for good, every event in the stream is handled
\* or stranded by another reader, also one published before the group existed.
EventsServed ==
    \A p \in Proc :
      <>[]Consumes(p) => []<>(\A e \in 1..len : calls[e] > 0 \/ Stranded(e))

(* The bus implements EventQueue *)
fate ==
    [e \in Event |->
       CASE e > len       -> "absent"
         [] calls[e] = 1  -> "handled"
         [] calls[e] > 1  -> "repeated"
         [] Stranded(e)   -> "lost"
         [] OTHER         -> "queued"]

Queue == INSTANCE EventQueue

\* No interleaving of processes, crashes and lost replies gives an event to
\* the callback twice or brings a lost one back.
ImplementsQueue == Queue!Spec
=============================================================================
