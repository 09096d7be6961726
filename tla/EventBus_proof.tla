--------------------------- MODULE EventBus_proof ---------------------------
(***************************************************************************)
(* Proofs about the event bus, first on Redis streams, then on Kafka, then *)
(* on the driver that was configured: for any processes, partitions,       *)
(* entries per read, events, failures and cancelled subscriptions.         *)
(***************************************************************************)
EXTENDS EventBus, Integers, Sequences, TLAPS

\* A process reads only after the group was created, and the group's place
\* does not move before.
GroupInv ==
    /\ ~group => last = 0
    /\ \A p \in Proc : pc[p] \in {"read", "handle", "ack"} => group

\* A busy process is inside its batch, which was delivered, and its history
\* is older than what it has in hand.
BatchInv ==
    \A p \in Proc :
      /\ pc[p] \in {"handle", "ack"} => 1 <= cur[p] /\ cur[p] <= upto[p]
      /\ pc[p] = "handle" => seen[p] < cur[p]
      /\ pc[p] = "ack" => seen[p] = cur[p] /\ calls[cur[p]] > 0

\* What a process has in hand is pending, not handled, and in nobody else's.
HandInv ==
    \A p \in Proc : \A e \in InHand(p) :
      /\ e \in pending
      /\ calls[e] = 0
      /\ \A q \in Proc \ {p} : e \notin InHand(q)

\* No event is called back twice, or before it was delivered, and what is not
\* pending any more was called back.
CallsInv ==
    \A e \in Event :
      /\ calls[e] <= 1
      /\ e > last => calls[e] = 0
      /\ e <= last /\ e \notin pending => calls[e] > 0

IInv == TypeOK /\ GroupInv /\ BatchInv /\ HandInv /\ CallsInv

-----------------------------------------------------------------------------
\* The entries in hand, without the CASE.
LEMMA HandOf ==
    ASSUME NEW p \in Proc
    PROVE  /\ pc[p] = "handle" => InHand(p) = cur[p]..upto[p]
           /\ pc[p] = "ack" => InHand(p) = (cur[p] + 1)..upto[p]
           /\ pc[p] \notin {"handle", "ack"} => InHand(p) = {}
  BY DEF InHand

LEMMA HandOfPrime ==
    ASSUME NEW p \in Proc
    PROVE  /\ pc'[p] = "handle" => InHand(p)' = cur'[p]..upto'[p]
           /\ pc'[p] = "ack" => InHand(p)' = (cur'[p] + 1)..upto'[p]
           /\ pc'[p] \notin {"handle", "ack"} => InHand(p)' = {}
  BY DEF InHand

\* A process that does not move keeps what it has in hand.
LEMMA SameHand ==
    ASSUME NEW p \in Proc, pc'[p] = pc[p], cur'[p] = cur[p], upto'[p] = upto[p]
    PROVE  InHand(p)' = InHand(p)
  BY DEF InHand

\* The invariant holds initially: nothing was published or subscribed.
LEMMA InitIInv == Init => IInv
  <1> SUFFICES ASSUME Init PROVE IInv
    OBVIOUS
  <1>1. TypeOK
    <2>1. pc \in [Proc -> {"down", "deaf", "read", "handle", "ack", "stopped"}]
      BY DEF Init
    <2>2. cur \in [Proc -> Nat] /\ upto \in [Proc -> 0..last] /\ seen \in [Proc -> 0..last]
      BY DEF Init
    <2>3. group \in BOOLEAN /\ calls \in [Event -> Nat]
      BY DEF Init
    <2>4. pending \subseteq 1..last /\ len \in 0..MaxEvents /\ last \in 0..len /\ faults \in 0..MaxFaults
      BY StreamAssumption DEF Init
    <2> QED
      BY <2>1, <2>2, <2>3, <2>4 DEF TypeOK, Init
  <1>2. GroupInv /\ BatchInv
    BY DEF Init, GroupInv, BatchInv
  <1>3. HandInv
    BY HandOf DEF Init, HandInv
  <1>4. CallsInv
    BY StreamAssumption DEF Init, CallsInv, Event
  <1> QED
    BY <1>1, <1>2, <1>3, <1>4 DEF IInv

\* Every command keeps the types; a batch stays within what was delivered.
LEMMA TypePreserved == IInv /\ [Next]_vars => TypeOK'
  <1> SUFFICES ASSUME IInv, [Next]_vars PROVE TypeOK'
    OBVIOUS
  <1> USE StreamAssumption DEF IInv, TypeOK, redisVars, procVars, history, Fail, NoFail, FailAs
  <1>1. CASE Publish
    BY <1>1 DEF Publish
  <1>2. ASSUME NEW p \in Proc, Subscribe(p) PROVE TypeOK'
    <2>1. last' = last /\ len' = len /\ pending' = pending
      BY <1>2 DEF Subscribe, GroupStart, GroupInv
    <2>2. faults' \in 0..MaxFaults
      BY <1>2 DEF Subscribe
    <2>4. group' \in BOOLEAN
      <3>1. group' = TRUE \/ group' = group
        BY <1>2, Zenon DEF Subscribe
      <3> QED
        BY <3>1, Zenon
    <2>3. pc' \in [Proc -> {"down", "deaf", "read", "handle", "ack", "stopped"}]
      BY <1>2 DEF Subscribe
    <2> QED
      BY <1>2, <2>1, <2>2, <2>3, <2>4 DEF Subscribe
  <1>3. ASSUME NEW p \in Proc, Read(p) PROVE TypeOK'
    <2> PICK k \in 1..ReadCount :
          last + k <= len /\ Deliver(k) /\ cur' = [cur EXCEPT ![p] = last + 1]
          /\ upto' = [upto EXCEPT ![p] = last + k]
      BY <1>3 DEF Read, FirstUnread
    <2>1. pending' \subseteq 1..last' /\ last' \in 0..len'
      BY DEF Deliver
    <2>2. upto' \in [Proc -> 0..last'] /\ seen' \in [Proc -> 0..last'] /\ cur' \in [Proc -> Nat]
      BY <1>3 DEF Deliver, Read
    <2> QED
      BY <1>3, <2>1, <2>2 DEF Read, Deliver
  <1>4. ASSUME NEW p \in Proc, ReadLosesReply(p) PROVE TypeOK'
    <2> PICK k \in 1..ReadCount : last + k <= len /\ Deliver(k)
      BY <1>4 DEF ReadLosesReply
    <2>1. pending' \subseteq 1..last' /\ last' \in 0..len'
      BY DEF Deliver
    <2>2. upto' \in [Proc -> 0..last'] /\ seen' \in [Proc -> 0..last']
      BY <1>4 DEF Deliver, ReadLosesReply
    <2> QED
      BY <1>4, <2>1, <2>2 DEF ReadLosesReply, Deliver, LoopHead
  <1>5. ASSUME NEW p \in Proc, Stop(p) \/ Cancel(p) \/ Crash(p) PROVE TypeOK'
    <2>1. pc' \in [Proc -> {"down", "deaf", "read", "handle", "ack", "stopped"}]
      BY <1>5 DEF Stop, Cancel, Crash
    <2>2. faults' \in 0..MaxFaults /\ stopping' \subseteq Proc
      BY <1>5 DEF Stop, Cancel, Crash
    <2> QED
      BY <1>5, <2>1, <2>2 DEF Stop, Cancel, Crash
  <1>6. ASSUME NEW p \in Proc, Handle(p) PROVE TypeOK'
    <2>1. cur[p] \in Event /\ cur[p] \in 0..last
      BY <1>6 DEF Handle, BatchInv, Event
    <2>2. calls' \in [Event -> Nat] /\ seen' \in [Proc -> 0..last]
      BY <1>6, <2>1 DEF Handle
    <2> QED
      BY <1>6, <2>2 DEF Handle
  <1>7. ASSUME NEW p \in Proc, Ack(p) PROVE TypeOK'
    <2>1. pc' \in [Proc -> {"down", "deaf", "read", "handle", "ack", "stopped"}]
      BY <1>7 DEF Ack, LoopHead
    <2>2. pending' \subseteq pending /\ faults' \in 0..MaxFaults
      BY <1>7 DEF Ack
    <2>3. cur' \in [Proc -> Nat]
      BY <1>7 DEF Ack
    <2> QED
      BY <1>7, <2>1, <2>2, <2>3 DEF Ack
  <1>8. CASE UNCHANGED vars
    BY <1>8 DEF vars
  <1> QED
    BY <1>1, <1>2, <1>3, <1>4, <1>5, <1>6, <1>7, <1>8 DEF Next, Step

\* The group is there before anybody reads, and is never removed.
LEMMA GroupPreserved == IInv /\ [Next]_vars => GroupInv'
  <1> SUFFICES ASSUME IInv, [Next]_vars PROVE GroupInv'
    OBVIOUS
  <1> USE DEF IInv, TypeOK, GroupInv, redisVars, procVars, history
  <1>1. CASE Publish
    BY <1>1 DEF Publish
  <1>2. ASSUME NEW p \in Proc, Subscribe(p) PROVE GroupInv'
    BY <1>2 DEF Subscribe, GroupStart
  <1>3. ASSUME NEW p \in Proc, Read(p) \/ ReadLosesReply(p) PROVE GroupInv'
    BY <1>3 DEF Read, ReadLosesReply, Deliver, LoopHead
  <1>4. ASSUME NEW p \in Proc, Stop(p) \/ Cancel(p) \/ Crash(p) PROVE GroupInv'
    BY <1>4 DEF Stop, Cancel, Crash
  <1>5. ASSUME NEW p \in Proc, Handle(p) \/ Ack(p) PROVE GroupInv'
    BY <1>5 DEF Handle, Ack, LoopHead
  <1>6. CASE UNCHANGED vars
    BY <1>6 DEF vars
  <1> QED
    BY <1>1, <1>2, <1>3, <1>4, <1>5, <1>6 DEF Next, Step

\* A batch is worked off from its beginning to its end.
LEMMA BatchPreserved == IInv /\ [Next]_vars => BatchInv'
  <1> SUFFICES ASSUME IInv, [Next]_vars PROVE BatchInv'
    OBVIOUS
  <1> USE StreamAssumption DEF IInv, TypeOK, BatchInv, redisVars, procVars, history, Event
  <1>1. CASE Publish
    BY <1>1 DEF Publish
  <1>2. ASSUME NEW p \in Proc, Subscribe(p) PROVE BatchInv'
    BY <1>2 DEF Subscribe
  <1>3. ASSUME NEW p \in Proc, Read(p) PROVE BatchInv'
    <2> PICK k \in 1..ReadCount :
          last + k <= len /\ Deliver(k) /\ cur' = [cur EXCEPT ![p] = last + 1]
          /\ upto' = [upto EXCEPT ![p] = last + k]
      BY <1>3 DEF Read, FirstUnread
    <2> QED
      BY <1>3 DEF Read
  <1>4. ASSUME NEW p \in Proc, ReadLosesReply(p) PROVE BatchInv'
    BY <1>4 DEF ReadLosesReply, LoopHead
  <1>5. ASSUME NEW p \in Proc, Stop(p) \/ Cancel(p) \/ Crash(p) PROVE BatchInv'
    BY <1>5 DEF Stop, Cancel, Crash
  <1>6. ASSUME NEW p \in Proc, Handle(p) PROVE BatchInv'
    <2>1. cur[p] \in Event
      BY <1>6 DEF Handle
    <2>2. \A e \in Event : calls'[e] >= calls[e]
      BY <1>6, <2>1 DEF Handle
    <2> SUFFICES ASSUME NEW q \in Proc PROVE BatchInv!(q)'
      OBVIOUS
    <2>3. CASE q = p
      BY <1>6, <2>1, <2>3 DEF Handle
    <2>4. CASE q # p
      <3>1. pc'[q] = "ack" => cur[q] \in Event
        BY <1>6, <2>4 DEF Handle
      <3> QED
        BY <1>6, <2>2, <2>4, <3>1 DEF Handle
    <2> QED
      BY <2>3, <2>4
  <1>7. ASSUME NEW p \in Proc, Ack(p) PROVE BatchInv'
    BY <1>7 DEF Ack, LoopHead
  <1>8. CASE UNCHANGED vars
    BY <1>8 DEF vars
  <1> QED
    BY <1>1, <1>2, <1>3, <1>4, <1>5, <1>6, <1>7, <1>8 DEF Next, Step

\* Entries in hand stay pending, unhandled, and with one process.
LEMMA HandPreserved == IInv /\ [Next]_vars => HandInv'
  <1> SUFFICES ASSUME IInv, [Next]_vars PROVE HandInv'
    OBVIOUS
  <1> USE StreamAssumption DEF redisVars, procVars, history
  <1>a. ASSUME \A p \in Proc : InHand(p)' \subseteq InHand(p),
               \A p \in Proc : \A e \in InHand(p)' : e \in pending' /\ calls'[e] = 0
        PROVE  HandInv'
    BY <1>a DEF IInv, HandInv
  <1>1. CASE Publish
    <2>1. \A p \in Proc : InHand(p)' = InHand(p)
      BY <1>1 DEF Publish, InHand
    <2> QED
      BY <1>1, <1>a, <2>1 DEF Publish, IInv, HandInv
  <1>2. ASSUME NEW p \in Proc, Subscribe(p) PROVE HandInv'
    <2>1. \A q \in Proc : InHand(q)' = InHand(q)
      BY <1>2, HandOf, HandOfPrime DEF Subscribe, IInv, TypeOK
    <2> QED
      BY <1>2, <1>a, <2>1 DEF Subscribe, IInv, HandInv
  <1>3. ASSUME NEW p \in Proc, Read(p) PROVE HandInv'
    <2> PICK k \in 1..ReadCount :
          last + k <= len /\ Deliver(k) /\ cur' = [cur EXCEPT ![p] = last + 1]
          /\ upto' = [upto EXCEPT ![p] = last + k]
      BY <1>3 DEF Read, FirstUnread
    <2>1. InHand(p)' = (last + 1)..(last + k)
      BY <1>3, HandOfPrime DEF Read, IInv, TypeOK
    <2>2. ASSUME NEW q \in Proc \ {p} PROVE InHand(q)' = InHand(q)
      <3>1. pc'[q] = pc[q] /\ cur'[q] = cur[q] /\ upto'[q] = upto[q]
        BY <1>3 DEF Read, IInv, TypeOK
      <3> QED
        BY <3>1, SameHand
    <2>3. \A q \in Proc : InHand(q) \subseteq 1..last
      BY DEF IInv, HandInv, TypeOK
    <2>4. \A e \in InHand(p)' : e \in pending' /\ calls'[e] = 0
      BY <1>3, <2>1 DEF Read, Deliver, IInv, CallsInv, TypeOK, Event
    <2>5. pending \subseteq pending' /\ calls' = calls
      BY <1>3 DEF Read, Deliver
    <2>6. \A q \in Proc \ {p} : \A e \in InHand(p)' : e \notin InHand(q)'
      BY <2>1, <2>2, <2>3 DEF IInv, TypeOK
    <2>7. \A q \in Proc \ {p} : \A e \in InHand(q)' : e \in pending' /\ calls'[e] = 0
      BY <2>2, <2>5 DEF IInv, HandInv
    <2>8. \A q, r \in Proc \ {p} : q # r => \A e \in InHand(q)' : e \notin InHand(r)'
      BY <2>2 DEF IInv, HandInv
    <2> QED
      BY <2>4, <2>6, <2>7, <2>8 DEF HandInv
  <1>4. ASSUME NEW p \in Proc, ReadLosesReply(p) PROVE HandInv'
    <2>1. pending \subseteq pending' /\ calls' = calls
      BY <1>4 DEF ReadLosesReply, Deliver
    <2>2. \A q \in Proc : InHand(q)' = InHand(q)
      BY <1>4, HandOf, HandOfPrime DEF ReadLosesReply, LoopHead, IInv, TypeOK
    <2> QED
      BY <1>a, <2>1, <2>2 DEF IInv, HandInv
  <1>5. ASSUME NEW p \in Proc, Stop(p) \/ Cancel(p) \/ Crash(p) PROVE HandInv'
    <2>1. \A q \in Proc : InHand(q)' \subseteq InHand(q)
      BY <1>5, HandOf, HandOfPrime DEF Stop, Cancel, Crash, IInv, TypeOK
    <2>2. pending' = pending /\ calls' = calls
      BY <1>5 DEF Stop, Cancel, Crash
    <2> QED
      BY <1>a, <2>1, <2>2 DEF IInv, HandInv
  <1>6. ASSUME NEW p \in Proc, Handle(p) PROVE HandInv'
    <2>1. cur[p] \in InHand(p) /\ InHand(p)' = InHand(p) \ {cur[p]}
      BY <1>6, HandOf, HandOfPrime DEF Handle, IInv, BatchInv, TypeOK
    <2>4. ASSUME NEW q \in Proc \ {p} PROVE InHand(q)' = InHand(q)
      <3>1. pc'[q] = pc[q] /\ cur'[q] = cur[q] /\ upto'[q] = upto[q]
        BY <1>6 DEF Handle, IInv, TypeOK
      <3> QED
        BY <3>1, SameHand
    <2>2. \A q \in Proc \ {p} : InHand(q)' = InHand(q) /\ cur[p] \notin InHand(q)
      BY <2>1, <2>4 DEF IInv, HandInv
    <2>3. pending' = pending /\ \A e \in pending \ {cur[p]} : calls'[e] = calls[e]
      BY <1>6 DEF Handle, IInv, TypeOK, Event
    <2> QED
      BY <1>a, <2>1, <2>2, <2>3 DEF IInv, HandInv
  <1>7. ASSUME NEW p \in Proc, Ack(p) PROVE HandInv'
    <2>1. \A q \in Proc : InHand(q)' \subseteq InHand(q)
      <3> SUFFICES ASSUME NEW q \in Proc PROVE InHand(q)' \subseteq InHand(q)
        OBVIOUS
      <3>1. CASE q = p
        BY <1>7, <3>1, HandOf, HandOfPrime DEF Ack, LoopHead, IInv, TypeOK
      <3>2. CASE q # p
        BY <1>7, <3>2, HandOf, HandOfPrime DEF Ack, IInv, TypeOK
      <3> QED
        BY <3>1, <3>2
    <2>2. \A q \in Proc : cur[p] \notin InHand(q)
      BY <1>7 DEF Ack, IInv, BatchInv, HandInv
    <2>3. calls' = calls /\ \A e \in pending \ {cur[p]} : e \in pending'
      BY <1>7 DEF Ack, Acked
    <2> QED
      BY <1>a, <2>1, <2>2, <2>3 DEF IInv, HandInv
  <1>8. CASE UNCHANGED vars
    <2>1. \A p \in Proc : InHand(p)' = InHand(p)
      BY <1>8 DEF vars, InHand
    <2> QED
      BY <1>8, <1>a, <2>1 DEF vars, IInv, HandInv
  <1> QED
    BY <1>1, <1>2, <1>3, <1>4, <1>5, <1>6, <1>7, <1>8 DEF Next, Step

\* Only an entry in hand is called back, and only what was called back is
\* acknowledged.
LEMMA CallsPreserved == IInv /\ [Next]_vars => CallsInv'
  <1> SUFFICES ASSUME IInv, [Next]_vars PROVE CallsInv'
    OBVIOUS
  <1> USE StreamAssumption DEF IInv, TypeOK, CallsInv, redisVars, procVars, history, Event
  <1>1. CASE Publish
    BY <1>1 DEF Publish
  <1>2. ASSUME NEW p \in Proc, Subscribe(p) PROVE CallsInv'
    <2>1. last' = last /\ pending' = pending /\ calls' = calls
      BY <1>2 DEF Subscribe, GroupStart, GroupInv
    <2> QED
      BY <2>1
  <1>3. ASSUME NEW p \in Proc, Read(p) \/ ReadLosesReply(p) PROVE CallsInv'
    <2> PICK k \in 1..ReadCount : last + k <= len /\ Deliver(k)
      BY <1>3 DEF Read, ReadLosesReply
    <2> QED
      BY <1>3 DEF Read, ReadLosesReply, Deliver
  <1>4. ASSUME NEW p \in Proc, Stop(p) \/ Cancel(p) \/ Crash(p) PROVE CallsInv'
    BY <1>4 DEF Stop, Cancel, Crash
  <1>5. ASSUME NEW p \in Proc, Handle(p) PROVE CallsInv'
    <2>1. cur[p] \in InHand(p) /\ cur[p] \in Event /\ cur[p] <= last
      BY <1>5, HandOf DEF Handle, BatchInv
    <2>2. calls[cur[p]] = 0
      BY <2>1 DEF HandInv
    <2> QED
      BY <1>5, <2>1, <2>2 DEF Handle
  <1>6. ASSUME NEW p \in Proc, Ack(p) PROVE CallsInv'
    BY <1>6 DEF Ack, Acked, BatchInv
  <1>7. CASE UNCHANGED vars
    BY <1>7 DEF vars
  <1> QED
    BY <1>1, <1>2, <1>3, <1>4, <1>5, <1>6, <1>7 DEF Next, Step

-----------------------------------------------------------------------------
\* The invariant is inductive.
LEMMA StreamStep == IInv /\ [Next]_vars => IInv'
  BY TypePreserved, GroupPreserved, BatchPreserved, HandPreserved, CallsPreserved DEF IInv

\* The strengthened invariant of the bus on Redis streams.
THEOREM Inductive == Spec => []IInv
  BY InitIInv, StreamStep, PTL DEF Spec

\* The state of the stream, the group and its readers keeps its types.
THEOREM TypeCorrect == Spec => []TypeOK
  <1>1. IInv => TypeOK
    BY DEF IInv
  <1> QED
    BY Inductive, <1>1, PTL

\* Redis forgets no entry that no callback has seen, whichever
\* acknowledgements and replies are lost.
THEOREM NothingForgotten == Spec => []AckedWasHandled
  <1>1. IInv => AckedWasHandled
    BY DEF IInv, CallsInv, AckedWasHandled
  <1> QED
    BY Inductive, <1>1, PTL

\* Whoever handles an event has handled older ones only.
LEMMA OrderStep ==
    IInv /\ [Next]_vars => [\A p \in Proc : seen'[p] # seen[p] => seen'[p] > seen[p]]_vars
  <1> SUFFICES ASSUME IInv, Next, NEW p \in Proc, seen'[p] # seen[p]
               PROVE  seen'[p] > seen[p]
    BY DEF vars
  <1>1. PICK q \in Proc : Handle(q)
    BY DEF Next, Step, Publish, Subscribe, Read, ReadLosesReply, Stop, Ack, Cancel, Crash, history
  <1>2. p = q /\ seen'[p] = cur[p]
    BY <1>1 DEF Handle, IInv, TypeOK
  <1> QED
    BY <1>1, <1>2 DEF Handle, IInv, BatchInv, TypeOK

\* Every process handles events in the order of the stream.
THEOREM InStreamOrder == Spec => HandledInOrder
  BY Inductive, OrderStep, PTL DEF Spec, HandledInOrder

-----------------------------------------------------------------------------
(* Every step of the bus is a step of EventQueue or leaves every fate. *)

Lost == {e \in Event : Stranded(e)}

\* What becomes of an event, read off the invariant.
FateTable ==
    /\ fate = [e \in Event |-> fate[e]]
    /\ \A e \in Event :
         /\ e > len => fate[e] = "absent"
         /\ e <= len /\ calls[e] > 0 => fate[e] = "handled"
         /\ e <= len /\ calls[e] = 0 /\ e \in Lost => fate[e] = "lost"
         /\ e <= len /\ calls[e] = 0 /\ e \notin Lost => fate[e] = "queued"

LEMMA FateOf == IInv => FateTable
  <1> SUFFICES ASSUME IInv PROVE FateTable
    OBVIOUS
  <1>1. fate = [e \in Event |-> fate[e]]
    BY DEF fate
  <1>2. ASSUME NEW e \in Event
        PROVE  /\ e > len => fate[e] = "absent"
               /\ e <= len /\ calls[e] > 0 => fate[e] = "handled"
               /\ e <= len /\ calls[e] = 0 /\ e \in Lost => fate[e] = "lost"
               /\ e <= len /\ calls[e] = 0 /\ e \notin Lost => fate[e] = "queued"
    <2>1. /\ calls[e] \in {0, 1}
          /\ e \in Nat /\ len \in Nat
          /\ e > len => calls[e] = 0 /\ e \notin pending
      BY StreamAssumption DEF IInv, TypeOK, CallsInv, Event
    <2>8. /\ e \in Lost <=> Stranded(e)
          /\ Stranded(e) => calls[e] = 0 /\ e \in pending
      BY DEF Lost, Stranded
    <2>2. fate[e] = CASE e > len     -> "absent"
                      [] calls[e] = 1 -> "handled"
                      [] calls[e] > 1 -> "repeated"
                      [] Stranded(e)  -> "lost"
                      [] OTHER        -> "queued"
      BY DEF fate
    <2>3. CASE e > len
      BY <2>1, <2>2, <2>8, <2>3
    <2>4. CASE e <= len /\ calls[e] = 1
      BY <2>1, <2>2, <2>8, <2>4
    <2>5. CASE e <= len /\ calls[e] = 0 /\ Stranded(e)
      BY <2>1, <2>2, <2>8, <2>5
    <2>6. CASE e <= len /\ calls[e] = 0 /\ ~Stranded(e)
      BY <2>1, <2>2, <2>8, <2>6
    <2> QED
      BY <2>1, <2>8, <2>3, <2>4, <2>5, <2>6
  <1> QED
    BY <1>1, <1>2 DEF FateTable

\* An event keeps its fate when it is as published, handled and lost as before.
LEMMA SameFateOf ==
    ASSUME FateTable, FateTable', IInv, len' \in Nat, NEW e \in Event,
           e <= len <=> e <= len', calls'[e] = calls[e],
           calls[e] = 0 => (e \in Lost <=> e \in Lost')
    PROVE  fate'[e] = fate[e]
  <1>1. e \in Nat /\ len \in Nat /\ calls[e] \in Nat
    BY StreamAssumption DEF IInv, TypeOK, Event
  <1>2. CASE e <= len
    BY <1>1, <1>2 DEF FateTable
  <1>3. CASE e > len
    BY <1>1, <1>3 DEF FateTable
  <1> QED
    BY <1>1, <1>2, <1>3

\* A step after which all are is a stutter.
LEMMA SameFate ==
    ASSUME FateTable, FateTable', IInv, len' = len, calls' = calls,
           \A e \in Event : calls[e] = 0 => (e \in Lost <=> e \in Lost')
    PROVE  fate' = fate
  <1>1. len' \in Nat
    BY StreamAssumption DEF IInv, TypeOK
  <1>2. \A e \in Event : fate'[e] = fate[e]
    BY <1>1, SameFateOf
  <1> QED
    BY <1>2 DEF FateTable

\* What Publish and Handle do to the fates.
LEMMA OneFate ==
    ASSUME FateTable, FateTable', NEW d \in Event, NEW v,
           fate'[d] = v, \A e \in Event \ {d} : fate'[e] = fate[e]
    PROVE  fate' = [fate EXCEPT ![d] = v]
  BY DEF FateTable

\* Lost events, with the readers named: a step that leaves the pending
\* entries and all hands alone loses nothing.
LEMMA LostOf ==
    Lost = {e \in pending \cap Event : calls[e] = 0 /\ \A p \in Proc : e \notin InHand(p)}
  BY DEF Lost, Stranded

\* An event that is published is queued.
LEMMA PublishRefines ==
    ASSUME IInv, FateTable, FateTable', Publish
    PROVE  Queue!Publish(len + 1)
  <1> USE StreamAssumption DEF IInv, TypeOK, Event, redisVars, procVars, history
  <1>1. Lost' = Lost
    <2>1. \A p \in Proc : InHand(p)' = InHand(p)
      BY DEF Publish, InHand
    <2> QED
      BY <2>1, LostOf DEF Publish, Lost, Stranded
  <1>2. len + 1 \in Event /\ calls[len + 1] = 0 /\ len + 1 \notin Lost
    BY DEF Publish, CallsInv, Lost, Stranded
  <1>3. fate[len + 1] = "absent" /\ fate'[len + 1] = "queued"
    BY <1>1, <1>2 DEF Publish, FateTable
  <1>4. \A e \in Event \ {len + 1} : fate'[e] = fate[e]
    <2> SUFFICES ASSUME NEW e \in Event \ {len + 1} PROVE fate'[e] = fate[e]
      OBVIOUS
    <2>1. len' \in Nat /\ (e <= len <=> e <= len') /\ calls'[e] = calls[e]
      BY DEF Publish
    <2> QED
      BY <1>1, <2>1, SameFateOf
  <1> QED
    BY <1>2, <1>3, <1>4, OneFate DEF Queue!Publish

\* An event that is called back is handled.
LEMMA HandleRefines ==
    ASSUME IInv, FateTable, FateTable', NEW p \in Proc, Handle(p)
    PROVE  Queue!Handle(cur[p])
  <1> USE StreamAssumption DEF IInv, TypeOK, Event
  <1>1. cur[p] \in InHand(p) /\ InHand(p)' = InHand(p) \ {cur[p]}
    BY HandOf, HandOfPrime DEF Handle, BatchInv
  <1>2. ASSUME NEW q \in Proc \ {p} PROVE InHand(q)' = InHand(q)
    <2>1. pc'[q] = pc[q] /\ cur'[q] = cur[q] /\ upto'[q] = upto[q]
      BY DEF Handle
    <2> QED
      BY <2>1, SameHand
  <1>3. cur[p] \in Event /\ cur[p] <= len /\ calls[cur[p]] = 0 /\ cur[p] \notin Lost
    BY <1>1 DEF HandInv, Lost, Stranded
  <1>4. /\ calls'[cur[p]] = 1
        /\ \A e \in Event \ {cur[p]} : calls'[e] = calls[e]
        /\ pending' = pending /\ len' = len
    BY <1>3 DEF Handle, redisVars
  <1>5. fate[cur[p]] = "queued" /\ fate'[cur[p]] = "handled"
    BY <1>3, <1>4 DEF FateTable
  <1>6. \A e \in Event \ {cur[p]} : fate'[e] = fate[e]
    <2> SUFFICES ASSUME NEW e \in Event \ {cur[p]} PROVE fate'[e] = fate[e]
      OBVIOUS
    <2>1. e \in Lost' <=> e \in Lost
      BY <1>1, <1>2, <1>4 DEF Lost, Stranded
    <2> QED
      BY <1>4, <2>1, SameFateOf
  <1> QED
    BY <1>3, <1>5, <1>6, OneFate DEF Queue!Handle

\* A reply that is lost loses the entries it carried.
LEMMA LostReplyRefines ==
    ASSUME IInv, FateTable, FateTable', NEW p \in Proc, ReadLosesReply(p)
    PROVE  \E E \in SUBSET Event : Queue!Lose(E)
  <1> USE StreamAssumption DEF IInv, TypeOK, Event
  <1> PICK k \in 1..ReadCount : last + k <= len /\ Deliver(k)
    BY DEF ReadLosesReply
  <1> DEFINE E == (last + 1)..(last + k)
  <1>1. \A q \in Proc : InHand(q)' = InHand(q)
    BY HandOf, HandOfPrime DEF ReadLosesReply, LoopHead
  <1>2. E \subseteq Event /\ len' = len /\ pending' = pending \cup E /\ calls' = calls
    BY DEF ReadLosesReply, Deliver, history
  <1>3. \A e \in E : e <= len /\ calls[e] = 0 /\ e \notin pending
    BY DEF CallsInv
  <1>4. \A e \in E : e \notin Lost /\ e \in Lost'
    BY <1>1, <1>2, <1>3 DEF HandInv, Lost, Stranded
  <1>5. \A e \in Event \ E : e \in Lost' <=> e \in Lost
    BY <1>1, <1>2 DEF Lost, Stranded
  <1> HIDE DEF E
  <1>6. \A e \in E : fate[e] = "queued" /\ fate'[e] = "lost"
    BY <1>2, <1>3, <1>4 DEF FateTable
  <1>7. ASSUME NEW e \in Event \ E PROVE fate'[e] = fate[e]
    <2>1. e \in Event /\ calls'[e] = calls[e] /\ (e \in Lost' <=> e \in Lost)
      BY <1>2, <1>5, <1>7
    <2>2. len' \in Nat /\ (e <= len <=> e <= len')
      BY <1>2
    <2> HIDE DEF IInv, TypeOK, Event
    <2> QED
      BY <2>1, <2>2, SameFateOf
  <1>8. fate' = [e \in Event |-> IF e \in E THEN "lost" ELSE fate[e]]
    BY <1>2, <1>6, <1>7 DEF FateTable
  <1> QED
    BY <1>2, <1>6, <1>8 DEF Queue!Lose

\* A process that crashes loses what it has in hand.
LEMMA CrashRefines ==
    ASSUME IInv, FateTable, FateTable', NEW p \in Proc, Crash(p)
    PROVE  \E E \in SUBSET Event : Queue!Lose(E)
  <1> USE StreamAssumption DEF IInv, TypeOK, Event
  <1>1. InHand(p)' = {} /\ \A q \in Proc \ {p} : InHand(q)' = InHand(q)
    <2>1. InHand(p)' = {}
      BY HandOfPrime DEF Crash
    <2>2. ASSUME NEW q \in Proc \ {p} PROVE InHand(q)' = InHand(q)
      <3>1. pc'[q] = pc[q] /\ cur'[q] = cur[q] /\ upto'[q] = upto[q]
        BY DEF Crash
      <3> QED
        BY <3>1, SameHand
    <2> QED
      BY <2>1, <2>2
  <1>2. len' = len /\ pending' = pending /\ calls' = calls
    BY DEF Crash, redisVars, history
  <1>3. \A e \in InHand(p) : e \in Event /\ e <= len /\ calls[e] = 0 /\ e \in pending
    <2>1. \A e \in InHand(p) : e \in pending /\ calls[e] = 0
      BY DEF HandInv
    <2>2. \A e \in pending : e \in Event /\ e <= len
      OBVIOUS
    <2> QED
      BY <2>1, <2>2
  <1>4. \A e \in InHand(p) : e \notin Lost /\ e \in Lost'
    <2>1. ASSUME NEW e \in InHand(p), NEW q \in Proc PROVE e \notin InHand(q)'
      <3>1. CASE q = p
        BY <1>1, <3>1
      <3>2. CASE q # p
        <4>1. e \notin InHand(q)
          BY <3>2 DEF HandInv
        <4> QED
          BY <1>1, <3>2, <4>1
      <3> QED
        BY <3>1, <3>2
    <2> QED
      BY <1>2, <1>3, <2>1 DEF Lost, Stranded
  <1>5. \A e \in Event \ InHand(p) : e \in Lost' <=> e \in Lost
    BY <1>1, <1>2 DEF Lost, Stranded
  <1>6. \A e \in InHand(p) : fate[e] = "queued" /\ fate'[e] = "lost"
    BY <1>2, <1>3, <1>4 DEF FateTable
  <1>7. ASSUME NEW e \in Event \ InHand(p) PROVE fate'[e] = fate[e]
    <2>1. e \in Event /\ calls'[e] = calls[e] /\ (e \in Lost' <=> e \in Lost)
      BY <1>2, <1>5, <1>7
    <2>2. len' \in Nat /\ (e <= len <=> e <= len')
      BY <1>2
    <2> HIDE DEF IInv, TypeOK, Event
    <2> QED
      BY <2>1, <2>2, SameFateOf
  <1>8. fate' = [e \in Event |-> IF e \in InHand(p) THEN "lost" ELSE fate[e]]
    BY <1>3, <1>6, <1>7 DEF FateTable
  <1> QED
    BY <1>3, <1>6, <1>8 DEF Queue!Lose

\* Reading, acknowledging, starting and stopping change no fate.
LEMMA OthersStutter ==
    ASSUME IInv, FateTable, FateTable', NEW p \in Proc,
           Read(p) \/ Ack(p) \/ Subscribe(p) \/ Stop(p) \/ Cancel(p)
    PROVE  fate' = fate
  <1> USE StreamAssumption DEF IInv, TypeOK, Event
  <1>1. CASE Read(p)
    <2> PICK k \in 1..ReadCount :
          last + k <= len /\ Deliver(k) /\ cur' = [cur EXCEPT ![p] = last + 1]
          /\ upto' = [upto EXCEPT ![p] = last + k]
      BY <1>1 DEF Read, FirstUnread
    <2>1. InHand(p)' = (last + 1)..(last + k) /\ InHand(p) = {}
      BY <1>1, HandOf, HandOfPrime DEF Read
    <2>2. ASSUME NEW q \in Proc \ {p} PROVE InHand(q)' = InHand(q)
      <3>1. pc'[q] = pc[q] /\ cur'[q] = cur[q] /\ upto'[q] = upto[q]
        BY <1>1 DEF Read
      <3> QED
        BY <3>1, SameHand
    <2>3. len' = len /\ calls' = calls /\ pending' = pending \cup InHand(p)'
      BY <1>1, <2>1 DEF Read, Deliver, history
    <2>4. \A e \in InHand(p)' : e \notin pending
      BY <2>1
    <2>5. ASSUME NEW e \in Event PROVE e \in Lost' <=> e \in Lost
      <3>1. CASE e \in InHand(p)'
        BY <2>4, <3>1 DEF Lost, Stranded
      <3>2. CASE e \notin InHand(p)'
        <4>1. \A q \in Proc : e \in InHand(q)' <=> e \in InHand(q)
          BY <2>1, <2>2, <3>2
        <4>2. (e \in pending' <=> e \in pending) /\ calls' = calls /\ len' = len
          BY <2>3, <3>2
        <4> QED
          BY <4>1, <4>2 DEF Lost, Stranded
      <3> QED
        BY <3>1, <3>2
    <2> QED
      BY <2>3, <2>5, SameFate
  <1>2. CASE Ack(p)
    <2>1. InHand(p)' = InHand(p)
      <3>1. cur'[p] = cur[p] + 1 /\ upto'[p] = upto[p] /\ InHand(p) = (cur[p] + 1)..upto[p]
        BY <1>2, HandOf DEF Ack
      <3>2. CASE cur[p] < upto[p]
        <4>1. pc'[p] = "handle"
          BY <1>2, <3>2 DEF Ack
        <4> QED
          BY <3>1, <4>1, HandOfPrime
      <3>3. CASE ~(cur[p] < upto[p])
        <4>1. pc'[p] \notin {"handle", "ack"}
          BY <1>2, <3>3 DEF Ack, LoopHead
        <4>2. InHand(p)' = {}
          BY <4>1, HandOfPrime
        <4> QED
          BY <3>1, <3>3, <4>2
      <3> QED
        BY <3>2, <3>3
    <2>2. ASSUME NEW q \in Proc \ {p} PROVE InHand(q)' = InHand(q)
      <3>1. pc'[q] = pc[q] /\ cur'[q] = cur[q] /\ upto'[q] = upto[q]
        BY <1>2 DEF Ack
      <3> QED
        BY <3>1, SameHand
    <2>3. len' = len /\ calls' = calls
      BY <1>2 DEF Ack, history
    <2>4. \A e \in Event : calls[e] = 0 => (e \in pending' <=> e \in pending)
      BY <1>2 DEF Ack, Acked, BatchInv
    <2>5. \A e \in Event : calls[e] = 0 => (e \in Lost <=> e \in Lost')
      BY <2>1, <2>2, <2>3, <2>4 DEF Lost, Stranded
    <2> QED
      BY <2>3, <2>5, SameFate
  <1>3. CASE Subscribe(p) \/ Stop(p) \/ Cancel(p)
    <2>1. \A q \in Proc : InHand(q)' = InHand(q)
      BY <1>3, HandOf, HandOfPrime DEF Subscribe, Stop, Cancel
    <2>2. len' = len /\ calls' = calls /\ pending' = pending
      BY <1>3 DEF Subscribe, Stop, Cancel, redisVars, history
    <2>3. \A e \in Event : e \in Lost' <=> e \in Lost
      BY <2>1, <2>2 DEF Lost, Stranded
    <2> QED
      BY <2>2, <2>3, SameFate
  <1> QED
    BY <1>1, <1>2, <1>3

\* Nothing was published to a new bus.
LEMMA QueueInitial == Init => Queue!Init
  <1> SUFFICES ASSUME Init PROVE fate = [e \in Event |-> "absent"]
    BY DEF Queue!Init
  <1>1. FateTable
    BY InitIInv, FateOf
  <1>2. \A e \in Event : e > len
    BY StreamAssumption DEF Init, Event
  <1> QED
    BY <1>1, <1>2 DEF FateTable

\* Every step is one of EventQueue or changes no fate.
LEMMA QueueStep == IInv /\ FateTable /\ FateTable' /\ [Next]_vars => [Queue!Next]_fate
  <1> SUFFICES ASSUME IInv, FateTable, FateTable', [Next]_vars PROVE [Queue!Next]_fate
    OBVIOUS
  <1>1. CASE Publish
    <2>1. len + 1 \in Event
      BY <1>1, StreamAssumption DEF Publish, Event, IInv, TypeOK
    <2> QED
      BY <1>1, <2>1, PublishRefines DEF Queue!Next
  <1>2. ASSUME NEW p \in Proc, Handle(p) PROVE Queue!Next
    <2>1. cur[p] \in Event
      BY <1>2, StreamAssumption DEF Handle, Event, IInv, TypeOK, BatchInv
    <2> QED
      BY <1>2, <2>1, HandleRefines DEF Queue!Next
  <1>3. ASSUME NEW p \in Proc, ReadLosesReply(p) \/ Crash(p) PROVE Queue!Next
    BY <1>3, LostReplyRefines, CrashRefines DEF Queue!Next
  <1>4. ASSUME NEW p \in Proc, Read(p) \/ Ack(p) \/ Subscribe(p) \/ Stop(p) \/ Cancel(p)
        PROVE  fate' = fate
    BY <1>4, OthersStutter
  <1>5. CASE UNCHANGED vars
    BY <1>5 DEF vars, fate, Stranded, InHand
  <1> QED
    BY <1>1, <1>2, <1>3, <1>4, <1>5 DEF Next, Step

\* No interleaving of processes, crashes and lost replies gives an event to
\* the callback twice or brings a lost one back: the event bus on Redis
\* streams implements EventQueue.
THEOREM Refinement == Spec => ImplementsQueue
  BY Inductive, FateOf, QueueInitial, QueueStep, PTL DEF Spec, ImplementsQueue, Queue!Spec

-----------------------------------------------------------------------------
(* Kafka *)

\* Values are functions over processes and partitions.
KafkaShape ==
    /\ n \in [Part -> Nat] /\ committed \in [Part -> Int] /\ PartEvents \in [Part -> Nat]
    /\ pos \in [Proc -> [Part -> Int]]
    /\ busy \in [Proc -> SUBSET Part] /\ dirty \in [Proc -> SUBSET Part]
    /\ handled \in [Part -> SUBSET Nat] /\ again \in [Part -> SUBSET Nat]
    /\ skipped \in [Part -> SUBSET Nat]

\* A process outside a session has no claims.
SessionInv ==
    \A p \in Proc : st[p] \notin {"in", "expelled"} =>
      claim[p] = {} /\ pos[p] = [q \in Part |-> Kafka!None] /\ busy[p] = {} /\ dirty[p] = {}

\* What is behind a claim or a commit was handled or skipped; a running
\* callback has the entry behind its claim, and marks end with a handled one.
Passed(q) == handled[q] \cup skipped[q]

PassedBy(p, q) ==
    /\ 1..pos[p][q] \subseteq Passed(q)
    /\ q \in busy[p] => pos[p][q] # Kafka!None /\ pos[p][q] < n[q] /\ pos[p][q] + 1 \in handled[q]
    /\ q \in dirty[p] => pos[p][q] \in handled[q]

PassedInv ==
    \A q \in Part : 1..committed[q] \subseteq Passed(q) /\ \A p \in Proc : PassedBy(p, q)

\* While nothing has failed, one member claims a partition, nothing was handled
\* twice in it, and whoever claims it next, or has come to its place, starts
\* behind all that was handled.
Alone ==
    /\ \A p \in Proc : st[p] # "expelled"
    /\ \A p, r \in Proc : p # r => claim[p] \cap claim[r] = {}

Fresh(q) == \A p \in Proc : q \in claim[p] => pos[p][q] = Kafka!None

Ahead(p, q) ==
    /\ \A i \in handled[q] : i <= pos[p][q] \/ (q \in busy[p] /\ i = pos[p][q] + 1)
    /\ q \notin dirty[p] => pos[p][q] <= Kafka!Initial(q)

Once(q) ==
    /\ again[q] = {}
    /\ Fresh(q) => handled[q] \subseteq 1..Kafka!Initial(q)
    /\ \A p \in Proc : q \in claim[p] /\ pos[p][q] # Kafka!None => Ahead(p, q)

OnceInv == faults = 0 => Alone /\ \A q \in Part : Once(q)

KafkaInv == Kafka!TypeOK /\ KafkaShape /\ SessionInv /\ PassedInv /\ OnceInv

USE DEF Kafka!log, Kafka!session, Kafka!history, Kafka!budget, Kafka!kvars

\* The bounds are numbers.
LEMMA BoundIsNat == PartEvents \in [Part -> Nat] /\ PartFaults \in Nat /\ MaxStops \in Nat
  BY BusAssumption DEF Kafka!KafkaAssumption

\* A new bus: no partition has entries, nobody subscribed.
LEMMA KafkaInitial == Kafka!KInit => KafkaInv
  <1> SUFFICES ASSUME Kafka!KInit PROVE KafkaInv
    OBVIOUS
  <1>1. Kafka!TypeOK
    BY BoundIsNat DEF Kafka!KInit, Kafka!TypeOK, Kafka!Entries, Kafka!None
  <1>2. KafkaShape
    BY BoundIsNat DEF Kafka!KInit, KafkaShape, Kafka!None
  <1>3. SessionInv /\ PassedInv /\ OnceInv
    BY DEF Kafka!KInit, SessionInv, PassedInv, PassedBy, Passed, OnceInv, Alone, Fresh, Ahead, Once,
           Kafka!None, Kafka!Initial
  <1> QED
    BY <1>1, <1>2, <1>3 DEF KafkaInv

\* A process that leaves its session keeps nothing of it.
LEMMA NothingKept ==
    ASSUME KafkaShape, Kafka!TypeOK, NEW p \in Proc, Kafka!NoSession(p)
    PROVE  /\ claim' \in [Proc -> SUBSET Part] /\ pos' \in [Proc -> [Part -> Int]]
           /\ busy' \in [Proc -> SUBSET Part] /\ dirty' \in [Proc -> SUBSET Part]
           /\ claim'[p] = {} /\ pos'[p] = [q \in Part |-> Kafka!None] /\ busy'[p] = {} /\ dirty'[p] = {}
           /\ \A r \in Proc \ {p} : claim'[r] = claim[r] /\ pos'[r] = pos[r]
                                    /\ busy'[r] = busy[r] /\ dirty'[r] = dirty[r]
  BY DEF KafkaShape, Kafka!TypeOK, Kafka!NoSession, Kafka!None

\* Bounds of claims and of marks are kept when a session ends.
LEMMA SessionKept ==
    ASSUME KafkaShape, Kafka!TypeOK, NEW p \in Proc, Kafka!NoSession(p)
    PROVE  /\ \A r \in Proc, q \in Part : pos'[r][q] \in Kafka!None..n[q]
           /\ \A r \in Proc : busy'[r] \cup dirty'[r] \subseteq claim'[r]
  <1>1. \A q \in Part : n[q] >= 0 /\ n[q] \in Int
    BY DEF KafkaShape
  <1>2. \A r \in Proc, q \in Part : pos'[r][q] \in Kafka!None..n[q]
    <2> TAKE r \in Proc, q \in Part
    <2>1. CASE r = p
      BY <1>1, <2>1, NothingKept DEF Kafka!None
    <2>2. CASE r # p
      BY <2>2, NothingKept DEF Kafka!TypeOK
    <2> QED
      BY <2>1, <2>2
  <1>3. \A r \in Proc : busy'[r] \cup dirty'[r] \subseteq claim'[r]
    <2> TAKE r \in Proc
    <2>1. CASE r = p
      BY <2>1, NothingKept
    <2>2. CASE r # p
      BY <2>2, NothingKept DEF Kafka!TypeOK
    <2> QED
      BY <2>1, <2>2
  <1> QED
    BY <1>2, <1>3

\* What a flush leaves as committed offsets.
LEMMA FlushedOf ==
    ASSUME KafkaShape, NEW p \in Proc
    PROVE  /\ Kafka!Flushed(p) \in [Part -> Int]
           /\ \A q \in Part : Kafka!Flushed(p)[q] = IF st[p] = "in" /\ q \in dirty[p] THEN pos[p][q] ELSE committed[q]
  BY DEF KafkaShape, Kafka!Flushed

\* Every step keeps the types.
LEMMA KafkaTypesKept == KafkaInv /\ [Kafka!KNext]_Kafka!kvars => Kafka!TypeOK' /\ KafkaShape'
  <1> SUFFICES ASSUME KafkaInv, [Kafka!KNext]_Kafka!kvars PROVE Kafka!TypeOK' /\ KafkaShape'
    OBVIOUS
  <1>s. KafkaShape /\ Kafka!TypeOK
    BY DEF KafkaInv
  <1> USE DEF Kafka!None
  <1>1. ASSUME NEW q \in Part, Kafka!Publish(q) PROVE Kafka!TypeOK' /\ KafkaShape'
    <2>1. n' \in [Part -> Nat] /\ n'[q] = n[q] + 1 /\ \A r \in Part \ {q} : n'[r] = n[r]
      BY <1>1, <1>s DEF Kafka!Publish, KafkaShape
    <2>2. KafkaShape'
      BY <1>1, <1>s, <2>1 DEF Kafka!Publish, KafkaShape
    <2>3. \A r \in Part : n'[r] \in 0..PartEvents[r] /\ n[r] <= n'[r]
      BY <1>1, <1>s, <2>1, BoundIsNat DEF Kafka!Publish, Kafka!TypeOK, KafkaShape
    <2>4. \A r \in Part : committed'[r] \in Kafka!None..n'[r] /\ Kafka!Entries(r) \subseteq Kafka!Entries(r)'
      BY <1>1, <1>s, <2>3, BoundIsNat DEF Kafka!Publish, Kafka!TypeOK, KafkaShape, Kafka!Entries
    <2>5. \A p \in Proc, r \in Part : pos'[p][r] \in Kafka!None..n'[r]
      BY <1>1, <1>s, <2>3, BoundIsNat DEF Kafka!Publish, Kafka!TypeOK, KafkaShape
    <2> QED
      BY <1>1, <1>s, <2>2, <2>3, <2>4, <2>5 DEF Kafka!Publish, Kafka!TypeOK
  <1>2. CASE Kafka!Rebalance
    <2>1. /\ claim' \in [Proc -> SUBSET Part]
          /\ \A p \in Proc : claim[p] \subseteq claim'[p] \/ p \in Kafka!Joining
      BY <1>2, <1>s DEF Kafka!Rebalance, Kafka!TypeOK
    <2>2. \A p \in Proc : busy'[p] \cup dirty'[p] \subseteq claim'[p]
      <3> SUFFICES ASSUME NEW p \in Proc PROVE busy[p] \cup dirty[p] \subseteq claim'[p]
        BY <1>2 DEF Kafka!Rebalance
      <3>1. CASE p \in Kafka!Joining
        BY <3>1 DEF Kafka!Joining, KafkaInv, SessionInv
      <3>2. CASE p \notin Kafka!Joining
        BY <3>2, <2>1, <1>s DEF Kafka!TypeOK
      <3> QED
        BY <3>1, <3>2
    <2>3. st' \in [Proc -> {"down", "deaf", "joining", "in", "expelled", "stopped"}]
      BY <1>2, <1>s DEF Kafka!Rebalance, Kafka!TypeOK
    <2> QED
      BY <1>2, <1>s, <2>1, <2>2, <2>3 DEF Kafka!Rebalance, Kafka!TypeOK, KafkaShape, Kafka!Entries
  <1>3. ASSUME NEW p \in Proc, Kafka!Subscribe(p) \/ Kafka!Leave(p) \/ Kafka!Cancel(p) \/ Kafka!Expel(p)
        PROVE Kafka!TypeOK' /\ KafkaShape'
    <2>1. UNCHANGED <<n, committed, claim, pos, busy, dirty, handled, again, skipped>>
      BY <1>3 DEF Kafka!Subscribe, Kafka!Leave, Kafka!Cancel, Kafka!Expel
    <2>2. st' \in [Proc -> {"down", "deaf", "joining", "in", "expelled", "stopped"}] /\ stopping' \subseteq Proc
      BY <1>3, <1>s DEF Kafka!Subscribe, Kafka!Leave, Kafka!Cancel, Kafka!Expel, Kafka!TypeOK
    <2>3. faults' \in 0..PartFaults /\ stops' \in 0..MaxStops
      BY <1>3, <1>s, BoundIsNat
        DEF Kafka!Subscribe, Kafka!Leave, Kafka!Cancel, Kafka!Expel, Kafka!Fail, Kafka!TypeOK
    <2> QED
      BY <1>s, <2>1, <2>2, <2>3 DEF Kafka!TypeOK, KafkaShape, Kafka!Entries
  <1>4. ASSUME NEW p \in Proc, NEW q \in Part, Kafka!Start(p, q) PROVE Kafka!TypeOK' /\ KafkaShape'
    <2>1. Kafka!Initial(q) \in 0..n[q]
      BY <1>s DEF Kafka!Initial, Kafka!TypeOK, KafkaShape
    <2>2. /\ pos' \in [Proc -> [Part -> Int]] /\ skipped' \in [Part -> SUBSET Nat]
          /\ \A r \in Proc, x \in Part : pos'[r][x] \in Kafka!None..n[x]
          /\ \A x \in Part : skipped'[x] \subseteq Kafka!Entries(x)
      BY <1>4, <1>s, <2>1 DEF Kafka!Start, Kafka!TypeOK, KafkaShape, Kafka!Entries
    <2> QED
      BY <1>4, <1>s, <2>2 DEF Kafka!Start, Kafka!TypeOK, KafkaShape, Kafka!Entries
  <1>5. ASSUME NEW p \in Proc, NEW q \in Part, Kafka!Handle(p, q) PROVE Kafka!TypeOK' /\ KafkaShape'
    <2> DEFINE i == pos[p][q] + 1
    <2>1. i \in 1..n[q]
      BY <1>5, <1>s DEF Kafka!Handle, Kafka!TypeOK, KafkaShape
    <2>2. /\ handled' = [handled EXCEPT ![q] = @ \cup {i}]
          /\ again' = [again EXCEPT ![q] = IF i \in handled[q] THEN @ \cup {i} ELSE @]
          /\ busy' = [busy EXCEPT ![p] = @ \cup {q}] /\ q \in claim[p]
          /\ UNCHANGED <<n, committed, st, claim, pos, dirty, stopping, skipped, faults, stops>>
      BY <1>5 DEF Kafka!Handle
    <2> HIDE DEF i
    <2>3. /\ handled' \in [Part -> SUBSET Nat] /\ again' \in [Part -> SUBSET Nat]
          /\ \A x \in Part : again'[x] \subseteq handled'[x] /\ handled'[x] \subseteq Kafka!Entries(x)
      BY <1>s, <2>1, <2>2 DEF Kafka!TypeOK, KafkaShape, Kafka!Entries
    <2>4. busy' \in [Proc -> SUBSET Part] /\ \A r \in Proc : busy'[r] \cup dirty[r] \subseteq claim[r]
      BY <1>s, <2>2 DEF Kafka!TypeOK, KafkaShape
    <2>5. KafkaShape'
      BY <1>s, <2>2, <2>3, <2>4 DEF KafkaShape
    <2>6. \A x \in Part : /\ again'[x] \subseteq handled'[x]
                         /\ handled'[x] \cup skipped'[x] \subseteq Kafka!Entries(x)'
      BY <1>s, <2>2, <2>3 DEF Kafka!TypeOK, Kafka!Entries
    <2>7. Kafka!TypeOK'
      BY <1>s, <2>2, <2>4, <2>6 DEF Kafka!TypeOK
    <2> QED
      BY <2>5, <2>7
  <1>6. ASSUME NEW p \in Proc, NEW q \in Part, Kafka!Mark(p, q) PROVE Kafka!TypeOK' /\ KafkaShape'
    <2>1. pos[p][q] < n[q] /\ q \in claim[p]
      BY <1>6, <1>s DEF Kafka!Mark, KafkaInv, PassedInv, PassedBy, Kafka!TypeOK
    <2>2. /\ pos' \in [Proc -> [Part -> Int]] /\ \A r \in Proc, x \in Part : pos'[r][x] \in Kafka!None..n[x]
      BY <1>6, <1>s, <2>1 DEF Kafka!Mark, Kafka!TypeOK, KafkaShape
    <2>3. /\ busy' \in [Proc -> SUBSET Part] /\ dirty' \in [Proc -> SUBSET Part]
          /\ \A r \in Proc : busy'[r] \cup dirty'[r] \subseteq claim[r]
      BY <1>6, <1>s, <2>1 DEF Kafka!Mark, Kafka!TypeOK, KafkaShape
    <2>4. UNCHANGED <<n, committed, st, claim, stopping, handled, again, skipped, faults, stops>>
      BY <1>6 DEF Kafka!Mark
    <2>5. KafkaShape'
      BY <1>s, <2>2, <2>3, <2>4 DEF KafkaShape
    <2>6. Kafka!TypeOK'
      BY <1>s, <2>2, <2>3, <2>4 DEF Kafka!TypeOK, Kafka!Entries
    <2> QED
      BY <2>5, <2>6
  <1>7. ASSUME NEW p \in Proc, Kafka!AutoCommit(p) PROVE Kafka!TypeOK' /\ KafkaShape'
    <2>1. committed' \in [Part -> Int] /\ \A q \in Part : committed'[q] \in Kafka!None..n[q]
      BY <1>7, <1>s, FlushedOf DEF Kafka!AutoCommit, Kafka!TypeOK
    <2>2. dirty' \in [Proc -> SUBSET Part] /\ \A r \in Proc : busy[r] \cup dirty'[r] \subseteq claim[r]
      BY <1>7, <1>s DEF Kafka!AutoCommit, Kafka!TypeOK, KafkaShape
    <2>3. UNCHANGED <<n, st, claim, pos, busy, stopping, handled, again, skipped, faults, stops>>
      BY <1>7 DEF Kafka!AutoCommit
    <2>4. KafkaShape'
      BY <1>s, <2>1, <2>2, <2>3 DEF KafkaShape
    <2>5. Kafka!TypeOK'
      BY <1>s, <2>1, <2>2, <2>3 DEF Kafka!TypeOK, Kafka!Entries
    <2> QED
      BY <2>4, <2>5
  <1>8. ASSUME NEW p \in Proc, Kafka!EndSession(p) PROVE Kafka!TypeOK' /\ KafkaShape'
    <2>1. committed' \in [Part -> Int] /\ \A q \in Part : committed'[q] \in Kafka!None..n[q]
      <3>1. CASE committed' = Kafka!Flushed(p)
        BY <3>1, <1>s, FlushedOf DEF Kafka!TypeOK
      <3>2. CASE committed' = committed
        BY <3>2, <1>s DEF Kafka!TypeOK, KafkaShape
      <3> QED
        BY <1>8, <3>1, <3>2 DEF Kafka!EndSession
    <2>2. faults' \in 0..PartFaults
      BY <1>8, <1>s, BoundIsNat DEF Kafka!EndSession, Kafka!Fail, Kafka!TypeOK
    <2>3. st' \in [Proc -> {"down", "deaf", "joining", "in", "expelled", "stopped"}]
      BY <1>8, <1>s DEF Kafka!EndSession, Kafka!LoopHead, Kafka!TypeOK
    <2>4. Kafka!NoSession(p) /\ UNCHANGED <<n, stopping, handled, again, skipped, stops>>
      BY <1>8 DEF Kafka!EndSession
    <2>5. KafkaShape'
      BY <1>s, <2>1, <2>4, NothingKept DEF KafkaShape
    <2>6. Kafka!TypeOK'
      BY <1>s, <2>1, <2>2, <2>3, <2>4, NothingKept, SessionKept DEF Kafka!TypeOK, Kafka!Entries
    <2> QED
      BY <2>5, <2>6
  <1>9. ASSUME NEW p \in Proc, Kafka!Crash(p) PROVE Kafka!TypeOK' /\ KafkaShape'
    <2>1. Kafka!NoSession(p) /\ UNCHANGED <<n, committed, stopping, handled, again, skipped, stops>>
      BY <1>9 DEF Kafka!Crash
    <2>2. faults' \in 0..PartFaults /\ st' \in [Proc -> {"down", "deaf", "joining", "in", "expelled", "stopped"}]
      BY <1>9, <1>s, BoundIsNat DEF Kafka!Crash, Kafka!Fail, Kafka!TypeOK
    <2>5. KafkaShape'
      BY <1>s, <2>1, NothingKept DEF KafkaShape
    <2>6. Kafka!TypeOK'
      BY <1>s, <2>1, <2>2, NothingKept, SessionKept DEF Kafka!TypeOK, Kafka!Entries
    <2> QED
      BY <2>5, <2>6
  <1>10. CASE UNCHANGED Kafka!kvars
    BY <1>s, <1>10 DEF Kafka!TypeOK, KafkaShape, Kafka!Entries
  <1> QED
    BY <1>1, <1>2, <1>3, <1>4, <1>5, <1>6, <1>7, <1>8, <1>9, <1>10
      DEF Kafka!KNext, Kafka!LoopStep, Kafka!ClaimStep

\* Only sessions have claims, and they have them until they end.
LEMMA SessionsKept == KafkaInv /\ [Kafka!KNext]_Kafka!kvars => SessionInv'
  <1> SUFFICES ASSUME KafkaInv, [Kafka!KNext]_Kafka!kvars PROVE SessionInv'
    OBVIOUS
  <1>s. KafkaShape /\ Kafka!TypeOK /\ SessionInv
    BY DEF KafkaInv
  <1> DEFINE Bare(p) == claim[p] = {} /\ pos[p] = [q \in Part |-> Kafka!None] /\ busy[p] = {} /\ dirty[p] = {}
  <1>0. SUFFICES ASSUME NEW r \in Proc, st'[r] \notin {"in", "expelled"} PROVE Bare(r)'
    BY DEF SessionInv
  <1>k. ASSUME UNCHANGED <<claim[r], pos[r], busy[r], dirty[r]>>, st[r] \notin {"in", "expelled"}
        PROVE Bare(r)'
    BY <1>k, <1>s DEF SessionInv
  <1>1. CASE (\E q \in Part : Kafka!Publish(q)) \/ UNCHANGED Kafka!kvars
    BY <1>1, <1>0, <1>k DEF Kafka!Publish
  <1>2. CASE Kafka!Rebalance
    <2>1. r \notin Kafka!Joining /\ st[r] = st'[r]
      BY <1>2, <1>0 DEF Kafka!Rebalance
    <2>2. claim'[r] = claim[r]
      BY <1>2, <2>1 DEF Kafka!Rebalance
    <2> QED
      BY <1>2, <1>0, <1>k, <2>1, <2>2 DEF Kafka!Rebalance
  <1>3. ASSUME NEW p \in Proc, Kafka!Subscribe(p) \/ Kafka!Leave(p) \/ Kafka!Cancel(p) \/ Kafka!Expel(p)
        PROVE Bare(r)'
    <2>1. UNCHANGED <<claim, pos, busy, dirty>>
      BY <1>3 DEF Kafka!Subscribe, Kafka!Leave, Kafka!Cancel, Kafka!Expel
    <2>2. st[r] \notin {"in", "expelled"}
      BY <1>3, <1>0, <1>s DEF Kafka!Subscribe, Kafka!Leave, Kafka!Cancel, Kafka!Expel, Kafka!TypeOK
    <2> QED
      BY <2>1, <2>2, <1>k
  <1>4. ASSUME NEW p \in Proc, NEW q \in Part, Kafka!ClaimStep(p, q) PROVE Bare(r)'
    <2>1. q \in claim[p] /\ st' = st /\ claim' = claim
      BY <1>4, <1>s DEF Kafka!ClaimStep, Kafka!Start, Kafka!Handle, Kafka!Mark, Kafka!TypeOK
    <2>2. r # p
      BY <2>1, <1>0, <1>s DEF SessionInv
    <2>3. pos'[r] = pos[r] /\ busy'[r] = busy[r] /\ dirty'[r] = dirty[r]
      BY <1>4, <1>s, <2>2 DEF Kafka!ClaimStep, Kafka!Start, Kafka!Handle, Kafka!Mark, KafkaShape
    <2> QED
      BY <1>k, <1>0, <2>1, <2>3
  <1>5. ASSUME NEW p \in Proc, Kafka!AutoCommit(p) PROVE Bare(r)'
    <2>1. r # p
      BY <1>5, <1>0 DEF Kafka!AutoCommit
    <2> QED
      BY <1>5, <1>0, <1>k, <1>s, <2>1 DEF Kafka!AutoCommit, KafkaShape
  <1>6. ASSUME NEW p \in Proc, Kafka!EndSession(p) \/ Kafka!Crash(p) PROVE Bare(r)'
    <2>1. Kafka!NoSession(p)
      BY <1>6 DEF Kafka!EndSession, Kafka!Crash
    <2>2. CASE r = p
      BY <2>1, <2>2, <1>s, NothingKept
    <2>3. CASE r # p
      <3>1. st'[r] = st[r]
        BY <1>6, <2>3, <1>s DEF Kafka!EndSession, Kafka!Crash, Kafka!TypeOK
      <3> QED
        BY <3>1, <2>1, <2>3, <1>0, <1>s, <1>k, NothingKept
    <2> QED
      BY <2>2, <2>3
  <1> QED
    BY <1>1, <1>2, <1>3, <1>4, <1>5, <1>6 DEF Kafka!KNext, Kafka!LoopStep

\* Who does not move is not disturbed by those who do.
LEMMA StaysPassed ==
    ASSUME NEW p \in Proc, NEW q \in Part, PassedBy(p, q), KafkaShape, KafkaShape',
           pos'[p][q] = pos[p][q], q \in busy'[p] => q \in busy[p], q \in dirty'[p] => q \in dirty[p],
           n[q] <= n'[q], handled[q] \subseteq handled'[q], skipped[q] \subseteq skipped'[q]
    PROVE  PassedBy(p, q)'
  BY DEF PassedBy, Passed, KafkaShape

\* A claim that ended or was not started has passed nothing.
LEMMA NothingPassed ==
    ASSUME NEW p \in Proc, NEW q \in Part, pos'[p][q] = Kafka!None, q \notin busy'[p], q \notin dirty'[p]
    PROVE  PassedBy(p, q)'
  BY DEF PassedBy, Kafka!None

\* Every step keeps PassedInv: claims advance over handled entries one by one,
\* and a commit is a place some claim has come to.
LEMMA PassedKept == KafkaInv /\ [Kafka!KNext]_Kafka!kvars => PassedInv'
  <1> SUFFICES ASSUME KafkaInv, [Kafka!KNext]_Kafka!kvars PROVE PassedInv'
    OBVIOUS
  <1>s. KafkaShape /\ Kafka!TypeOK /\ KafkaShape' /\ Kafka!TypeOK'
    BY KafkaTypesKept DEF KafkaInv
  <1>p. \A q \in Part : 1..committed[q] \subseteq Passed(q) /\ \A p \in Proc : PassedBy(p, q)
    BY DEF KafkaInv, PassedInv
  <1>c. SUFFICES ASSUME NEW q \in Part
        PROVE  1..committed'[q] \subseteq Passed(q)' /\ \A r \in Proc : PassedBy(r, q)'
    BY DEF PassedInv
  <1>t. n[q] \in Nat /\ committed[q] \in Int /\ n'[q] \in Nat
    BY <1>s DEF KafkaShape
  <1>1. CASE \/ \E x \in Part : Kafka!Publish(x)
             \/ Kafka!Rebalance \/ UNCHANGED Kafka!kvars
             \/ \E p \in Proc : Kafka!Subscribe(p) \/ Kafka!Leave(p) \/ Kafka!Cancel(p) \/ Kafka!Expel(p)
    <2>1. UNCHANGED <<committed, pos, busy, dirty, handled, skipped>>
      BY <1>1
        DEF Kafka!Publish, Kafka!Rebalance, Kafka!Subscribe, Kafka!Leave, Kafka!Cancel, Kafka!Expel
    <2>2. n[q] <= n'[q]
      BY <1>1, <1>s, <1>t
        DEF Kafka!Publish, Kafka!Rebalance, Kafka!Subscribe, Kafka!Leave, Kafka!Cancel, Kafka!Expel,
            KafkaShape
    <2> QED
      BY <2>1, <2>2, <1>p, <1>s, StaysPassed DEF Passed
  <1>2. ASSUME NEW p \in Proc, NEW x \in Part, Kafka!Start(p, x)
        PROVE 1..committed'[q] \subseteq Passed(q)' /\ \A r \in Proc : PassedBy(r, q)'
    <2>1. /\ pos[p][x] = Kafka!None /\ pos' = [pos EXCEPT ![p][x] = Kafka!Initial(x)]
          /\ skipped' = [skipped EXCEPT ![x] = @ \cup ((1..Kafka!Initial(x)) \ handled[x])]
          /\ UNCHANGED <<n, committed, busy, dirty, handled>>
      BY <1>2 DEF Kafka!Start
    <2>2. skipped[q] \subseteq skipped'[q]
      BY <2>1, <1>s DEF KafkaShape
    <2>3. ASSUME NEW r \in Proc, r # p \/ q # x PROVE PassedBy(r, q)'
      <3>1. pos'[r][q] = pos[r][q]
        BY <2>1, <2>3, <1>s DEF KafkaShape
      <3> QED
        BY <2>1, <2>2, <3>1, <1>p, <1>s, <1>t, StaysPassed
    <2>4. CASE q = x
      <3>1. x \notin busy[p] /\ x \notin dirty[p]
        <4>1. PassedBy(p, x) /\ handled[x] \subseteq Kafka!Entries(x)
          BY <1>p, <1>s DEF Kafka!TypeOK
        <4> QED
          BY <4>1, <2>1 DEF PassedBy, Kafka!None, Kafka!Entries
      <3>2. 1..pos'[p][x] \subseteq Passed(x)'
        BY <2>1, <1>s DEF KafkaShape, Passed
      <3>3. PassedBy(p, q)'
        BY <2>4, <2>1, <3>1, <3>2 DEF PassedBy
      <3> QED
        BY <2>1, <2>2, <2>3, <2>4, <3>3, <1>p DEF Passed
    <2> QED
      BY <2>1, <2>2, <2>3, <2>4, <1>p DEF Passed
  <1>3. ASSUME NEW p \in Proc, NEW x \in Part, Kafka!Handle(p, x)
        PROVE 1..committed'[q] \subseteq Passed(q)' /\ \A r \in Proc : PassedBy(r, q)'
    <2>1. /\ pos[p][x] # Kafka!None /\ pos[p][x] < n[x] /\ x \notin busy[p]
          /\ handled' = [handled EXCEPT ![x] = @ \cup {pos[p][x] + 1}]
          /\ busy' = [busy EXCEPT ![p] = @ \cup {x}]
          /\ UNCHANGED <<n, committed, pos, dirty, skipped>>
      BY <1>3 DEF Kafka!Handle
    <2>2. handled[q] \subseteq handled'[q]
      BY <2>1, <1>s DEF KafkaShape
    <2>3. ASSUME NEW r \in Proc, r # p \/ q # x PROVE PassedBy(r, q)'
      <3>1. q \in busy'[r] => q \in busy[r]
        BY <2>1, <2>3, <1>s DEF KafkaShape
      <3> QED
        BY <2>1, <2>2, <3>1, <1>p, <1>s, <1>t, StaysPassed
    <2>4. CASE q = x
      <3>1. PassedBy(p, x)'
        BY <2>1, <2>2, <2>4, <1>p, <1>s DEF KafkaShape, PassedBy, Passed
      <3> QED
        BY <2>1, <2>2, <2>3, <2>4, <3>1, <1>p DEF Passed
    <2> QED
      BY <2>1, <2>2, <2>3, <2>4, <1>p DEF Passed
  <1>4. ASSUME NEW p \in Proc, NEW x \in Part, Kafka!Mark(p, x)
        PROVE 1..committed'[q] \subseteq Passed(q)' /\ \A r \in Proc : PassedBy(r, q)'
    <2>1. /\ x \in busy[p] /\ busy' = [busy EXCEPT ![p] = @ \ {x}]
          /\ pos' = [pos EXCEPT ![p][x] = @ + 1] /\ dirty' = [dirty EXCEPT ![p] = @ \cup {x}]
          /\ UNCHANGED <<n, committed, handled, skipped>>
      BY <1>4 DEF Kafka!Mark
    <2>3. ASSUME NEW r \in Proc, r # p \/ q # x PROVE PassedBy(r, q)'
      <3>1. /\ pos'[r][q] = pos[r][q] /\ (q \in busy'[r] => q \in busy[r])
            /\ (q \in dirty'[r] => q \in dirty[r])
        BY <2>1, <2>3, <1>s DEF KafkaShape
      <3> QED
        BY <2>1, <3>1, <1>p, <1>s, <1>t, StaysPassed
    <2>4. CASE q = x
      <3>1. pos'[p][x] = pos[p][x] + 1 /\ x \notin busy'[p] /\ pos[p][x] \in Int
        BY <2>1, <1>s DEF KafkaShape
      <3>2. PassedBy(p, x)'
        BY <2>1, <3>1, <2>4, <1>p DEF PassedBy, Passed
      <3> QED
        BY <2>1, <2>3, <2>4, <3>2, <1>p DEF Passed
    <2> QED
      BY <2>1, <2>3, <2>4, <1>p DEF Passed
  <1>f. ASSUME NEW p \in Proc, committed' = Kafka!Flushed(p), UNCHANGED <<handled, skipped>>
        PROVE  1..committed'[q] \subseteq Passed(q)'
    BY <1>f, <1>p, <1>s, FlushedOf DEF PassedBy, Passed
  <1>5. ASSUME NEW p \in Proc, Kafka!AutoCommit(p)
        PROVE 1..committed'[q] \subseteq Passed(q)' /\ \A r \in Proc : PassedBy(r, q)'
    <2>1. /\ UNCHANGED <<n, pos, busy, handled, skipped>> /\ \A r \in Proc : dirty'[r] \subseteq dirty[r]
          /\ committed' = Kafka!Flushed(p)
      BY <1>5, <1>s DEF Kafka!AutoCommit, KafkaShape
    <2>2. \A r \in Proc : PassedBy(r, q)'
      BY <2>1, <1>p, <1>s, <1>t, StaysPassed
    <2> QED
      BY <2>1, <2>2, <1>f
  <1>6. ASSUME NEW p \in Proc, Kafka!EndSession(p) \/ Kafka!Crash(p)
        PROVE 1..committed'[q] \subseteq Passed(q)' /\ \A r \in Proc : PassedBy(r, q)'
    <2>1. /\ Kafka!NoSession(p) /\ UNCHANGED <<n, handled, skipped>>
          /\ (committed' = committed \/ committed' = Kafka!Flushed(p))
      BY <1>6 DEF Kafka!EndSession, Kafka!Crash
    <2>2. ASSUME NEW r \in Proc PROVE PassedBy(r, q)'
      <3>1. CASE r = p
        BY <3>1, <2>1, <1>s, NothingKept, NothingPassed
      <3>2. CASE r # p
        BY <3>2, <2>1, <1>p, <1>s, <1>t, NothingKept, StaysPassed
      <3> QED
        BY <3>1, <3>2
    <2>3. 1..committed'[q] \subseteq Passed(q)'
      BY <2>1, <1>f, <1>p DEF Passed
    <2> QED
      BY <2>2, <2>3
  <1> QED
    BY <1>1, <1>2, <1>3, <1>4, <1>5, <1>6 DEF Kafka!KNext, Kafka!LoopStep, Kafka!ClaimStep

\* A partition that is not touched stays as it was.
LEMMA StaysOnce ==
    ASSUME KafkaShape, Kafka!TypeOK, KafkaShape', NEW q \in Part, Once(q),
           again'[q] = again[q], handled'[q] = handled[q],
           \/ committed'[q] = committed[q] /\ n'[q] = n[q]
           \/ committed'[q] = Kafka!None /\ committed[q] = Kafka!None /\ n[q] <= n'[q]
           \/ committed'[q] = committed[q] /\ n[q] <= n'[q],
           \A p \in Proc : q \in claim'[p] <=> q \in claim[p],
           \A p \in Proc : q \in claim[p] =>
              pos'[p][q] = pos[p][q] /\ (q \in busy'[p] <=> q \in busy[p]) /\ (q \in dirty'[p] <=> q \in dirty[p])
    PROVE  Once(q)'
  <1>1. Kafka!Initial(q) \in Int /\ Kafka!Initial(q)' \in Int /\ Kafka!Initial(q) <= Kafka!Initial(q)'
    BY DEF Kafka!Initial, KafkaShape
  <1>2. Fresh(q)' <=> Fresh(q)
    BY DEF Fresh
  <1>3. Fresh(q)' => handled'[q] \subseteq 1..Kafka!Initial(q)'
    BY <1>1, <1>2 DEF Once
  <1>4. ASSUME NEW p \in Proc, q \in claim'[p], pos'[p][q] # Kafka!None PROVE Ahead(p, q)'
    <2>1. Ahead(p, q) /\ pos[p][q] \in Int
      BY <1>4 DEF Once, KafkaShape
    <2> QED
      BY <1>1, <1>4, <2>1 DEF Ahead
  <1> QED
    BY <1>3, <1>4 DEF Once

\* Every step keeps OnceInv: without failures a session ends with its marks
\* committed, and a rebalance finds no session left.
LEMMA OnceKept == KafkaInv /\ [Kafka!KNext]_Kafka!kvars => OnceInv'
  <1> SUFFICES ASSUME KafkaInv, [Kafka!KNext]_Kafka!kvars PROVE OnceInv'
    OBVIOUS
  <1>s. KafkaShape /\ Kafka!TypeOK /\ KafkaShape' /\ Kafka!TypeOK' /\ SessionInv
    BY KafkaTypesKept DEF KafkaInv
  <1>m. faults' = 0 => faults = 0
    BY <1>s
      DEF Kafka!KNext, Kafka!LoopStep, Kafka!ClaimStep, Kafka!Publish, Kafka!Rebalance,
          Kafka!Subscribe, Kafka!EndSession, Kafka!Leave, Kafka!AutoCommit,
                Kafka!Cancel, Kafka!Expel, Kafka!Crash, Kafka!Start, Kafka!Handle, Kafka!Mark, Kafka!Fail, Kafka!TypeOK
  <1>c. SUFFICES ASSUME faults' = 0, faults = 0 PROVE Alone' /\ \A q \in Part : Once(q)'
    BY <1>m DEF OnceInv
  <1>o. Alone /\ \A q \in Part : Once(q)
    BY <1>c DEF KafkaInv, OnceInv
  <1>n. ~Kafka!Fail
    BY <1>c DEF Kafka!Fail
  <1>p. \A p \in Proc, q \in Part : PassedBy(p, q)
    BY DEF KafkaInv, PassedInv
  <1>i. \A q \in Part : n[q] \in Nat /\ Kafka!Initial(q) \in 0..n[q]
    BY <1>s DEF Kafka!Initial, KafkaShape, Kafka!TypeOK, Kafka!None
  <1>1. CASE \/ \E x \in Part : Kafka!Publish(x)
             \/ UNCHANGED Kafka!kvars
             \/ \E p \in Proc : Kafka!Subscribe(p) \/ Kafka!Leave(p) \/ Kafka!Cancel(p) \/ Kafka!Expel(p)
    <2>1. UNCHANGED <<committed, claim, pos, busy, dirty, handled, again>>
      BY <1>1 DEF Kafka!Publish, Kafka!Subscribe, Kafka!Leave, Kafka!Cancel, Kafka!Expel
    <2>2. \A q \in Part : n[q] <= n'[q]
      BY <1>1, <1>s
        DEF Kafka!Publish, Kafka!Subscribe, Kafka!Leave, Kafka!Cancel, Kafka!Expel, KafkaShape
    <2>3. \A p \in Proc : st'[p] # "expelled"
      BY <1>1, <1>s, <1>o, <1>n
        DEF Alone, Kafka!Publish, Kafka!Subscribe, Kafka!Leave, Kafka!Cancel, Kafka!Expel, Kafka!TypeOK
    <2> QED
      BY <2>1, <2>2, <2>3, <1>o, <1>s, StaysOnce DEF Alone
  <1>2. CASE Kafka!Rebalance
    <2>1. PICK owner \in [Part -> Kafka!Joining] :
             claim' = [p \in Proc |-> IF p \in Kafka!Joining THEN {q \in Part : owner[q] = p} ELSE claim[p]]
      BY <1>2 DEF Kafka!Rebalance
    <2>2. /\ Kafka!Members = {} /\ st' = [p \in Proc |-> IF p \in Kafka!Joining THEN "in" ELSE st[p]]
          /\ UNCHANGED <<n, committed, pos, busy, dirty, handled, again>>
      BY <1>2 DEF Kafka!Rebalance
    <2>3. \A p \in Proc : claim[p] = {} /\ pos[p] = [q \in Part |-> Kafka!None]
      BY <2>2, <1>o, <1>s DEF Kafka!Members, Alone, SessionInv
    <2>4. \A p, r \in Proc : p # r => claim'[p] \cap claim'[r] = {}
      BY <2>1, <2>3
    <2>5. ASSUME NEW q \in Part PROVE Once(q)'
      <3>1. again[q] = {} /\ handled[q] \subseteq 1..Kafka!Initial(q)
        BY <2>3, <1>o DEF Once, Fresh
      <3>2. \A p \in Proc : pos'[p][q] = Kafka!None
        BY <2>2, <2>3
      <3> QED
        BY <2>2, <3>1, <3>2 DEF Once, Kafka!Initial
    <2>6. \A p \in Proc : st'[p] # "expelled"
      BY <2>2, <1>o DEF Alone
    <2> QED
      BY <2>4, <2>5, <2>6 DEF Alone
  <1>3. ASSUME NEW p \in Proc, NEW x \in Part, Kafka!ClaimStep(p, x)
        PROVE Alone' /\ \A q \in Part : Once(q)'
    <2>0. x \in claim[p] /\ UNCHANGED <<n, committed, st, claim>>
      BY <1>3, <1>s DEF Kafka!ClaimStep, Kafka!Start, Kafka!Handle, Kafka!Mark, Kafka!TypeOK
    <2>a. Alone' /\ \A r \in Proc \ {p} : x \notin claim[r]
      BY <2>0, <1>o DEF Alone
    <2>b. Kafka!Initial(x)' = Kafka!Initial(x)
      BY <2>0 DEF Kafka!Initial
    <2>1. ASSUME NEW q \in Part \ {x} PROVE Once(q)'
      <3>1. /\ again'[q] = again[q] /\ handled'[q] = handled[q]
            /\ \A r \in Proc : /\ pos'[r][q] = pos[r][q]
                               /\ q \in busy'[r] <=> q \in busy[r]
                               /\ q \in dirty'[r] <=> q \in dirty[r]
        BY <1>3, <1>s DEF Kafka!ClaimStep, Kafka!Start, Kafka!Handle, Kafka!Mark, KafkaShape
      <3> QED
        BY <2>0, <3>1, <1>o, <1>s, StaysOnce
    <2>o. Once(x) /\ PassedBy(p, x) /\ pos[p][x] \in Int
      BY <1>o, <1>p, <1>s DEF KafkaShape
    <2>2. again'[x] = {} /\ pos'[p][x] # Kafka!None /\ Ahead(p, x)'
      <3>1. CASE Kafka!Start(p, x)
        <4>1. /\ pos[p][x] = Kafka!None /\ pos' = [pos EXCEPT ![p][x] = Kafka!Initial(x)]
              /\ UNCHANGED <<busy, dirty, handled, again>>
          BY <3>1 DEF Kafka!Start
        <4>2. Fresh(x) /\ pos'[p][x] = Kafka!Initial(x)
          BY <4>1, <2>a, <1>s DEF Fresh, KafkaShape
        <4>3. \A i \in handled[x] : i <= Kafka!Initial(x)
          BY <4>2, <2>o, <1>i DEF Once
        <4> QED
          BY <4>1, <4>2, <4>3, <2>o, <2>b, <1>i DEF Ahead, Kafka!None, Once
      <3>2. CASE Kafka!Handle(p, x)
        <4>1. /\ x \notin busy[p] /\ pos[p][x] # Kafka!None
              /\ handled'[x] = handled[x] \cup {pos[p][x] + 1} /\ x \in busy'[p]
              /\ again'[x] = IF pos[p][x] + 1 \in handled[x] THEN again[x] \cup {pos[p][x] + 1} ELSE again[x]
              /\ UNCHANGED <<pos, dirty>>
          BY <3>2, <1>s DEF Kafka!Handle, KafkaShape
        <4>2. Ahead(p, x) /\ again[x] = {}
          BY <4>1, <2>0, <2>o DEF Once
        <4>3. pos[p][x] + 1 \notin handled[x]
          BY <4>1, <4>2, <2>o DEF Ahead
        <4> QED
          BY <4>1, <4>2, <4>3, <2>o, <2>b DEF Ahead
      <3>3. CASE Kafka!Mark(p, x)
        <4>1. /\ x \in busy[p] /\ pos'[p][x] = pos[p][x] + 1 /\ x \in dirty'[p]
              /\ UNCHANGED <<handled, again>>
          BY <3>3, <1>s DEF Kafka!Mark, KafkaShape
        <4>2. Ahead(p, x) /\ again[x] = {} /\ pos[p][x] # Kafka!None /\ pos[p][x] + 1 \in handled[x]
          BY <4>1, <2>0, <2>o DEF Once, PassedBy
        <4>3. handled[x] \subseteq Nat /\ 0 \notin handled[x]
          BY <1>s DEF Kafka!TypeOK, KafkaShape, Kafka!Entries
        <4>4. pos[p][x] + 1 # Kafka!None
          BY <4>2, <4>3 DEF Kafka!None
        <4> QED
          BY <4>1, <4>2, <4>3, <4>4, <2>o DEF Ahead
      <3> QED
        BY <1>3, <3>1, <3>2, <3>3 DEF Kafka!ClaimStep
    <2>3. Once(x)'
      BY <2>0, <2>a, <2>2 DEF Once, Fresh
    <2> QED
      BY <2>a, <2>1, <2>3
  <1>4. ASSUME NEW p \in Proc, Kafka!AutoCommit(p) PROVE Alone' /\ \A q \in Part : Once(q)'
    <2>1. /\ UNCHANGED <<n, st, claim, pos, busy, handled, again>> /\ st[p] = "in"
          /\ dirty' = [dirty EXCEPT ![p] = {}] /\ committed' = Kafka!Flushed(p)
      BY <1>4 DEF Kafka!AutoCommit
    <2>2. ASSUME NEW q \in Part, q \in dirty[p] PROVE Once(q)'
      <3>1. q \in claim[p] /\ committed'[q] = pos[p][q] /\ q \notin dirty'[p] /\ pos[p][q] \in handled[q]
        BY <2>1, <2>2, <1>s, <1>p, FlushedOf DEF Kafka!TypeOK, KafkaShape, PassedBy
      <3>2. pos[p][q] \in Nat /\ pos[p][q] # Kafka!None
        BY <3>1, <1>s DEF KafkaShape, Kafka!TypeOK, Kafka!Entries, Kafka!None
      <3>3. Ahead(p, q) /\ again[q] = {}
        BY <3>1, <3>2, <1>o DEF Once
      <3>4. Ahead(p, q)'
        BY <2>1, <3>1, <3>2, <3>3 DEF Ahead, Kafka!Initial
      <3>5. \A r \in Proc \ {p} : q \notin claim'[r]
        BY <2>1, <3>1, <1>o DEF Alone
      <3> QED
        BY <2>1, <3>1, <3>2, <3>3, <3>4, <3>5 DEF Once, Fresh
    <2>3. ASSUME NEW q \in Part, q \notin dirty[p] PROVE Once(q)'
      <3>1. committed'[q] = committed[q] /\ \A r \in Proc : q \in dirty'[r] <=> q \in dirty[r]
        BY <2>1, <2>3, <1>s, FlushedOf DEF KafkaShape
      <3> QED
        BY <2>1, <3>1, <1>o, <1>s, StaysOnce
    <2> QED
      BY <2>1, <2>2, <2>3, <1>o DEF Alone
  <1>5. ASSUME NEW p \in Proc, Kafka!EndSession(p) PROVE Alone' /\ \A q \in Part : Once(q)'
    <2>1. /\ UNCHANGED <<n, handled, again>> /\ st[p] = "in" /\ busy[p] = {}
          /\ committed' = Kafka!Flushed(p) /\ Kafka!NoSession(p) /\ st' = [st EXCEPT ![p] = Kafka!LoopHead(p)]
      BY <1>5, <1>n, <1>o DEF Kafka!EndSession, Alone, Kafka!Returned
    <2>2. /\ claim'[p] = {}
          /\ \A r \in Proc \ {p} : claim'[r] = claim[r] /\ pos'[r] = pos[r]
                                   /\ busy'[r] = busy[r] /\ dirty'[r] = dirty[r]
      BY <2>1, <1>s, NothingKept
    <2>3. Alone'
      BY <2>1, <2>2, <1>o, <1>s DEF Alone, Kafka!LoopHead, Kafka!TypeOK
    <2>4. ASSUME NEW q \in Part, q \in claim[p] PROVE Once(q)'
      <3>1. \A r \in Proc : q \notin claim'[r]
        BY <2>2, <2>4, <1>o DEF Alone
      <3>2. committed'[q] = IF q \in dirty[p] THEN pos[p][q] ELSE committed[q]
        BY <2>1, <1>s, FlushedOf
      <3>3. handled[q] \subseteq Nat /\ 0 \notin handled[q] /\ pos[p][q] \in Int
        BY <1>s DEF Kafka!TypeOK, KafkaShape, Kafka!Entries
      <3>4. again[q] = {} /\ (pos[p][q] # Kafka!None => Ahead(p, q))
        BY <2>4, <1>o DEF Once
      <3>5. q \in dirty[p] => pos[p][q] # Kafka!None /\ pos[p][q] \in handled[q]
        BY <3>3, <1>p DEF PassedBy, Kafka!None
      <3>6. handled[q] \subseteq 1..Kafka!Initial(q)'
        <4>1. CASE q \in dirty[p]
          BY <4>1, <2>1, <3>2, <3>3, <3>4, <3>5 DEF Ahead, Kafka!Initial
        <4>2. CASE q \notin dirty[p] /\ pos[p][q] # Kafka!None
          <5>1. Kafka!Initial(q)' = Kafka!Initial(q)
            BY <4>2, <2>1, <3>2 DEF Kafka!Initial
          <5> QED
            BY <4>2, <5>1, <2>1, <3>3, <3>4, <1>i DEF Ahead
        <4>3. CASE q \notin dirty[p] /\ pos[p][q] = Kafka!None
          <5>1. Kafka!Initial(q)' = Kafka!Initial(q)
            BY <4>3, <2>1, <3>2 DEF Kafka!Initial
          <5>2. Fresh(q)
            BY <4>3, <2>4, <1>o DEF Fresh, Alone
          <5> QED
            BY <5>1, <5>2, <1>o DEF Once
        <4> QED
          BY <4>1, <4>2, <4>3
      <3> QED
        BY <2>1, <3>1, <3>4, <3>6 DEF Once
    <2>5. ASSUME NEW q \in Part, q \notin claim[p] PROVE Once(q)'
      <3>1. committed'[q] = committed[q]
        BY <2>1, <2>5, <1>s, FlushedOf DEF Kafka!TypeOK
      <3>2. \A r \in Proc : q \in claim'[r] <=> q \in claim[r]
        BY <2>2, <2>5
      <3>3. \A r \in Proc : q \in claim[r] => r # p
        BY <2>5
      <3> QED
        BY <2>1, <2>2, <3>1, <3>2, <3>3, <1>o, <1>s, StaysOnce
    <2> QED
      BY <2>3, <2>4, <2>5
  <1>6. ASSUME NEW p \in Proc PROVE ~Kafka!Crash(p)
    BY <1>n DEF Kafka!Crash
  <1> QED
    BY <1>1, <1>2, <1>3, <1>4, <1>5, <1>6 DEF Kafka!KNext, Kafka!LoopStep

\* The Kafka part of the invariant is inductive.
LEMMA KafkaInductive == KafkaInv /\ [Kafka!KNext]_Kafka!kvars => KafkaInv'
  BY KafkaTypesKept, SessionsKept, PassedKept, OnceKept DEF KafkaInv

\* The fate of entry i of partition q.
EntryFate(q, i) ==
    IF i \in handled[q] THEN "handled" ELSE IF i \in skipped[q] THEN "skipped" ELSE "queued"

\* The table of fates, without the CASE.
LEMMA LogTable ==
    /\ Kafka!fate = [q \in Part |-> [i \in Kafka!Entries(q) |-> EntryFate(q, i)]]
    /\ \A q \in Part : /\ DOMAIN Kafka!fate[q] = 1..n[q]
                       /\ \A i \in 1..n[q] : Kafka!fate[q][i] = EntryFate(q, i)
  BY DEF Kafka!fate, Kafka!Entries, EntryFate

LEMMA LogTablePrime ==
    /\ Kafka!fate' = [q \in Part |-> [i \in Kafka!Entries(q)' |-> EntryFate(q, i)']]
    /\ \A q \in Part : /\ DOMAIN Kafka!fate'[q] = 1..n'[q]
                       /\ \A i \in 1..n'[q] : Kafka!fate'[q][i] = EntryFate(q, i)'
  BY DEF Kafka!fate, Kafka!Entries, EntryFate

\* A step that leaves the histories alone changes no fate.
LEMMA SameLog ==
    ASSUME UNCHANGED <<n, handled, skipped>>
    PROVE  Kafka!fate' = Kafka!fate
  BY DEF Kafka!fate, Kafka!Entries

\* A sequence with one more element.
LEMMA AppendIs ==
    ASSUME NEW k \in Nat, NEW f, DOMAIN f = 1..k, f = [i \in 1..k |-> f[i]],
           NEW S, \A i \in 1..k : f[i] \in S, NEW e \in S
    PROVE  Append(f, e) = [i \in 1..(k + 1) |-> IF i = k + 1 THEN e ELSE f[i]]
  <1>1. f \in Seq(S) /\ Len(f) = k
    OBVIOUS
  <1> QED
    BY <1>1

\* A publication appends a queued entry.
LEMMA SendRefines == ASSUME KafkaInv, NEW q \in Part, Kafka!Publish(q) PROVE Kafka!Log!Publish(q)
  <1>s. KafkaShape /\ Kafka!TypeOK
    BY DEF KafkaInv
  <1>1. /\ n' = [n EXCEPT ![q] = @ + 1] /\ UNCHANGED <<committed, handled, skipped>>
        /\ n[q] \in Nat
    BY <1>s DEF Kafka!Publish, KafkaShape
  <1> DEFINE f == Kafka!fate[q]
             g == [i \in 1..(n[q] + 1) |-> IF i = n[q] + 1 THEN "queued" ELSE f[i]]
  <1>2. f = [i \in 1..n[q] |-> EntryFate(q, i)]
    BY LogTable DEF Kafka!Entries
  <1>3. Append(f, "queued") = g
    <2>1. \A i \in 1..n[q] : f[i] \in {"handled", "skipped", "queued"}
      BY <1>2 DEF EntryFate
    <2> HIDE DEF f
    <2> QED
      BY <1>1, <1>2, <2>1, AppendIs
  <1>4. n[q] + 1 \notin handled[q] /\ n[q] + 1 \notin skipped[q]
    BY <1>1, <1>s DEF Kafka!TypeOK, Kafka!Entries
  <1>5. [i \in Kafka!Entries(q)' |-> EntryFate(q, i)'] = g
    BY <1>1, <1>2, <1>4, <1>s DEF Kafka!Entries, EntryFate, KafkaShape
  <1>6. \A r \in Part \ {q} : [i \in Kafka!Entries(r)' |-> EntryFate(r, i)'] = Kafka!fate[r]
    BY <1>1, <1>s, LogTable DEF Kafka!Entries, EntryFate, KafkaShape
  <1> HIDE DEF f, g
  <1>7. Kafka!fate' = [Kafka!fate EXCEPT ![q] = g]
    <2>1. Kafka!fate' = [r \in Part |-> IF r = q THEN g ELSE Kafka!fate[r]]
      BY <1>5, <1>6, LogTablePrime
    <2>2. DOMAIN Kafka!fate = Part
      BY DEF Kafka!fate
    <2>3. Kafka!fate = [r \in Part |-> Kafka!fate[r]]
      BY DEF Kafka!fate
    <2> QED
      BY <2>1, <2>2, <2>3
  <1>8. Kafka!fate' = [Kafka!fate EXCEPT ![q] = Append(@, "queued")]
    BY <1>7, <1>3 DEF f
  <1>9. Kafka!anchored' = Kafka!anchored
    BY <1>1 DEF Kafka!anchored
  <1> QED
    BY <1>8, <1>9 DEF Kafka!Log!Publish

\* A claim that starts without a commit skips what is there; behind a commit
\* nothing is left to skip.
LEMMA StartRefines ==
    ASSUME KafkaInv, NEW p \in Proc, NEW q \in Part, Kafka!Start(p, q)
    PROVE  Kafka!Log!Skip(q) \/ UNCHANGED Kafka!Log!vars
  <1>s. KafkaShape /\ Kafka!TypeOK /\ 1..committed[q] \subseteq Passed(q)
    BY DEF KafkaInv, PassedInv
  <1>1. /\ skipped' = [skipped EXCEPT ![q] = @ \cup ((1..Kafka!Initial(q)) \ handled[q])]
        /\ UNCHANGED <<n, committed, handled>>
    BY DEF Kafka!Start
  <1>2. Kafka!anchored' = Kafka!anchored
    BY <1>1 DEF Kafka!anchored
  <1>3. CASE committed[q] # Kafka!None
    <2>1. skipped' = skipped
      BY <1>1, <1>3, <1>s DEF Kafka!Initial, Passed, KafkaShape
    <2> QED
      BY <1>1, <1>2, <2>1, SameLog DEF Kafka!Log!vars
  <1>4. CASE committed[q] = Kafka!None
    <2>1. skipped'[q] = skipped[q] \cup ((1..n[q]) \ handled[q])
      BY <1>1, <1>4, <1>s DEF Kafka!Initial, KafkaShape
    <2>2. \A r \in Part \ {q} : [i \in Kafka!Entries(r)' |-> EntryFate(r, i)'] = Kafka!fate[r]
      BY <1>1, <1>s, LogTable DEF Kafka!Entries, EntryFate, KafkaShape
    <2> DEFINE g == [i \in DOMAIN Kafka!fate[q] |->
                     IF Kafka!fate[q][i] = "queued" THEN "skipped" ELSE Kafka!fate[q][i]]
    <2>3. [i \in Kafka!Entries(q)' |-> EntryFate(q, i)'] = g
      BY <1>1, <2>1, LogTable DEF Kafka!Entries, EntryFate
    <2> HIDE DEF g
    <2>4. Kafka!fate' = [r \in Part |-> IF r = q THEN g ELSE Kafka!fate[r]]
      BY <2>2, <2>3, LogTablePrime
    <2>5. DOMAIN Kafka!fate = Part /\ Kafka!fate = [r \in Part |-> Kafka!fate[r]]
      BY DEF Kafka!fate
    <2>6. Kafka!fate' = [Kafka!fate EXCEPT ![q] = g]
      BY <2>4, <2>5
    <2>7. q \notin Kafka!anchored
      BY <1>4 DEF Kafka!anchored
    <2> QED
      BY <1>2, <2>6, <2>7 DEF Kafka!Log!Skip, g
  <1> QED
    BY <1>3, <1>4

\* A callback handles the first queued entry, or one that was handled before.
LEMMA CallbackRefines ==
    ASSUME KafkaInv, NEW p \in Proc, NEW q \in Part, Kafka!Handle(p, q)
    PROVE  (\E i \in DOMAIN Kafka!fate[q] : Kafka!Log!Handle(q, i)) \/ UNCHANGED Kafka!Log!vars
  <1>s. KafkaShape /\ Kafka!TypeOK /\ PassedBy(p, q)
    BY DEF KafkaInv, PassedInv
  <1> DEFINE i == pos[p][q] + 1
  <1>1. /\ handled' = [handled EXCEPT ![q] = @ \cup {i}]
        /\ UNCHANGED <<n, committed, skipped>>
        /\ i \in 1..n[q] /\ 1..(i - 1) \subseteq Passed(q)
    BY <1>s DEF Kafka!Handle, KafkaShape, Kafka!TypeOK, Kafka!None, PassedBy
  <1> HIDE DEF i
  <1>2. Kafka!anchored' = Kafka!anchored
    BY <1>1 DEF Kafka!anchored
  <1>3. CASE i \in handled[q]
    <2>1. handled' = handled
      BY <1>1, <1>3, <1>s DEF KafkaShape
    <2> QED
      BY <1>1, <1>2, <2>1, SameLog DEF Kafka!Log!vars
  <1>4. CASE i \notin handled[q]
    <2>1. Kafka!fate[q][i] # "handled"
      BY <1>1, <1>4, LogTable DEF EntryFate
    <2>2. \A j \in 1..(i - 1) : Kafka!fate[q][j] # "queued"
      <3> TAKE j \in 1..(i - 1)
      <3>1. j \in 1..n[q] /\ j \in Passed(q) /\ n[q] \in Nat
        BY <1>1, <1>s DEF KafkaShape
      <3> QED
        BY <3>1, LogTable DEF EntryFate, Passed
    <2>3. handled'[q] = handled[q] \cup {i} /\ \A r \in Part \ {q} : handled'[r] = handled[r]
      BY <1>1, <1>s DEF KafkaShape
    <2> DEFINE g == [Kafka!fate[q] EXCEPT ![i] = "handled"]
    <2>4. [j \in Kafka!Entries(q)' |-> EntryFate(q, j)'] = g
      <3>1. Kafka!fate[q] = [j \in 1..n[q] |-> EntryFate(q, j)]
        BY LogTable DEF Kafka!Entries
      <3>2. \A j \in 1..n[q] : EntryFate(q, j)' = IF j = i THEN "handled" ELSE EntryFate(q, j)
        BY <1>1, <2>3 DEF EntryFate
      <3>3. Kafka!Entries(q)' = 1..n[q]
        BY <1>1 DEF Kafka!Entries
      <3> HIDE DEF EntryFate
      <3> QED
        BY <3>1, <3>2, <3>3
    <2>5. \A r \in Part \ {q} : [j \in Kafka!Entries(r)' |-> EntryFate(r, j)'] = Kafka!fate[r]
      BY <1>1, <2>3, LogTable DEF Kafka!Entries, EntryFate
    <2> HIDE DEF g
    <2>6. Kafka!fate' = [r \in Part |-> IF r = q THEN g ELSE Kafka!fate[r]]
      BY <2>4, <2>5, LogTablePrime
    <2>7. DOMAIN Kafka!fate = Part /\ Kafka!fate = [r \in Part |-> Kafka!fate[r]]
      BY DEF Kafka!fate
    <2>8. Kafka!fate' = [Kafka!fate EXCEPT ![q] = g]
      BY <2>6, <2>7
    <2>9. Kafka!fate' = [Kafka!fate EXCEPT ![q][i] = "handled"]
      BY <2>8 DEF g
    <2>10. i \in DOMAIN Kafka!fate[q]
      BY <1>1, LogTable
    <2> QED
      BY <1>2, <2>1, <2>2, <2>9, <2>10 DEF Kafka!Log!Handle
  <1> QED
    BY <1>3, <1>4

\* A commit anchors partitions in which something was handled.
LEMMA CommitRefines ==
    ASSUME KafkaInv, NEW p \in Proc, st[p] = "in", committed' = Kafka!Flushed(p),
           UNCHANGED <<n, handled, skipped>>
    PROVE  Kafka!Log!Commit(dirty[p])
  <1>s. KafkaShape /\ Kafka!TypeOK /\ \A q \in Part : PassedBy(p, q)
    BY DEF KafkaInv, PassedInv
  <1>1. dirty[p] \subseteq Part
    BY <1>s DEF KafkaShape
  <1>2. ASSUME NEW q \in dirty[p]
        PROVE  pos[p][q] \in 1..n[q] /\ Kafka!fate[q][pos[p][q]] = "handled" /\ committed'[q] # Kafka!None
    <2>1. pos[p][q] \in handled[q] /\ handled[q] \subseteq 1..n[q]
      BY <1>1, <1>s DEF PassedBy, Kafka!TypeOK, Kafka!Entries
    <2> QED
      BY <1>1, <1>s, <2>1, LogTable, FlushedOf DEF EntryFate, Kafka!None
  <1>3. Kafka!anchored' = Kafka!anchored \cup dirty[p]
    <2>1. \A q \in Part : committed'[q] # Kafka!None <=> (committed[q] # Kafka!None \/ q \in dirty[p])
      BY <1>2, <1>s, FlushedOf
    <2> QED
      BY <1>1, <2>1 DEF Kafka!anchored
  <1>4. \A q \in dirty[p] : \E i \in DOMAIN Kafka!fate[q] : Kafka!fate[q][i] = "handled"
    BY <1>1, <1>2, LogTable
  <1> QED
    BY <1>3, <1>4, SameLog DEF Kafka!Log!Commit

\* Every step is one of EventLog or changes nothing there.
LEMMA LogStep == KafkaInv /\ [Kafka!KNext]_Kafka!kvars => [Kafka!Log!Next]_Kafka!Log!vars
  <1> SUFFICES ASSUME KafkaInv, [Kafka!KNext]_Kafka!kvars PROVE [Kafka!Log!Next]_Kafka!Log!vars
    OBVIOUS
  <1>1. ASSUME UNCHANGED <<n, committed, handled, skipped>> PROVE UNCHANGED Kafka!Log!vars
    BY <1>1, SameLog DEF Kafka!Log!vars, Kafka!anchored
  <1>2. ASSUME NEW q \in Part, Kafka!Publish(q) PROVE Kafka!Log!Next
    BY <1>2, SendRefines DEF Kafka!Log!Next
  <1>3. ASSUME NEW p \in Proc, NEW q \in Part, Kafka!ClaimStep(p, q) PROVE [Kafka!Log!Next]_Kafka!Log!vars
    <2>1. CASE Kafka!Start(p, q)
      BY <2>1, StartRefines DEF Kafka!Log!Next
    <2>2. CASE Kafka!Handle(p, q)
      BY <2>2, CallbackRefines DEF Kafka!Log!Next
    <2>3. CASE Kafka!Mark(p, q)
      BY <2>3, <1>1 DEF Kafka!Mark
    <2> QED
      BY <1>3, <2>1, <2>2, <2>3 DEF Kafka!ClaimStep
  <1>4. ASSUME NEW p \in Proc, Kafka!AutoCommit(p) \/ Kafka!EndSession(p)
        PROVE [Kafka!Log!Next]_Kafka!Log!vars
    <2>1. UNCHANGED <<n, handled, skipped>> /\ (committed' = committed \/ committed' = Kafka!Flushed(p))
      BY <1>4 DEF Kafka!AutoCommit, Kafka!EndSession
    <2>2. CASE committed' = committed
      BY <2>1, <2>2, <1>1
    <2>3. CASE committed' = Kafka!Flushed(p) /\ st[p] # "in"
      BY <2>1, <2>3, <1>1 DEF Kafka!Flushed
    <2>4. CASE committed' = Kafka!Flushed(p) /\ st[p] = "in"
      <3>1. dirty[p] \in SUBSET Part
        BY DEF KafkaInv, KafkaShape
      <3> QED
        BY <2>1, <2>4, <3>1, CommitRefines DEF Kafka!Log!Next
    <2> QED
      BY <2>1, <2>2, <2>3, <2>4
  <1>5. CASE \/ Kafka!Rebalance \/ UNCHANGED Kafka!kvars
             \/ \E p \in Proc : Kafka!Subscribe(p) \/ Kafka!Leave(p) \/ Kafka!Cancel(p) \/ Kafka!Expel(p)
                              \/ Kafka!Crash(p)
    BY <1>5, <1>1
      DEF Kafka!Rebalance, Kafka!Subscribe, Kafka!Leave, Kafka!Cancel, Kafka!Expel, Kafka!Crash
  <1> QED
    BY <1>2, <1>3, <1>4, <1>5 DEF Kafka!KNext, Kafka!LoopStep

-----------------------------------------------------------------------------
(* The driver that was configured *)

\* The bus in use keeps its invariant, the other one is as it was created.
BusIInv ==
    /\ driver \in {"kafka", "redis"}
    /\ driver = "redis" => IInv /\ (\A q \in Part : again[q] = {})
    /\ driver = "kafka" => KafkaInv /\ AckedWasHandled

\* A step is one of the driver's bus.
LEMMA BusSteps ==
    ASSUME BusIInv, [BusNext]_busVars
    PROVE  /\ driver' = driver
           /\ driver = "redis" => [Next]_vars /\ UNCHANGED kafkaVars
           /\ driver = "kafka" => [Kafka!KNext]_Kafka!kvars /\ UNCHANGED streamVars
  <1>1. CASE driver = "redis" /\ Next /\ UNCHANGED <<driver, kafkaVars>>
    BY <1>1
  <1>2. CASE driver = "kafka" /\ Kafka!KNext /\ UNCHANGED <<driver, streamVars>>
    BY <1>2
  <1>3. CASE UNCHANGED busVars
    <2>1. UNCHANGED <<driver, kafkaVars, streamVars, stopping, faults>>
      BY <1>3 DEF busVars
    <2>2. UNCHANGED vars
      BY <2>1 DEF streamVars, redisVars, history, vars
    <2>3. UNCHANGED Kafka!kvars
      BY <2>1 DEF kafkaVars
    <2> QED
      BY <2>1, <2>2, <2>3
  <1> QED
    BY <1>1, <1>2, <1>3 DEF BusNext

\* The buses are created as one is.
LEMMA BusInitial == NewEventBus => BusIInv
  <1> SUFFICES ASSUME NewEventBus PROVE BusIInv
    OBVIOUS
  <1>1. IInv /\ KafkaInv
    BY InitIInv, KafkaInitial DEF NewEventBus
  <1>2. AckedWasHandled
    BY <1>1 DEF IInv, CallsInv, AckedWasHandled
  <1> QED
    BY <1>1, <1>2 DEF NewEventBus, Kafka!KInit, BusIInv

\* The invariant is inductive.
LEMMA BusStep == BusIInv /\ [BusNext]_busVars => BusIInv'
  <1> SUFFICES ASSUME BusIInv, [BusNext]_busVars PROVE BusIInv'
    OBVIOUS
  <1>1. CASE driver = "redis"
    <2>1. IInv' /\ again' = again
      BY <1>1, BusSteps, StreamStep DEF BusIInv, kafkaVars
    <2> QED
      BY <1>1, <2>1, BusSteps DEF BusIInv
  <1>2. CASE driver = "kafka"
    <2>1. KafkaInv'
      BY <1>2, BusSteps, KafkaInductive DEF BusIInv
    <2>2. AckedWasHandled'
      BY <1>2, BusSteps DEF BusIInv, AckedWasHandled, Event, streamVars, redisVars, history
    <2> QED
      BY <1>2, <2>1, <2>2, BusSteps DEF BusIInv
  <1> QED
    BY <1>1, <1>2 DEF BusIInv

\* The invariant holds in every reachable state of the bus.
THEOREM BusInductive == BusSpec => []BusIInv
  BY BusInitial, BusStep, PTL DEF BusSpec

\* On either driver states have their types, and on Kafka no entry reaches the
\* callback twice as long as no commit, process or membership fails: through
\* rebalances and orderly shutdowns, whoever takes a partition over starts
\* behind what was handled.
THEOREM BusStates == BusSpec => []BusInv
  <1>1. BusIInv => BusInv
    BY DEF BusIInv, BusInv, IInv, KafkaInv, OnceInv, Once, Kafka!RepeatedOnlyByFault
  <1> QED
    BY BusInductive, <1>1, PTL

\* Whatever the driver, no entry of a stream is forgotten unseen ...
THEOREM BusForgetsNothing == BusSpec => []AckedWasHandled
  <1>1. BusIInv => AckedWasHandled
    BY DEF BusIInv, IInv, CallsInv, AckedWasHandled
  <1> QED
    BY BusInductive, <1>1, PTL

\* ... and a process handles the entries of a stream in their order.
THEOREM BusKeepsOrder == BusSpec => HandledInOrder
  <1>1. BusIInv /\ [BusNext]_busVars => [\A p \in Proc : seen'[p] # seen[p] => seen'[p] > seen[p]]_vars
    <2> SUFFICES ASSUME BusIInv, [BusNext]_busVars
                 PROVE  [\A p \in Proc : seen'[p] # seen[p] => seen'[p] > seen[p]]_vars
      OBVIOUS
    <2>1. CASE driver = "redis"
      BY <2>1, BusSteps, OrderStep DEF BusIInv
    <2>2. CASE driver = "kafka"
      BY <2>2, BusSteps DEF streamVars, history
    <2> QED
      BY <2>1, <2>2 DEF BusIInv
  <1> QED
    BY BusInductive, <1>1, PTL DEF BusSpec, HandledInOrder

\* On either driver the promise of the streams is kept: at most once, and
\* nothing that was lost comes back.
THEOREM BusImplementsQueue == BusSpec => ImplementsQueue
  <1> DEFINE Fates == driver = "redis" => FateTable
  <1>0. BusIInv => Fates
    BY FateOf DEF BusIInv
  <1>1. BusIInv /\ Fates /\ Fates' /\ [BusNext]_busVars => [Queue!Next]_fate
    <2> SUFFICES ASSUME BusIInv, Fates, Fates', [BusNext]_busVars PROVE [Queue!Next]_fate
      OBVIOUS
    <2>1. CASE driver = "redis"
      BY <2>1, BusSteps, QueueStep DEF BusIInv
    <2>2. CASE driver = "kafka"
      <3>1. UNCHANGED streamVars
        BY <2>2, BusSteps
      <3> QED
        BY <3>1 DEF streamVars, redisVars, history, fate, Stranded, InHand, Event
    <2> QED
      BY <2>1, <2>2 DEF BusIInv
  <1>2. NewEventBus => Queue!Init
    BY QueueInitial DEF NewEventBus
  <1> HIDE DEF Fates
  <1> QED
    BY BusInductive, <1>0, <1>1, <1>2, PTL DEF BusSpec, ImplementsQueue, Queue!Spec

\* On Kafka a partition's entries reach the callback in order, and none is
\* passed over once the group has committed there, whatever rebalances, failed
\* commits, expelled members and crashes come in between.
THEOREM BusImplementsLog == BusSpec => KafkaImplementsLog
  <1>1. BusIInv /\ [BusNext]_busVars => [Kafka!Log!Next]_Kafka!Log!vars
    <2> SUFFICES ASSUME BusIInv, [BusNext]_busVars PROVE [Kafka!Log!Next]_Kafka!Log!vars
      OBVIOUS
    <2>1. CASE driver = "redis"
      <3>1. UNCHANGED <<n, committed, handled, skipped>>
        BY <2>1, BusSteps DEF kafkaVars
      <3> QED
        BY <3>1, SameLog DEF Kafka!Log!vars, Kafka!anchored
    <2>2. CASE driver = "kafka"
      BY <2>2, BusSteps, LogStep DEF BusIInv
    <2> QED
      BY <2>1, <2>2 DEF BusIInv
  <1>2. NewEventBus => Kafka!Log!Init
    BY DEF NewEventBus, Kafka!KInit, Kafka!Log!Init, Kafka!fate, Kafka!anchored, Kafka!Entries
  <1> QED
    BY BusInductive, <1>1, <1>2, PTL DEF BusSpec, KafkaImplementsLog, Kafka!KafkaImplementsLog, Kafka!Log!Spec
=============================================================================
