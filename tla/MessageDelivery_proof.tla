----------------------- MODULE MessageDelivery_proof -----------------------
(***************************************************************************)
(* Proofs about chat-service for any messages, senders and recipients and  *)
(* any number of failures, cancelled requests, crashes and stops.          *)
(***************************************************************************)
EXTENDS MessageDelivery, SequenceTheorems, TLAPS

\* How far a call has come tells whether its message is stored, and only a
\* stored one is announced; the caller is answered after everybody was served.
SendOK(m) ==
    /\ call[m] \in {"idle", "ensure", "insert"} => stored[m] = "absent"
    /\ call[m] \in {"sent", "announce", "route", "ok"} => stored[m] = "present"
    /\ call[m] \in Open => rcpt[m] # {}
    /\ call[m] = "ok" => AllServed(m)
    /\ Sender[m] \notin rcpt[m]
    /\ m \in announced => stored[m] = "present"

\* A recipient whose turn has come belongs to a stored message; it was handed
\* nothing before its push or queueing, and afterwards one copy, but for
\* failures.
RouteOK(m, u) ==
    /\ route[m][u] # "todo" => u \in rcpt[m] /\ call[m] \in {"route", "ok", "failed"}
                               /\ stored[m] = "present"
    /\ route[m][u] \in {"todo", "online", "offline"} => pushed[m][u] = 0 /\ queued[m][u] = 0
    /\ route[m][u] = "marking" => queued[m][u] = 0
    /\ pushed[m][u] = 0 \/ queued[m][u] = 0
    /\ pushed[m][u] + queued[m][u] <= 1 + faults
    /\ faults = 0 /\ route[m][u] \in {"marking", "done"} => pushed[m][u] + queued[m][u] = 1

\* A mark that wrote a row wrote one of a stored message, and afterwards only
\* the sender's own call may call it "sent".
MarkOK(k) ==
    mark[k] \in {"upserted", "ok"} =>
      /\ stored[k.msg] # "absent"
      /\ \/ status[k.msg][k.user] \in {"delivered", "read"}
         \/ status[k.msg][k.user] = "sent" /\ k.user = Sender[k.msg]

\* Events, in a stream or in a consumer's hands, and ticks come from marks
\* that succeeded.
EventInv ==
    /\ \A s \in Stream : \A i \in DOMAIN events[s] : mark[events[s][i]] = "ok"
    /\ \A s \in Stream : \A i \in DOMAIN taken[s] : mark[taken[s][i]] = "ok"
    /\ \A k \in ticks : mark[k] = "ok"

IInv ==
    /\ TypeOK
    /\ \A m \in Msg : SendOK(m) /\ (m \in ctxGone => faults > 0)
    /\ \A m \in Msg, u \in User : RouteOK(m, u)
    /\ \A k \in Mark : MarkOK(k)
    /\ EventInv
    /\ StatusJustified

-----------------------------------------------------------------------------
\* The outcomes of a statement: how often it was applied, and what it costs.
LEMMA CopiesOf ==
    /\ Copies("ok") = 1 /\ Copies("lost") = 0 /\ Copies("applied") = 1 /\ Copies("twice") = 2
    /\ Applied("ok") /\ ~Applied("lost") /\ Applied("applied") /\ Applied("twice")
  BY DEF Copies, Applied

LEMMA Outcome ==
    ASSUME faults \in 0..MaxFaults, NEW res, res \in RedisResults \/ res \in Results, Charge(res)
    PROVE  /\ res \in {"ok", "lost", "applied", "twice"}
           /\ Copies(res) \in 0..2 /\ (Applied(res) <=> Copies(res) > 0)
           /\ faults' \in 0..MaxFaults /\ faults <= faults'
           /\ Copies(res) <= 1 + faults'
           /\ Copies(res) = 1 \/ faults' > 0
           /\ faults' = 0 => res = "ok"
  <1>1. res \in {"ok", "lost", "applied", "twice"} /\ MaxFaults \in Nat
    BY DeliveryAssumption DEF RedisResults, Results
  <1>2. faults' = IF res = "ok" THEN faults ELSE faults + 1
    BY DEF Charge
  <1>3. res = "ok" \/ faults < MaxFaults
    BY DEF RedisResults, Results
  <1> QED
    BY <1>1, <1>2, <1>3, CopiesOf

\* ... and in a call that may have been cancelled.
LEMMA OutcomeOf ==
    ASSUME faults \in 0..MaxFaults, NEW m, m \in ctxGone => faults > 0,
           NEW res, res \in RedisResultsOf(m) \/ res \in ResultsOf(m), ChargeOf(m, res)
    PROVE  /\ res \in {"ok", "lost", "applied", "twice"}
           /\ Copies(res) \in 0..2 /\ (Applied(res) <=> Copies(res) > 0)
           /\ faults' \in 0..MaxFaults /\ faults <= faults'
           /\ Copies(res) <= 1 + faults'
           /\ Copies(res) = 1 \/ faults' > 0
           /\ faults' = 0 => res = "ok"
  <1>1. CASE m \in ctxGone
    <2>1. res = "lost" /\ faults' = faults
      BY <1>1 DEF RedisResultsOf, ResultsOf, ChargeOf
    <2> QED
      BY <1>1, <2>1, CopiesOf, DeliveryAssumption
  <1>2. CASE m \notin ctxGone
    <2>1. (res \in RedisResults \/ res \in Results) /\ Charge(res)
      BY <1>2 DEF RedisResultsOf, ResultsOf, ChargeOf
    <2> QED
      BY <2>1, Outcome
  <1> QED
    BY <1>1, <1>2

\* An upsert leaves a table of statuses, and changes at most its own row.
LEMMA UpsertRow ==
    ASSUME status \in [Msg -> [User -> {"none", "sent", "delivered", "read"}]],
           NEW m \in Msg, NEW u \in User, NEW s \in {"sent", "delivered", "read"}, NEW res,
           Upsert(m, u, s, res)
    PROVE  /\ status' \in [Msg -> [User -> {"none", "sent", "delivered", "read"}]]
           /\ \A n \in Msg, v \in User : n # m \/ v # u => status'[n][v] = status[n][v]
           /\ status'[m][u] \in {s, status[m][u]}
           /\ Applied(res) => status'[m][u] = s
  BY DEF Upsert

\* What a mark is about.
LEMMA MarkFields ==
    ASSUME NEW k \in Mark
    PROVE  /\ k.msg \in Msg /\ k.user \in User
           /\ k.status \in Stream /\ k.status \in {"sent", "delivered", "read"}
           /\ k.status \in {"delivered", "read"}
  BY DeliveryAssumption DEF Mark, Stream

\* A mark is refused, or its upsert runs like any statement.
LEMMA MarkWrites ==
    ASSUME NEW k \in Mark, MarkUpsert(k)
    PROVE  \/ status' = status /\ faults' = faults /\ mark' = [mark EXCEPT ![k] = "failed"]
           \/ \E res \in Results :
                /\ stored[k.msg] # "absent" /\ Upsert(k.msg, k.user, k.status, res) /\ Charge(res)
                /\ mark' = [mark EXCEPT ![k] = IF res = "ok" THEN "upserted" ELSE "failed"]
  <1> PICK res \in MarkResults(k.msg) :
        /\ IF res = "refused" THEN UNCHANGED <<status, faults>>
           ELSE Upsert(k.msg, k.user, k.status, res) /\ Charge(res)
        /\ mark' = [mark EXCEPT ![k] = IF res = "ok" THEN "upserted" ELSE "failed"]
    BY DEF MarkUpsert
  <1>1. CASE res = "refused"
    BY <1>1
  <1>2. CASE res # "refused"
    <2>1. stored[k.msg] # "absent" /\ res \in Results
      BY <1>2 DEF MarkResults
    <2> QED
      BY <1>2, <2>1
  <1> QED
    BY <1>1, <1>2

\* A stream cut in two: nothing is in the parts that was not in the whole.
LEMMA Cut ==
    ASSUME NEW S, NEW e \in Seq(S), NEW n \in 1..Len(e)
    PROVE  /\ SubSeq(e, 1, n) \in Seq(S) /\ SubSeq(e, n + 1, Len(e)) \in Seq(S)
           /\ DOMAIN SubSeq(e, 1, n) = 1..n
           /\ \A i \in DOMAIN SubSeq(e, 1, n) : \E j \in DOMAIN e : SubSeq(e, 1, n)[i] = e[j]
           /\ \A i \in DOMAIN SubSeq(e, n + 1, Len(e)) :
                \E j \in DOMAIN e : SubSeq(e, n + 1, Len(e))[i] = e[j]
  <1>1. Len(e) \in Nat /\ DOMAIN e = 1..Len(e) /\ \A j \in 1..Len(e) : e[j] \in S
    OBVIOUS
  <1> DEFINE a == SubSeq(e, 1, n)
             b == SubSeq(e, n + 1, Len(e))
  <1>2. a \in Seq(S) /\ Len(a) = n /\ \A i \in 1..n : a[i] = e[i]
    <2>1. \A i \in 1..n : e[i] \in S
      BY <1>1
    <2>2. a \in Seq(S) /\ Len(a) = IF 1 <= n THEN n - 1 + 1 ELSE 0
      BY <2>1, SubSeqProperties
    <2>3. \A i \in 1..(n - 1 + 1) : a[i] = e[1 + i - 1]
      BY <2>1, SubSeqProperties
    <2> QED
      BY <2>2, <2>3
  <1>3. b \in Seq(S) /\ Len(b) = Len(e) - n /\ \A i \in 1..(Len(e) - n) : b[i] = e[n + i]
    <2>1. \A i \in (n + 1)..Len(e) : e[i] \in S
      BY <1>1
    <2>2. b \in Seq(S) /\ Len(b) = IF n + 1 <= Len(e) THEN Len(e) - (n + 1) + 1 ELSE 0
      BY <2>1, <1>1, SubSeqProperties
    <2>3. \A i \in 1..(Len(e) - (n + 1) + 1) : b[i] = e[(n + 1) + i - 1]
      BY <2>1, <1>1, SubSeqProperties
    <2> HIDE DEF b
    <2>4. Len(b) = Len(e) - n
      <3>1. Len(b) = IF n + 1 <= Len(e) THEN Len(e) - (n + 1) + 1 ELSE 0
        BY <2>2
      <3>2. ASSUME NEW l \in Nat, n \in 1..l
            PROVE  l - n = IF n + 1 <= l THEN l - (n + 1) + 1 ELSE 0
        <4>1. CASE n = l
          BY <3>2, <4>1
        <4>2. CASE n < l
          BY <3>2, <4>2
        <4> QED
          BY <3>2, <4>1, <4>2
      <3> QED
        BY <3>1, <3>2, <1>1
    <2>5. ASSUME NEW i \in 1..(Len(e) - n) PROVE b[i] = e[n + i]
      <3>1. i \in 1..(Len(e) - (n + 1) + 1) /\ (n + 1) + i - 1 = n + i
        BY <1>1
      <3> QED
        BY <2>3, <3>1
    <2> QED
      BY <2>2, <2>4, <2>5
  <1> HIDE DEF a, b
  <1>4. DOMAIN a = 1..n /\ DOMAIN b = 1..(Len(e) - n)
    BY <1>2, <1>3
  <1>5. \A i \in DOMAIN a : \E j \in DOMAIN e : a[i] = e[j]
    BY <1>1, <1>2, <1>4
  <1>6. ASSUME NEW i \in DOMAIN b PROVE \E j \in DOMAIN e : b[i] = e[j]
    <2>1. n + i \in DOMAIN e /\ b[i] = e[n + i]
      BY <1>1, <1>3, <1>4
    <2> QED
      BY <2>1
  <1> QED
    BY <1>2, <1>3, <1>4, <1>5, <1>6 DEF a, b

\* The consumers, and the process that stops and starts, touch neither the
\* calls nor the tables nor the users.
LEMMA ConsumersApart ==
    ASSUME (\E s \in Stream : ConsumerStep(s)) \/ Signal \/ Exit \/ StartAgain
    PROVE  UNCHANGED <<call, isGroup, rcpt, route, ctxGone, stored, announced, pushed, queued,
                       received, status, mark, presence, link>>
  BY DEF ConsumerStep, ReadEvents, HandleStatusEvent, EndConsumer, Signal, Exit, StartAgain,
         sendVars, storeVars, markVars, userVars

\* Initially no call was made and nothing is stored.
LEMMA InitIInv == Init => IInv
  <1> SUFFICES ASSUME Init PROVE IInv
    OBVIOUS
  <1> USE DeliveryAssumption DEF Init
  <1>1. TypeOK
    <2>1. events \in [Stream -> Seq(Mark)]
      OBVIOUS
    <2>2. pushed \in [Msg -> [User -> Nat]] /\ queued \in [Msg -> [User -> Nat]]
      OBVIOUS
    <2> QED
      BY <2>1, <2>2 DEF TypeOK, Open
  <1>2. \A m \in Msg : SendOK(m) /\ (m \in ctxGone => faults > 0)
    BY DEF SendOK, Open
  <1>3. \A m \in Msg, u \in User : RouteOK(m, u)
    BY DEF RouteOK
  <1>4. (\A k \in Mark : MarkOK(k)) /\ EventInv
    BY DEF MarkOK, EventInv, Mark
  <1>5. StatusJustified
    BY DEF StatusJustified
  <1> QED
    BY <1>1, <1>2, <1>3, <1>4, <1>5 DEF IInv

-----------------------------------------------------------------------------
\* Every step keeps the types.
LEMMA TypePreserved == IInv /\ [Next]_vars => TypeOK'
  <1> SUFFICES ASSUME IInv, [Next]_vars PROVE TypeOK'
    OBVIOUS
  <1> USE DeliveryAssumption DEF TypeOK, sendVars, storeVars, markVars, userVars, procVars
  <1>a. TypeOK /\ \A m \in Msg : m \in ctxGone => faults > 0
    <2>1. \A m \in Msg : m \in ctxGone => faults > 0
      BY DEF IInv
    <2> QED
      BY <2>1 DEF IInv
  <1>1. ASSUME NEW m \in Msg, NEW group \in BOOLEAN, NEW S \in SUBSET User, Start(m, group, S)
        PROVE TypeOK'
    <2> PICK res \in GetGroupMembers(group) :
          /\ Charge(res)
          /\ rcpt' = [rcpt EXCEPT ![m] = Recipients(m, S)]
          /\ call' = [call EXCEPT ![m] = IF res = "ok" /\ rcpt'[m] # {} THEN "ensure" ELSE "failed"]
      BY <1>1 DEF Start
    <2>1. faults' \in 0..MaxFaults
      BY <1>a DEF GetGroupMembers, Results, Charge
    <2>2. rcpt' \in [Msg -> SUBSET User] /\ call' \in [Msg -> {"idle", "ok", "failed"} \cup Open]
      BY <1>a DEF Recipients, Open
    <2> QED
      BY <1>1, <1>a, <2>1, <2>2 DEF Start
  <1>2. ASSUME NEW m \in Msg, Ensure(m) PROVE TypeOK'
    <2> PICK res \in ResultsOf(m) : GoOn(m, res, "insert") /\ ChargeOf(m, res)
      BY <1>2 DEF Ensure
    <2>1. faults' \in 0..MaxFaults
      BY <1>a, OutcomeOf
    <2>2. call' \in [Msg -> {"idle", "ok", "failed"} \cup Open]
      BY <1>a DEF GoOn, Open
    <2> QED
      BY <1>2, <1>a, <2>1, <2>2 DEF Ensure
  <1>3. ASSUME NEW m \in Msg, Insert(m) PROVE TypeOK'
    <2> PICK res \in ResultsOf(m) :
          /\ GoOn(m, res, "sent") /\ ChargeOf(m, res)
          /\ stored' = [stored EXCEPT ![m] = CASE res = "ok" -> "present" [] res = "lost" -> "absent"
                                               [] OTHER -> "ghost"]
      BY <1>3 DEF Insert
    <2>1. faults' \in 0..MaxFaults
      BY <1>a, OutcomeOf
    <2>2. call' \in [Msg -> {"idle", "ok", "failed"} \cup Open]
      BY <1>a DEF GoOn, Open
    <2>3. stored' \in [Msg -> {"absent", "present", "ghost"}]
      BY <1>a
    <2> QED
      BY <1>3, <1>a, <2>1, <2>2, <2>3 DEF Insert
  <1>4. ASSUME NEW m \in Msg, MarkSent(m) PROVE TypeOK'
    <2> PICK res \in ResultsOf(m) : Upsert(m, Sender[m], "sent", res) /\ ChargeOf(m, res)
      BY <1>4 DEF MarkSent
    <2>1. faults' \in 0..MaxFaults
      BY <1>a, OutcomeOf
    <2>2. call' \in [Msg -> {"idle", "ok", "failed"} \cup Open]
      BY <1>4, <1>a DEF MarkSent, Open
    <2>3. status' \in [Msg -> [User -> {"none", "sent", "delivered", "read"}]]
      BY <1>a, UpsertRow
    <2> QED
      BY <1>4, <1>a, <2>1, <2>2, <2>3 DEF MarkSent
  <1>5. ASSUME NEW m \in Msg, Announce(m) PROVE TypeOK'
    <2> PICK res \in RedisResultsOf(m) :
          /\ announced' = IF Applied(res) THEN announced \cup {m} ELSE announced
          /\ ChargeOf(m, res)
      BY <1>5 DEF Announce
    <2>1. faults' \in 0..MaxFaults
      BY <1>a, OutcomeOf
    <2>2. call' \in [Msg -> {"idle", "ok", "failed"} \cup Open] /\ announced' \subseteq Msg
      BY <1>5, <1>a DEF Announce, Open
    <2> QED
      BY <1>5, <1>a, <2>1, <2>2 DEF Announce
  <1>6. ASSUME NEW m \in Msg, Finish(m) \/ CtxCancelled(m) PROVE TypeOK'
    <2>1. call' \in [Msg -> {"idle", "ok", "failed"} \cup Open] /\ ctxGone' \subseteq Msg
      BY <1>6, <1>a DEF Finish, CtxCancelled
    <2>2. faults' \in 0..MaxFaults
      BY <1>6, <1>a DEF Finish, CtxCancelled
    <2> QED
      BY <1>6, <1>a, <2>1, <2>2 DEF Finish, CtxCancelled
  <1>7. ASSUME NEW m \in Msg, NEW u \in User, CheckPresence(m, u) PROVE TypeOK'
    <2> PICK res \in ResultsOf(m) \ {"applied"} :
          /\ RouteTo(m, u, IF res = "ok" /\ u \in presence THEN "online" ELSE "offline")
          /\ ChargeOf(m, res)
      BY <1>7 DEF CheckPresence
    <2>1. faults' \in 0..MaxFaults
      BY <1>a, OutcomeOf
    <2>2. route' \in [Msg -> [User -> {"todo", "online", "offline", "marking", "done"}]]
      BY <1>a DEF RouteTo
    <2> QED
      BY <1>7, <1>a, <2>1, <2>2 DEF CheckPresence
  <1>8. ASSUME NEW m \in Msg, NEW u \in User, Push(m, u) PROVE TypeOK'
    <2> PICK res \in RedisResultsOf(m) :
          /\ ChargeOf(m, res)
          /\ pushed' = [pushed EXCEPT ![m][u] = @ + Copies(res)]
          /\ received' = IF Applied(res) /\ link[u] = "live"
                         THEN [received EXCEPT ![m] = @ \cup {u}] ELSE received
      BY <1>8 DEF Push
    <2>a. faults' \in 0..MaxFaults /\ Copies(res) \in 0..2
      BY <1>a, OutcomeOf
    <2>1. faults' \in 0..MaxFaults /\ Copies(res) \in Nat
      BY <2>a
    <2>2. route' \in [Msg -> [User -> {"todo", "online", "offline", "marking", "done"}]]
      BY <1>8, <1>a DEF Push, RouteTo
    <2>3. pushed' \in [Msg -> [User -> Nat]]
      BY <1>a, <2>1
    <2>4. received' \in [Msg -> SUBSET User]
      BY <1>a
    <2> QED
      BY <1>8, <1>a, <2>1, <2>2, <2>3, <2>4 DEF Push
  <1>9. ASSUME NEW m \in Msg, NEW u \in User, MarkRouted(m, u) PROVE TypeOK'
    <2> PICK res \in ResultsOf(m) : Upsert(m, u, "delivered", res) /\ ChargeOf(m, res)
      BY <1>9 DEF MarkRouted
    <2>1. faults' \in 0..MaxFaults
      BY <1>a, OutcomeOf
    <2>2. route' \in [Msg -> [User -> {"todo", "online", "offline", "marking", "done"}]]
      BY <1>9, <1>a DEF MarkRouted, RouteTo
    <2>3. status' \in [Msg -> [User -> {"none", "sent", "delivered", "read"}]]
      BY <1>a, UpsertRow
    <2> QED
      BY <1>9, <1>a, <2>1, <2>2, <2>3 DEF MarkRouted
  <1>10. ASSUME NEW m \in Msg, NEW u \in User, Queue(m, u) PROVE TypeOK'
    <2> PICK res \in RedisResultsOf(m) :
          ChargeOf(m, res) /\ queued' = [queued EXCEPT ![m][u] = @ + Copies(res)]
      BY <1>10 DEF Queue
    <2>a. faults' \in 0..MaxFaults /\ Copies(res) \in 0..2
      BY <1>a, OutcomeOf
    <2>1. faults' \in 0..MaxFaults /\ Copies(res) \in Nat
      BY <2>a
    <2>2. route' \in [Msg -> [User -> {"todo", "online", "offline", "marking", "done"}]]
      BY <1>10, <1>a DEF Queue, RouteTo
    <2>3. queued' \in [Msg -> [User -> Nat]]
      BY <1>a, <2>1
    <2> QED
      BY <1>10, <1>a, <2>1, <2>2, <2>3 DEF Queue
  <1>11. ASSUME NEW k \in Mark, CallMark(k) PROVE TypeOK'
    <2>1. mark' \in [Mark -> {"none", "called", "upserted", "ok", "failed"}]
      BY <1>11, <1>a DEF CallMark
    <2> QED
      BY <1>11, <1>a, <2>1 DEF CallMark
  <1>12. ASSUME NEW k \in Mark, MarkUpsert(k) PROVE TypeOK'
    <2>1. CASE status' = status /\ faults' = faults /\ mark' = [mark EXCEPT ![k] = "failed"]
      BY <1>12, <1>a, <2>1 DEF MarkUpsert
    <2>2. ASSUME NEW res \in Results,
                 Upsert(k.msg, k.user, k.status, res), Charge(res),
                 mark' = [mark EXCEPT ![k] = IF res = "ok" THEN "upserted" ELSE "failed"]
          PROVE  TypeOK'
      <3>1. faults' \in 0..MaxFaults
        BY <1>a, <2>2, Outcome
      <3>2. status' \in [Msg -> [User -> {"none", "sent", "delivered", "read"}]]
        <4>1. k.msg \in Msg /\ k.user \in User /\ k.status \in {"sent", "delivered", "read"}
          BY MarkFields
        <4>2. status \in [Msg -> [User -> {"none", "sent", "delivered", "read"}]]
          BY <1>a
        <4> QED
          BY <4>1, <4>2, <2>2, UpsertRow
      <3>3. mark' \in [Mark -> {"none", "called", "upserted", "ok", "failed"}]
        BY <1>a, <2>2
      <3> QED
        BY <1>12, <1>a, <3>1, <3>2, <3>3 DEF MarkUpsert
    <2> QED
      BY <1>12, <2>1, <2>2, MarkWrites
  <1>13. ASSUME NEW k \in Mark, MarkPublish(k) PROVE TypeOK'
    <2> PICK res \in RedisResults :
          /\ events' = [events EXCEPT ![k.status] = @ \o [i \in 1..Copies(res) |-> k]]
          /\ Lose(IF Applied(res) THEN {} ELSE {k})
          /\ Charge(res)
      BY <1>13 DEF MarkPublish
    <2>1. faults' \in 0..MaxFaults /\ Copies(res) \in Nat
      <3>1. faults \in 0..MaxFaults
        BY <1>a
      <3>2. faults' \in 0..MaxFaults /\ Copies(res) \in 0..2
        BY <3>1, Outcome
      <3> QED
        BY <3>2
    <2>2. k.status \in Stream
      BY MarkFields
    <2>3. [i \in 1..Copies(res) |-> k] \in Seq(Mark)
      BY <2>1
    <2>4. events[k.status] \o [i \in 1..Copies(res) |-> k] \in Seq(Mark)
      BY <1>a, <2>2, <2>3, ConcatProperties
    <2>5. events' \in [Stream -> Seq(Mark)]
      BY <1>a, <2>4
    <2>6. mark' \in [Mark -> {"none", "called", "upserted", "ok", "failed"}]
      BY <1>13, <1>a DEF MarkPublish
    <2>7. lost' \subseteq Mark
      BY <1>a DEF Lose
    <2> QED
      BY <1>13, <1>a, <2>1, <2>5, <2>6, <2>7 DEF MarkPublish
  <1>14. ASSUME NEW s \in Stream, HandleStatusEvent(s) PROVE TypeOK'
    <2>1. Head(taken[s]) \in Mark /\ Tail(taken[s]) \in Seq(Mark)
      BY <1>14, <1>a, HeadTailProperties DEF HandleStatusEvent
    <2> PICK found \in GetMessageByID(Head(taken[s]).msg) :
        \E res \in IF found = "ok" THEN Results ELSE {found} :
          /\ ticks' = IF Applied(res) THEN ticks \cup {Head(taken[s])} ELSE ticks
          /\ Lose(IF Applied(res) THEN {} ELSE {Head(taken[s])})
          /\ IF proc = "up" THEN Charge(res) ELSE UNCHANGED faults
      BY <1>14 DEF HandleStatusEvent
    <2> PICK res \in IF found = "ok" THEN Results ELSE {found} :
          /\ ticks' = IF Applied(res) THEN ticks \cup {Head(taken[s])} ELSE ticks
          /\ Lose(IF Applied(res) THEN {} ELSE {Head(taken[s])})
          /\ IF proc = "up" THEN Charge(res) ELSE UNCHANGED faults
      OBVIOUS
    <2>2. faults' \in 0..MaxFaults
      <3>1. 1 \in DOMAIN taken[s] /\ taken[s][1] = Head(taken[s])
        BY <1>14, <1>a DEF HandleStatusEvent
      <3>2. stored[Head(taken[s]).msg] # "absent"
        BY <2>1, <3>1 DEF IInv, EventInv, MarkOK
      <3>3. CASE proc = "up"
        <4>1. res \in Results
          BY <3>2, <3>3 DEF GetMessageByID, Results
        <4> QED
          BY <1>a, <3>3, <4>1, Outcome
      <3> QED
        BY <1>a, <3>3
    <2>3. ticks' \subseteq Mark /\ lost' \subseteq Mark
      BY <1>a, <2>1 DEF Lose
    <2>4. taken' \in [Stream -> Seq(Mark)]
      BY <1>14, <1>a, <2>1 DEF HandleStatusEvent
    <2> QED
      BY <1>14, <1>a, <2>2, <2>3, <2>4 DEF HandleStatusEvent
  <1>18. ASSUME NEW s \in Stream, ReadEvents(s) PROVE TypeOK'
    <2> PICK n \in 1..Len(events[s]), res \in Results \ {"lost"} :
          LET got == SubSeq(events[s], 1, n)
          IN  /\ events' = [events EXCEPT ![s] = SubSeq(@, n + 1, Len(@))]
              /\ taken' = IF res = "ok" THEN [taken EXCEPT ![s] = got] ELSE taken
              /\ Lose(IF res = "ok" THEN {} ELSE {got[i] : i \in 1..n})
              /\ Charge(res)
      BY <1>18 DEF ReadEvents
    <2>1. events[s] \in Seq(Mark)
      BY <1>a
    <2>2. /\ SubSeq(events[s], 1, n) \in Seq(Mark)
          /\ SubSeq(events[s], n + 1, Len(events[s])) \in Seq(Mark)
          /\ DOMAIN SubSeq(events[s], 1, n) = 1..n
      BY <2>1, Cut
    <2>3. events' \in [Stream -> Seq(Mark)] /\ taken' \in [Stream -> Seq(Mark)]
      BY <1>a, <2>2
    <2>4. lost' \subseteq Mark
      <3>1. \A i \in 1..n : SubSeq(events[s], 1, n)[i] \in Mark
        BY <2>2
      <3> QED
        BY <1>a, <3>1 DEF Lose
    <2>5. faults' \in 0..MaxFaults
      BY <1>a, Outcome
    <2> QED
      BY <1>18, <1>a, <2>3, <2>4, <2>5 DEF ReadEvents
  <1>19. CASE (\E s \in Stream : EndConsumer(s)) \/ Signal \/ StartAgain
    BY <1>19, <1>a DEF EndConsumer, Signal, StartAgain
  <1>20. Gone => taken' \in [Stream -> Seq(Mark)] /\ lost' \subseteq Mark
                 /\ proc' \in {"up", "stopping", "down"} /\ reading' \subseteq Stream
    <2> SUFFICES ASSUME Gone PROVE taken' \in [Stream -> Seq(Mark)] /\ lost' \subseteq Mark
                                   /\ proc' \in {"up", "stopping", "down"} /\ reading' \subseteq Stream
      OBVIOUS
    <2>1. taken' \in [Stream -> Seq(Mark)]
      BY DEF Gone
    <2>2. ASSUME NEW s \in Stream, NEW i \in DOMAIN taken[s] PROVE taken[s][i] \in Mark
      BY <1>a
    <2>3. lost' \subseteq Mark
      BY <1>a, <2>2 DEF Gone, Lose
    <2> QED
      BY <2>1, <2>3 DEF Gone
  <1>21. CASE Exit
    BY <1>21, <1>20, <1>a DEF Exit
  <1>15. ASSUME NEW u \in Roaming, Connect(u) \/ Subscribe(u) \/ Disconnect(u) \/ PresenceExpires(u)
         PROVE TypeOK'
    <2>1. presence' \subseteq User /\ link' \in [User -> {"away", "starting", "live"}]
      BY <1>15, <1>a DEF Connect, Subscribe, Disconnect, PresenceExpires
    <2> QED
      BY <1>15, <1>a, <2>1 DEF Connect, Subscribe, Disconnect, PresenceExpires
  <1>16. CASE Crash
    <2>1. call' \in [Msg -> {"idle", "ok", "failed"} \cup Open]
      BY <1>16, <1>a DEF Crash
    <2>2. mark' \in [Mark -> {"none", "called", "upserted", "ok", "failed"}]
      BY <1>16, <1>a DEF Crash
    <2>3. faults' \in 0..MaxFaults
      BY <1>16, <1>a DEF Crash
    <2> QED
      BY <1>16, <1>20, <1>a, <2>1, <2>2, <2>3 DEF Crash
  <1>17. CASE UNCHANGED vars
    BY <1>17, <1>a DEF vars
  <1> QED
    BY <1>1, <1>2, <1>3, <1>4, <1>5, <1>6, <1>7, <1>8, <1>9, <1>10, <1>11, <1>12, <1>13, <1>14,
       <1>15, <1>16, <1>17, <1>18, <1>19, <1>21 DEF Next, SendStep, MarkStep, ConsumerStep

-----------------------------------------------------------------------------
\* A step charges the faults it meets, and no fault is forgotten.
LEMMA FaultsGrow ==
    ASSUME IInv, [Next]_vars
    PROVE  /\ faults' \in Nat /\ faults \in Nat /\ faults <= faults'
           /\ \A m \in Msg : m \in ctxGone' => faults' > 0
  <1> USE DEF sendVars, storeVars, markVars, userVars, procVars
  <1>1. faults \in 0..MaxFaults /\ \A m \in Msg : m \in ctxGone => faults > 0
    BY DEF IInv, TypeOK
  <1>2. faults' \in Nat /\ faults \in Nat
    BY TypePreserved, DeliveryAssumption DEF IInv, TypeOK
  <1>3. faults <= faults' /\ \A m \in Msg : m \in ctxGone' => m \in ctxGone \/ faults' > 0
    <2> DEFINE Goal == faults <= faults' /\ \A m \in Msg : m \in ctxGone' => m \in ctxGone \/ faults' > 0
    <2>1. CASE \E m \in Msg, group \in BOOLEAN, S \in SUBSET User : Start(m, group, S)
      BY <2>1, <1>1, <1>2 DEF Start, Charge
    <2>2. ASSUME NEW m \in Msg,
                 \/ Ensure(m) \/ Insert(m) \/ MarkSent(m) \/ Announce(m)
                 \/ \E u \in User : CheckPresence(m, u) \/ Push(m, u) \/ MarkRouted(m, u) \/ Queue(m, u)
          PROVE Goal
      <3>1. (\E res : ChargeOf(m, res)) /\ ctxGone' = ctxGone
        BY <2>2 DEF Ensure, Insert, MarkSent, Announce, CheckPresence, Push, MarkRouted, Queue
      <3> QED
        BY <3>1, <1>1, <1>2 DEF ChargeOf, Charge
    <2>3. CASE \E m \in Msg : Finish(m) \/ CtxCancelled(m)
      BY <2>3, <1>1, <1>2 DEF Finish, CtxCancelled
    <2>4. CASE \E k \in Mark : CallMark(k) \/ MarkUpsert(k) \/ MarkPublish(k)
      <3>1. (faults' = faults \/ \E res : Charge(res)) /\ ctxGone' = ctxGone
        BY <2>4 DEF CallMark, MarkUpsert, MarkPublish
      <3> QED
        BY <3>1, <1>1, <1>2 DEF Charge
    <2>5. CASE (\E s \in Stream : ConsumerStep(s)) \/ Signal \/ Exit \/ StartAgain
      <3>1. ctxGone' = ctxGone
        BY <2>5, ConsumersApart
      <3>2. faults' = faults \/ \E res : Charge(res)
        BY <2>5 DEF ConsumerStep, ReadEvents, HandleStatusEvent, EndConsumer, Signal, Exit, StartAgain
      <3> QED
        BY <3>1, <3>2, <1>1, <1>2 DEF Charge
    <2>6. CASE \E u \in Roaming : Connect(u) \/ Subscribe(u) \/ Disconnect(u) \/ PresenceExpires(u)
      BY <2>6, <1>1, <1>2 DEF Connect, Subscribe, Disconnect, PresenceExpires
    <2>7. CASE Crash \/ UNCHANGED vars
      BY <2>7, <1>1, <1>2 DEF Crash, vars
    <2> QED
      BY <2>1, <2>2, <2>3, <2>4, <2>5, <2>6, <2>7 DEF Next, SendStep, MarkStep
  <1> QED
    BY <1>1, <1>2, <1>3

-----------------------------------------------------------------------------
\* A call keeps its invariant while nothing of it changes.
LEMMA SameSend ==
    ASSUME NEW n \in Msg, SendOK(n), call'[n] = call[n], stored'[n] = stored[n],
           rcpt'[n] = rcpt[n], route'[n] = route[n], n \in announced' => n \in announced
    PROVE  SendOK(n)'
  BY DEF SendOK, AllServed

\* The calls go through their steps in order.
LEMMA SendPreserved == IInv /\ [Next]_vars => (\A n \in Msg : SendOK(n))'
  <1> SUFFICES ASSUME IInv, [Next]_vars, NEW n \in Msg PROVE SendOK(n)'
    OBVIOUS
  <1> USE DeliveryAssumption DEF sendVars, storeVars, markVars, userVars, procVars
  <1>a. /\ SendOK(n)
        /\ call \in [Msg -> {"idle", "ok", "failed"} \cup Open] /\ rcpt \in [Msg -> SUBSET User]
        /\ stored \in [Msg -> {"absent", "present", "ghost"}]
        /\ route \in [Msg -> [User -> {"todo", "online", "offline", "marking", "done"}]]
    BY DEF IInv, TypeOK
  <1>1. CASE UNCHANGED <<call, rcpt, stored, route, announced>>
    BY <1>1, <1>a DEF SendOK, AllServed
  <1>2. ASSUME NEW m \in Msg, NEW group \in BOOLEAN, NEW S \in SUBSET User, Start(m, group, S)
        PROVE SendOK(n)'
    <2>1. /\ call[m] = "idle" /\ rcpt' = [rcpt EXCEPT ![m] = Recipients(m, S)]
          /\ \/ call' = [call EXCEPT ![m] = "ensure"] /\ rcpt'[m] # {}
             \/ call' = [call EXCEPT ![m] = "failed"]
          /\ UNCHANGED <<route, stored, announced>>
      BY <1>2 DEF Start
    <2>2. CASE n = m
      BY <2>1, <2>2, <1>a DEF SendOK, AllServed, Recipients, Open
    <2>3. CASE n # m
      BY <2>1, <2>3, <1>a, SameSend
    <2> QED
      BY <2>2, <2>3
  <1>3. ASSUME NEW m \in Msg, Ensure(m) PROVE SendOK(n)'
    <2>1. /\ call[m] = "ensure"
          /\ call' = [call EXCEPT ![m] = "insert"] \/ call' = [call EXCEPT ![m] = "failed"]
          /\ UNCHANGED <<rcpt, route, stored, announced>>
      BY <1>3 DEF Ensure, GoOn
    <2>2. CASE n = m
      BY <2>1, <2>2, <1>a DEF SendOK, AllServed, Open
    <2>3. CASE n # m
      BY <2>1, <2>3, <1>a, SameSend
    <2> QED
      BY <2>2, <2>3
  <1>4. ASSUME NEW m \in Msg, Insert(m) PROVE SendOK(n)'
    <2>1. /\ call[m] = "insert"
          /\ \/ call' = [call EXCEPT ![m] = "sent"] /\ stored' = [stored EXCEPT ![m] = "present"]
             \/ call' = [call EXCEPT ![m] = "failed"] /\ stored' \in {[stored EXCEPT ![m] = "absent"],
                                                                     [stored EXCEPT ![m] = "ghost"]}
          /\ UNCHANGED <<rcpt, route, announced>>
      BY <1>4 DEF Insert, GoOn
    <2>2. CASE n = m
      BY <2>1, <2>2, <1>a DEF SendOK, AllServed, Open
    <2>3. CASE n # m
      BY <2>1, <2>3, <1>a, SameSend
    <2> QED
      BY <2>2, <2>3
  <1>5. ASSUME NEW m \in Msg, MarkSent(m) PROVE SendOK(n)'
    <2>1. /\ call[m] = "sent" /\ call' = [call EXCEPT ![m] = "announce"]
          /\ UNCHANGED <<rcpt, route, stored, announced>>
      BY <1>5 DEF MarkSent
    <2>2. CASE n = m
      BY <2>1, <2>2, <1>a DEF SendOK, AllServed, Open
    <2>3. CASE n # m
      BY <2>1, <2>3, <1>a, SameSend
    <2> QED
      BY <2>2, <2>3
  <1>6. ASSUME NEW m \in Msg, Announce(m) PROVE SendOK(n)'
    <2>1. /\ call[m] = "announce" /\ call' = [call EXCEPT ![m] = "route"]
          /\ announced' \in {announced, announced \cup {m}}
          /\ UNCHANGED <<rcpt, route, stored>>
      BY <1>6 DEF Announce
    <2>2. CASE n = m
      BY <2>1, <2>2, <1>a DEF SendOK, AllServed, Open
    <2>3. CASE n # m
      BY <2>1, <2>3, <1>a, SameSend
    <2> QED
      BY <2>2, <2>3
  <1>7. ASSUME NEW m \in Msg, NEW u \in User,
               CheckPresence(m, u) \/ Push(m, u) \/ MarkRouted(m, u) \/ Queue(m, u)
        PROVE SendOK(n)'
    <2>1. /\ call[m] = "route" /\ UNCHANGED <<call, rcpt, stored, announced>>
          /\ \E step : RouteTo(m, u, step)
      BY <1>7 DEF CheckPresence, Push, MarkRouted, Queue
    <2>2. CASE n = m
      BY <2>1, <2>2, <1>a DEF SendOK
    <2>3. CASE n # m
      <3>1. route'[n] = route[n]
        BY <2>1, <2>3, <1>a DEF RouteTo
      <3> QED
        BY <2>1, <3>1, <1>a, SameSend
    <2> QED
      BY <2>2, <2>3
  <1>8. ASSUME NEW m \in Msg, Finish(m) PROVE SendOK(n)'
    <2>1. /\ call[m] = "route" /\ AllServed(m)
          /\ call' = [call EXCEPT ![m] = "ok"] \/ call' = [call EXCEPT ![m] = "failed"]
          /\ UNCHANGED <<rcpt, route, stored, announced>>
      BY <1>8 DEF Finish
    <2>2. CASE n = m
      BY <2>1, <2>2, <1>a DEF SendOK, AllServed, Open
    <2>3. CASE n # m
      BY <2>1, <2>3, <1>a, SameSend
    <2> QED
      BY <2>2, <2>3
  <1>9. CASE Crash
    <2>1. /\ call'[n] = IF call[n] \in Open THEN "failed" ELSE call[n]
          /\ UNCHANGED <<rcpt, route, stored, announced>>
      BY <1>9, <1>a DEF Crash
    <2>2. CASE call[n] \in Open
      BY <2>1, <2>2, <1>a DEF SendOK, AllServed, Open
    <2>3. CASE call[n] \notin Open
      BY <2>1, <2>3, <1>a, SameSend
    <2> QED
      BY <2>2, <2>3
  <1>10. CASE (\E m \in Msg : CtxCancelled(m)) \/ \E k \in Mark : CallMark(k) \/ MarkUpsert(k) \/ MarkPublish(k)
    BY <1>10, <1>1 DEF CtxCancelled, CallMark, MarkUpsert, MarkPublish
  <1>11. CASE (\E s \in Stream : ConsumerStep(s)) \/ Signal \/ Exit \/ StartAgain
    BY <1>11, <1>1, ConsumersApart
  <1>12. CASE \E u \in Roaming : Connect(u) \/ Subscribe(u) \/ Disconnect(u) \/ PresenceExpires(u)
    BY <1>12, <1>1 DEF Connect, Subscribe, Disconnect, PresenceExpires
  <1>13. CASE UNCHANGED vars
    BY <1>13, <1>1 DEF vars
  <1> QED
    BY <1>2, <1>3, <1>4, <1>5, <1>6, <1>7, <1>8, <1>9, <1>10, <1>11, <1>12, <1>13
       DEF Next, SendStep, MarkStep

-----------------------------------------------------------------------------
\* A recipient keeps its invariant while it is not served and its call does
\* not fall back.
LEMMA SameRoute ==
    ASSUME NEW n \in Msg, NEW v \in User, RouteOK(n, v),
           faults \in Nat, faults' \in Nat, faults <= faults',
           pushed[n][v] \in Nat, queued[n][v] \in Nat,
           route'[n][v] = route[n][v], pushed'[n][v] = pushed[n][v], queued'[n][v] = queued[n][v],
           \/ route[n][v] = "todo"
           \/ /\ v \in rcpt[n] => v \in rcpt'[n]
              /\ call[n] \in {"route", "ok", "failed"} => call'[n] \in {"route", "ok", "failed"}
              /\ stored[n] = "present" => stored'[n] = "present"
    PROVE  RouteOK(n, v)'
  BY DEF RouteOK

\* Each recipient of a call is served in order and once.
LEMMA RoutePreserved == IInv /\ [Next]_vars => (\A n \in Msg, v \in User : RouteOK(n, v))'
  <1> SUFFICES ASSUME IInv, [Next]_vars, NEW n \in Msg, NEW v \in User PROVE RouteOK(n, v)'
    OBVIOUS
  <1> USE DeliveryAssumption DEF sendVars, storeVars, markVars, userVars, procVars
  <1>a. /\ RouteOK(n, v) /\ SendOK(n)
        /\ call \in [Msg -> {"idle", "ok", "failed"} \cup Open] /\ rcpt \in [Msg -> SUBSET User]
        /\ stored \in [Msg -> {"absent", "present", "ghost"}]
        /\ route \in [Msg -> [User -> {"todo", "online", "offline", "marking", "done"}]]
        /\ pushed \in [Msg -> [User -> Nat]] /\ queued \in [Msg -> [User -> Nat]]
    BY DEF IInv, TypeOK
  <1>b. faults \in Nat /\ faults' \in Nat /\ faults <= faults'
    BY FaultsGrow
  <1>c. faults \in 0..MaxFaults /\ \A m \in Msg : m \in ctxGone => faults > 0
    BY DEF IInv, TypeOK
  <1>d. pushed[n][v] \in Nat /\ queued[n][v] \in Nat
    BY <1>a
  <1>1. CASE UNCHANGED <<call, rcpt, stored, route, pushed, queued>>
    BY <1>1, <1>a, <1>b, <1>d, SameRoute
  <1>2. ASSUME NEW m \in Msg,
               \/ \E group \in BOOLEAN, S \in SUBSET User : Start(m, group, S)
               \/ Ensure(m) \/ Insert(m) \/ MarkSent(m) \/ Announce(m)
        PROVE RouteOK(n, v)'
    <2>1. /\ call[m] \in {"idle", "ensure", "insert", "sent", "announce"}
          /\ UNCHANGED <<route, pushed, queued>>
      BY <1>2 DEF Start, Ensure, Insert, MarkSent, Announce
    <2>2. CASE n = m
      <3>1. route[n][v] = "todo"
        BY <2>1, <2>2, <1>a DEF RouteOK
      <3> QED
        BY <2>1, <3>1, <1>a, <1>b, <1>d, SameRoute
    <2>3. CASE n # m
      <3>1. call'[n] = call[n] /\ stored'[n] = stored[n] /\ rcpt'[n] = rcpt[n]
        BY <1>2, <2>3, <1>a DEF Start, Ensure, Insert, MarkSent, Announce, GoOn
      <3> QED
        BY <2>1, <3>1, <1>a, <1>b, <1>d, SameRoute
    <2> QED
      BY <2>2, <2>3
  <1>3. ASSUME NEW m \in Msg, NEW u \in User,
               CheckPresence(m, u) \/ Push(m, u) \/ MarkRouted(m, u) \/ Queue(m, u)
        PROVE RouteOK(n, v)'
    <2>1. /\ call[m] = "route" /\ UNCHANGED <<call, rcpt, stored>>
          /\ stored[m] = "present" \/ n # m
      BY <1>3, <1>a DEF CheckPresence, Push, MarkRouted, Queue, SendOK
    <2>2. CASE n # m \/ v # u
      <3>1. /\ route'[n][v] = route[n][v] /\ pushed'[n][v] = pushed[n][v]
            /\ queued'[n][v] = queued[n][v]
        BY <1>3, <2>2, <1>a DEF CheckPresence, Push, MarkRouted, Queue, RouteTo
      <3> QED
        BY <2>1, <3>1, <1>a, <1>b, <1>d, SameRoute
    <2>3. CASE n = m /\ v = u
      <3>1. CASE CheckPresence(m, u)
        <4>1. /\ v \in rcpt[n] /\ route[n][v] = "todo" /\ route'[n][v] \in {"online", "offline"}
              /\ UNCHANGED <<pushed, queued>>
          BY <3>1, <2>3, <1>a DEF CheckPresence, RouteTo
        <4> QED
          BY <4>1, <2>1, <2>3, <1>a, <1>b DEF RouteOK
      <3>2. CASE Push(m, u)
        <4> PICK res \in RedisResultsOf(m) :
              ChargeOf(m, res) /\ pushed' = [pushed EXCEPT ![m][u] = @ + Copies(res)]
          BY <3>2 DEF Push
        <4>1. Copies(res) \in 0..2 /\ Copies(res) <= 1 + faults' /\ (Copies(res) = 1 \/ faults' > 0)
          BY <1>c, OutcomeOf
        <4>2. /\ route[n][v] = "online" /\ route'[n][v] = "marking" /\ queued' = queued
              /\ pushed'[n][v] = pushed[n][v] + Copies(res)
          BY <3>2, <2>3, <1>a DEF Push, RouteTo
        <4> QED
          BY <4>1, <4>2, <2>1, <2>3, <1>a, <1>b, <1>d DEF RouteOK
      <3>3. CASE MarkRouted(m, u)
        <4>1. /\ route[n][v] = "marking" /\ route'[n][v] = "done" /\ UNCHANGED <<pushed, queued>>
          BY <3>3, <2>3, <1>a DEF MarkRouted, RouteTo
        <4> QED
          BY <4>1, <2>1, <2>3, <1>a, <1>b, <1>d DEF RouteOK
      <3>4. CASE Queue(m, u)
        <4> PICK res \in RedisResultsOf(m) :
              ChargeOf(m, res) /\ queued' = [queued EXCEPT ![m][u] = @ + Copies(res)]
          BY <3>4 DEF Queue
        <4>1. Copies(res) \in 0..2 /\ Copies(res) <= 1 + faults' /\ (Copies(res) = 1 \/ faults' > 0)
          BY <1>c, OutcomeOf
        <4>2. /\ route[n][v] = "offline" /\ route'[n][v] = "done" /\ pushed' = pushed
              /\ queued'[n][v] = queued[n][v] + Copies(res)
          BY <3>4, <2>3, <1>a DEF Queue, RouteTo
        <4> QED
          BY <4>1, <4>2, <2>1, <2>3, <1>a, <1>b, <1>d DEF RouteOK
      <3> QED
        BY <1>3, <3>1, <3>2, <3>3, <3>4
    <2> QED
      BY <2>2, <2>3
  <1>4. ASSUME NEW m \in Msg, Finish(m) PROVE RouteOK(n, v)'
    <2>1. /\ call'[n] \in {"ok", "failed"} \/ call'[n] = call[n]
          /\ UNCHANGED <<rcpt, stored, route, pushed, queued>>
      BY <1>4, <1>a DEF Finish
    <2> QED
      BY <2>1, <1>a, <1>b, <1>d, SameRoute
  <1>5. CASE Crash
    <2>1. /\ call'[n] = "failed" \/ call'[n] = call[n]
          /\ UNCHANGED <<rcpt, stored, route, pushed, queued>>
      BY <1>5, <1>a DEF Crash
    <2> QED
      BY <2>1, <1>a, <1>b, <1>d, SameRoute
  <1>6. CASE (\E m \in Msg : CtxCancelled(m)) \/ \E k \in Mark : CallMark(k) \/ MarkUpsert(k) \/ MarkPublish(k)
    BY <1>6, <1>1 DEF CtxCancelled, CallMark, MarkUpsert, MarkPublish
  <1>7. CASE (\E s \in Stream : ConsumerStep(s)) \/ Signal \/ Exit \/ StartAgain
    BY <1>7, <1>1, ConsumersApart
  <1>8. CASE \E u \in Roaming : Connect(u) \/ Subscribe(u) \/ Disconnect(u) \/ PresenceExpires(u)
    BY <1>8, <1>1 DEF Connect, Subscribe, Disconnect, PresenceExpires
  <1>9. CASE UNCHANGED vars
    BY <1>9, <1>1 DEF vars
  <1> QED
    BY <1>2, <1>3, <1>4, <1>5, <1>6, <1>7, <1>8, <1>9 DEF Next, SendStep, MarkStep

-----------------------------------------------------------------------------
\* A stored message stays, and a mark that has begun has begun.
LEMMA MarksStay ==
    ASSUME IInv, [Next]_vars, NEW k \in Mark
    PROVE  /\ stored[k.msg] # "absent" => stored'[k.msg] # "absent"
           /\ mark[k] # "none" => mark'[k] # "none"
           /\ mark[k] = "ok" => mark'[k] = "ok"
           /\ mark[k] \notin {"none", "called"} => mark'[k] \notin {"none", "called"}
  <1> USE DEF sendVars, storeVars, markVars, userVars, procVars
  <1>1. k.msg \in Msg
    BY MarkFields
  <1>2. SendOK(k.msg)
    BY <1>1 DEF IInv
  <1>3. stored[k.msg] # "absent" => call[k.msg] \notin {"idle", "ensure", "insert"}
    BY <1>1, <1>2 DEF SendOK
  <1>4. /\ stored \in [Msg -> {"absent", "present", "ghost"}]
        /\ mark \in [Mark -> {"none", "called", "upserted", "ok", "failed"}]
    BY DEF IInv, TypeOK
  <1>5. stored[k.msg] # "absent" => stored'[k.msg] = stored[k.msg]
    <2>1. CASE UNCHANGED stored
      BY <2>1
    <2>2. CASE \E m \in Msg, group \in BOOLEAN, S \in SUBSET User : Start(m, group, S)
      BY <2>2, <2>1 DEF Start
    <2>3. CASE \E m \in Msg : Insert(m)
      BY <2>3, <1>3, <1>4 DEF Insert
    <2>4. CASE \E m \in Msg : Ensure(m) \/ MarkSent(m) \/ Announce(m) \/ Finish(m) \/ CtxCancelled(m)
      BY <2>4, <2>1 DEF Ensure, MarkSent, Announce, Finish, CtxCancelled
    <2>5. CASE \E m \in Msg, u \in User :
                 CheckPresence(m, u) \/ Push(m, u) \/ MarkRouted(m, u) \/ Queue(m, u)
      BY <2>5, <2>1 DEF CheckPresence, Push, MarkRouted, Queue
    <2>6. CASE \E l \in Mark : CallMark(l) \/ MarkUpsert(l) \/ MarkPublish(l)
      BY <2>6, <2>1 DEF CallMark, MarkUpsert, MarkPublish
    <2>7. CASE (\E s \in Stream : ConsumerStep(s)) \/ Signal \/ Exit \/ StartAgain
      BY <2>7, <2>1, ConsumersApart
    <2>8. CASE \E u \in Roaming : Connect(u) \/ Subscribe(u) \/ Disconnect(u) \/ PresenceExpires(u)
      BY <2>8, <2>1 DEF Connect, Subscribe, Disconnect, PresenceExpires
    <2>9. CASE Crash \/ UNCHANGED vars
      BY <2>9, <2>1 DEF Crash, vars
    <2> QED
      BY <2>2, <2>3, <2>4, <2>5, <2>6, <2>7, <2>8, <2>9 DEF Next, SendStep, MarkStep
  <1>6. /\ mark[k] # "none" => mark'[k] # "none"
        /\ mark[k] = "ok" => mark'[k] = "ok"
        /\ mark[k] \notin {"none", "called"} => mark'[k] \notin {"none", "called"}
    <2>1. CASE UNCHANGED mark
      BY <2>1
    <2>2. CASE \E l \in Mark : CallMark(l) \/ MarkUpsert(l) \/ MarkPublish(l)
      BY <2>2, <1>4 DEF CallMark, MarkUpsert, MarkPublish
    <2>3. CASE Crash
      BY <2>3, <1>4 DEF Crash
    <2>4. CASE \E m \in Msg :
                 \/ \E group \in BOOLEAN, S \in SUBSET User : Start(m, group, S)
                 \/ Ensure(m) \/ Insert(m) \/ MarkSent(m) \/ Announce(m) \/ Finish(m) \/ CtxCancelled(m)
      BY <2>4, <2>1 DEF Start, Ensure, Insert, MarkSent, Announce, Finish, CtxCancelled
    <2>5. CASE \E m \in Msg, u \in User :
                 CheckPresence(m, u) \/ Push(m, u) \/ MarkRouted(m, u) \/ Queue(m, u)
      BY <2>5, <2>1 DEF CheckPresence, Push, MarkRouted, Queue
    <2>6. CASE (\E s \in Stream : ConsumerStep(s)) \/ Signal \/ Exit \/ StartAgain
      BY <2>6, <2>1, ConsumersApart
    <2>7. CASE \E u \in Roaming : Connect(u) \/ Subscribe(u) \/ Disconnect(u) \/ PresenceExpires(u)
      BY <2>7, <2>1 DEF Connect, Subscribe, Disconnect, PresenceExpires
    <2>8. CASE UNCHANGED vars
      BY <2>8, <2>1 DEF vars
    <2> QED
      BY <2>2, <2>3, <2>4, <2>5, <2>6, <2>7, <2>8 DEF Next, SendStep, MarkStep
  <1> QED
    BY <1>5, <1>6

\* Who may write a row: the call for its sender, the call for a recipient it
\* has just pushed to, and a mark.
LEMMA StatusMoves ==
    ASSUME IInv, [Next]_vars, NEW m \in Msg, NEW u \in User, status'[m][u] # status[m][u]
    PROVE  \/ status'[m][u] = "sent" /\ u = Sender[m]
           \/ status'[m][u] = "delivered" /\ route[m][u] = "marking" /\ route'[m][u] = "done"
              /\ queued'[m][u] = 0
           \/ \E k \in Mark : /\ k.msg = m /\ k.user = u /\ status'[m][u] = k.status
                              /\ mark[k] = "called" /\ mark'[k] \notin {"none", "called"}
  <1> USE DEF sendVars, storeVars, markVars, userVars, procVars
  <1> DEFINE Goal == \/ status'[m][u] = "sent" /\ u = Sender[m]
                     \/ status'[m][u] = "delivered" /\ route[m][u] = "marking" /\ route'[m][u] = "done"
                        /\ queued'[m][u] = 0
                     \/ \E k \in Mark : /\ k.msg = m /\ k.user = u /\ status'[m][u] = k.status
                                        /\ mark[k] = "called" /\ mark'[k] \notin {"none", "called"}
  <1>a. /\ status \in [Msg -> [User -> {"none", "sent", "delivered", "read"}]]
        /\ route \in [Msg -> [User -> {"todo", "online", "offline", "marking", "done"}]]
        /\ mark \in [Mark -> {"none", "called", "upserted", "ok", "failed"}]
    BY DEF IInv, TypeOK
  <1>1. ASSUME NEW n \in Msg, MarkSent(n) PROVE Goal
    <2>1. Sender[n] \in User /\ \E res : Upsert(n, Sender[n], "sent", res)
      BY <1>1, DeliveryAssumption DEF MarkSent
    <2>2. m = n /\ u = Sender[n] /\ status'[m][u] = "sent"
      BY <2>1, <1>a, UpsertRow
    <2> QED
      BY <2>2
  <1>2. ASSUME NEW n \in Msg, NEW v \in User, MarkRouted(n, v) PROVE Goal
    <2>1. \E res : Upsert(n, v, "delivered", res)
      BY <1>2 DEF MarkRouted
    <2>2. m = n /\ u = v /\ status'[m][u] = "delivered"
      BY <2>1, <1>a, UpsertRow
    <2>3. route[m][u] = "marking" /\ route'[m][u] = "done" /\ queued' = queued
      BY <1>2, <2>2, <1>a DEF MarkRouted, RouteTo
    <2>4. queued[m][u] = 0
      BY <2>3 DEF IInv, RouteOK
    <2> QED
      BY <2>2, <2>3, <2>4
  <1>3. ASSUME NEW k \in Mark, MarkUpsert(k) PROVE Goal
    <2>1. k.msg \in Msg /\ k.user \in User /\ k.status \in {"sent", "delivered", "read"}
      BY MarkFields
    <2>2. \E res : Upsert(k.msg, k.user, k.status, res)
      BY <1>3, MarkWrites
    <2>3. k.msg = m /\ k.user = u /\ status'[m][u] = k.status
      BY <2>1, <2>2, <1>a, UpsertRow
    <2>4. mark[k] = "called" /\ mark'[k] \in {"upserted", "failed"}
      BY <1>3, <1>a DEF MarkUpsert
    <2> QED
      BY <2>3, <2>4
  <1>4. CASE \E n \in Msg, group \in BOOLEAN, S \in SUBSET User : Start(n, group, S)
    BY <1>4 DEF Start
  <1>5. CASE \E n \in Msg : Ensure(n) \/ Insert(n) \/ Announce(n) \/ Finish(n) \/ CtxCancelled(n)
    BY <1>5 DEF Ensure, Insert, Announce, Finish, CtxCancelled
  <1>6. CASE \E n \in Msg, v \in User : CheckPresence(n, v) \/ Push(n, v) \/ Queue(n, v)
    BY <1>6 DEF CheckPresence, Push, Queue
  <1>7. CASE \E k \in Mark : CallMark(k) \/ MarkPublish(k)
    BY <1>7 DEF CallMark, MarkPublish
  <1>8. CASE (\E s \in Stream : ConsumerStep(s)) \/ Signal \/ Exit \/ StartAgain
    BY <1>8, ConsumersApart
  <1>9. CASE \E v \in Roaming : Connect(v) \/ Subscribe(v) \/ Disconnect(v) \/ PresenceExpires(v)
    BY <1>9 DEF Connect, Subscribe, Disconnect, PresenceExpires
  <1>10. CASE Crash \/ UNCHANGED vars
    BY <1>10 DEF Crash, vars
  <1> QED
    BY <1>1, <1>2, <1>3, <1>4, <1>5, <1>6, <1>7, <1>8, <1>9, <1>10 DEF Next, SendStep, MarkStep

\* A mark writes to a stored message before it says so.
LEMMA MarkPreserved == IInv /\ [Next]_vars => (\A k \in Mark : MarkOK(k))'
  <1> SUFFICES ASSUME IInv, [Next]_vars, NEW k \in Mark PROVE MarkOK(k)'
    OBVIOUS
  <1> USE DEF sendVars, storeVars, markVars, userVars, procVars
  <1>a. /\ status \in [Msg -> [User -> {"none", "sent", "delivered", "read"}]]
        /\ mark \in [Mark -> {"none", "called", "upserted", "ok", "failed"}]
        /\ k.msg \in Msg /\ k.user \in User /\ k.status \in {"delivered", "read"}
        /\ MarkOK(k)
    BY MarkFields DEF IInv, TypeOK
  <1>1. CASE mark'[k] = mark[k]
    <2>1. stored[k.msg] # "absent" => stored'[k.msg] # "absent"
      BY MarksStay
    <2>2. \A l \in Mark : l.status \in {"delivered", "read"}
      BY MarkFields
    <2>3. \/ status'[k.msg][k.user] = status[k.msg][k.user]
          \/ status'[k.msg][k.user] = "sent" /\ k.user = Sender[k.msg]
          \/ status'[k.msg][k.user] \in {"delivered", "read"}
      BY <1>a, <2>2, StatusMoves
    <2> QED
      BY <1>1, <1>a, <2>1, <2>3 DEF MarkOK
  <1>2. CASE mark'[k] # mark[k]
    <2>1. CASE \E l \in Mark : CallMark(l)
      <3>1. mark'[k] = "called"
        BY <2>1, <1>2, <1>a DEF CallMark
      <3> QED
        BY <3>1 DEF MarkOK
    <2>2. CASE \E l \in Mark : MarkUpsert(l)
      <3>1. MarkUpsert(k) /\ UNCHANGED stored
        BY <2>2, <1>2, <1>a DEF MarkUpsert
      <3>2. CASE mark' = [mark EXCEPT ![k] = "failed"]
        BY <3>2, <1>a DEF MarkOK
      <3>3. ASSUME NEW res \in Results, stored[k.msg] # "absent",
                   Upsert(k.msg, k.user, k.status, res),
                   mark' = [mark EXCEPT ![k] = IF res = "ok" THEN "upserted" ELSE "failed"]
            PROVE  MarkOK(k)'
        <4>1. res = "ok" => status'[k.msg][k.user] = k.status
          BY <3>3, CopiesOf, MarkFields, <1>a, UpsertRow
        <4>2. mark'[k] = IF res = "ok" THEN "upserted" ELSE "failed"
          BY <3>3, <1>a
        <4> QED
          BY <3>1, <3>3, <4>1, <4>2, <1>a DEF MarkOK
      <3> QED
        BY <3>1, <3>2, <3>3, MarkWrites
    <2>3. CASE \E l \in Mark : MarkPublish(l)
      <3>1. mark[k] = "upserted" /\ UNCHANGED <<stored, rcpt, status>>
        BY <2>3, <1>2, <1>a DEF MarkPublish
      <3> QED
        BY <3>1, <1>a DEF MarkOK
    <2>4. CASE Crash
      <3>1. mark[k] # "none" /\ mark'[k] = "failed" /\ UNCHANGED <<stored, rcpt, status>>
        BY <2>4, <1>2, <1>a DEF Crash
      <3> QED
        BY <3>1, <1>a DEF MarkOK
    <2>5. CASE \E m \in Msg :
                 \/ \E group \in BOOLEAN, S \in SUBSET User : Start(m, group, S)
                 \/ Ensure(m) \/ Insert(m) \/ MarkSent(m) \/ Announce(m) \/ Finish(m) \/ CtxCancelled(m)
      BY <2>5, <1>2 DEF Start, Ensure, Insert, MarkSent, Announce, Finish, CtxCancelled
    <2>6. CASE \E m \in Msg, u \in User :
                 CheckPresence(m, u) \/ Push(m, u) \/ MarkRouted(m, u) \/ Queue(m, u)
      BY <2>6, <1>2 DEF CheckPresence, Push, MarkRouted, Queue
    <2>7. CASE (\E s \in Stream : ConsumerStep(s)) \/ Signal \/ Exit \/ StartAgain
      BY <2>7, <1>2, ConsumersApart
    <2>8. CASE \E u \in Roaming : Connect(u) \/ Subscribe(u) \/ Disconnect(u) \/ PresenceExpires(u)
      BY <2>8, <1>2 DEF Connect, Subscribe, Disconnect, PresenceExpires
    <2>9. CASE UNCHANGED vars
      BY <2>9, <1>2 DEF vars
    <2> QED
      BY <2>1, <2>2, <2>3, <2>4, <2>5, <2>6, <2>7, <2>8, <2>9 DEF Next, SendStep, MarkStep
  <1> QED
    BY <1>1, <1>2

\* Appending copies of e to a sequence brings in nothing but e.
LEMMA CopiesAppended ==
    ASSUME NEW S, NEW s \in Seq(S), NEW e \in S, NEW n \in Nat,
           NEW i \in DOMAIN (s \o [j \in 1..n |-> e])
    PROVE  \/ (s \o [j \in 1..n |-> e])[i] = e
           \/ \E j \in DOMAIN s : (s \o [k \in 1..n |-> e])[i] = s[j]
  <1> DEFINE t == [j \in 1..n |-> e]
  <1>1. t \in Seq(S) /\ Len(t) = n /\ \A j \in 1..n : t[j] = e
    OBVIOUS
  <1>2. Len(s) \in Nat /\ DOMAIN s = 1..Len(s)
    OBVIOUS
  <1> HIDE DEF t
  <1>3. DOMAIN (s \o t) = 1..(Len(s) + n)
    <2>1. s \o t \in Seq(S) /\ Len(s \o t) = Len(s) + Len(t)
      BY <1>1, ConcatProperties
    <2> QED
      BY <1>1, <2>1
  <1> SUFFICES ASSUME i \in DOMAIN (s \o t)
               PROVE  (s \o t)[i] = e \/ \E j \in DOMAIN s : (s \o t)[i] = s[j]
    BY DEF t
  <1>4. i \in 1..(Len(s) + n)
    BY <1>3
  <1>5. (s \o t)[i] = IF i <= Len(s) THEN s[i] ELSE t[i - Len(s)]
    BY <1>1, <1>4, ConcatProperties
  <1>6. CASE i <= Len(s)
    BY <1>2, <1>4, <1>5, <1>6
  <1>7. CASE i > Len(s)
    <2>1. i - Len(s) \in 1..n
      BY <1>2, <1>4, <1>7
    <2> QED
      BY <2>1, <1>1, <1>2, <1>4, <1>5, <1>7
  <1> QED
    BY <1>2, <1>4, <1>6, <1>7

\* An event enters a stream after its mark succeeded, and becomes a tick.
LEMMA EventPreserved == IInv /\ [Next]_vars => EventInv'
  <1> SUFFICES ASSUME IInv, [Next]_vars PROVE EventInv'
    OBVIOUS
  <1> USE DEF sendVars, storeVars, markVars, userVars, procVars
  <1>a. /\ events \in [Stream -> Seq(Mark)] /\ taken \in [Stream -> Seq(Mark)] /\ ticks \subseteq Mark
        /\ mark \in [Mark -> {"none", "called", "upserted", "ok", "failed"}]
        /\ EventInv
    BY DEF IInv, TypeOK
  <1>b. \A s \in Stream :
          /\ events[s] \in Seq(Mark) /\ DOMAIN events[s] = 1..Len(events[s]) /\ Len(events[s]) \in Nat
          /\ \A i \in DOMAIN events[s] : events[s][i] \in Mark
          /\ taken[s] \in Seq(Mark) /\ DOMAIN taken[s] = 1..Len(taken[s]) /\ Len(taken[s]) \in Nat
          /\ \A i \in DOMAIN taken[s] : taken[s][i] \in Mark
    BY <1>a
  <1>c. \A k \in Mark : mark[k] = "ok" => mark'[k] = "ok"
    BY MarksStay
  <1>1. CASE UNCHANGED <<events, taken, ticks>>
    BY <1>1, <1>a, <1>b, <1>c DEF EventInv
  <1>d. \A s \in Stream : \A i \in DOMAIN taken[s] : mark'[taken[s][i]] = "ok"
    BY <1>a, <1>b, <1>c DEF EventInv
  <1>2. ASSUME NEW k \in Mark, MarkPublish(k) PROVE EventInv'
    <2> PICK res \in RedisResults :
          events' = [events EXCEPT ![k.status] = @ \o [i \in 1..Copies(res) |-> k]]
      BY <1>2 DEF MarkPublish
    <2>1. mark'[k] = "ok" /\ ticks' = ticks /\ taken' = taken /\ k.status \in Stream
      BY <1>2, <1>a, MarkFields DEF MarkPublish
    <2>2. Copies(res) \in Nat
      BY CopiesOf DEF RedisResults, Results
    <2>3. ASSUME NEW s \in Stream, NEW i \in DOMAIN events'[s]
          PROVE  mark'[events'[s][i]] = "ok"
      <3>1. CASE s # k.status
        <4>1. events'[s] = events[s]
          BY <3>1, <1>a
        <4> QED
          BY <4>1, <2>3, <1>a, <1>b, <1>c DEF EventInv
      <3>2. CASE s = k.status
        <4>1. events'[s] = events[s] \o [j \in 1..Copies(res) |-> k]
          BY <3>2, <1>a
        <4>2. events'[s][i] = k \/ \E j \in DOMAIN events[s] : events'[s][i] = events[s][j]
          BY <4>1, <2>2, <2>3, <1>b, CopiesAppended
        <4> QED
          BY <4>2, <2>1, <1>a, <1>b, <1>c DEF EventInv
      <3> QED
        BY <3>1, <3>2
    <2>4. \A l \in ticks : mark'[l] = "ok"
      BY <1>a, <1>c DEF EventInv
    <2> QED
      BY <2>1, <2>3, <2>4, <1>d DEF EventInv
  <1>3. ASSUME NEW s \in Stream, HandleStatusEvent(s) PROVE EventInv'
    <2>1. /\ taken[s] # <<>> /\ taken' = [taken EXCEPT ![s] = Tail(@)] /\ mark' = mark /\ events' = events
          /\ ticks' \subseteq ticks \cup {Head(taken[s])}
      BY <1>3 DEF HandleStatusEvent
    <2>2. 1 \in DOMAIN taken[s] /\ Head(taken[s]) = taken[s][1]
      BY <2>1, <1>b
    <2>3. \A k \in ticks' : mark'[k] = "ok"
      BY <2>1, <2>2, <1>a DEF EventInv
    <2>4. ASSUME NEW t \in Stream, NEW i \in DOMAIN taken'[t]
          PROVE  mark'[taken'[t][i]] = "ok"
      <3>1. CASE t # s
        BY <3>1, <2>1, <2>4, <1>a DEF EventInv
      <3>2. CASE t = s
        <4>1. taken'[s] = Tail(taken[s])
          BY <2>1, <1>a
        <4>2. i + 1 \in DOMAIN taken[s] /\ taken'[s][i] = taken[s][i + 1]
          <5>1. DOMAIN Tail(taken[s]) = 1..(Len(taken[s]) - 1)
            BY <2>1, <1>b
          <5>2. i \in 1..(Len(taken[s]) - 1)
            BY <4>1, <5>1, <2>4, <3>2
          <5>3. Tail(taken[s])[i] = taken[s][i + 1]
            BY <5>2, <2>1, <1>b
          <5> QED
            BY <4>1, <5>2, <5>3, <1>b
        <4> QED
          BY <4>2, <3>2, <2>1, <1>a DEF EventInv
      <3> QED
        BY <3>1, <3>2
    <2> QED
      BY <2>1, <2>3, <2>4, <1>a DEF EventInv
  <1>9. ASSUME NEW s \in Stream, ReadEvents(s) PROVE EventInv'
    <2> PICK n \in 1..Len(events[s]), res \in Results :
          /\ events' = [events EXCEPT ![s] = SubSeq(@, n + 1, Len(@))]
          /\ taken' = IF res = "ok" THEN [taken EXCEPT ![s] = SubSeq(events[s], 1, n)] ELSE taken
      BY <1>9 DEF ReadEvents
    <2>1. UNCHANGED <<mark, ticks>>
      BY <1>9 DEF ReadEvents
    <2>2. /\ \A i \in DOMAIN SubSeq(events[s], 1, n) :
               \E j \in DOMAIN events[s] : SubSeq(events[s], 1, n)[i] = events[s][j]
          /\ \A i \in DOMAIN SubSeq(events[s], n + 1, Len(events[s])) :
               \E j \in DOMAIN events[s] : SubSeq(events[s], n + 1, Len(events[s]))[i] = events[s][j]
      BY <1>b, Cut
    <2>3. ASSUME NEW t \in Stream, NEW i \in DOMAIN events'[t] PROVE mark'[events'[t][i]] = "ok"
      <3>1. CASE t = s
        <4>1. events'[t] = SubSeq(events[s], n + 1, Len(events[s]))
          BY <3>1, <1>a
        <4> QED
          BY <4>1, <2>1, <2>2, <2>3, <1>a DEF EventInv
      <3>2. CASE t # s
        BY <3>2, <2>1, <2>3, <1>a DEF EventInv
      <3> QED
        BY <3>1, <3>2
    <2>4. ASSUME NEW t \in Stream, NEW i \in DOMAIN taken'[t] PROVE mark'[taken'[t][i]] = "ok"
      <3>1. CASE t = s /\ res = "ok"
        <4>1. taken'[t] = SubSeq(events[s], 1, n)
          BY <3>1, <1>a
        <4> QED
          BY <4>1, <2>1, <2>2, <2>4, <1>a DEF EventInv
      <3>2. CASE ~(t = s /\ res = "ok")
        <4>1. taken'[t] = taken[t]
          BY <3>2, <1>a
        <4> QED
          BY <4>1, <2>1, <2>4, <1>a DEF EventInv
      <3> QED
        BY <3>1, <3>2
    <2> QED
      BY <2>1, <2>3, <2>4, <1>a DEF EventInv
  <1>10. CASE (\E s \in Stream : EndConsumer(s)) \/ Signal \/ StartAgain
    BY <1>10, <1>1 DEF EndConsumer, Signal, StartAgain
  <1>11. CASE Exit \/ Crash
    <2>1. UNCHANGED <<events, ticks>> /\ taken' = [s \in Stream |-> <<>>]
      BY <1>11 DEF Exit, Crash, Gone
    <2>2. \A s \in Stream : DOMAIN taken'[s] = {}
      BY <2>1
    <2> QED
      BY <2>1, <2>2, <1>a, <1>b, <1>c DEF EventInv
  <1>4. CASE \E m \in Msg :
               \/ \E group \in BOOLEAN, S \in SUBSET User : Start(m, group, S)
               \/ Ensure(m) \/ Insert(m) \/ MarkSent(m) \/ Announce(m) \/ Finish(m) \/ CtxCancelled(m)
    BY <1>4, <1>1 DEF Start, Ensure, Insert, MarkSent, Announce, Finish, CtxCancelled
  <1>5. CASE \E m \in Msg, u \in User :
               CheckPresence(m, u) \/ Push(m, u) \/ MarkRouted(m, u) \/ Queue(m, u)
    BY <1>5, <1>1 DEF CheckPresence, Push, MarkRouted, Queue
  <1>6. CASE \E k \in Mark : CallMark(k) \/ MarkUpsert(k)
    BY <1>6, <1>1 DEF CallMark, MarkUpsert
  <1>7. CASE \E u \in Roaming : Connect(u) \/ Subscribe(u) \/ Disconnect(u) \/ PresenceExpires(u)
    BY <1>7, <1>1 DEF Connect, Subscribe, Disconnect, PresenceExpires
  <1>8. CASE UNCHANGED vars
    BY <1>8, <1>1 DEF vars
  <1> QED
    BY <1>2, <1>3, <1>4, <1>5, <1>6, <1>7, <1>8, <1>9, <1>10, <1>11
       DEF Next, SendStep, MarkStep, ConsumerStep

-----------------------------------------------------------------------------
\* A recipient that was served is not served again.
LEMMA DoneStays ==
    ASSUME IInv, [Next]_vars, NEW m \in Msg, NEW u \in User, route[m][u] = "done"
    PROVE  route'[m][u] = "done" /\ queued'[m][u] = queued[m][u] /\ pushed'[m][u] = pushed[m][u]
  <1> USE DEF sendVars, storeVars, markVars, userVars, procVars
  <1>a. /\ route \in [Msg -> [User -> {"todo", "online", "offline", "marking", "done"}]]
        /\ pushed \in [Msg -> [User -> Nat]] /\ queued \in [Msg -> [User -> Nat]]
    BY DEF IInv, TypeOK
  <1>1. CASE UNCHANGED <<route, pushed, queued>>
    BY <1>1
  <1>2. ASSUME NEW n \in Msg, NEW v \in User,
               CheckPresence(n, v) \/ Push(n, v) \/ MarkRouted(n, v) \/ Queue(n, v)
        PROVE  route'[m][u] = "done" /\ queued'[m][u] = queued[m][u] /\ pushed'[m][u] = pushed[m][u]
    <2>1. n # m \/ v # u
      BY <1>2 DEF CheckPresence, Push, MarkRouted, Queue
    <2>2. route'[m][u] = route[m][u]
      BY <1>2, <1>a, <2>1 DEF CheckPresence, Push, MarkRouted, Queue, RouteTo
    <2>3. pushed'[m][u] = pushed[m][u] /\ queued'[m][u] = queued[m][u]
      BY <1>2, <1>a, <2>1 DEF CheckPresence, Push, MarkRouted, Queue
    <2> QED
      BY <2>2, <2>3
  <1>3. CASE \E n \in Msg :
               \/ \E group \in BOOLEAN, S \in SUBSET User : Start(n, group, S)
               \/ Ensure(n) \/ Insert(n) \/ MarkSent(n) \/ Announce(n) \/ Finish(n) \/ CtxCancelled(n)
    BY <1>3, <1>1 DEF Start, Ensure, Insert, MarkSent, Announce, Finish, CtxCancelled
  <1>4. CASE \E k \in Mark : CallMark(k) \/ MarkUpsert(k) \/ MarkPublish(k)
    BY <1>4, <1>1 DEF CallMark, MarkUpsert, MarkPublish
  <1>5. CASE (\E s \in Stream : ConsumerStep(s)) \/ Signal \/ Exit \/ StartAgain
    BY <1>5, <1>1, ConsumersApart
  <1>6. CASE \E v \in Roaming : Connect(v) \/ Subscribe(v) \/ Disconnect(v) \/ PresenceExpires(v)
    BY <1>6, <1>1 DEF Connect, Subscribe, Disconnect, PresenceExpires
  <1>7. CASE Crash \/ UNCHANGED vars
    BY <1>7, <1>1 DEF Crash, vars
  <1> QED
    BY <1>2, <1>3, <1>4, <1>5, <1>6, <1>7 DEF Next, SendStep, MarkStep

\* Every row keeps the reason it was written for.
LEMMA JustifiedPreserved == IInv /\ [Next]_vars => StatusJustified'
  <1> SUFFICES ASSUME IInv, [Next]_vars, NEW m \in Msg, NEW u \in User
               PROVE  /\ status'[m][u] = "delivered" =>
                           \/ \E k \in Mark : /\ k.msg = m /\ k.user = u /\ k.status = "delivered"
                                              /\ mark'[k] \notin {"none", "called"}
                           \/ route'[m][u] = "done" /\ queued'[m][u] = 0
                      /\ status'[m][u] = "read" =>
                           \E k \in Mark : /\ k.msg = m /\ k.user = u /\ k.status = "read"
                                           /\ mark'[k] \notin {"none", "called"}
                      /\ status'[m][u] = "sent" => u = Sender[m]
    BY DEF StatusJustified
  <1>1. CASE status'[m][u] = status[m][u]
    <2>1. /\ status[m][u] = "delivered" =>
               \/ \E k \in Mark : /\ k.msg = m /\ k.user = u /\ k.status = "delivered"
                                  /\ mark[k] \notin {"none", "called"}
               \/ route[m][u] = "done" /\ queued[m][u] = 0
          /\ status[m][u] = "read" =>
               \E k \in Mark : /\ k.msg = m /\ k.user = u /\ k.status = "read"
                               /\ mark[k] \notin {"none", "called"}
          /\ status[m][u] = "sent" => u = Sender[m]
      BY DEF IInv, StatusJustified
    <2>2. \A k \in Mark : mark[k] \notin {"none", "called"} => mark'[k] \notin {"none", "called"}
      BY MarksStay
    <2>3. route[m][u] = "done" /\ queued[m][u] = 0 => route'[m][u] = "done" /\ queued'[m][u] = 0
      BY DoneStays
    <2> QED
      BY <1>1, <2>1, <2>2, <2>3
  <1>2. CASE status'[m][u] # status[m][u]
    <2>1. CASE status'[m][u] = "sent" /\ u = Sender[m]
      BY <2>1
    <2>2. CASE status'[m][u] = "delivered" /\ route'[m][u] = "done" /\ queued'[m][u] = 0
      BY <2>2
    <2>3. CASE \E k \in Mark : /\ k.msg = m /\ k.user = u /\ status'[m][u] = k.status
                               /\ mark'[k] \notin {"none", "called"}
      <3>1. \A k \in Mark : k.status \in {"delivered", "read"}
        BY MarkFields
      <3> QED
        BY <2>3, <3>1
    <2> QED
      BY <1>2, <2>1, <2>2, <2>3, StatusMoves
  <1> QED
    BY <1>1, <1>2

-----------------------------------------------------------------------------
\* The inductive invariant holds in every reachable state.
THEOREM Inductive == Spec => []IInv
  <1>1. IInv /\ [Next]_vars => IInv'
    <2> SUFFICES ASSUME IInv, [Next]_vars PROVE IInv'
      OBVIOUS
    <2>1. TypeOK' /\ EventInv' /\ StatusJustified'
      BY TypePreserved, EventPreserved, JustifiedPreserved
    <2>2. (\A m \in Msg : SendOK(m) /\ (m \in ctxGone => faults > 0))'
      BY SendPreserved, FaultsGrow
    <2>3. (\A m \in Msg, u \in User : RouteOK(m, u))' /\ (\A k \in Mark : MarkOK(k))'
      BY RoutePreserved, MarkPreserved
    <2> QED
      BY <2>1, <2>2, <2>3 DEF IInv
  <1> QED
    BY InitIInv, <1>1, PTL DEF Spec

\* Everybody addressed, and nobody else, is handed a message at most once but
\* for failures; the caller is told OK only after all were served; nothing
\* refers to a message before it is stored.
THEOREM Delivered == Spec => []Inv
  <1>1. IInv => Inv
    <2> SUFFICES ASSUME IInv PROVE Inv
      OBVIOUS
    <2>1. TypeOK /\ (\A m \in Msg, u \in User : RouteOK(m, u)) /\ \A m \in Msg : SendOK(m)
      BY DEF IInv
    <2>2. HandedAtMostOnce
      <3> SUFFICES ASSUME NEW m \in Msg, NEW u \in User
                   PROVE  /\ pushed[m][u] = 0 \/ queued[m][u] = 0
                          /\ pushed[m][u] + queued[m][u] <= 1 + faults
                          /\ pushed[m][u] + queued[m][u] > 0 => u \in rcpt[m] \ {Sender[m]}
        BY DEF HandedAtMostOnce
      <3>1. RouteOK(m, u) /\ SendOK(m)
        BY <2>1
      <3>2. route[m][u] # "todo" => u \in rcpt[m] \ {Sender[m]}
        BY <3>1 DEF RouteOK, SendOK
      <3>3. pushed[m][u] + queued[m][u] > 0 => route[m][u] # "todo"
        BY <3>1 DEF RouteOK
      <3> QED
        BY <3>1, <3>2, <3>3 DEF RouteOK
    <2>3. AckMeansHanded
      <3> SUFFICES ASSUME NEW m \in Msg, call[m] = "ok"
                   PROVE  /\ stored[m] = "present" /\ \A u \in rcpt[m] : route[m][u] = "done"
                          /\ faults = 0 => \A u \in rcpt[m] : pushed[m][u] + queued[m][u] = 1
        BY DEF AckMeansHanded
      <3>1. stored[m] = "present" /\ \A u \in rcpt[m] : route[m][u] = "done"
        BY <2>1 DEF SendOK, AllServed
      <3>2. rcpt[m] \subseteq User
        BY <2>1 DEF TypeOK
      <3> QED
        BY <2>1, <3>1, <3>2 DEF RouteOK
    <2>4. StoredFirst
      <3> SUFFICES ASSUME NEW m \in Msg
                   PROVE  /\ m \in announced \/ (\E u \in User : pushed[m][u] + queued[m][u] > 0)
                               => stored[m] = "present"
                          /\ (\E k \in ticks : k.msg = m) => stored[m] # "absent"
        BY DEF StoredFirst
      <3>1. ASSUME NEW u \in User, pushed[m][u] + queued[m][u] > 0 PROVE stored[m] = "present"
        <4>1. RouteOK(m, u)
          BY <2>1
        <4>2. route[m][u] # "todo"
          BY <3>1, <4>1 DEF RouteOK
        <4> QED
          BY <4>1, <4>2 DEF RouteOK
      <3>2. ASSUME NEW k \in ticks, k.msg = m PROVE stored[m] # "absent"
        <4>1. k \in Mark /\ mark[k] = "ok" /\ MarkOK(k)
          BY DEF IInv, TypeOK, EventInv
        <4> QED
          BY <3>2, <4>1 DEF MarkOK
      <3> QED
        BY <2>1, <3>1, <3>2 DEF SendOK
    <2> QED
      BY <2>1, <2>2, <2>3, <2>4 DEF Inv
  <1> QED
    BY Inductive, <1>1, PTL

\* No row claims what nobody did, and no tick comes before its row.
THEOREM RowsAreTrue == Spec => []RowsTrue
  <1>1. IInv => RowsTrue
    <2> SUFFICES ASSUME IInv, NEW k \in ticks
                 PROVE  \/ status[k.msg][k.user] \in {"delivered", "read"}
                        \/ status[k.msg][k.user] = "sent" /\ k.user = Sender[k.msg]
      BY DEF RowsTrue, TickHasRow, IInv
    <2>1. k \in Mark /\ mark[k] = "ok" /\ MarkOK(k)
      BY DEF IInv, TypeOK, EventInv
    <2> QED
      BY <2>1 DEF MarkOK
  <1> QED
    BY Inductive, <1>1, PTL

-----------------------------------------------------------------------------
\* What the contract sees of a message, case by case.
FateAt(m, u) ==
    /\ stored[m] # "present" \/ u \notin rcpt[m] => fate[m][u] = "none"
    /\ stored[m] = "present" /\ u \in rcpt[m] =>
         /\ pushed[m][u] + queued[m][u] > 0 => fate[m][u] = "handed"
         /\ ~(pushed[m][u] + queued[m][u] > 0) =>
              fate[m][u] = IF route[m][u] \in {"marking", "done"} \/ call[m] = "failed"
                           THEN "lost" ELSE "accepted"

FateTable ==
    /\ fate = [m \in Msg |-> [u \in User |-> fate[m][u]]]
    /\ reply = [m \in Msg |-> reply[m]]
    /\ \A m \in Msg, u \in User : FateAt(m, u)
    /\ \A m \in Msg : reply[m] = CASE call[m] = "ok" -> "ok" [] call[m] = "failed" -> "error"
                                   [] OTHER -> "none"

LEMMA FateOf == FateTable
  <1>1. /\ fate = [m \in Msg |-> [u \in User |-> fate[m][u]]]
        /\ reply = [m \in Msg |-> reply[m]]
    BY DEF fate, reply
  <1>2. ASSUME NEW m \in Msg, NEW u \in User PROVE FateAt(m, u)
    <2>1. fate[m][u] = IF stored[m] # "present" \/ u \notin rcpt[m] THEN "none"
                       ELSE IF pushed[m][u] + queued[m][u] > 0 THEN "handed"
                       ELSE IF route[m][u] \in {"marking", "done"} \/ call[m] = "failed"
                       THEN "lost" ELSE "accepted"
      BY DEF fate
    <2> QED
      BY <2>1 DEF FateAt
  <1>3. \A m \in Msg : reply[m] = CASE call[m] = "ok" -> "ok" [] call[m] = "failed" -> "error"
                                    [] OTHER -> "none"
    BY DEF reply
  <1> QED
    BY <1>1, <1>2, <1>3 DEF FateTable

\* What did not happen to a message does not show.
SameFate(m) == reply'[m] = reply[m] /\ \A u \in User : fate'[m][u] = fate[m][u]

LEMMA Untouched ==
    ASSUME FateTable, FateTable', NEW m \in Msg,
           call'[m] = call[m], stored'[m] = stored[m], rcpt'[m] = rcpt[m],
           route'[m] = route[m], pushed'[m] = pushed[m], queued'[m] = queued[m]
    PROVE  SameFate(m)
  <1>1. reply'[m] = reply[m]
    BY DEF FateTable
  <1>2. ASSUME NEW u \in User PROVE fate'[m][u] = fate[m][u]
    <2>1. FateAt(m, u) /\ FateAt(m, u)'
      BY DEF FateTable
    <2> QED
      BY <2>1 DEF FateAt
  <1> QED
    BY <1>1, <1>2 DEF SameFate

\* Nor does a call's progress between its first and its last statement.
LEMMA GoesOn ==
    ASSUME FateTable, FateTable', NEW m \in Msg,
           call[m] \in {"idle"} \cup Open, call'[m] \in Open,
           \/ stored[m] # "present" /\ stored'[m] # "present"
           \/ /\ stored'[m] = stored[m] /\ rcpt'[m] = rcpt[m] /\ route'[m] = route[m]
              /\ pushed'[m] = pushed[m] /\ queued'[m] = queued[m]
    PROVE  SameFate(m)
  <1>1. reply'[m] = reply[m]
    BY DEF FateTable, Open
  <1>2. ASSUME NEW u \in User PROVE fate'[m][u] = fate[m][u]
    <2>1. FateAt(m, u) /\ FateAt(m, u)' /\ call[m] # "failed" /\ call'[m] # "failed"
      BY DEF FateTable, Open
    <2> QED
      BY <2>1 DEF FateAt
  <1> QED
    BY <1>1, <1>2 DEF SameFate

LEMMA AllSame ==
    ASSUME FateTable, FateTable', \A m \in Msg : SameFate(m)
    PROVE  fate' = fate /\ reply' = reply
  <1>1. reply' = reply
    BY DEF FateTable, SameFate
  <1>2. \A m \in Msg : [u \in User |-> fate'[m][u]] = [u \in User |-> fate[m][u]]
    BY DEF SameFate
  <1>3. fate' = fate
    BY <1>2 DEF FateTable
  <1> QED
    BY <1>1, <1>3

\* The calls that fail in a step give up the recipients they have not served,
\* if their messages were stored at all.
LEMMA FailingGivesUp ==
    ASSUME FateTable, FateTable', NEW D \in SUBSET Msg,
           \A m \in Msg \ D : SameFate(m),
           \A m \in D :
              /\ call[m] \in {"idle"} \cup Open /\ call'[m] = "failed"
              /\ \/ stored[m] # "present" /\ stored'[m] # "present"
                 \/ /\ stored'[m] = stored[m] /\ rcpt'[m] = rcpt[m] /\ route'[m] = route[m]
                    /\ pushed'[m] = pushed[m] /\ queued'[m] = queued[m]
    PROVE  Contract!GiveUp(D)
  <1>1. \A m \in D : reply[m] = "none" /\ reply'[m] = "error"
    BY DEF FateTable, Open
  <1>2. ASSUME NEW m \in D, NEW u \in User
        PROVE  fate'[m][u] = IF fate[m][u] = "accepted" THEN "lost" ELSE fate[m][u]
    <2>a. FateAt(m, u) /\ FateAt(m, u)'
      BY DEF FateTable
    <2>1. CASE stored[m] # "present" /\ stored'[m] # "present"
      BY <2>a, <2>1 DEF FateAt
    <2>2. CASE /\ stored'[m] = stored[m] /\ rcpt'[m] = rcpt[m] /\ route'[m] = route[m]
               /\ pushed'[m] = pushed[m] /\ queued'[m] = queued[m]
      <3>1. call[m] # "failed" /\ call'[m] = "failed"
        BY DEF Open
      <3>2. CASE stored[m] = "present" /\ u \in rcpt[m]
        BY <2>a, <2>2, <3>1, <3>2 DEF FateAt
      <3>3. CASE ~(stored[m] = "present" /\ u \in rcpt[m])
        BY <2>a, <2>2, <3>3 DEF FateAt
      <3> QED
        BY <3>2, <3>3
    <2> QED
      BY <2>1, <2>2
  <1>3. reply' = [m \in Msg |-> IF m \in D THEN "error" ELSE reply[m]]
    BY <1>1 DEF FateTable, SameFate
  <1>4. fate' = [m \in Msg |->
                   IF m \in D
                   THEN [u \in User |-> IF fate[m][u] = "accepted" THEN "lost" ELSE fate[m][u]]
                   ELSE fate[m]]
    <2>1. ASSUME NEW m \in D
          PROVE  [u \in User |-> fate'[m][u]]
                 = [u \in User |-> IF fate[m][u] = "accepted" THEN "lost" ELSE fate[m][u]]
      BY <1>2
    <2>2. ASSUME NEW m \in Msg \ D PROVE [u \in User |-> fate'[m][u]] = fate[m]
      <3>1. fate[m] = [u \in User |-> fate[m][u]]
        BY DEF FateTable
      <3>2. [u \in User |-> fate'[m][u]] = [u \in User |-> fate[m][u]]
        BY DEF SameFate
      <3> QED
        BY <3>1, <3>2
    <2>3. fate' = [m \in Msg |-> [u \in User |-> fate'[m][u]]]
      BY DEF FateTable
    <2> QED
      BY <2>1, <2>2, <2>3
  <1> QED
    BY <1>1, <1>3, <1>4 DEF Contract!GiveUp

\* One recipient of an accepted message is decided.
LEMMA ServingDecides ==
    ASSUME FateTable, FateTable', NEW m \in Msg, NEW u \in User, NEW f \in {"handed", "lost"},
           \A n \in Msg \ {m} : SameFate(n), reply'[m] = reply[m],
           \A v \in User \ {u} : fate'[m][v] = fate[m][v],
           fate[m][u] = "accepted", fate'[m][u] = f
    PROVE  Contract!Decide(m, u, f)
  <1>1. reply' = reply
    BY DEF FateTable, SameFate
  <1>2. fate[m] = [v \in User |-> fate[m][v]] /\ fate'[m] = [v \in User |-> fate'[m][v]]
    BY DEF FateTable
  <1>3. fate'[m] = [fate[m] EXCEPT ![u] = f]
    BY <1>2
  <1>4. ASSUME NEW n \in Msg \ {m} PROVE fate'[n] = fate[n]
    <2>1. fate[n] = [v \in User |-> fate[n][v]] /\ fate'[n] = [v \in User |-> fate'[n][v]]
      BY DEF FateTable
    <2>2. [v \in User |-> fate'[n][v]] = [v \in User |-> fate[n][v]]
      BY DEF SameFate
    <2> QED
      BY <2>1, <2>2
  <1>5. fate = [n \in Msg |-> fate[n]] /\ fate' = [n \in Msg |-> fate'[n]]
    BY DEF fate
  <1>6. fate' = [fate EXCEPT ![m] = [fate[m] EXCEPT ![u] = f]]
    BY <1>3, <1>4, <1>5
  <1>7. fate' = [fate EXCEPT ![m][u] = f]
    BY <1>6
  <1> QED
    BY <1>1, <1>7 DEF Contract!Decide

\* A message that is inserted is accepted for its recipients.
LEMMA InsertingAccepts ==
    ASSUME FateTable, FateTable', NEW m \in Msg, rcpt[m] \subseteq User,
           \A n \in Msg \ {m} : SameFate(n),
           call[m] = "insert", call'[m] = "sent", stored[m] = "absent", stored'[m] = "present",
           rcpt'[m] = rcpt[m],
           \A u \in User : /\ ~(pushed'[m][u] + queued'[m][u] > 0)
                           /\ route'[m][u] = "todo"
    PROVE  Contract!Accept(m, rcpt[m])
  <1>1. reply[m] = "none" /\ reply'[m] = "none"
    BY DEF FateTable
  <1>2. reply' = reply
    BY <1>1 DEF FateTable, SameFate
  <1>3. \A u \in User : fate[m][u] = "none"
    BY DEF FateTable, FateAt
  <1>4. ASSUME NEW u \in User PROVE fate'[m][u] = IF u \in rcpt[m] THEN "accepted" ELSE "none"
    <2>1. FateAt(m, u)'
      BY DEF FateTable
    <2> QED
      BY <2>1 DEF FateAt
  <1>5. fate'[m] = [u \in User |-> IF u \in rcpt[m] THEN "accepted" ELSE "none"]
    <2>1. fate'[m] = [u \in User |-> fate'[m][u]]
      BY DEF FateTable
    <2>2. [u \in User |-> fate'[m][u]] = [u \in User |-> IF u \in rcpt[m] THEN "accepted" ELSE "none"]
      BY <1>4
    <2> QED
      BY <2>1, <2>2
  <1>6. ASSUME NEW n \in Msg \ {m} PROVE fate'[n] = fate[n]
    <2>1. fate[n] = [v \in User |-> fate[n][v]] /\ fate'[n] = [v \in User |-> fate'[n][v]]
      BY DEF FateTable
    <2>2. [v \in User |-> fate'[n][v]] = [v \in User |-> fate[n][v]]
      BY DEF SameFate
    <2> QED
      BY <2>1, <2>2
  <1>7. fate = [n \in Msg |-> fate[n]] /\ fate' = [n \in Msg |-> fate'[n]]
    BY DEF fate
  <1>8. fate' = [fate EXCEPT ![m] = [u \in User |-> IF u \in rcpt[m] THEN "accepted" ELSE "none"]]
    BY <1>5, <1>6, <1>7
  <1> QED
    BY <1>1, <1>2, <1>3, <1>8 DEF Contract!Accept

\* A step of SendMessage that is not about a recipient is a step of the
\* contract or does not show.
LEMMA CallRefines ==
    ASSUME IInv, FateTable, FateTable', NEW m \in Msg,
           \/ \E group \in BOOLEAN, S \in SUBSET User : Start(m, group, S)
           \/ Ensure(m) \/ Insert(m) \/ MarkSent(m) \/ Announce(m) \/ Finish(m)
    PROVE  Contract!Next \/ (fate' = fate /\ reply' = reply)
  <1> USE DEF storeVars
  <1>a. /\ call \in [Msg -> {"idle", "ok", "failed"} \cup Open]
        /\ rcpt \in [Msg -> SUBSET User] /\ stored \in [Msg -> {"absent", "present", "ghost"}]
        /\ SendOK(m) /\ \A u \in User : RouteOK(m, u)
    BY DEF IInv, TypeOK
  <1>b. \A n \in Msg \ {m} : SameFate(n)
    <2> SUFFICES ASSUME NEW n \in Msg \ {m} PROVE SameFate(n)
      OBVIOUS
    <2>1. call'[n] = call[n] /\ stored'[n] = stored[n] /\ rcpt'[n] = rcpt[n]
      BY <1>a DEF Start, Ensure, Insert, MarkSent, Announce, Finish, GoOn
    <2>2. route' = route /\ pushed' = pushed /\ queued' = queued
      BY DEF Start, Ensure, Insert, MarkSent, Announce, Finish
    <2> QED
      BY <2>1, <2>2, Untouched
  <1>c. SameFate(m) => fate' = fate /\ reply' = reply
    BY <1>b, AllSame
  <1>d. Contract!GiveUp({m}) => Contract!Next
    BY DEF Contract!Next
  <1>e. {m} \in SUBSET Msg /\ Msg \ {m} \subseteq Msg
    OBVIOUS
  <1>1. ASSUME NEW group \in BOOLEAN, NEW S \in SUBSET User, Start(m, group, S)
        PROVE  Contract!Next \/ (fate' = fate /\ reply' = reply)
    <2>1. call[m] = "idle" /\ call'[m] \in {"ensure", "failed"} /\ stored' = stored
      BY <1>1, <1>a DEF Start
    <2>2. stored[m] # "present" /\ stored'[m] # "present"
      BY <2>1, <1>a DEF SendOK
    <2>3. CASE call'[m] = "ensure"
      BY <2>1, <2>2, <2>3, <1>c, GoesOn DEF Open
    <2>4. CASE call'[m] = "failed"
      <3>1. Contract!GiveUp({m})
        BY <2>1, <2>2, <2>4, <1>b, <1>e, FailingGivesUp
      <3> QED
        BY <3>1, <1>d
    <2> QED
      BY <2>1, <2>3, <2>4
  <1>2. CASE Ensure(m)
    <2>1. call[m] = "ensure" /\ call'[m] \in {"insert", "failed"} /\ stored' = stored
      BY <1>2, <1>a DEF Ensure, GoOn
    <2>2. stored[m] # "present" /\ stored'[m] # "present"
      BY <2>1, <1>a DEF SendOK
    <2>3. CASE call'[m] = "insert"
      BY <2>1, <2>2, <2>3, <1>c, GoesOn DEF Open
    <2>4. CASE call'[m] = "failed"
      <3>1. Contract!GiveUp({m})
        BY <2>1, <2>2, <2>4, <1>b, <1>e, FailingGivesUp DEF Open
      <3> QED
        BY <3>1, <1>d
    <2> QED
      BY <2>1, <2>3, <2>4
  <1>3. CASE Insert(m)
    <2> PICK res \in ResultsOf(m) :
          /\ GoOn(m, res, "sent")
          /\ stored' = [stored EXCEPT ![m] = CASE res = "ok" -> "present" [] res = "lost" -> "absent"
                                               [] OTHER -> "ghost"]
      BY <1>3 DEF Insert
    <2>1. /\ call[m] = "insert" /\ stored[m] = "absent" /\ rcpt' = rcpt /\ route' = route
          /\ pushed' = pushed /\ queued' = queued
      BY <1>3, <1>a DEF Insert, SendOK
    <2>2. CASE res = "ok"
      <3>1. call'[m] = "sent" /\ stored'[m] = "present"
        BY <2>2, <1>a DEF GoOn
      <3>2. ASSUME NEW u \in User
            PROVE  route'[m][u] = "todo" /\ ~(pushed'[m][u] + queued'[m][u] > 0)
        <4>1. route[m][u] = "todo"
          BY <2>1, <1>a DEF RouteOK
        <4>2. pushed[m][u] = 0 /\ queued[m][u] = 0
          BY <4>1, <1>a DEF RouteOK
        <4> QED
          BY <4>1, <4>2, <2>1
      <3>3. rcpt[m] \subseteq User /\ rcpt[m] # {}
        BY <2>1, <1>a DEF SendOK, Open
      <3>4. Contract!Accept(m, rcpt[m])
        BY <2>1, <3>1, <3>2, <3>3, <1>b, InsertingAccepts
      <3>5. rcpt[m] \in (SUBSET User) \ {{}}
        BY <3>3
      <3> QED
        BY <3>4, <3>5 DEF Contract!Next
    <2>3. CASE res # "ok"
      <3>1. call'[m] = "failed" /\ stored'[m] # "present"
        BY <2>3, <1>a DEF GoOn
      <3>2. Contract!GiveUp({m})
        BY <2>1, <3>1, <1>b, <1>e, FailingGivesUp DEF Open
      <3> QED
        BY <3>2, <1>d
    <2> QED
      BY <2>2, <2>3
  <1>4. CASE MarkSent(m) \/ Announce(m)
    <2>1. /\ call[m] \in {"sent", "announce"} /\ call'[m] \in {"announce", "route"}
          /\ stored' = stored /\ rcpt' = rcpt /\ route' = route /\ pushed' = pushed /\ queued' = queued
      BY <1>4, <1>a DEF MarkSent, Announce
    <2> QED
      BY <2>1, <1>c, GoesOn DEF Open
  <1>5. CASE Finish(m)
    <2>1. /\ call[m] = "route" /\ AllServed(m) /\ call'[m] \in {"ok", "failed"}
          /\ stored' = stored /\ rcpt' = rcpt /\ route' = route /\ pushed' = pushed /\ queued' = queued
      BY <1>5, <1>a DEF Finish
    <2>2. CASE call'[m] = "failed"
      <3>1. Contract!GiveUp({m})
        BY <2>1, <2>2, <1>b, <1>e, FailingGivesUp DEF Open
      <3> QED
        BY <3>1, <1>d
    <2>3. CASE call'[m] = "ok"
      <3>1. stored[m] = "present" /\ rcpt[m] # {} /\ rcpt[m] \subseteq User
        BY <2>1, <1>a DEF SendOK, Open
      <3>2. \A u \in User : fate'[m][u] = fate[m][u] /\ fate[m][u] # "accepted"
                            /\ (u \in rcpt[m] => fate[m][u] # "none")
        <4> SUFFICES ASSUME NEW u \in User
                     PROVE  /\ fate'[m][u] = fate[m][u] /\ fate[m][u] # "accepted"
                            /\ (u \in rcpt[m] => fate[m][u] # "none")
          OBVIOUS
        <4>a. FateAt(m, u) /\ FateAt(m, u)'
          BY DEF FateTable
        <4>1. CASE u \notin rcpt[m]
          BY <4>1, <4>a, <2>1 DEF FateAt
        <4>2. CASE u \in rcpt[m]
          <5>1. route[m][u] = "done"
            BY <4>2, <2>1 DEF AllServed
          <5> QED
            BY <4>2, <4>a, <5>1, <2>1, <3>1 DEF FateAt
        <4> QED
          BY <4>1, <4>2
      <3>3. \E u \in User : fate[m][u] # "none"
        BY <3>1, <3>2
      <3>4. reply[m] = "none" /\ reply'[m] = "ok"
        BY <2>1, <2>3 DEF FateTable
      <3>5. reply' = [reply EXCEPT ![m] = "ok"]
        BY <3>4, <1>b DEF FateTable, SameFate
      <3>6. fate' = fate
        <4>1. \A n \in Msg : [u \in User |-> fate'[n][u]] = [u \in User |-> fate[n][u]]
          BY <3>2, <1>b DEF SameFate
        <4> QED
          BY <4>1 DEF FateTable
      <3>7. Contract!Confirm(m)
        BY <3>2, <3>3, <3>4, <3>5, <3>6 DEF Contract!Confirm
      <3> QED
        BY <3>7 DEF Contract!Next
    <2> QED
      BY <2>1, <2>2, <2>3
  <1> QED
    BY <1>1, <1>2, <1>3, <1>4, <1>5

\* Pushing and queueing decide a recipient; checking its presence and writing
\* its row do not show.
LEMMA ServingRefines ==
    ASSUME IInv, FateTable, FateTable', NEW m \in Msg, NEW u \in User,
           CheckPresence(m, u) \/ Push(m, u) \/ MarkRouted(m, u) \/ Queue(m, u)
    PROVE  Contract!Next \/ (fate' = fate /\ reply' = reply)
  <1>a. /\ route \in [Msg -> [User -> {"todo", "online", "offline", "marking", "done"}]]
        /\ pushed \in [Msg -> [User -> Nat]] /\ queued \in [Msg -> [User -> Nat]]
        /\ m \in ctxGone => faults > 0
        /\ faults \in 0..MaxFaults
    BY DEF IInv, TypeOK
  <1>b. RouteOK(m, u) /\ call[m] = "route" /\ u \in rcpt[m] /\ stored[m] = "present"
    <2>1. RouteOK(m, u) /\ SendOK(m) /\ call[m] = "route"
      BY DEF IInv, CheckPresence, Push, MarkRouted, Queue
    <2>2. u \in rcpt[m]
      BY <2>1 DEF RouteOK, CheckPresence, Push, MarkRouted, Queue
    <2> QED
      BY <2>1, <2>2 DEF SendOK
  <1>c. call' = call /\ rcpt' = rcpt /\ stored' = stored
    BY DEF CheckPresence, Push, MarkRouted, Queue, storeVars
  <1>d. ASSUME NEW n \in Msg, NEW v \in User, n # m \/ v # u
        PROVE  route'[n][v] = route[n][v] /\ pushed'[n][v] = pushed[n][v] /\ queued'[n][v] = queued[n][v]
    BY <1>a, <1>d DEF CheckPresence, Push, MarkRouted, Queue, RouteTo, storeVars
  <1>e. reply' = reply /\ \A n \in Msg, v \in User : n # m \/ v # u => fate'[n][v] = fate[n][v]
    <2>1. reply' = reply
      BY <1>c DEF FateTable
    <2>2. ASSUME NEW n \in Msg, NEW v \in User, n # m \/ v # u PROVE fate'[n][v] = fate[n][v]
      <3>1. route'[n][v] = route[n][v] /\ pushed'[n][v] = pushed[n][v] /\ queued'[n][v] = queued[n][v]
        BY <1>d, <2>2
      <3>2. FateAt(n, v) /\ FateAt(n, v)'
        BY DEF FateTable
      <3> QED
        BY <3>1, <3>2, <1>c DEF FateAt
    <2> QED
      BY <2>1, <2>2
  <1>g. FateAt(m, u) /\ FateAt(m, u)'
    BY DEF FateTable
  <1>f. (\A n \in Msg \ {m} : SameFate(n)) /\ \A v \in User \ {u} : fate'[m][v] = fate[m][v]
    BY <1>e DEF SameFate
  <1>1. CASE CheckPresence(m, u) \/ MarkRouted(m, u)
    <2>1. /\ pushed' = pushed /\ queued' = queued
          /\ route[m][u] \in {"marking", "done"} <=> route'[m][u] \in {"marking", "done"}
      BY <1>1, <1>a DEF CheckPresence, MarkRouted, RouteTo, storeVars
    <2>2. fate'[m][u] = fate[m][u]
      BY <2>1, <1>b, <1>c, <1>g DEF FateAt
    <2>3. \A n \in Msg : SameFate(n)
      BY <2>2, <1>e, <1>f DEF SameFate
    <2> QED
      BY <2>3, AllSame
  <1>2. CASE Push(m, u) \/ Queue(m, u)
    <2>1. route[m][u] \in {"online", "offline"} /\ route'[m][u] \in {"marking", "done"}
      BY <1>2, <1>a DEF Push, Queue, RouteTo
    <2>2. pushed[m][u] = 0 /\ queued[m][u] = 0
      BY <2>1, <1>b DEF RouteOK
    <2>3. fate[m][u] = "accepted"
      <3>1. ~(pushed[m][u] + queued[m][u] > 0)
        BY <2>2
      <3>2. fate[m][u] = IF route[m][u] \in {"marking", "done"} \/ call[m] = "failed"
                         THEN "lost" ELSE "accepted"
        BY <3>1, <1>b, <1>g DEF FateAt
      <3> QED
        BY <3>2, <2>1, <1>b
    <2>4. fate'[m][u] \in {"handed", "lost"}
      BY <2>1, <1>b, <1>c, <1>g DEF FateAt
    <2>5. Contract!Decide(m, u, fate'[m][u])
      BY <2>3, <2>4, <1>e, <1>f, ServingDecides
    <2> QED
      BY <2>4, <2>5 DEF Contract!Next
  <1> QED
    BY <1>1, <1>2

\* A crash gives up all the calls in progress at once.
LEMMA CrashRefines ==
    ASSUME IInv, FateTable, FateTable', Crash
    PROVE  Contract!Next
  <1> DEFINE D == {m \in Msg : call[m] \in Open}
  <1>1. call' = [m \in Msg |-> IF call[m] \in Open THEN "failed" ELSE call[m]]
    BY DEF Crash
  <1>2. stored' = stored /\ rcpt' = rcpt /\ route' = route /\ pushed' = pushed /\ queued' = queued
    BY DEF Crash, storeVars
  <1>3. ASSUME NEW m \in Msg \ D PROVE SameFate(m)
    BY <1>1, <1>2, Untouched
  <1>4. D \in SUBSET Msg /\ \A m \in D : call[m] \in {"idle"} \cup Open /\ call'[m] = "failed"
    BY <1>1
  <1> HIDE DEF D
  <1>5. Contract!GiveUp(D)
    BY <1>2, <1>3, <1>4, FailingGivesUp
  <1> QED
    BY <1>4, <1>5 DEF Contract!Next

\* No interleaving of calls, group workers, failures and crashes decides a
\* recipient twice, or answers a caller before its message was decided for
\* everybody: chat-service implements MessageContract.
THEOREM Refinement == Spec => ImplementsContract
  <1>1. Init => Contract!Init
    <2> SUFFICES ASSUME Init PROVE Contract!Init
      OBVIOUS
    <2>1. \A m \in Msg : reply[m] = "none" /\ \A u \in User : fate[m][u] = "none"
      BY FateOf DEF Init, FateTable, FateAt
    <2>2. reply = [m \in Msg |-> "none"]
      BY <2>1, FateOf DEF FateTable
    <2>3. \A m \in Msg : [u \in User |-> fate[m][u]] = [u \in User |-> "none"]
      BY <2>1
    <2>4. fate = [m \in Msg |-> [u \in User |-> "none"]]
      BY <2>3, FateOf DEF FateTable
    <2> QED
      BY <2>2, <2>4 DEF Contract!Init
  <1>2. IInv /\ FateTable /\ FateTable' /\ [Next]_vars => [Contract!Next]_<<fate, reply>>
    <2> SUFFICES ASSUME IInv, FateTable, FateTable', [Next]_vars
                 PROVE  Contract!Next \/ (fate' = fate /\ reply' = reply)
      OBVIOUS
    <2>1. CASE UNCHANGED <<call, rcpt, route, stored, pushed, queued>>
      <3>1. \A m \in Msg : SameFate(m)
        BY <2>1, Untouched
      <3> QED
        BY <3>1, AllSame
    <2>2. CASE \E m \in Msg :
                 \/ \E group \in BOOLEAN, S \in SUBSET User : Start(m, group, S)
                 \/ Ensure(m) \/ Insert(m) \/ MarkSent(m) \/ Announce(m) \/ Finish(m)
      BY <2>2, CallRefines
    <2>3. CASE \E m \in Msg, u \in User :
                 CheckPresence(m, u) \/ Push(m, u) \/ MarkRouted(m, u) \/ Queue(m, u)
      BY <2>3, ServingRefines
    <2>4. CASE \E m \in Msg : CtxCancelled(m)
      BY <2>4, <2>1 DEF CtxCancelled, storeVars
    <2>5. CASE \E k \in Mark : CallMark(k) \/ MarkUpsert(k) \/ MarkPublish(k)
      BY <2>5, <2>1 DEF CallMark, MarkUpsert, MarkPublish, sendVars, storeVars
    <2>6. CASE (\E s \in Stream : ConsumerStep(s)) \/ Signal \/ Exit \/ StartAgain
      BY <2>6, <2>1, ConsumersApart
    <2>7. CASE \E u \in Roaming : Connect(u) \/ Subscribe(u) \/ Disconnect(u) \/ PresenceExpires(u)
      BY <2>7, <2>1 DEF Connect, Subscribe, Disconnect, PresenceExpires, sendVars, storeVars
    <2>8. CASE Crash
      BY <2>8, CrashRefines
    <2>9. CASE UNCHANGED vars
      BY <2>9, <2>1 DEF vars
    <2> QED
      BY <2>2, <2>3, <2>4, <2>5, <2>6, <2>7, <2>8, <2>9 DEF Next, SendStep, MarkStep
  <1> QED
    BY Inductive, FateOf, <1>1, <1>2, PTL DEF Spec, ImplementsContract, Contract!Spec

-----------------------------------------------------------------------------
\* What does not touch a call leaves AnyOrder's view of it alone.
LEMMA ViewSame ==
    ASSUME NEW m \in Msg, call'[m] = call[m], rcpt'[m] = rcpt[m], route'[m] = route[m]
    PROVE  UNCHANGED Serving(m)!vars
  BY DEF Serving!vars, Waiting, InHand

\* The statements of deliverToRecipient: the look-up begins to serve a
\* recipient, its last statement ends it, the push is in between.
LEMMA RouteIsView ==
    ASSUME IInv, NEW m \in Msg, NEW u \in User,
           CheckPresence(m, u) \/ Push(m, u) \/ MarkRouted(m, u) \/ Queue(m, u)
    PROVE  [Serving(m)!Next]_(Serving(m)!vars)
  <1>a. /\ route \in [Msg -> [User -> {"todo", "online", "offline", "marking", "done"}]]
        /\ rcpt \in [Msg -> SUBSET User]
        /\ RouteOK(m, u)
    BY DEF IInv, TypeOK
  <1>b. call[m] = "route" /\ call' = call /\ rcpt' = rcpt /\ u \in rcpt[m]
    BY <1>a DEF CheckPresence, Push, MarkRouted, Queue, storeVars, RouteOK
  <1>c. \A v \in User \ {u} : route'[m][v] = route[m][v]
    BY <1>a DEF CheckPresence, Push, MarkRouted, Queue, RouteTo
  <1>1. CASE CheckPresence(m, u)
    <2>1. route[m][u] = "todo" /\ route'[m][u] \in {"online", "offline"}
      BY <1>1, <1>a DEF CheckPresence, RouteTo
    <2>2. u \in Waiting(m) /\ Waiting(m)' = Waiting(m) \ {u} /\ InHand(m)' = InHand(m) \cup {u}
      BY <2>1, <1>a, <1>b, <1>c DEF Waiting, InHand
    <2>3. Serving(m)!Begin(u)
      BY <2>2, <1>b DEF Serving!Begin
    <2> QED
      BY <2>3 DEF Serving!Next
  <1>2. CASE Push(m, u)
    <2>1. route[m][u] = "online" /\ route'[m][u] = "marking"
      BY <1>2, <1>a DEF Push, RouteTo
    <2>2. Waiting(m)' = Waiting(m) /\ InHand(m)' = InHand(m)
      BY <2>1, <1>a, <1>b, <1>c DEF Waiting, InHand
    <2> QED
      BY <2>2, <1>b DEF Serving!vars
  <1>3. CASE MarkRouted(m, u) \/ Queue(m, u)
    <2>1. route[m][u] \in {"marking", "offline"} /\ route'[m][u] = "done"
      BY <1>3, <1>a DEF MarkRouted, Queue, RouteTo
    <2>2. u \in InHand(m) /\ Waiting(m)' = Waiting(m) /\ InHand(m)' = InHand(m) \ {u}
      BY <2>1, <1>a, <1>b, <1>c DEF Waiting, InHand
    <2>3. Serving(m)!End(u)
      BY <2>2, <1>b DEF Serving!End
    <2> QED
      BY <2>3 DEF Serving!Next
  <1> QED
    BY <1>1, <1>2, <1>3

\* A call answers its caller when nobody is waiting or in hand.
LEMMA FinishIsView ==
    ASSUME IInv, NEW m \in Msg, Finish(m)
    PROVE  Serving(m)!Return
  <1>1. call[m] = "route" /\ call'[m] # "route" /\ rcpt' = rcpt /\ route' = route
    BY DEF Finish, IInv, TypeOK
  <1>2. Waiting(m) = {} /\ InHand(m) = {}
    BY DEF Finish, AllServed, Waiting, InHand
  <1>3. Waiting(m)' = Waiting(m) /\ InHand(m)' = InHand(m)
    BY <1>1 DEF Waiting, InHand
  <1> QED
    BY <1>1, <1>2, <1>3 DEF Serving!Return

\* Only the announcement lets a call begin to serve, and nobody was served yet.
LEMMA ServingBegins ==
    ASSUME IInv, [Next]_vars, NEW m \in Msg, call[m] # "route", call'[m] = "route"
    PROVE  Serving(m)!Init' /\ Waiting(m)' = rcpt'[m]
  <1>a. /\ call \in [Msg -> {"idle", "ok", "failed"} \cup Open]
        /\ rcpt \in [Msg -> SUBSET User]
        /\ \A u \in User : RouteOK(m, u)
    BY DEF IInv, TypeOK
  <1>1. call[m] = "announce" /\ rcpt' = rcpt /\ route' = route
    BY <1>a, ConsumersApart DEF Next, vars, SendStep, MarkStep, Start, Ensure, Insert, GoOn,
       MarkSent, Announce, CheckPresence, Push, MarkRouted, Queue, Finish, CtxCancelled, CallMark,
       MarkUpsert, MarkPublish, Connect, Subscribe, Disconnect, PresenceExpires, Crash, sendVars
  <1>2. \A u \in rcpt[m] : route[m][u] = "todo"
    BY <1>1, <1>a DEF RouteOK
  <1>3. Waiting(m)' = rcpt'[m] /\ InHand(m)' = {} /\ rcpt'[m] \in SUBSET User
    BY <1>1, <1>2, <1>a DEF Waiting, InHand
  <1> QED
    BY <1>3 DEF Serving!Init

\* A step of the process is a step of AnyOrder for at most one call, and
\* touches no other: groupFanout's workers, or the loop of a direct message,
\* serve each recipient once and nobody answers the caller before.
THEOREM ServedInAnyOrder == Spec => ServesInAnyOrder
  <1> DEFINE Step ==
        \A m \in Msg :
          /\ call[m] # "route" /\ call'[m] = "route" =>
               Serving(m)!Init' /\ Waiting(m)' = rcpt'[m]
          /\ call[m] = "route" => [Serving(m)!Next]_(Serving(m)!vars) \/ Crash
  <1>1. IInv /\ [Next]_vars => Step
    <2> SUFFICES ASSUME IInv, [Next]_vars, NEW m \in Msg, call[m] = "route", ~Crash
                 PROVE  [Serving(m)!Next]_(Serving(m)!vars)
      BY ServingBegins
    <2>a. /\ call \in [Msg -> {"idle", "ok", "failed"} \cup Open]
          /\ rcpt \in [Msg -> SUBSET User]
          /\ route \in [Msg -> [User -> {"todo", "online", "offline", "marking", "done"}]]
      BY DEF IInv, TypeOK
    <2>1. CASE UNCHANGED <<call, rcpt, route>>
      BY <2>1, ViewSame
    <2>2. ASSUME NEW n \in Msg, NEW group \in BOOLEAN, NEW S \in SUBSET User, Start(n, group, S)
          PROVE  [Serving(m)!Next]_(Serving(m)!vars)
      BY <2>2, <2>a, ViewSame DEF Start
    <2>3. ASSUME NEW n \in Msg, Ensure(n) \/ Insert(n) \/ MarkSent(n) \/ Announce(n)
          PROVE  [Serving(m)!Next]_(Serving(m)!vars)
      BY <2>3, <2>a, ViewSame DEF Ensure, Insert, GoOn, MarkSent, Announce
    <2>4. ASSUME NEW n \in Msg, Finish(n)
          PROVE  [Serving(m)!Next]_(Serving(m)!vars)
      <3>1. CASE n = m
        BY <2>4, <3>1, FinishIsView DEF Serving!Next
      <3>2. CASE n # m
        BY <2>4, <3>2, <2>a, ViewSame DEF Finish
      <3> QED
        BY <3>1, <3>2
    <2>5. ASSUME NEW n \in Msg, NEW u \in User,
                 CheckPresence(n, u) \/ Push(n, u) \/ MarkRouted(n, u) \/ Queue(n, u)
          PROVE  [Serving(m)!Next]_(Serving(m)!vars)
      <3>1. CASE n = m
        BY <2>5, <3>1, RouteIsView
      <3>2. CASE n # m
        BY <2>5, <3>2, <2>a, ViewSame DEF CheckPresence, Push, MarkRouted, Queue, RouteTo
      <3> QED
        BY <3>1, <3>2
    <2>6. CASE \/ \E n \in Msg : CtxCancelled(n)
               \/ \E k \in Mark : CallMark(k) \/ MarkStep(k)
               \/ (\E s \in Stream : ConsumerStep(s)) \/ Signal \/ Exit \/ StartAgain
               \/ \E u \in Roaming : Connect(u) \/ Subscribe(u) \/ Disconnect(u) \/ PresenceExpires(u)
      BY <2>6, <2>1, ConsumersApart DEF CtxCancelled, MarkStep, CallMark, MarkUpsert, MarkPublish,
         Connect, Subscribe, Disconnect, PresenceExpires, sendVars
    <2>7. CASE UNCHANGED vars
      BY <2>7, <2>1 DEF vars
    <2> QED
      BY <2>2, <2>3, <2>4, <2>5, <2>6, <2>7 DEF Next, SendStep
  <1> QED
    BY Inductive, <1>1, PTL DEF Spec, ServesInAnyOrder

\* Both together: the abstraction of a message's fates and the one of a
\* call's recipients hold of the same steps.
THEOREM SendingRefines == Spec => SendRefines
  BY Refinement, ServedInAnyOrder DEF SendRefines
=============================================================================
