--------------------------- MODULE Services_proof ---------------------------
(***************************************************************************)
(* Proofs about the processes of the gateway and a service, for any number *)
(* of requests and of faults.                                              *)
(***************************************************************************)
EXTENDS Services, TLAPS

\* A process is a record of its fields.
ProcInv ==
    proc \in [Procs -> [st : {"down", "starting", "serving", "deaf", "draining"},
                        done : Nat, signal : BOOLEAN, stuck : BOOLEAN]]

\* A connection has a service at its other end, and a service that has calls
\* is past its start.
LifeInv ==
    /\ conn => proc["service"].st \in {"serving", "deaf"}
    /\ Running # {} => proc["service"].st \in {"serving", "deaf", "draining"}

\* An answer is given once the work is done, and once for each call.
AnswerInv ==
    \A c \in Request :
      /\ rpc[c] = "answering" => c \in effects
      /\ http[c] = "ok" => rpc[c] = "none"

IInv == TypeOK /\ ProcInv /\ LifeInv /\ AnswerInv /\ OkMeansDone /\ CutOnlyByCrash

\* What TypeOK says of everything but the processes.
RestOK ==
    /\ svc \in Names
    /\ schema \in {"pending", "applied", "dirty"}
    /\ conn \in BOOLEAN
    /\ http \in [Request -> {"idle", "asked", "ok", "error", "gone"}]
    /\ rpc \in [Request -> {"none", "handled", "answering"}]
    /\ effects \subseteq Request /\ over \subseteq Request /\ cut \subseteq Request
    /\ crashed \in BOOLEAN
    /\ faults \in 0..MaxFaults

\* No process is further than its list of needs.
DoneInv == \A p \in Procs : proc[p].done \in 0..Len(Needs(p))

LEMMA TypeParts == TypeOK /\ ProcInv <=> RestOK /\ ProcInv /\ DoneInv
  BY DEF TypeOK, RestOK, ProcInv, DoneInv

\* The lists of needs are finite, and do not change.
LEMMA NeedsFinite == \A p : Len(Needs(p)) \in Nat
  BY DEF Needs, GatewayNeeds, ChatNeeds, CallNeeds, PresenceNeeds, MediaNeeds, UserNeeds

LEMMA NeedsStay == svc' = svc => \A p : Needs(p)' = Needs(p)
  BY DEF Needs
-----------------------------------------------------------------------------
\* A process that exits leaves the invariant as it is, provided that a service
\* with calls exits by a crash only.
LEMMA ExitKeeps ==
    ASSUME IInv, NEW p \in Procs, Exit(p), UNCHANGED svc,
           schema' \in {"pending", "applied", "dirty"}, faults' \in 0..MaxFaults,
           crashed' \in BOOLEAN, crashed => crashed',
           p = "service" /\ Running # {} => crashed'
    PROVE  IInv'
  <1> USE DEF IInv
  <1>1. ProcInv' /\ DoneInv'
    <2>1. ProcInv /\ DoneInv
      BY TypeParts
    <2>2. \A q : Needs(q)' = Needs(q) /\ Len(Needs(q)) \in Nat
      BY NeedsStay, NeedsFinite
    <2>3. proc' = [proc EXCEPT ![p] = Down]
      BY DEF Exit
    <2>4. ProcInv'
      BY <2>1, <2>3 DEF ProcInv, Down
    <2>5. ASSUME NEW q \in Procs PROVE proc'[q].done \in 0..Len(Needs(q)')
      <3>1. CASE q = p
        BY <3>1, <2>1, <2>2, <2>3 DEF ProcInv, Down
      <3>2. CASE q # p
        <4>1. proc'[q] = proc[q]
          BY <3>2, <2>1, <2>3 DEF ProcInv
        <4>2. Len(Needs(q)') = Len(Needs(q))
          BY <2>2, Zenon
        <4> QED
          BY <4>1, <4>2, <2>1 DEF DoneInv
      <3> QED
        BY <3>1, <3>2
    <2> QED
      BY <2>4, <2>5 DEF DoneInv
  <1>2. RestOK'
    BY TypeParts DEF RestOK, Exit, Running, Waiting
  <1>3. LifeInv'
    BY TypeParts DEF LifeInv, Exit, Running, RestOK, ProcInv, Procs, Down
  <1>4. AnswerInv'
    BY TypeParts DEF AnswerInv, Exit, Running, Waiting, RestOK
  <1>5. OkMeansDone'
    BY TypeParts DEF OkMeansDone, JoinCall, Exit, Running, Waiting, RestOK
  <1>6. CutOnlyByCrash'
    BY DEF CutOnlyByCrash, Exit, Procs
  <1>7. TypeOK'
    BY <1>1, <1>2 DEF TypeOK, RestOK, DoneInv, ProcInv
  <1> QED
    BY <1>1, <1>3, <1>4, <1>5, <1>6, <1>7

\* Steps of a process in which it does not exit change nothing of the calls.
LEMMA LifeKeeps ==
    ASSUME IInv, NEW p \in Procs, NEW x \in [st : {"down", "starting", "serving", "deaf", "draining"},
                                             done : Nat, signal : BOOLEAN, stuck : BOOLEAN],
           proc' = [proc EXCEPT ![p] = x], x.done <= Len(Needs(p)),
           p = "service" /\ Running # {} => x.st \in {"serving", "deaf", "draining"},
           conn' \in BOOLEAN, conn' => conn, 
           p = "service" /\ conn' => x.st \in {"serving", "deaf"},
           schema' \in {"pending", "applied", "dirty"}, faults' \in 0..MaxFaults,
           UNCHANGED <<svc, http, rpc, effects, over, cut, crashed>>
    PROVE  IInv'
  <1> USE DEF IInv
  <1>1. ProcInv'
    BY DEF ProcInv
  <1>2. DoneInv'
    <2>1. DoneInv /\ ProcInv
      BY TypeParts
    <2>2. \A q : Needs(q)' = Needs(q) /\ Len(Needs(q)) \in Nat
      BY NeedsStay, NeedsFinite
    <2>5. ASSUME NEW q \in Procs PROVE proc'[q].done \in 0..Len(Needs(q)')
      <3>1. Len(Needs(q)') = Len(Needs(q)) /\ Len(Needs(q)) \in Nat
        BY <2>2, Zenon
      <3>2. CASE q = p
        BY <3>1, <3>2, <2>1 DEF ProcInv
      <3>3. CASE q # p
        BY <3>1, <3>3, <2>1 DEF ProcInv, DoneInv
      <3> QED
        BY <3>2, <3>3
    <2> QED
      BY <2>5 DEF DoneInv
  <1>3. RestOK'
    BY TypeParts DEF RestOK
  <1>4. LifeInv'
    BY DEF LifeInv, Running, ProcInv, Procs
  <1>5. AnswerInv' /\ OkMeansDone' /\ CutOnlyByCrash'
    BY DEF AnswerInv, OkMeansDone, JoinCall, CutOnlyByCrash
  <1>6. TypeOK'
    BY <1>1, <1>2, <1>3 DEF TypeOK, RestOK, DoneInv, ProcInv
  <1> QED
    BY <1>1, <1>4, <1>5, <1>6

\* Steps of requests and calls change nothing of the processes.
LEMMA CallKeeps ==
    ASSUME IInv, UNCHANGED <<svc, proc, schema, crashed, cut>>,
           RestOK', LifeInv', AnswerInv', OkMeansDone'
    PROVE  IInv'
  <1>1. ProcInv' /\ DoneInv'
    BY TypeParts, NeedsStay DEF IInv, ProcInv, DoneInv
  <1>2. CutOnlyByCrash'
    BY DEF IInv, CutOnlyByCrash
  <1>3. TypeOK'
    BY <1>1 DEF TypeOK, RestOK, DoneInv, ProcInv
  <1> QED
    BY <1>1, <1>2, <1>3 DEF IInv

LEMMA InitInv == Init => IInv
  <1> SUFFICES ASSUME Init PROVE IInv
    OBVIOUS
  <1>0. MaxFaults \in Nat
    BY ServicesAssumption
  <1>1. RestOK /\ ProcInv
    <2>1. RestOK
      <3>1. /\ http \in [Request -> {"idle", "asked", "ok", "error", "gone"}]
            /\ rpc \in [Request -> {"none", "handled", "answering"}]
        BY DEF Init
      <3>2. svc \in Names /\ schema \in {"pending", "applied", "dirty"}
        BY DEF Init
      <3>4. conn \in BOOLEAN /\ crashed \in BOOLEAN
        BY Zenon DEF Init
      <3>5. faults = 0
        BY DEF Init
      <3>6. faults \in 0..MaxFaults
        BY <3>5, <1>0
      <3>3. effects \subseteq Request /\ over \subseteq Request /\ cut \subseteq Request
        BY DEF Init
      <3> QED
        BY <3>1, <3>2, <3>3, <3>4, <3>6 DEF RestOK
    <2>2. ProcInv
      BY DEF Init, ProcInv, Down
    <2> QED
      BY <2>1, <2>2
  <1>2. DoneInv
    BY NeedsFinite DEF Init, DoneInv, Down
  <1>3. LifeInv /\ AnswerInv /\ OkMeansDone /\ CutOnlyByCrash
    BY DEF Init, LifeInv, Running, AnswerInv, OkMeansDone, CutOnlyByCrash
  <1> QED
    BY <1>1, <1>2, <1>3, TypeParts DEF IInv

\* The processes: each step is an exit or changes one record.
LEMMA ProcSteps ==
    ASSUME IInv, NEW p \in Procs,
           ProcStep(p) \/ GiveUp(p) \/ Signal(p) \/ ServeFails(p) \/ Crash(p)
           \/ Drained \/ HubBlocks \/ ShutDown
    PROVE  IInv'
  <1>0. /\ RestOK /\ ProcInv /\ DoneInv /\ LifeInv /\ CutOnlyByCrash
        /\ Len(Needs(p)) \in Nat
        /\ {"gateway", "service"} = Procs
    BY TypeParts, NeedsFinite DEF IInv, Procs
  <1> DEFINE Rec == [st : {"down", "starting", "serving", "deaf", "draining"},
                     done : Nat, signal : BOOLEAN, stuck : BOOLEAN]
  <1>1. proc[p] \in Rec /\ proc[p].done <= Len(Needs(p))
    BY <1>0 DEF ProcInv, DoneInv
  <1>2. CASE Launch(p)
    <2>1. proc[p].st = "down" /\ proc' = [proc EXCEPT ![p] = Starting]
          /\ UNCHANGED <<svc, schema, conn, http, rpc, effects, over, cut, crashed, faults>>
      BY <1>2 DEF Launch, Is
    <2>2. Starting \in Rec /\ Starting.done = 0
      BY DEF Starting
    <2>3. ~(p = "service" /\ (conn \/ Running # {}))
      BY <2>1, <1>0 DEF LifeInv
    <2>4. /\ conn' \in BOOLEAN /\ (conn' => conn)
          /\ schema' \in {"pending", "applied", "dirty"} /\ faults' \in 0..MaxFaults
          /\ 0 <= Len(Needs(p))
      BY <2>1, <1>0 DEF RestOK
    <2> DEFINE x == Starting
    <2>6. x \in Rec /\ proc' = [proc EXCEPT ![p] = x] /\ x.done <= Len(Needs(p))
      BY <2>1, <2>2, <2>4
    <2> HIDE DEF x
    <2> QED
      BY <2>1, <2>3, <2>4, <2>6, LifeKeeps
  <1>3. CASE Meet(p)
    <2> DEFINE x == [proc[p] EXCEPT !.done = @ + 1]
    <2>1. proc[p].st = "starting" /\ proc[p].done < Len(Needs(p))
      BY <1>3 DEF Meet, Asks, AsksFor, Is
    <2>2. proc' = [proc EXCEPT ![p] = x] /\ schema' \in {"applied", schema}
          /\ UNCHANGED <<svc, conn, http, rpc, effects, over, cut, crashed, faults>>
      BY <1>3 DEF Meet
    <2>3. x \in Rec /\ x.done <= Len(Needs(p)) /\ x.st = "starting"
      BY <1>0, <1>1, <2>1
    <2> HIDE DEF x
    <2> QED
      BY <2>1, <2>2, <2>3, <1>0, LifeKeeps DEF LifeInv, RestOK
  <1>4. CASE Refuse(p)
    <2>1. Exit(p) /\ UNCHANGED <<svc, schema, crashed, faults>>
      BY <1>4 DEF Refuse
    <2>2. proc[p].st = "starting"
      BY <1>4 DEF Refuse, Refused, AsksFor, Is
    <2>3. ~(p = "service" /\ Running # {})
      BY <2>2, <1>0 DEF LifeInv
    <2> QED
      BY <2>1, <2>3, <1>0, ExitKeeps DEF RestOK
  <1>5. CASE Serve(p)
    <2> DEFINE x == [proc[p] EXCEPT !.st = IF proc[p].signal THEN "draining" ELSE "serving"]
    <2>1. proc[p].st = "starting" /\ proc' = [proc EXCEPT ![p] = x]
          /\ UNCHANGED <<svc, schema, conn, http, rpc, effects, over, cut, crashed, faults>>
      BY <1>5 DEF Serve, Become, Is
    <2>2. x \in Rec /\ x.done = proc[p].done /\ x.st \in {"serving", "draining"}
      BY <1>1
    <2> HIDE DEF x
    <2> QED
      BY <2>1, <2>2, <1>0, <1>1, LifeKeeps DEF LifeInv, RestOK
  <1>6. CASE GiveUp(p)
    <2>1. Exit(p) /\ UNCHANGED <<svc, crashed>> /\ schema' \in {schema, "dirty"}
          /\ faults' \in 0..MaxFaults
      BY <1>6, <1>0, ServicesAssumption DEF GiveUp, Fault, RestOK
    <2>2. proc[p].st = "starting"
      BY <1>6 DEF GiveUp, Asks, AsksFor, Is
    <2>3. ~(p = "service" /\ Running # {})
      BY <2>2, <1>0 DEF LifeInv
    <2> QED
      BY <2>1, <2>3, <1>0, ExitKeeps DEF RestOK
  <1>7. CASE Signal(p)
    <2>1. UNCHANGED <<svc, schema, http, rpc, effects, over, cut, crashed>>
          /\ faults' \in 0..MaxFaults
      BY <1>7, <1>0, ServicesAssumption DEF Signal, Fault, RestOK
    <2>2. CASE p = "service" /\ Is(p, "starting") /\ UNCHANGED conn
               /\ proc' = [proc EXCEPT ![p].signal = TRUE]
      <3> DEFINE x == [proc[p] EXCEPT !.signal = TRUE]
      <3>1. x \in Rec /\ x.done = proc[p].done /\ x.st = proc[p].st
        BY <1>1
      <3>2. proc' = [proc EXCEPT ![p] = x]
        BY <2>2
      <3> HIDE DEF x
      <3> QED
        BY <2>1, <2>2, <3>1, <3>2, <1>0, <1>1, LifeKeeps DEF LifeInv, RestOK
    <2>3. CASE proc[p].st \in {"serving", "deaf"} /\ Become(p, "draining")
               /\ conn' = (conn /\ p = "gateway")
      <3> DEFINE x == [proc[p] EXCEPT !.st = "draining"]
      <3>1. x \in Rec /\ x.done = proc[p].done /\ x.st = "draining"
        BY <1>1
      <3>2. proc' = [proc EXCEPT ![p] = x]
        BY <2>3 DEF Become
      <3> HIDE DEF x
      <3> QED
        BY <2>1, <2>3, <3>1, <3>2, <1>0, <1>1, LifeKeeps DEF LifeInv, RestOK
    <2> QED
      BY <2>2, <2>3, <1>7 DEF Signal
  <1>8. CASE ServeFails(p)
    <2> DEFINE stops == p = "gateway" \/ svc \in StopsWithServer
               st == IF stops THEN "draining" ELSE "deaf"
    <2>1. /\ Become(p, st)
          /\ conn' = (conn /\ (p = "gateway" \/ ~stops))
          /\ UNCHANGED <<svc, schema, http, rpc, effects, over, cut, crashed>>
      BY <1>8 DEF ServeFails
    <2>4. faults' \in 0..MaxFaults
      BY <1>8, <1>0, ServicesAssumption DEF ServeFails, Fault, RestOK
    <2> DEFINE x == [proc[p] EXCEPT !.st = st]
    <2>2. x \in Rec /\ x.done = proc[p].done /\ x.st = st
      BY <1>1
    <2>3. proc' = [proc EXCEPT ![p] = x]
      BY <2>1 DEF Become
    <2>5. conn' \in BOOLEAN /\ (conn' => conn) /\ (p = "service" /\ conn' => x.st = "deaf")
      BY <2>1, <2>2, <1>0 DEF RestOK
    <2> HIDE DEF x, st, stops
    <2> QED
      BY <2>1, <2>2, <2>3, <2>4, <2>5, <1>0, <1>1, LifeKeeps DEF LifeInv, RestOK, x, st
  <1>9. CASE Crash(p)
    <2>1. Exit(p) /\ UNCHANGED svc /\ schema' \in {schema, "dirty"} /\ faults' \in 0..MaxFaults
          /\ crashed' = (crashed \/ (p = "service" /\ Running # {}))
      BY <1>9, <1>0, ServicesAssumption DEF Crash, Fault, RestOK
    <2> QED
      BY <2>1, <1>0, ExitKeeps DEF RestOK
  <1>10. CASE Drained
    <2>1. Exit("service") /\ Running = {} /\ UNCHANGED <<svc, schema, crashed, faults>>
      BY <1>10 DEF Drained
    <2> QED
      BY <2>1, <1>0, ExitKeeps DEF RestOK
  <1>11. CASE HubBlocks
    <2> DEFINE x == [proc["gateway"] EXCEPT !.stuck = TRUE]
    <2>1. proc' = [proc EXCEPT !["gateway"] = x]
          /\ UNCHANGED <<svc, schema, conn, http, rpc, effects, over, cut, crashed, faults>>
      BY <1>11 DEF HubBlocks
    <2>2. proc["gateway"] \in Rec /\ proc["gateway"].done \in 0..Len(Needs("gateway"))
          /\ Len(Needs("gateway")) \in Nat
      BY <1>0, NeedsFinite DEF ProcInv, DoneInv
    <2>3. x \in Rec /\ x.done <= Len(Needs("gateway"))
      <3>1. x.done = proc["gateway"].done /\ x \in Rec
        BY <2>2
      <3> QED
        BY <3>1, <2>2
    <2> HIDE DEF x
    <2> QED
      BY <2>1, <2>3, <1>0, LifeKeeps DEF RestOK
  <1>12. CASE ShutDown
    <2>1. Exit("gateway") /\ UNCHANGED <<svc, schema, crashed, faults>>
      BY <1>12 DEF ShutDown
    <2> QED
      BY <2>1, <1>0, ExitKeeps DEF RestOK
  <1> QED
    BY <1>2, <1>3, <1>4, <1>5, <1>6, <1>7, <1>8, <1>9, <1>10, <1>11, <1>12 DEF ProcStep

-----------------------------------------------------------------------------
\* Requests and calls.
LEMMA CallSteps ==
    ASSUME IInv, NEW c \in Request,
           Ask(c) \/ HangUp(c) \/ Forward(c) \/ CallStep(c) \/ EndCall(c)
    PROVE  IInv'
  <1>0. RestOK /\ ProcInv /\ LifeInv /\ AnswerInv /\ OkMeansDone
    BY TypeParts DEF IInv
  <1>1. ASSUME NEW S \in {"asked", "gone", "error"},
               http' = [http EXCEPT ![c] = S] \/ http' = http,
               UNCHANGED <<svc, proc, schema, conn, rpc, effects, over, cut, crashed, faults>>
        PROVE  IInv'
    <2>1. RestOK' /\ LifeInv'
      BY <1>0, <1>1 DEF RestOK, LifeInv, Running
    <2>2. AnswerInv' /\ OkMeansDone'
      BY <1>0, <1>1 DEF RestOK, AnswerInv, OkMeansDone, JoinCall
    <2> QED
      BY <1>1, <2>1, <2>2, CallKeeps
  <1>2. CASE Ask(c)
    BY <1>2, <1>1 DEF Ask
  <1>3. CASE HangUp(c)
    BY <1>3, <1>1 DEF HangUp
  <1>4. CASE Forward(c)
    <2>1. CASE conn /\ rpc' = [rpc EXCEPT ![c] = "handled"] /\ UNCHANGED http
      <3>1. http[c] = "asked" /\ UNCHANGED <<svc, proc, schema, conn, effects, over, cut, crashed, faults>>
        BY <1>4 DEF Forward, Waiting
      <3>2. RestOK'
        BY <1>0, <2>1, <3>1 DEF RestOK
      <3>3. LifeInv'
        BY <1>0, <2>1, <3>1 DEF LifeInv
      <3>4. AnswerInv' /\ OkMeansDone'
        BY <1>0, <2>1, <3>1 DEF RestOK, AnswerInv, OkMeansDone, JoinCall
      <3> QED
        BY <3>1, <3>2, <3>3, <3>4, CallKeeps
    <2>2. CASE http' = [http EXCEPT ![c] = "error"] /\ UNCHANGED rpc
      BY <1>4, <2>2, <1>1 DEF Forward
    <2> QED
      BY <1>4, <2>1, <2>2 DEF Forward
  <1>5. ASSUME NEW name, Handles(c, name) PROVE IInv'
    <2>1. /\ rpc[c] = "handled" /\ rpc' = [rpc EXCEPT ![c] = "answering"]
          /\ effects' = effects \cup {c}
          /\ UNCHANGED <<svc, proc, schema, conn, http, over, cut, crashed, faults>>
      BY <1>5 DEF Handles
    <2>2. RestOK'
      BY <1>0, <2>1 DEF RestOK
    <2>3. LifeInv'
      BY <1>0, <2>1 DEF RestOK, LifeInv, Running
    <2>4. AnswerInv' /\ OkMeansDone'
      BY <1>0, <2>1 DEF RestOK, AnswerInv, OkMeansDone, JoinCall
    <2> QED
      BY <2>1, <2>2, <2>3, <2>4, CallKeeps
  <1>6. CASE HandleFails(c) \/ Reply(c)
    <2>1. /\ rpc[c] # "none" /\ rpc' = [rpc EXCEPT ![c] = "none"]
          /\ \/ http' = http
             \/ http' = [http EXCEPT ![c] = "error"]
             \/ http' = [http EXCEPT ![c] = "ok"] /\ rpc[c] = "answering"
          /\ UNCHANGED <<svc, proc, schema, conn, effects, over, cut, crashed, faults>>
      BY <1>6 DEF HandleFails, Reply
    <2>2. RestOK'
      BY <1>0, <2>1 DEF RestOK
    <2>3. LifeInv'
      BY <1>0, <2>1 DEF RestOK, LifeInv, Running
    <2>4. AnswerInv'
      BY <1>0, <2>1 DEF RestOK, AnswerInv
    <2>5. OkMeansDone'
      BY <1>0, <2>1 DEF RestOK, AnswerInv, OkMeansDone, JoinCall
    <2> QED
      BY <2>1, <2>2, <2>3, <2>4, <2>5, CallKeeps
  <1>7. CASE EndCall(c)
    <2>1. /\ svc = "call" /\ http[c] = "ok"
          /\ effects' = effects \ {c} /\ over' = over \cup {c}
          /\ UNCHANGED <<svc, proc, schema, conn, http, rpc, cut, crashed, faults>>
      BY <1>7 DEF EndCall
    <2>2. RestOK' /\ LifeInv'
      BY <1>0, <2>1 DEF RestOK, LifeInv, Running
    <2>3. AnswerInv' /\ OkMeansDone'
      BY <1>0, <2>1 DEF RestOK, AnswerInv, OkMeansDone, JoinCall
    <2> QED
      BY <2>1, <2>2, <2>3, CallKeeps
  <1>10. CASE CallStep(c)
    BY <1>10, <1>5, <1>6
    DEF CallStep, SendMessage, InitiateCall, PresignUpload, GetPresence, GetUser
  <1> QED
    BY <1>2, <1>3, <1>4, <1>7, <1>10

\* The channel between them connects or breaks.
LEMMA LinkSteps ==
    ASSUME IInv, Connect \/ Disconnect
    PROVE  IInv'
  <1>0. RestOK /\ ProcInv /\ LifeInv /\ AnswerInv /\ OkMeansDone
    BY TypeParts DEF IInv
  <1>1. CASE Connect
    <2>1. /\ proc["service"].st = "serving"
          /\ conn' = TRUE
          /\ UNCHANGED <<svc, proc, schema, http, rpc, effects, over, cut, crashed, faults>>
      BY <1>1 DEF Connect, Is
    <2>2. RestOK'
      <3>1. conn' \in BOOLEAN
        BY <2>1, Zenon
      <3> QED
        BY <1>0, <2>1, <3>1 DEF RestOK
    <2>3. LifeInv'
      BY <1>0, <2>1 DEF LifeInv, Running
    <2>4. AnswerInv' /\ OkMeansDone'
      BY <1>0, <2>1 DEF AnswerInv, OkMeansDone, JoinCall
    <2> QED
      BY <2>1, <2>2, <2>3, <2>4, CallKeeps
  <1>2. CASE Disconnect
    <2>1. /\ conn' = FALSE
          /\ http' = [d \in Request |-> IF d \in Waiting \cap Running THEN "error" ELSE http[d]]
          /\ UNCHANGED <<svc, proc, schema, rpc, effects, over, cut, crashed>>
          /\ faults < MaxFaults /\ faults' = faults + 1
      BY <1>2 DEF Disconnect, Fault
    <2>2. RestOK'
      <3>1. conn' \in BOOLEAN
        BY <2>1, Zenon
      <3>2. faults' \in 0..MaxFaults
        BY <1>0, <2>1, ServicesAssumption DEF RestOK
      <3>3. http' \in [Request -> {"idle", "asked", "ok", "error", "gone"}]
        BY <1>0, <2>1 DEF RestOK
      <3> QED
        BY <1>0, <2>1, <3>1, <3>2, <3>3 DEF RestOK
    <2>3. LifeInv'
      BY <1>0, <2>1 DEF LifeInv, Running
    <2>4. AnswerInv' /\ OkMeansDone'
      BY <1>0, <2>1 DEF AnswerInv, OkMeansDone, JoinCall
    <2> QED
      BY <2>1, <2>2, <2>3, <2>4, CallKeeps
  <1> QED
    BY <1>1, <1>2

\* Each step keeps the invariant.
LEMMA StepInv == IInv /\ [Next]_vars => IInv'
  <1> SUFFICES ASSUME IInv, [Next]_vars PROVE IInv'
    OBVIOUS
  <1>1. CASE \E p \in Procs : ProcStep(p) \/ GiveUp(p) \/ Signal(p) \/ ServeFails(p) \/ Crash(p)
    BY <1>1, ProcSteps
  <1>2. CASE Drained \/ HubBlocks \/ ShutDown
    <2>1. "gateway" \in Procs
      BY DEF Procs
    <2> QED
      BY <1>2, <2>1, ProcSteps
  <1>3. CASE \E c \in Request : Ask(c) \/ HangUp(c) \/ Forward(c) \/ CallStep(c) \/ EndCall(c)
    BY <1>3, CallSteps
  <1>4. CASE Connect \/ Disconnect
    BY <1>4, LinkSteps
  <1>5. CASE UNCHANGED vars
    <2>1. RestOK' /\ LifeInv' /\ AnswerInv' /\ OkMeansDone'
      BY <1>5, TypeParts
      DEF vars, IInv, RestOK, LifeInv, Running, AnswerInv, OkMeansDone, JoinCall
    <2> QED
      BY <1>5, <2>1, CallKeeps DEF vars
  <1> QED
    BY <1>1, <1>2, <1>3, <1>4, <1>5 DEF Next

-----------------------------------------------------------------------------
\* The strengthened invariant holds whatever is stopped, killed, restarted or
\* disconnected.
THEOREM Inductive == Spec => []IInv
  BY InitInv, StepInv, PTL DEF Spec

\* States are what they should be, and a client that was answered a success
\* has its row, or can join its call until it ends or call-service restarts.
THEOREM AnswersAreTrue == Spec => []Inv
  <1>1. IInv => Inv
    BY DEF IInv, Inv
  <1> QED
    BY <1>1, Inductive, PTL

\* No stop on a signal and no failing server cuts off a handler: GracefulStop
\* waits for what was accepted.
THEOREM StopsAreOrderly == Spec => []CutOnlyByCrash
  <1>1. IInv => CutOnlyByCrash
    BY DEF IInv
  <1> QED
    BY <1>1, Inductive, PTL
=============================================================================
