-------------------------- MODULE GroupAdmin_proof --------------------------
(***************************************************************************)
(* Proofs about the group handlers for any users, any number of requests   *)
(* that overlap and any size of the connection pool.                       *)
(***************************************************************************)
EXTENDS GroupAdmin, FiniteSetTheorems, TLAPS

\* The handlers that take each step.
KindsAt(step) ==
    CASE step = "caller"               -> {"promote", "demote", "remove", "add", "reset", "update", "code"}
      [] step = "invite"               -> {"join"}
      [] step \in {"target", "count"}  -> Taking
      [] step = "write"                -> {"promote", "demote", "remove", "add", "join"}
      [] step = "member"               -> {"leave", "get"}
      [] step = "touch"                -> {"update", "reset"}
      [] step = "group"                -> {"get", "code"}
      [] step = "rows"                 -> {"list"}
      [] OTHER                         -> {"leave"}

\* A request is at a step of its handler.  One that changes a single row
\* names one user, the caller when it leaves.
RequestOK(r) ==
    /\ Active(r) => req[r].kind \in KindsAt(req[r].pc)
    /\ Active(r) /\ req[r].pc \notin LastSteps =>
         /\ req[r].kind \in {"promote", "demote", "remove"} => \E v \in User : req[r].who = {v}
         /\ req[r].kind = "leave" => req[r].by \in User /\ req[r].who = {req[r].by}

\* A transaction has written what its handler has come past.
TxOK(r) ==
    /\ tx[r].promoted # {} => req[r].pc \in {"delete", "empty", "drop", "commit"}
    /\ tx[r].gone # {} => req[r].pc \in {"empty", "drop", "commit"}
    /\ tx[r].drop => req[r].pc \in {"drop", "commit"}

\* No row is locked twice.
Exclusive == \A r, s \in Req, u \in User : r # s => ~(Locks(r, u) /\ Locks(s, u))

\* Before the group is created there is nothing.
Unborn ==
    invite = 0 => role = [u \in User |-> "none"] /\ ~exists /\ \A r \in Req : req[r] = Idle

\* What the checks of a request that is not disturbed have found still holds:
\* who takes an admin away leaves another, or nobody is left; who adds a
\* member finds a group; and who leaves, leaves an admin, an heir or nobody
\* behind, and drops the group if nobody.
Leaving == {"begin", "target", "count", "pick", "succeed", "delete", "empty", "drop", "commit"}

Checked(r) ==
    /\ At(r, "write") /\ req[r].kind \in {"demote", "remove"} =>
         Members = {} \/ Admins \ req[r].who # {}
    /\ At(r, "write") /\ req[r].kind \in {"add", "join"} => Members # {}
    /\ req[r].pc \in Leaving /\ req[r].kind = "leave" =>
         /\ req[r].by \in Members
         /\ At(r, "succeed") => req[r].heir \in Members \ {req[r].by}
         /\ req[r].pc \in {"delete", "empty", "drop", "commit"} =>
              \/ Admins \ {req[r].by} # {}
              \/ Members = {req[r].by}
              \/ tx[r].promoted # {} /\ tx[r].promoted \subseteq Members \ {req[r].by}
         /\ req[r].pc \in {"empty", "drop", "commit"} => tx[r].gone = {req[r].by}
         /\ req[r].pc \in {"drop", "commit"} => (tx[r].drop <=> Members = {req[r].by})

Apart == \A r, s \in Req : r # s /\ Active(r) /\ Active(s) => ~Disturb(req[r].kind, req[s].kind)

Undisturbed == disturbed \/ (Consistent /\ Apart /\ \A r \in Req : Checked(r))

IInv ==
    /\ TypeOK
    /\ \A r \in Req : RequestOK(r) /\ TxOK(r)
    /\ Exclusive
    /\ TxRowsUntouched
    /\ Unborn
    /\ Undisturbed

-----------------------------------------------------------------------------
(* How a request moves *)

ReqState ==
    Request \cup [kind : Kinds \cup {"update", "list"}, pc : LastSteps] \cup {Idle, Answered}

\* A request under way has a kind, and all its fields until its last steps.
LEMMA StateOf ==
    ASSUME NEW q \in ReqState, q.pc \in Steps
    PROVE  /\ q.kind \in Kinds \cup {"update", "list"}
           /\ q.pc \notin LastSteps => q \in Request
  <1>1. q \notin {Idle, Answered}
    BY DEF Idle, Answered, Steps
  <1>2. CASE q \in Request
    BY <1>2 DEF Request
  <1>3. CASE q \in [kind : Kinds \cup {"update", "list"}, pc : LastSteps]
    BY <1>3
  <1> QED
    BY <1>1, <1>2, <1>3 DEF ReqState

\* On to a step that is not one of the last, a request loses only its caller,
\* and not if it leaves.
LEMMA GotoStep ==
    ASSUME req \in [Req -> ReqState], NEW r \in Req, req[r] \in Request,
           NEW step \in Steps \ LastSteps, Goto(r, step)
    PROVE  /\ req' \in [Req -> ReqState]
           /\ \A s \in Req \ {r} : req'[s] = req[s]
           /\ req'[r] \in Request /\ req'[r].pc = step
           /\ req'[r].kind = req[r].kind /\ req'[r].who = req[r].who
           /\ req'[r].code = req[r].code /\ req'[r].heir = req[r].heir
           /\ req[r].kind = "leave" => req'[r].by = req[r].by
  <1> DEFINE q == [req[r] EXCEPT !.pc = step, !.by = Caller(r)]
  <1>1. req' = [req EXCEPT ![r] = q]
    BY DEF Goto
  <1>2. req[r].by \in User \cup {Nobody}
    BY DEF Request
  <1>3. Caller(r) \in User \cup {Nobody} /\ (req[r].kind = "leave" => Caller(r) = req[r].by)
    BY <1>2 DEF Caller
  <1>4. /\ q \in Request /\ q.pc = step /\ q.by = Caller(r) /\ q.kind = req[r].kind
        /\ q.who = req[r].who /\ q.code = req[r].code /\ q.heir = req[r].heir
    BY <1>3 DEF Request
  <1> HIDE DEF q
  <1> QED
    BY <1>1, <1>3, <1>4 DEF ReqState

\* On to its last steps it keeps no more than its kind.
LEMMA GotoLast ==
    ASSUME req \in [Req -> ReqState], NEW r \in Req, req[r].kind \in Kinds \cup {"update", "list"},
           NEW step \in LastSteps, Goto(r, step)
    PROVE  /\ req' \in [Req -> ReqState]
           /\ \A s \in Req \ {r} : req'[s] = req[s]
           /\ req'[r].pc = step
           /\ req'[r].kind = Last(req[r].kind, step).kind
  <1> DEFINE q == Last(req[r].kind, step)
  <1>1. req' = [req EXCEPT ![r] = q]
    BY DEF Goto
  <1>2. q \in [kind : Kinds \cup {"update", "list"}, pc : LastSteps] /\ q.pc = step
    BY DEF Last, LastSteps
  <1> HIDE DEF q
  <1> QED
    BY <1>1, <1>2 DEF ReqState, q

LEMMA AnswerMoves ==
    ASSUME req \in [Req -> ReqState], NEW r \in Req, Answer(r)
    PROVE  /\ req' \in [Req -> ReqState]
           /\ \A s \in Req \ {r} : req'[s] = req[s]
           /\ req'[r].pc = "answered"
  BY DEF Answer, Answered, ReqState

\* A request's step is good if no other request moves, and it arrives at a
\* step of its own handler.
Good(r) ==
    /\ req' \in [Req -> ReqState]
    /\ \A s \in Req \ {r} : req'[s] = req[s]
    /\ RequestOK(r)'
    /\ Active(r)' => req'[r].kind \in {req[r].kind, "update", "list"}

Fits(kind, step) ==
    IF step \in LastSteps THEN Last(kind, step).kind \in KindsAt(step) ELSE kind \in KindsAt(step)

LEMMA GoodAnswer ==
    ASSUME req \in [Req -> ReqState], NEW r \in Req, Answer(r)
    PROVE  Good(r)
  <1>1. ~Active(r)'
    BY AnswerMoves DEF Active, Steps
  <1> QED
    BY <1>1, AnswerMoves DEF Good, RequestOK

LEMMA GoodGoto ==
    ASSUME req \in [Req -> ReqState], NEW r \in Req, RequestOK(r), Active(r),
           NEW step \in Steps, Fits(req[r].kind, step),
           step \notin LastSteps => req[r].pc \notin LastSteps, Goto(r, step)
    PROVE  Good(r)
  <1>1. /\ req[r].kind \in Kinds \cup {"update", "list"}
        /\ req[r].pc \notin LastSteps => req[r] \in Request
    BY StateOf DEF Active
  <1>2. CASE step \in LastSteps
    <2>1. /\ req' \in [Req -> ReqState] /\ \A s \in Req \ {r} : req'[s] = req[s]
          /\ req'[r].pc = step /\ req'[r].kind = Last(req[r].kind, step).kind
      BY <1>1, <1>2, GotoLast
    <2>2. req'[r].kind \in KindsAt(step)
      BY <1>2, <2>1 DEF Fits
    <2>3. req'[r].kind \in {req[r].kind, "update", "list"}
      BY <2>1 DEF Last
    <2>4. RequestOK(r)'
      BY <1>2, <2>1, <2>2 DEF RequestOK
    <2> QED
      BY <2>1, <2>3, <2>4 DEF Good
  <1>3. CASE step \notin LastSteps
    <2>1. /\ req' \in [Req -> ReqState] /\ \A s \in Req \ {r} : req'[s] = req[s]
          /\ req'[r].pc = step /\ req'[r].kind = req[r].kind /\ req'[r].who = req[r].who
          /\ req[r].kind = "leave" => req'[r].by = req[r].by
      BY <1>1, <1>3, GotoStep
    <2>2. RequestOK(r)'
      BY <1>3, <2>1 DEF RequestOK, Fits
    <2> QED
      BY <2>1, <2>2 DEF Good
  <1> QED
    BY <1>2, <1>3

LEMMA GoodCheck ==
    ASSUME req \in [Req -> ReqState], NEW r \in Req, RequestOK(r), Active(r), NEW ok,
           NEW step \in Steps, Fits(req[r].kind, step),
           step \notin LastSteps => req[r].pc \notin LastSteps, Check(r, ok, step)
    PROVE  Good(r)
  BY GoodAnswer, GoodGoto DEF Check

\* Every step of every handler is good.
LEMMA HandlersMove ==
    ASSUME TypeOK, NEW r \in Req, RequestOK(r), Step(r) \/ Abort(r)
    PROVE  Good(r)
  <1>a. req \in [Req -> ReqState]
    BY DEF TypeOK, ReqState
  <1>b. /\ Active(r) => req[r].kind \in KindsAt(req[r].pc)
        /\ Active(r) /\ req[r].pc \notin LastSteps => req[r] \in Request
    BY <1>a, StateOf DEF RequestOK, Active
  <1> USE DEF Steps, LastSteps, Active, At, KindsAt
  <1>1. CASE CheckCaller(r)
    <2>1. /\ req[r].pc = "caller"
          /\ req[r].kind \in {"promote", "demote", "remove", "add", "reset", "update", "code"}
      BY <1>1, <1>b DEF CheckCaller
    <2>2. CASE req[r].kind \in {"demote", "remove"}
      BY <1>1, <1>a, <2>1, <2>2, GoodCheck DEF CheckCaller, Fits, Taking
    <2>3. CASE req[r].kind \in {"reset", "update"}
      BY <1>1, <1>a, <2>1, <2>3, GoodCheck DEF CheckCaller, Fits, Last
    <2>4. CASE req[r].kind = "code"
      BY <1>1, <1>a, <2>1, <2>4, GoodCheck DEF CheckCaller, Fits, Last
    <2>5. CASE req[r].kind \in {"promote", "add"}
      BY <1>1, <1>a, <2>1, <2>5, GoodCheck DEF CheckCaller, Fits
    <2> QED
      BY <2>1, <2>2, <2>3, <2>4, <2>5
  <1>2. ASSUME NEW err \in BOOLEAN, CheckTarget(r, err) PROVE Good(r)
    <2>1. req[r].pc = "target" /\ req[r].kind \in Taking
      BY <1>2, <1>b DEF CheckTarget
    <2>2. CASE req[r].kind = "demote"
      BY <1>2, <1>a, <2>1, <2>2, GoodCheck DEF CheckTarget, Fits, Taking
    <2>3. CASE req[r].kind = "remove"
      <3>1. PICK step \in {"count", "write"} : Goto(r, step)
        BY <1>2, <2>1, <2>3 DEF CheckTarget
      <3> QED
        BY <1>a, <2>1, <2>3, <3>1, GoodGoto DEF Fits, Taking
    <2>4. CASE req[r].kind = "leave"
      <3>1. PICK step \in {"count", "delete"} : Goto(r, step)
        BY <1>2, <2>1, <2>4 DEF CheckTarget
      <3> QED
        BY <1>a, <2>1, <2>4, <3>1, GoodGoto DEF Fits, Taking
    <2> QED
      BY <2>1, <2>2, <2>3, <2>4 DEF Taking
  <1>3. ASSUME NEW err \in BOOLEAN, CheckCount(r, err) PROVE Good(r)
    <2>1. req[r].pc = "count" /\ req[r].kind \in Taking
      BY <1>3, <1>b DEF CheckCount
    <2>2. CASE req[r].kind = "leave"
      <3>1. PICK step \in {"pick", "delete"} : Goto(r, step)
        BY <1>3, <2>1, <2>2 DEF CheckCount
      <3> QED
        BY <1>a, <2>1, <2>2, <3>1, GoodGoto DEF Fits
    <2>3. CASE req[r].kind # "leave"
      BY <1>3, <1>a, <2>1, <2>3, GoodCheck DEF CheckCount, Fits, Taking
    <2> QED
      BY <2>2, <2>3
  <1>4. CASE CheckInvite(r)
    <2>1. req[r].pc = "invite" /\ req[r].kind = "join"
      BY <1>4, <1>b DEF CheckInvite
    <2> QED
      BY <1>4, <1>a, <2>1, GoodCheck DEF CheckInvite, Fits
  <1>5. ASSUME NEW u \in User, WriteRow(r, u) PROVE Good(r)
    <2>1. /\ req[r].pc = "write" /\ req[r].kind \in {"promote", "demote", "remove", "add", "join"}
          /\ req[r] \in Request
      BY <1>5, <1>b DEF WriteRow
    <2>2. CASE req[r].who = {u}
      BY <1>5, <1>a, <2>1, <2>2, GoodGoto DEF WriteRow, Fits, Last
    <2>3. CASE req[r].who # {u}
      <3> DEFINE q == [req[r] EXCEPT !.who = @ \ {u}]
      <3>1. req' = [req EXCEPT ![r] = q]
        BY <1>5, <2>3 DEF WriteRow
      <3>2. q \in Request /\ q.pc = "write" /\ q.kind = req[r].kind
        BY <2>1 DEF Request
      <3>3. q.kind \notin {"promote", "demote", "remove", "leave"}
        BY <1>5, <2>1, <2>3, <3>2 DEF RequestOK, WriteRow
      <3> HIDE DEF q
      <3> QED
        BY <1>a, <2>1, <3>1, <3>2, <3>3 DEF Good, ReqState, RequestOK
    <2> QED
      BY <2>2, <2>3
  <1>6. CASE AddNobody(r)
    <2>1. req[r].pc = "write" /\ req[r].kind \in {"promote", "demote", "remove", "add", "join"}
      BY <1>6, <1>b DEF AddNobody
    <2> QED
      BY <1>6, <1>a, <2>1, GoodGoto DEF AddNobody, Fits, Last
  <1>7. CASE UpdateGroup(r) \/ ReadRows(r) \/ Commit(r) \/ Abort(r)
    BY <1>7, <1>a, GoodAnswer DEF UpdateGroup, ReadRows, Commit, Abort, End
  <1>8. CASE ReadGroup(r)
    <2>1. req[r].pc = "group" /\ req[r].kind \in {"get", "code"}
      BY <1>8, <1>b DEF ReadGroup
    <2> QED
      BY <1>8, <1>a, <2>1, GoodCheck DEF ReadGroup, Fits, Last
  <1>9. CASE CheckMember(r)
    <2>1. req[r].pc = "member" /\ req[r].kind \in {"leave", "get"}
      BY <1>9, <1>b DEF CheckMember
    <2>2. CASE req[r].kind = "get"
      BY <1>9, <1>a, <2>1, <2>2, GoodCheck DEF CheckMember, Fits, Last
    <2>3. CASE req[r].kind = "leave"
      BY <1>9, <1>a, <2>1, <2>3, GoodCheck DEF CheckMember, Fits
    <2> QED
      BY <2>1, <2>2, <2>3
  <1>10. CASE PickHeir(r)
    <2>1. req[r].pc = "pick" /\ req[r].kind = "leave" /\ req[r] \in Request
      BY <1>10, <1>b DEF PickHeir
    <2>2. CASE Goto(r, "delete")
      BY <1>a, <2>1, <2>2, GoodGoto DEF Fits
    <2>3. ASSUME NEW h \in Members, req' = [req EXCEPT ![r].heir = h, ![r].pc = "succeed"]
          PROVE  Good(r)
      <3> DEFINE q == [req[r] EXCEPT !.heir = h, !.pc = "succeed"]
      <3>1. req' = [req EXCEPT ![r] = q]
        BY <1>a, <2>3
      <3>2. /\ q \in Request /\ q.pc = "succeed" /\ q.kind = "leave"
            /\ q.who = req[r].who /\ q.by = req[r].by
        BY <2>1 DEF Request, Members
      <3> HIDE DEF q
      <3> QED
        BY <1>a, <2>1, <3>1, <3>2 DEF Good, ReqState, RequestOK
    <2> QED
      BY <1>10, <2>2, <2>3 DEF PickHeir
  <1>11. CASE Begin(r) \/ PromoteHeir(r) \/ DeleteSelf(r) \/ CheckEmpty(r) \/ WriteGroup(r)
    <2>1. PICK step \in {"target", "delete", "empty", "drop", "commit"} : Goto(r, step)
      BY <1>11 DEF Begin, PromoteHeir, DeleteSelf, CheckEmpty, WriteGroup
    <2>2. req[r].pc \in {"begin", "succeed", "delete", "empty", "drop"} /\ req[r].kind = "leave"
      BY <1>11, <1>b DEF Begin, PromoteHeir, DeleteSelf, CheckEmpty, WriteGroup
    <2> QED
      BY <1>a, <2>1, <2>2, GoodGoto DEF Fits, Taking
  <1> QED
    BY <1>1, <1>2, <1>3, <1>4, <1>5, <1>6, <1>7, <1>8, <1>9, <1>10, <1>11 DEF Step

\* A new request is at the first step of its handler; no other moves.
LEMMA ArrivalMoves ==
    ASSUME TypeOK, NEW r \in Req, NEW kind \in Kinds, NEW u \in User, Arrive(r, kind, u)
    PROVE  /\ req' \in [Req -> ReqState]
           /\ \A s \in Req \ {r} : req'[s] = req[s]
           /\ RequestOK(r)'
           /\ Active(r)' => req'[r].kind \in {kind, "list"}
           /\ req'[r].pc \in {"caller", "invite", "member", "rows"}
  <1>a. req \in [Req -> ReqState]
    BY DEF TypeOK, ReqState
  <1>b. kind \in {"promote", "demote", "remove", "add", "join", "reset", "leave",
                  "update", "code", "get", "list", "lookup"}
    BY GroupAssumption
  <1> PICK who \in Named(kind, u), code \in Codes(kind) :
        req' = [req EXCEPT ![r] =
                  IF kind \in ReadsAtOnce THEN Last(kind, "rows")
                  ELSE [kind |-> kind, by |-> u, who |-> who, code |-> code,
                        pc |-> FirstStep(kind), heir |-> Nobody]]
    BY DEF Arrive
  <1>1. CASE kind \in ReadsAtOnce
    <2>1. Last(kind, "rows") = [kind |-> "list", pc |-> "rows"]
      BY DEF Last
    <2>2. req' = [req EXCEPT ![r] = [kind |-> "list", pc |-> "rows"]]
      BY <1>1, <2>1
    <2>3. [kind |-> "list", pc |-> "rows"] \in ReqState
      BY DEF ReqState, LastSteps
    <2> QED
      BY <1>a, <2>2, <2>3 DEF RequestOK, Active, KindsAt, LastSteps
  <1>2. CASE kind \notin ReadsAtOnce
    <2> DEFINE q == [kind |-> kind, by |-> u, who |-> who, code |-> code,
                     pc |-> FirstStep(kind), heir |-> Nobody]
    <2>1. who \in SUBSET User
      BY DEF Named
    <2>2. code \in Nat
      BY DEF Codes, TypeOK
    <2>3. FirstStep(kind) \in {"caller", "invite", "member"} /\ kind \in KindsAt(FirstStep(kind))
      BY <1>b, <1>2 DEF FirstStep, KindsAt, ReadsAtOnce
    <2>4. /\ kind \in {"promote", "demote", "remove"} => \E v \in User : who = {v}
          /\ kind = "leave" => who = {u}
      BY DEF Named
    <2>5. /\ q \in Request /\ q.pc = FirstStep(kind) /\ q.kind = kind /\ q.who = who /\ q.by = u
      BY <2>1, <2>2, <2>3 DEF Request, Steps
    <2>6. req' = [req EXCEPT ![r] = q]
      BY <1>2
    <2> HIDE DEF q
    <2> QED
      BY <1>a, <2>3, <2>4, <2>5, <2>6 DEF ReqState, RequestOK
  <1> QED
    BY <1>1, <1>2

-----------------------------------------------------------------------------
(* Types, requests and transactions *)

\* Initially there is no group and nobody asked for one.
LEMMA InitIInv == Init => IInv
  <1> SUFFICES ASSUME Init PROVE IInv
    OBVIOUS
  <1> USE DEF Init
  <1>1. TypeOK
    BY DEF TypeOK, NoTx
  <1>2. \A r \in Req : ~Active(r) /\ req[r].pc = "idle" /\ tx[r] = NoTx
    BY DEF Active, Steps, Idle
  <1>3. \A r \in Req : RequestOK(r) /\ TxOK(r) /\ Checked(r)
    BY <1>2 DEF RequestOK, TxOK, Checked, NoTx, At, Leaving
  <1>4. Exclusive /\ TxRowsUntouched /\ Unborn
    BY <1>2 DEF Exclusive, TxRowsUntouched, Unborn, Locks, NoTx
  <1>5. Members = {} /\ Admins = {}
    BY DEF Members, Admins
  <1>6. Consistent /\ Apart
    BY <1>2, <1>5 DEF Consistent, HasAdmin, Apart
  <1> QED
    BY <1>1, <1>3, <1>4, <1>6 DEF IInv, Undisturbed

\* What a request on its way to another step of its handler keeps.
LEMMA GotoKeeps ==
    ASSUME TypeOK, NEW r \in Req, Active(r), req[r].pc \notin LastSteps,
           NEW step \in Steps \ LastSteps, Goto(r, step)
    PROVE  /\ req'[r].pc = step /\ req'[r].kind = req[r].kind /\ req'[r].who = req[r].who
           /\ req'[r].heir = req[r].heir
           /\ req[r].kind = "leave" => req'[r].by = req[r].by
  <1>1. req \in [Req -> ReqState]
    BY DEF TypeOK, ReqState
  <1>2. req[r] \in Request
    BY <1>1, StateOf DEF Active
  <1> QED
    BY <1>1, <1>2, GotoStep

\* Transactions as they change: each statement of leaveGroup writes its part.
LEMMA TxMoves ==
    ASSUME TypeOK, NEW r \in Req, RequestOK(r), TxOK(r), Step(r) \/ Abort(r)
    PROVE  /\ tx' \in [Req -> [promoted : SUBSET User, gone : SUBSET User, drop : BOOLEAN]]
           /\ \A s \in Req \ {r} : tx'[s] = tx[s]
           /\ TxOK(r)'
           /\ tx'[r].gone \cup tx'[r].promoted \subseteq Members \cup tx[r].gone \cup tx[r].promoted
           /\ \A u \in User : Locks(r, u)' /\ ~Locks(r, u) => ~Locked(u, r)
  <1>a. tx \in [Req -> [promoted : SUBSET User, gone : SUBSET User, drop : BOOLEAN]]
    BY DEF TypeOK
  <1>b. ASSUME tx' = tx, TxOK(r)'
        PROVE  /\ tx' \in [Req -> [promoted : SUBSET User, gone : SUBSET User, drop : BOOLEAN]]
               /\ \A s \in Req \ {r} : tx'[s] = tx[s]
               /\ TxOK(r)'
               /\ tx'[r].gone \cup tx'[r].promoted \subseteq Members \cup tx[r].gone \cup tx[r].promoted
               /\ \A u \in User : Locks(r, u)' /\ ~Locks(r, u) => ~Locked(u, r)
    BY <1>a, <1>b DEF Locks
  <1>c. req[r].pc \notin {"delete", "empty", "drop", "commit"} =>
          tx[r].promoted = {} /\ tx[r].gone = {} /\ ~tx[r].drop
    BY DEF TxOK
  <1>1. CASE /\ tx' = tx /\ req[r].pc \notin {"delete", "empty", "drop", "commit"}
    BY <1>1, <1>b, <1>c DEF TxOK
  <1>2. CASE \/ CheckCaller(r) \/ CheckInvite(r) \/ AddNobody(r) \/ UpdateGroup(r) \/ ReadGroup(r)
             \/ ReadRows(r) \/ CheckMember(r) \/ PickHeir(r) \/ Begin(r)
    BY <1>1, <1>2 DEF CheckCaller, CheckInvite, AddNobody, UpdateGroup, ReadGroup, ReadRows,
          CheckMember, PickHeir, Begin, At
  <1>3. ASSUME NEW err \in BOOLEAN, CheckTarget(r, err) \/ CheckCount(r, err)
        PROVE  tx' = tx /\ req[r].pc \notin {"delete", "empty", "drop", "commit"}
    BY <1>3 DEF CheckTarget, CheckCount, At
  <1>4. ASSUME NEW u \in User, WriteRow(r, u)
        PROVE  tx' = tx /\ req[r].pc \notin {"delete", "empty", "drop", "commit"}
    BY <1>4 DEF WriteRow, At
  <1>5. CASE WriteGroup(r)
    <2>1. tx' = tx /\ req[r].pc = "drop" /\ Goto(r, "commit")
      BY <1>5 DEF WriteGroup, At
    <2>2. req'[r].pc = "commit"
      BY <2>1, GotoKeeps DEF Active, Steps, LastSteps
    <2> QED
      BY <1>b, <2>1, <2>2 DEF TxOK
  <1>6. CASE PromoteHeir(r)
    <2>1. /\ req[r].pc = "succeed" /\ Goto(r, "delete") /\ ~Locked(req[r].heir, r)
          /\ tx' = [tx EXCEPT ![r] = [tx[r] EXCEPT !.promoted = {req[r].heir} \cap Members]]
      BY <1>6 DEF PromoteHeir, At
    <2>2. req'[r].pc = "delete"
      BY <2>1, GotoKeeps DEF Active, Steps, LastSteps
    <2>3. /\ \A s \in Req \ {r} : tx'[s] = tx[s]
          /\ tx'[r].promoted = {req[r].heir} \cap Members /\ tx'[r].gone = {} /\ ~tx'[r].drop
      BY <2>1, <1>a, <1>c
    <2>4. tx' \in [Req -> [promoted : SUBSET User, gone : SUBSET User, drop : BOOLEAN]]
      <3>1. [tx[r] EXCEPT !.promoted = {req[r].heir} \cap Members]
              \in [promoted : SUBSET User, gone : SUBSET User, drop : BOOLEAN]
        BY <1>a DEF Members
      <3> QED
        BY <2>1, <3>1, <1>a
    <2>5. \A u \in User : Locks(r, u)' => u = req[r].heir
      BY <2>3 DEF Locks
    <2> QED
      BY <2>1, <2>2, <2>3, <2>4, <2>5 DEF TxOK
  <1>7. CASE DeleteSelf(r)
    <2>1. /\ req[r].pc = "delete" /\ Goto(r, "empty") /\ ~Locked(req[r].by, r)
          /\ tx' = [tx EXCEPT ![r] = [tx[r] EXCEPT !.gone = {req[r].by} \cap Members]]
      BY <1>7 DEF DeleteSelf, At
    <2>2. req'[r].pc = "empty"
      BY <2>1, GotoKeeps DEF Active, Steps, LastSteps
    <2>3. ~tx[r].drop
      BY <2>1 DEF TxOK
    <2>4. /\ \A s \in Req \ {r} : tx'[s] = tx[s]
          /\ tx'[r].promoted = tx[r].promoted /\ tx'[r].gone = {req[r].by} \cap Members /\ ~tx'[r].drop
      BY <2>1, <2>3, <1>a
    <2>5. tx' \in [Req -> [promoted : SUBSET User, gone : SUBSET User, drop : BOOLEAN]]
      <3>1. [tx[r] EXCEPT !.gone = {req[r].by} \cap Members]
              \in [promoted : SUBSET User, gone : SUBSET User, drop : BOOLEAN]
        BY <1>a DEF Members
      <3> QED
        BY <2>1, <3>1, <1>a
    <2>6. \A u \in User : Locks(r, u)' /\ ~Locks(r, u) => u = req[r].by
      BY <2>4 DEF Locks
    <2> QED
      BY <2>1, <2>2, <2>4, <2>5, <2>6 DEF TxOK
  <1>8. CASE CheckEmpty(r)
    <2>1. /\ req[r].pc = "empty" /\ Goto(r, "drop")
          /\ tx' = [tx EXCEPT ![r] = [tx[r] EXCEPT !.drop = Members \subseteq tx[r].gone]]
      BY <1>8 DEF CheckEmpty, At
    <2>2. req'[r].pc = "drop"
      BY <2>1, GotoKeeps DEF Active, Steps, LastSteps
    <2>3. /\ \A s \in Req \ {r} : tx'[s] = tx[s]
          /\ tx'[r].promoted = tx[r].promoted /\ tx'[r].gone = tx[r].gone
      BY <2>1, <1>a
    <2>4. tx' \in [Req -> [promoted : SUBSET User, gone : SUBSET User, drop : BOOLEAN]]
      <3>1. [tx[r] EXCEPT !.drop = Members \subseteq tx[r].gone]
              \in [promoted : SUBSET User, gone : SUBSET User, drop : BOOLEAN]
        BY <1>a
      <3> QED
        BY <2>1, <3>1, <1>a
    <2>5. \A u \in User : Locks(r, u)' => Locks(r, u)
      BY <2>3 DEF Locks
    <2> QED
      BY <2>2, <2>3, <2>4, <2>5 DEF TxOK
  <1>9. CASE Commit(r) \/ Abort(r)
    <2>1. tx' = [tx EXCEPT ![r] = NoTx]
      BY <1>9 DEF Commit, Abort, End
    <2>2. /\ \A s \in Req \ {r} : tx'[s] = tx[s]
          /\ tx'[r].promoted = {} /\ tx'[r].gone = {} /\ ~tx'[r].drop
      BY <2>1, <1>a DEF NoTx
    <2>3. tx' \in [Req -> [promoted : SUBSET User, gone : SUBSET User, drop : BOOLEAN]]
      BY <2>1, <1>a DEF NoTx
    <2> QED
      BY <2>2, <2>3 DEF TxOK, Locks
  <1> QED
    BY <1>1, <1>2, <1>3, <1>4, <1>5, <1>6, <1>7, <1>8, <1>9 DEF Step
\* Every step keeps the types, and requests within their handlers.
LEMMA TypePreserved == IInv /\ [Next]_vars => TypeOK' /\ \A s \in Req : RequestOK(s)'
  <1> SUFFICES ASSUME IInv, [Next]_vars PROVE TypeOK' /\ \A s \in Req : RequestOK(s)'
    OBVIOUS
  <1>a. TypeOK /\ \A s \in Req : RequestOK(s) /\ TxOK(s)
    BY DEF IInv
  <1>b. /\ role \in [User -> {"none", "member", "admin"}] /\ exists \in BOOLEAN /\ invite \in Nat
        /\ req \in [Req -> ReqState] /\ holds \subseteq Req /\ disturbed \in BOOLEAN
        /\ tx \in [Req -> [promoted : SUBSET User, gone : SUBSET User, drop : BOOLEAN]]
    BY <1>a DEF TypeOK, ReqState
  <1>c. ASSUME role' \in [User -> {"none", "member", "admin"}], exists' \in BOOLEAN, invite' \in Nat,
               req' \in [Req -> ReqState], holds' \subseteq Req, disturbed' \in BOOLEAN,
               tx' \in [Req -> [promoted : SUBSET User, gone : SUBSET User, drop : BOOLEAN]]
        PROVE  TypeOK'
    BY <1>c DEF TypeOK, ReqState
  <1>d. ASSUME NEW r \in Req, \A s \in Req \ {r} : req'[s] = req[s], RequestOK(r)'
        PROVE  \A s \in Req : RequestOK(s)'
    BY <1>a, <1>d DEF RequestOK, Active
  <1>1. ASSUME NEW u \in User, NEW S \in SUBSET User, Create(u, S)
        PROVE TypeOK' /\ \A s \in Req : RequestOK(s)'
    <2>1. role' \in [User -> {"none", "member", "admin"}]
      BY <1>1, <1>b DEF Create
    <2>2. TypeOK'
      BY <1>1, <1>b, <1>c, <2>1 DEF Create
    <2>3. req' = req
      BY <1>1 DEF Create
    <2> QED
      BY <1>a, <2>2, <2>3 DEF RequestOK, Active
  <1>2. ASSUME NEW r \in Req, NEW kind \in Kinds, NEW u \in User, Arrive(r, kind, u)
        PROVE TypeOK' /\ \A s \in Req : RequestOK(s)'
    <2>1. disturbed' \in BOOLEAN /\ role' = role /\ exists' = exists /\ invite' = invite /\ tx' = tx
          /\ holds' = holds
      BY <1>2, <1>b DEF Arrive
    <2> QED
      BY <1>2, <1>a, <1>b, <1>c, <1>d, <2>1, ArrivalMoves
  <1>3. ASSUME NEW r \in Req, Step(r) \/ Abort(r)
        PROVE TypeOK' /\ \A s \in Req : RequestOK(s)'
    <2>1. req' \in [Req -> ReqState] /\ \A s \in Req : RequestOK(s)'
      BY <1>3, <1>a, <1>d, HandlersMove DEF Good
    <2>a. tx' \in [Req -> [promoted : SUBSET User, gone : SUBSET User, drop : BOOLEAN]]
      BY <1>3, <1>a, TxMoves
    <2>2. CASE \/ CheckCaller(r) \/ CheckInvite(r) \/ AddNobody(r) \/ ReadGroup(r) \/ ReadRows(r)
               \/ CheckMember(r) \/ PickHeir(r) \/ WriteGroup(r)
      BY <2>1, <2>2, <1>b, <1>c DEF CheckCaller, CheckInvite, AddNobody, ReadGroup, ReadRows,
            CheckMember, PickHeir, WriteGroup
    <2>3. ASSUME NEW err \in BOOLEAN, CheckTarget(r, err) \/ CheckCount(r, err) PROVE TypeOK'
      <3>1. disturbed' \in BOOLEAN
        BY <2>3, <1>b DEF CheckTarget, CheckCount
      <3> QED
        BY <2>1, <2>3, <3>1, <1>b, <1>c DEF CheckTarget, CheckCount
    <2>4. ASSUME NEW u \in User, WriteRow(r, u) PROVE TypeOK'
      <3>1. req[r].kind \in {"promote", "demote", "remove", "add", "join"}
        BY <2>4, <1>a DEF WriteRow, At, RequestOK, Active, Steps, KindsAt
      <3>2. Row(req[r].kind, u) \in {"none", "member", "admin"}
        BY <3>1, <1>b DEF Row
      <3>3. role' \in [User -> {"none", "member", "admin"}]
        BY <2>4, <3>2, <1>b DEF WriteRow
      <3> QED
        BY <2>1, <2>4, <3>3, <1>b, <1>c DEF WriteRow
    <2>5. CASE UpdateGroup(r)
      <3>1. invite' \in Nat
        BY <2>5, <1>b DEF UpdateGroup
      <3> QED
        BY <2>1, <2>5, <3>1, <1>b, <1>c DEF UpdateGroup
    <2>6. CASE Begin(r)
      BY <2>1, <2>6, <1>b, <1>c DEF Begin
    <2>7. CASE PromoteHeir(r) \/ DeleteSelf(r) \/ CheckEmpty(r)
      BY <2>a, <2>1, <2>7, <1>b, <1>c DEF PromoteHeir, DeleteSelf, CheckEmpty
    <2>8. CASE Commit(r) \/ Abort(r)
      <3>1. holds' \subseteq Req
        BY <2>8, <1>b DEF Commit, Abort, End
      <3>2. /\ role' \in [User -> {"none", "member", "admin"}] /\ exists' \in BOOLEAN
            /\ invite' = invite /\ disturbed' = disturbed
        BY <2>8, <1>b DEF Commit, Abort
      <3> QED
        BY <2>a, <2>1, <3>1, <3>2, <1>b, <1>c
    <2> QED
      BY <1>3, <2>1, <2>2, <2>3, <2>4, <2>5, <2>6, <2>7, <2>8 DEF Step
  <1>4. CASE UNCHANGED vars
    BY <1>4, <1>a DEF vars, TypeOK, RequestOK, Active, Request
  <1> QED
    BY <1>1, <1>2, <1>3, <1>4 DEF Next

\* A request that moves was under way, so the group was created before.
LEMMA MoversActive ==
    ASSUME NEW r \in Req, Step(r) \/ Abort(r)
    PROVE  Active(r)
  BY DEF Step, Abort, Active, At, Steps, CheckCaller, CheckTarget, CheckInvite, CheckCount, WriteRow,
         AddNobody, UpdateGroup, ReadGroup, ReadRows, CheckMember, Begin, PickHeir, PromoteHeir,
         DeleteSelf, CheckEmpty, WriteGroup, Commit

\* Only a row's own statement and a commit change members or the group.
LEMMA RoleMoves ==
    ASSUME NEW r \in Req, Step(r) \/ Abort(r)
    PROVE  \/ role' = role /\ exists' = exists
           \/ Commit(r)
           \/ \E u \in User : WriteRow(r, u)
  BY DEF Step, Abort, CheckCaller, CheckTarget, CheckInvite, CheckCount, AddNobody, UpdateGroup,
         ReadGroup, ReadRows, CheckMember, Begin, PickHeir, PromoteHeir, DeleteSelf, CheckEmpty, WriteGroup

\* A row under a transaction is locked, so it stays.
LEMMA TxPreserved ==
    IInv /\ [Next]_vars => (\A s \in Req : TxOK(s)') /\ Exclusive' /\ TxRowsUntouched' /\ Unborn'
  <1> SUFFICES ASSUME IInv, [Next]_vars
               PROVE  (\A s \in Req : TxOK(s)') /\ Exclusive' /\ TxRowsUntouched' /\ Unborn'
    OBVIOUS
  <1>a. /\ TypeOK /\ (\A s \in Req : RequestOK(s) /\ TxOK(s))
        /\ Exclusive /\ TxRowsUntouched /\ Unborn
    BY DEF IInv
  <1>b. /\ role \in [User -> {"none", "member", "admin"}]
        /\ tx \in [Req -> [promoted : SUBSET User, gone : SUBSET User, drop : BOOLEAN]]
        /\ invite \in Nat
    BY <1>a DEF TypeOK
  <1>c. invite = 0 => \A s \in Req : req[s].pc = "idle"
    BY <1>a DEF Unborn, Idle
  <1>d. \A s \in Req : req[s].pc = "idle" =>
          tx[s].promoted = {} /\ tx[s].gone = {} /\ ~tx[s].drop
    BY <1>a DEF TxOK
  <1>1. ASSUME NEW u \in User, NEW S \in SUBSET User, Create(u, S)
        PROVE  (\A s \in Req : TxOK(s)') /\ Exclusive' /\ TxRowsUntouched' /\ Unborn'
    <2>1. req' = req /\ tx' = tx /\ invite = 0 /\ invite' = 1
      BY <1>1 DEF Create
    <2>2. \A s \in Req : tx[s].promoted = {} /\ tx[s].gone = {}
      BY <2>1, <1>c, <1>d
    <2> QED
      BY <2>1, <2>2, <1>a DEF TxOK, Exclusive, Locks, TxRowsUntouched, Unborn
  <1>2. ASSUME NEW r \in Req, NEW kind \in Kinds, NEW u \in User, Arrive(r, kind, u)
        PROVE  (\A s \in Req : TxOK(s)') /\ Exclusive' /\ TxRowsUntouched' /\ Unborn'
    <2>1. /\ tx' = tx /\ role' = role /\ invite' = invite /\ invite > 0 /\ req[r].pc = "idle"
          /\ \A s \in Req \ {r} : req'[s] = req[s]
      BY <1>2, <1>a, ArrivalMoves DEF Arrive, Idle
    <2>2. \A s \in Req : TxOK(s)'
      BY <2>1, <1>a, <1>d DEF TxOK
    <2> QED
      BY <2>1, <2>2, <1>a, <1>b DEF Exclusive, Locks, TxRowsUntouched, Unborn, Members
  <1>3. ASSUME NEW r \in Req, Step(r) \/ Abort(r)
        PROVE  (\A s \in Req : TxOK(s)') /\ Exclusive' /\ TxRowsUntouched' /\ Unborn'
    <2>1. /\ \A s \in Req \ {r} : tx'[s] = tx[s] /\ req'[s] = req[s]
          /\ TxOK(r)'
          /\ tx'[r].gone \cup tx'[r].promoted \subseteq Members \cup tx[r].gone \cup tx[r].promoted
          /\ \A u \in User : Locks(r, u)' /\ ~Locks(r, u) => ~Locked(u, r)
      BY <1>3, <1>a, TxMoves, HandlersMove DEF Good
    <2>2. \A s \in Req : TxOK(s)'
      BY <2>1, <1>a DEF TxOK
    <2>3. Exclusive'
      <3>1. \A s \in Req \ {r}, u \in User : Locks(s, u)' <=> Locks(s, u)
        BY <2>1 DEF Locks
      <3>2. ASSUME NEW s \in Req \ {r}, NEW u \in User, Locks(r, u)', Locks(s, u)' PROVE FALSE
        BY <2>1, <3>1, <3>2, <1>a DEF Exclusive, Locked
      <3> QED
        BY <3>1, <3>2, <1>a DEF Exclusive
    <2>4. Unborn'
      <3>1. invite > 0
        BY <1>3, <1>b, <1>c, MoversActive DEF Active, Steps
      <3>2. invite' = invite \/ invite' = invite + 1
        BY <1>3 DEF Step, Abort, CheckCaller, CheckTarget, CheckInvite, CheckCount, WriteRow,
           AddNobody, UpdateGroup, ReadGroup, ReadRows, CheckMember, Begin, PickHeir, PromoteHeir,
           DeleteSelf, CheckEmpty, WriteGroup, Commit
      <3> QED
        BY <3>1, <3>2, <1>b DEF Unborn
    <2>5. \A s \in Req : tx'[s].gone \cup tx'[s].promoted \subseteq Members
      BY <2>1, <1>a DEF TxRowsUntouched
    <2>6. TxRowsUntouched'
      <3> SUFFICES ASSUME NEW s \in Req, NEW v \in tx'[s].gone \cup tx'[s].promoted
                   PROVE  v \in User /\ role'[v] # "none"
        BY DEF TxRowsUntouched, Members
      <3>1. v \in User /\ role[v] # "none"
        BY <2>5 DEF Members
      <3>2. CASE role' = role
        BY <3>1, <3>2
      <3>3. ASSUME NEW u \in User, WriteRow(r, u) PROVE role'[v] # "none"
        <4>1. /\ tx' = tx /\ req[r].pc = "write" /\ ~Locked(u, r)
              /\ role' = [role EXCEPT ![u] = Row(req[r].kind, u)]
          BY <3>3 DEF WriteRow, At
        <4>2. s # r
          BY <4>1, <1>a DEF TxOK
        <4>3. v # u
          BY <4>1, <4>2 DEF Locked, Locks
        <4> QED
          BY <3>1, <4>1, <4>3, <1>b
      <3>4. CASE Commit(r)
        <4>1. /\ tx' = [tx EXCEPT ![r] = NoTx]
              /\ role' = [u \in User |-> IF u \in tx[r].gone THEN "none"
                                         ELSE IF u \in tx[r].promoted THEN "admin" ELSE role[u]]
          BY <3>4 DEF Commit, End
        <4>2. s # r /\ tx'[s] = tx[s]
          BY <4>1, <2>1, <1>b DEF NoTx
        <4>3. v \notin tx[r].gone
          BY <3>1, <4>2, <1>a DEF Exclusive, Locks
        <4> QED
          BY <3>1, <4>1, <4>3
      <3> QED
        BY <1>3, <3>1, <3>2, <3>3, <3>4, RoleMoves
    <2> QED
      BY <2>2, <2>3, <2>4, <2>6
  <1>4. CASE UNCHANGED vars
    BY <1>4, <1>a DEF vars, TxOK, Exclusive, Locks, TxRowsUntouched, Unborn, Members
  <1> QED
    BY <1>1, <1>2, <1>3, <1>4 DEF Next

-----------------------------------------------------------------------------
(* The group as requests find it *)

\* A single user is not all of two admins.
LEMMA TwoAdmins ==
    ASSUME NEW err \in BOOLEAN, ~LastAdmin(err), NEW v
    PROVE  Admins \ {v} # {}
  <1>1. ~(Cardinality(Admins) <= 1)
    BY DEF LastAdmin
  <1>2. SUFFICES ASSUME Admins \ {v} = {} PROVE FALSE
    OBVIOUS
  <1>3. Admins = {} \/ Admins = {v}
    BY <1>2
  <1>4. Cardinality({}) = 0 /\ Cardinality({v}) = 1
    BY FS_EmptySet, FS_Singleton
  <1> QED
    BY <1>1, <1>3, <1>4

\* What the statement of each handler makes of members and admins.
LEMMA RowsAfter ==
    ASSUME TypeOK, NEW r \in Req, NEW u \in User, WriteRow(r, u)
    PROVE  /\ req[r].kind = "promote" => Members' = Members /\ Admins \subseteq Admins'
           /\ req[r].kind \in {"add", "join"} => Members' = Members \cup {u} /\ Admins' = Admins
           /\ req[r].kind = "demote" => Members' = Members /\ Admins' = Admins \ {u}
           /\ req[r].kind = "remove" => Members' = Members \ {u} /\ Admins' = Admins \ {u}
  <1>a. role \in [User -> {"none", "member", "admin"}]
    BY DEF TypeOK
  <1>b. role'[u] = Row(req[r].kind, u) /\ \A v \in User \ {u} : role'[v] = role[v]
    BY <1>a DEF WriteRow
  <1>1. ASSUME req[r].kind = "promote" PROVE Members' = Members /\ Admins \subseteq Admins'
    <2>1. role'[u] = IF role[u] = "none" THEN "none" ELSE "admin"
      BY <1>1, <1>b DEF Row
    <2> QED
      BY <2>1, <1>b DEF Members, Admins
  <1>2. ASSUME req[r].kind \in {"add", "join"} PROVE Members' = Members \cup {u} /\ Admins' = Admins
    <2>1. role'[u] = IF role[u] = "none" THEN "member" ELSE role[u]
      BY <1>2, <1>b DEF Row
    <2> QED
      BY <2>1, <1>b DEF Members, Admins
  <1>3. ASSUME req[r].kind = "demote" PROVE Members' = Members /\ Admins' = Admins \ {u}
    <2>1. role'[u] = IF role[u] = "none" THEN "none" ELSE "member"
      BY <1>3, <1>b DEF Row
    <2> QED
      BY <2>1, <1>b DEF Members, Admins
  <1>4. ASSUME req[r].kind = "remove" PROVE Members' = Members \ {u} /\ Admins' = Admins \ {u}
    <2>1. role'[u] = "none"
      BY <1>4, <1>b DEF Row
    <2> QED
      BY <2>1, <1>b DEF Members, Admins
  <1> QED
    BY <1>1, <1>2, <1>3, <1>4

\* What holds while no requests that disturb each other overlapped.
Calm == Consistent /\ Apart /\ \A r \in Req : Checked(r)

\* A handler's step invalidates no check of another that may overlap it.
LEMMA OthersChecked ==
    ASSUME IInv, Calm, NEW r \in Req, Step(r) \/ Abort(r), NEW s \in Req \ {r}
    PROVE  Checked(s)'
  <1>a. TypeOK /\ RequestOK(r) /\ TxOK(r) /\ RequestOK(s) /\ Checked(r) /\ Checked(s) /\ Active(r)
    BY MoversActive DEF IInv, Calm
  <1>b. req'[s] = req[s] /\ tx'[s] = tx[s]
    BY <1>a, HandlersMove, TxMoves DEF Good
  <1>c. Active(s) => ~Disturb(req[r].kind, req[s].kind)
    BY <1>a DEF Calm, Apart
  <1>d. At(s, "write") \/ req[s].pc \in Leaving => Active(s)
    BY DEF At, Leaving, Active, Steps
  <1>1. CASE role' = role
    BY <1>1, <1>a, <1>b DEF Checked, Members, Admins, At
  <1>2. CASE Commit(r)
    <2>1. req[r].kind = "leave"
      BY <1>2, <1>a DEF Commit, At, RequestOK, KindsAt, Active
    <2>2. Active(s) => req[s].kind \notin {"demote", "remove", "leave", "add", "join"}
      BY <2>1, <1>c DEF Disturb, Taking
    <2> QED
      BY <2>2, <1>b, <1>d DEF Checked, At
  <1>3. ASSUME NEW u \in User, WriteRow(r, u) PROVE Checked(s)'
    <2>1. At(r, "write") /\ req[r].kind \in {"promote", "demote", "remove", "add", "join"}
      BY <1>3, <1>a DEF WriteRow, At, RequestOK, KindsAt
    <2>2. CASE req[r].kind = "promote"
      <3>1. Members' = Members /\ Admins \subseteq Admins'
        BY <2>2, <1>3, <1>a, RowsAfter
      <3>2. \A v : Admins \ v # {} => Admins' \ v # {}
        BY <3>1
      <3> HIDE <1>3
      <3> QED
        BY <3>1, <3>2, <1>a, <1>b DEF Checked, At
    <2>3. CASE req[r].kind \in {"add", "join"}
      <3>1. Members' = Members \cup {u} /\ Admins' = Admins
        BY <2>3, <1>3, <1>a, RowsAfter
      <3>2. Members # {}
        BY <2>1, <2>3, <1>a DEF Checked
      <3>3. Active(s) => req[s].kind # "leave"
        BY <2>3, <1>c DEF Disturb
      <3> QED
        BY <3>1, <3>2, <3>3, <1>a, <1>b, <1>d DEF Checked, At
    <2>4. CASE req[r].kind \in {"demote", "remove"}
      <3>1. Active(s) => req[s].kind \notin {"demote", "remove", "leave"}
        BY <2>4, <1>c DEF Disturb, Taking
      <3>2. ASSUME Members # {} PROVE Members' # {}
        <4>1. Admins \ req[r].who # {} /\ u \in req[r].who
          BY <3>2, <2>1, <2>4, <1>3, <1>a DEF Checked, WriteRow
        <4>2. Admins \ {u} # {}
          BY <4>1
        <4>3. Members \ {u} # {}
          BY <4>2 DEF Members, Admins
        <4> QED
          BY <2>4, <3>2, <4>3, <1>3, <1>a, RowsAfter
      <3> QED
        BY <3>1, <3>2, <1>a, <1>b, <1>d DEF Checked, At
    <2> QED
      BY <2>1, <2>2, <2>3, <2>4
  <1> QED
    BY <1>1, <1>2, <1>3, RoleMoves

\* What a handler's own check has found holds when it moves on.
LEMMA OwnChecked ==
    ASSUME IInv, Calm, NEW r \in Req, Step(r) \/ Abort(r), ~disturbed'
    PROVE  Checked(r)'
  <1>a. /\ TypeOK /\ RequestOK(r) /\ TxOK(r) /\ Checked(r) /\ Consistent
        /\ Active(r) /\ req[r].kind \in KindsAt(req[r].pc)
    BY MoversActive DEF IInv, Calm, RequestOK
  <1>b. tx \in [Req -> [promoted : SUBSET User, gone : SUBSET User, drop : BOOLEAN]]
    BY <1>a DEF TypeOK
  <1>c. req \in [Req -> ReqState]
    BY <1>a DEF TypeOK, ReqState
  <1> USE DEF At
  <1>d. ASSUME req'[r].pc \notin Leaving \cup {"write"} PROVE Checked(r)'
    BY <1>d DEF Checked, Leaving
  <1>e. ASSUME Answer(r) PROVE Checked(r)'
    BY <1>c, <1>d, <1>e, AnswerMoves DEF Leaving
  <1>f. ASSUME NEW step \in LastSteps, Goto(r, step) PROVE Checked(r)'
    <2>1. req[r].kind \in Kinds \cup {"update", "list"}
      BY <1>a, <1>c, StateOf DEF Active
    <2>2. req'[r].pc = step
      BY <1>c, <1>f, <2>1, GotoLast
    <2> QED
      BY <1>d, <2>2 DEF Leaving, LastSteps
  <1>g. ASSUME NEW step \in Steps \ LastSteps, Goto(r, step), req[r].pc \notin LastSteps
        PROVE  /\ req'[r].pc = step /\ req'[r].kind = req[r].kind /\ req'[r].who = req[r].who
               /\ req'[r].heir = req[r].heir
               /\ req[r].kind = "leave" => req'[r].by = req[r].by
    BY <1>a, <1>g, GotoKeeps
  <1> USE DEF Steps, LastSteps
  <1>1. CASE CheckCaller(r)
    <2>1. /\ req[r].pc = "caller" /\ role' = role
          /\ req[r].kind \in {"promote", "demote", "remove", "add", "reset", "update", "code"}
      BY <1>1, <1>a DEF CheckCaller, KindsAt
    <2>2. CASE Answer(r)
      BY <2>2, <1>e
    <2>3. CASE Goto(r, "touch") \/ Goto(r, "group")
      BY <2>3, <1>f
    <2>4. CASE Goto(r, "target")
      BY <2>1, <2>4, <1>g DEF Checked, Leaving
    <2>5. CASE Goto(r, "write") /\ req[r].by \in Admins /\ req[r].kind \in {"promote", "add"}
      <3>1. req'[r].pc = "write" /\ req'[r].kind = req[r].kind
        BY <2>1, <2>5, <1>g
      <3>2. Members' # {}
        BY <2>1, <2>5 DEF Members, Admins
      <3> QED
        BY <2>5, <3>1, <3>2 DEF Checked, Leaving
    <2> QED
      BY <1>1, <2>1, <2>2, <2>3, <2>4, <2>5 DEF CheckCaller, Check
  <1>2. ASSUME NEW err \in BOOLEAN, CheckTarget(r, err) PROVE Checked(r)'
    <2>1. /\ req[r].pc = "target" /\ role' = role /\ tx' = tx
          /\ req[r].kind \in {"demote", "remove", "leave"}
      BY <1>2, <1>a DEF CheckTarget, KindsAt, Taking
    <2>2. CASE req[r].kind = "demote"
      <3>1. Answer(r) \/ Goto(r, "count")
        BY <1>2, <2>2 DEF CheckTarget, Check
      <3>2. CASE Goto(r, "count")
        BY <2>1, <2>2, <3>2, <1>g DEF Checked
      <3> QED
        BY <3>1, <3>2, <1>e
    <2>3. ASSUME req[r].kind # "demote" PROVE ~err
      BY <1>2, <2>3 DEF CheckTarget
    <2>4. CASE req[r].kind = "remove"
      <3>1. CASE Goto(r, "count")
        BY <2>1, <2>4, <3>1, <1>g DEF Checked
      <3>2. CASE Goto(r, "write") /\ ~(req[r].who \subseteq Admins)
        <4>1. /\ req'[r].pc = "write" /\ req'[r].kind = "remove" /\ req'[r].who = req[r].who
          BY <2>1, <2>4, <3>2, <1>g
        <4>2. PICK v \in User : req[r].who = {v}
          BY <2>1, <2>4, <1>a DEF RequestOK
        <4>3. Members = {} \/ Admins \ {v} # {}
          BY <3>2, <4>2, <1>a DEF Consistent, HasAdmin
        <4> QED
          BY <2>1, <4>1, <4>2, <4>3 DEF Checked, Members, Admins, Leaving
      <3> QED
        BY <1>2, <2>3, <2>4, <3>1, <3>2 DEF CheckTarget
    <2>5. CASE req[r].kind = "leave"
      <3>1. req[r].by \in Members /\ req[r].who = {req[r].by}
        BY <2>1, <2>5, <1>a DEF Checked, RequestOK, Leaving
      <3>2. CASE Goto(r, "count")
        <4>1. req'[r].pc = "count" /\ req'[r].kind = "leave" /\ req'[r].by = req[r].by
          BY <2>1, <2>5, <3>2, <1>g
        <4> QED
          BY <2>1, <3>1, <4>1 DEF Checked, Members
      <3>3. CASE Goto(r, "delete") /\ ~(req[r].who \subseteq Admins)
        <4>1. req'[r].pc = "delete" /\ req'[r].kind = "leave" /\ req'[r].by = req[r].by
          BY <2>1, <2>5, <3>3, <1>g
        <4>2. Admins \ {req[r].by} # {}
          BY <3>1, <3>3, <1>a DEF Consistent, HasAdmin
        <4> QED
          BY <2>1, <3>1, <4>1, <4>2 DEF Checked, Members, Admins
      <3> QED
        BY <1>2, <2>3, <2>5, <3>2, <3>3 DEF CheckTarget
    <2> QED
      BY <2>1, <2>2, <2>4, <2>5
  <1>3. ASSUME NEW err \in BOOLEAN, CheckCount(r, err) PROVE Checked(r)'
    <2>1. /\ req[r].pc = "count" /\ role' = role /\ tx' = tx
          /\ req[r].kind \in {"demote", "remove", "leave"}
      BY <1>3, <1>a DEF CheckCount, KindsAt, Taking
    <2>2. CASE req[r].kind # "leave"
      <3>1. CASE Goto(r, "write") /\ ~LastAdmin(err)
        <4>1. req'[r].pc = "write" /\ req'[r].kind = req[r].kind /\ req'[r].who = req[r].who
          BY <2>1, <3>1, <1>g
        <4>2. PICK v \in User : req[r].who = {v}
          BY <2>1, <2>2, <1>a DEF RequestOK
        <4>3. Admins \ {v} # {}
          BY <3>1, TwoAdmins
        <4> QED
          BY <2>1, <2>2, <4>1, <4>2, <4>3 DEF Checked, Admins, Leaving
      <3> QED
        BY <1>3, <2>2, <3>1, <1>e DEF CheckCount, Check
    <2>3. CASE req[r].kind = "leave"
      <3>1. req[r].by \in Members
        BY <2>1, <2>3, <1>a DEF Checked, Leaving
      <3>2. CASE Goto(r, "pick")
        <4>1. req'[r].pc = "pick" /\ req'[r].kind = "leave" /\ req'[r].by = req[r].by
          BY <2>1, <2>3, <3>2, <1>g
        <4> QED
          BY <2>1, <3>1, <4>1 DEF Checked, Members
      <3>3. CASE Goto(r, "delete") /\ ~LastAdmin(err)
        <4>1. req'[r].pc = "delete" /\ req'[r].kind = "leave" /\ req'[r].by = req[r].by
          BY <2>1, <2>3, <3>3, <1>g
        <4>2. Admins \ {req[r].by} # {}
          BY <3>3, TwoAdmins
        <4> QED
          BY <2>1, <3>1, <4>1, <4>2 DEF Checked, Members, Admins
      <3> QED
        BY <1>3, <2>3, <3>2, <3>3 DEF CheckCount
    <2> QED
      BY <2>2, <2>3
  <1>4. CASE CheckInvite(r)
    <2>1. req[r].pc = "invite" /\ role' = role /\ req[r].kind = "join"
      BY <1>4, <1>a DEF CheckInvite, KindsAt
    <2>2. CASE Goto(r, "write") /\ exists
      <3>1. req'[r].pc = "write" /\ req'[r].kind = "join"
        BY <2>1, <2>2, <1>g
      <3>2. Members' # {}
        BY <2>1, <2>2, <1>a DEF Consistent, Members
      <3> QED
        BY <3>1, <3>2 DEF Checked, Leaving
    <2> QED
      BY <1>4, <2>2, <1>e DEF CheckInvite, Check
  <1>5. ASSUME NEW u \in User, WriteRow(r, u) PROVE Checked(r)'
    <2>1. req[r].pc = "write" /\ req[r].kind \in {"promote", "demote", "remove", "add", "join"}
          /\ u \in req[r].who
      BY <1>5, <1>a DEF WriteRow, KindsAt
    <2>2. CASE req[r].who = {u}
      BY <1>5, <2>2, <1>f DEF WriteRow
    <2>3. CASE req[r].who # {u}
      <3>1. req[r].kind \in {"add", "join"}
        BY <2>1, <2>3, <1>a DEF RequestOK
      <3>2. Members' # {}
        BY <3>1, <1>5, <1>a, RowsAfter
      <3>3. req' = [req EXCEPT ![r].who = @ \ {u}]
        BY <1>5, <2>3 DEF WriteRow
      <3>4. req[r] \in Request
        BY <2>1, <1>a, <1>c, StateOf DEF Active
      <3>5. req'[r].kind = req[r].kind /\ req'[r].pc = "write"
        BY <3>3, <3>4, <2>1, <1>c DEF Request
      <3> QED
        BY <3>1, <3>2, <3>5 DEF Checked, Leaving
    <2> QED
      BY <2>2, <2>3
  <1>6. CASE AddNobody(r)
    BY <1>6, <1>f DEF AddNobody
  <1>7. CASE UpdateGroup(r) \/ ReadRows(r) \/ Commit(r) \/ Abort(r)
    BY <1>7, <1>e DEF UpdateGroup, ReadRows, Commit, Abort, End
  <1>8. CASE ReadGroup(r)
    BY <1>8, <1>e, <1>f DEF ReadGroup, Check
  <1>9. CASE CheckMember(r)
    <2>1. req[r].pc = "member" /\ role' = role /\ req[r].kind \in {"leave", "get"}
      BY <1>9, <1>a DEF CheckMember, KindsAt
    <2>2. CASE Goto(r, "begin") /\ req[r].by \in Members /\ req[r].kind = "leave"
      <3>1. req'[r].pc = "begin" /\ req'[r].kind = "leave" /\ req'[r].by = req[r].by
        BY <2>1, <2>2, <1>g
      <3> QED
        BY <2>1, <2>2, <3>1 DEF Checked, Members
    <2> QED
      BY <1>9, <2>1, <2>2, <1>e, <1>f DEF CheckMember, Check
  <1>10. ASSUME req[r].pc \in Leaving, req[r].kind = "leave" PROVE req[r].by \in Members
    BY <1>10, <1>a DEF Checked
  <1>11. CASE Begin(r)
    <2>1. req[r].pc = "begin" /\ req[r].kind = "leave" /\ role' = role /\ Goto(r, "target")
      BY <1>11, <1>a DEF Begin, KindsAt
    <2>2. req'[r].pc = "target" /\ req'[r].by = req[r].by
      BY <2>1, <1>g
    <2> QED
      BY <2>1, <2>2, <1>10 DEF Checked, Members, Leaving
  <1>12. CASE PickHeir(r)
    <2>1. req[r].pc = "pick" /\ req[r].kind = "leave" /\ role' = role /\ tx' = tx
      BY <1>12, <1>a DEF PickHeir, KindsAt
    <2>2. req[r].by \in Members
      BY <2>1, <1>10 DEF Leaving
    <2>3. CASE Goto(r, "delete") /\ Members \subseteq {req[r].by}
      <3>1. req'[r].pc = "delete" /\ req'[r].by = req[r].by
        BY <2>1, <2>3, <1>g
      <3>2. Members = {req[r].by}
        BY <2>2, <2>3
      <3> QED
        BY <2>1, <3>1, <3>2 DEF Checked, Members
    <2>4. ASSUME NEW h \in Members \ {req[r].by}, req' = [req EXCEPT ![r].heir = h, ![r].pc = "succeed"]
          PROVE  Checked(r)'
      <3>1. req[r] \in Request
        BY <2>1, <1>a, <1>c, StateOf DEF Active
      <3>2. req'[r].pc = "succeed" /\ req'[r].by = req[r].by /\ req'[r].heir = h
        BY <3>1, <2>4, <1>c DEF Request
      <3> QED
        BY <2>1, <2>2, <2>4, <3>2 DEF Checked, Members
    <2> QED
      BY <1>12, <2>3, <2>4 DEF PickHeir
  <1>13. CASE PromoteHeir(r)
    <2>1. /\ req[r].pc = "succeed" /\ req[r].kind = "leave" /\ role' = role /\ Goto(r, "delete")
          /\ tx' = [tx EXCEPT ![r].promoted = {req[r].heir} \cap Members]
      BY <1>13, <1>a DEF PromoteHeir, KindsAt
    <2>2. req[r].by \in Members /\ req[r].heir \in Members \ {req[r].by}
      BY <2>1, <1>a, <1>10 DEF Leaving, Checked
    <2>3. req'[r].pc = "delete" /\ req'[r].by = req[r].by
      BY <2>1, <1>g
    <2>4. tx'[r].promoted = {req[r].heir}
      BY <2>1, <2>2, <1>b
    <2>5. Members' = Members
      BY <2>1 DEF Members
    <2> QED
      BY <2>2, <2>3, <2>4, <2>5 DEF Checked
  <1>14. CASE DeleteSelf(r)
    <2>1. /\ req[r].pc = "delete" /\ req[r].kind = "leave" /\ role' = role /\ Goto(r, "empty")
          /\ tx' = [tx EXCEPT ![r].gone = {req[r].by} \cap Members]
      BY <1>14, <1>a DEF DeleteSelf, KindsAt
    <2>2. /\ req[r].by \in Members
          /\ \/ Admins \ {req[r].by} # {}
             \/ Members = {req[r].by}
             \/ tx[r].promoted # {} /\ tx[r].promoted \subseteq Members \ {req[r].by}
      BY <2>1, <1>a DEF Leaving, Checked
    <2>3. req'[r].pc = "empty" /\ req'[r].by = req[r].by
      BY <2>1, <1>g
    <2>4. tx'[r].gone = {req[r].by} /\ tx'[r].promoted = tx[r].promoted
      BY <2>1, <2>2, <1>b
    <2>5. Members' = Members /\ Admins' = Admins
      BY <2>1 DEF Members, Admins
    <2> QED
      BY <2>2, <2>3, <2>4, <2>5 DEF Checked
  <1>15. CASE CheckEmpty(r)
    <2>1. /\ req[r].pc = "empty" /\ req[r].kind = "leave" /\ role' = role /\ Goto(r, "drop")
          /\ tx' = [tx EXCEPT ![r].drop = Members \subseteq tx[r].gone]
      BY <1>15, <1>a DEF CheckEmpty, KindsAt
    <2>2. /\ req[r].by \in Members /\ tx[r].gone = {req[r].by}
          /\ \/ Admins \ {req[r].by} # {}
             \/ Members = {req[r].by}
             \/ tx[r].promoted # {} /\ tx[r].promoted \subseteq Members \ {req[r].by}
      BY <2>1, <1>a DEF Leaving, Checked
    <2>3. req'[r].pc = "drop" /\ req'[r].by = req[r].by
      BY <2>1, <1>g
    <2>4. /\ tx'[r].gone = tx[r].gone /\ tx'[r].promoted = tx[r].promoted
          /\ tx'[r].drop = (Members \subseteq tx[r].gone)
      BY <2>1, <1>b
    <2>5. tx'[r].drop <=> Members = {req[r].by}
      BY <2>2, <2>4
    <2>6. Members' = Members /\ Admins' = Admins
      BY <2>1 DEF Members, Admins
    <2> QED
      BY <2>2, <2>3, <2>4, <2>5, <2>6 DEF Checked
  <1>16. CASE WriteGroup(r)
    <2>1. /\ req[r].pc = "drop" /\ req[r].kind = "leave" /\ role' = role /\ Goto(r, "commit") /\ tx' = tx
      BY <1>16, <1>a DEF WriteGroup, KindsAt
    <2>2. /\ req[r].by \in Members /\ tx[r].gone = {req[r].by}
          /\ \/ Admins \ {req[r].by} # {}
             \/ Members = {req[r].by}
             \/ tx[r].promoted # {} /\ tx[r].promoted \subseteq Members \ {req[r].by}
          /\ tx[r].drop <=> Members = {req[r].by}
      BY <2>1, <1>a DEF Leaving, Checked
    <2>3. req'[r].pc = "commit" /\ req'[r].by = req[r].by
      BY <2>1, <1>g
    <2>4. Members' = Members /\ Admins' = Admins
      BY <2>1 DEF Members, Admins
    <2> QED
      BY <2>1, <2>2, <2>3, <2>4 DEF Checked
  <1> QED
    BY <1>1, <1>2, <1>3, <1>4, <1>5, <1>6, <1>7, <1>8, <1>9, <1>11, <1>12, <1>13, <1>14, <1>15, <1>16
       DEF Step

\* No step leaves a group without an admin, or lets it and its members part.
LEMMA ConsistentPreserved ==
    ASSUME IInv, Calm, NEW r \in Req, Step(r) \/ Abort(r)
    PROVE  Consistent'
  <1>a. TypeOK /\ RequestOK(r) /\ Checked(r) /\ Consistent /\ Active(r)
    BY MoversActive DEF IInv, Calm
  <1>1. CASE role' = role /\ exists' = exists
    BY <1>1, <1>a DEF Consistent, HasAdmin, Members, Admins
  <1>2. ASSUME NEW u \in User, WriteRow(r, u) PROVE Consistent'
    <2>1. /\ At(r, "write") /\ req[r].kind \in {"promote", "demote", "remove", "add", "join"}
          /\ u \in req[r].who /\ exists' = exists
      BY <1>2, <1>a DEF WriteRow, At, RequestOK, KindsAt
    <2>2. Admins \subseteq Members
      BY DEF Members, Admins
    <2>3. CASE req[r].kind = "promote"
      <3>1. Members' = Members /\ Admins \subseteq Admins'
        BY <2>3, <1>2, <1>a, RowsAfter
      <3> QED
        BY <2>1, <3>1, <1>a DEF Consistent, HasAdmin
    <2>4. CASE req[r].kind \in {"add", "join"}
      <3>1. Members' = Members \cup {u} /\ Admins' = Admins /\ Members # {}
        BY <2>1, <2>4, <1>2, <1>a, RowsAfter DEF Checked
      <3> QED
        BY <2>1, <3>1, <1>a DEF Consistent, HasAdmin
    <2>5. CASE req[r].kind \in {"demote", "remove"}
      <3>1. Members = {} \/ Admins \ {u} # {}
        BY <2>1, <2>5, <1>a DEF Checked
      <3>2. Admins' = Admins \ {u} /\ (Members' = Members \/ Members' = Members \ {u})
        BY <2>5, <1>2, <1>a, RowsAfter
      <3> QED
        BY <2>1, <2>2, <3>1, <3>2, <1>a DEF Consistent, HasAdmin
    <2> QED
      BY <2>1, <2>3, <2>4, <2>5
  <1>3. CASE Commit(r)
    <2>1. /\ req[r].pc = "commit" /\ req[r].kind = "leave"
          /\ role' = [u \in User |-> IF u \in tx[r].gone THEN "none"
                                     ELSE IF u \in tx[r].promoted THEN "admin" ELSE role[u]]
          /\ exists' = (exists /\ ~tx[r].drop)
      BY <1>3, <1>a DEF Commit, At, RequestOK, KindsAt
    <2>2. /\ req[r].by \in Members /\ tx[r].gone = {req[r].by}
          /\ \/ Admins \ {req[r].by} # {}
             \/ Members = {req[r].by}
             \/ tx[r].promoted # {} /\ tx[r].promoted \subseteq Members \ {req[r].by}
          /\ tx[r].drop <=> Members = {req[r].by}
      BY <2>1, <1>a DEF Checked, Leaving
    <2>3. tx[r].promoted \subseteq Members
      BY DEF IInv, TxRowsUntouched
    <2>4. Members' = Members \ {req[r].by} /\ Admins' = (Admins \cup tx[r].promoted) \ {req[r].by}
      BY <2>1, <2>2, <2>3 DEF Members, Admins
    <2>5. exists
      BY <2>2, <1>a DEF Consistent
    <2>6. exists' <=> Members' # {}
      BY <2>1, <2>2, <2>4, <2>5
    <2>7. Members' # {} => Admins' # {}
      BY <2>2, <2>4
    <2> QED
      BY <2>6, <2>7 DEF Consistent, HasAdmin
  <1> QED
    BY <1>1, <1>2, <1>3, RoleMoves

\* The argument for all steps: a request that would disturb another is
\* noticed when it arrives, and every other finds its checks still true.
LEMMA UndisturbedPreserved == IInv /\ [Next]_vars => Undisturbed'
  <1> SUFFICES ASSUME IInv, [Next]_vars, ~disturbed' PROVE Calm'
    BY DEF Undisturbed, Calm
  <1>a. TypeOK /\ Unborn /\ \A s \in Req : RequestOK(s)
    BY DEF IInv
  <1>b. disturbed => disturbed'
    BY DEF Next, vars, Create, Arrive, Step, Abort, CheckCaller, CheckTarget, CheckInvite, CheckCount,
       WriteRow, AddNobody, UpdateGroup, ReadGroup, ReadRows, CheckMember, Begin, PickHeir, PromoteHeir,
       DeleteSelf, CheckEmpty, WriteGroup, Commit
  <1>c. Calm
    BY <1>b DEF IInv, Undisturbed, Calm
  <1>d. \A k, l : Disturb(k, l) => Disturb(l, k)
    BY DEF Disturb
  <1>1. ASSUME NEW u \in User, NEW S \in SUBSET User, Create(u, S) PROVE Calm'
    <2>1. \A s \in Req : req'[s].pc = "idle"
      BY <1>1, <1>a DEF Create, Unborn, Idle
    <2>2. u \in Members' /\ u \in Admins' /\ exists'
      BY <1>1 DEF Create, Members, Admins
    <2> QED
      BY <2>1, <2>2 DEF Calm, Consistent, HasAdmin, Apart, Active, Steps, Checked, At, Leaving
  <1>2. ASSUME NEW r \in Req, NEW kind \in Kinds, NEW u \in User, Arrive(r, kind, u) PROVE Calm'
    <2>1. /\ role' = role /\ exists' = exists /\ tx' = tx
          /\ \A s \in Req : Active(s) => ~Disturb(kind, req[s].kind)
      BY <1>2 DEF Arrive
    <2>2. /\ \A s \in Req \ {r} : req'[s] = req[s]
          /\ Active(r)' => req'[r].kind \in {kind, "list"}
          /\ req'[r].pc \in {"caller", "invite", "member", "rows"}
      BY <1>2, <1>a, ArrivalMoves
    <2>3. Consistent'
      BY <2>1, <1>c DEF Calm, Consistent, HasAdmin, Members, Admins
    <2>4. \A s \in Req : Checked(s)'
      <3>1. Checked(r)'
        BY <2>2 DEF Checked, At, Leaving
      <3>2. ASSUME NEW s \in Req \ {r} PROVE Checked(s)'
        <4>1. Checked(s) /\ req'[s] = req[s] /\ tx'[s] = tx[s]
          BY <2>1, <2>2, <1>c DEF Calm
        <4> QED
          BY <2>1, <4>1 DEF Checked, At, Members, Admins
      <3> QED
        BY <3>1, <3>2
    <2>5. Apart'
      <3>1. ASSUME NEW s \in Req \ {r}, Active(s), Active(r)' PROVE ~Disturb(req'[r].kind, req[s].kind)
        <4>1. ~Disturb("list", req[s].kind)
          BY DEF Disturb, Taking
        <4> QED
          BY <2>1, <2>2, <3>1, <4>1
      <3> QED
        BY <2>2, <3>1, <1>c, <1>d DEF Calm, Apart, Active
    <2> QED
      BY <2>3, <2>4, <2>5 DEF Calm
  <1>3. ASSUME NEW r \in Req, Step(r) \/ Abort(r) PROVE Calm'
    <2>1. Consistent' /\ \A s \in Req : Checked(s)'
      BY <1>3, <1>c, ConsistentPreserved, OwnChecked, OthersChecked
    <2>2. /\ \A s \in Req \ {r} : req'[s] = req[s]
          /\ Active(r)' => req'[r].kind \in {req[r].kind, "update", "list"}
          /\ Active(r)
      BY <1>3, <1>a, HandlersMove, MoversActive DEF Good
    <2>3. Apart'
      <3>1. ASSUME NEW s \in Req \ {r}, Active(s), Active(r)' PROVE ~Disturb(req'[r].kind, req[s].kind)
        <4>1. ~Disturb("list", req[s].kind) /\ ~Disturb("update", req[s].kind)
          BY DEF Disturb, Taking
        <4>2. ~Disturb(req[r].kind, req[s].kind)
          BY <2>2, <3>1, <1>c DEF Calm, Apart
        <4> QED
          BY <2>2, <3>1, <4>1, <4>2
      <3> QED
        BY <2>2, <3>1, <1>c, <1>d DEF Calm, Apart, Active
    <2> QED
      BY <2>1, <2>3 DEF Calm
  <1>4. CASE UNCHANGED vars
    BY <1>4, <1>c DEF vars, Calm, Consistent, HasAdmin, Members, Admins, Apart, Active, Checked, At
  <1> QED
    BY <1>1, <1>2, <1>3, <1>4 DEF Next

-----------------------------------------------------------------------------
\* The inductive invariant holds in every reachable state.
THEOREM Inductive == Spec => []IInv
  <1>1. IInv /\ [Next]_vars => IInv'
    BY TypePreserved, TxPreserved, UndisturbedPreserved DEF IInv
  <1> QED
    BY InitIInv, <1>1, PTL DEF Spec

\* Whatever requests overlap, abort and fail, states have their types and a
\* row under a leaving member's transaction stays a member's row.
THEOREM RowsUntouched == Spec => []Inv
  <1>1. IInv => Inv
    BY DEF IInv, Inv
  <1> QED
    BY Inductive, <1>1, PTL

\* For any number of users and overlapping requests, a group keeps an admin
\* as long as it has members, and exists as long, unless handlers overlapped
\* that invalidate each other's checks or a check of a target failed.
THEOREM AdminsRemain == Spec => []ConsistentUnlessDisturbed
  <1>1. IInv => ConsistentUnlessDisturbed
    BY DEF IInv, Undisturbed, ConsistentUnlessDisturbed
  <1> QED
    BY Inductive, <1>1, PTL

-----------------------------------------------------------------------------
(* Absence of deadlock *)

\* A request keeps a connection while its transaction is open, and only then:
\* leaveGroup from its first check in the transaction to the commit.
InTx(r) ==
    \/ req[r].pc \in {"pick", "succeed", "delete", "empty", "drop", "commit"}
    \/ req[r].pc \in {"target", "count"} /\ req[r].kind = "leave"

HoldsInv == \A r \in Req : r \in holds <=> InTx(r)

\* Connections come and go with their transactions.
LEMMA HoldsMove ==
    ASSUME TypeOK, NEW r \in Req, RequestOK(r), r \in holds <=> InTx(r), Step(r) \/ Abort(r)
    PROVE  /\ r \in holds' <=> InTx(r)'
           /\ \A s \in Req \ {r} : s \in holds' <=> s \in holds
  <1>a. Active(r) => req[r].kind \in KindsAt(req[r].pc)
    BY DEF RequestOK
  <1>b. req \in [Req -> ReqState]
    BY DEF TypeOK, ReqState
  <1>c. ASSUME NEW step \in Steps \ LastSteps, Goto(r, step), Active(r), req[r].pc \notin LastSteps
        PROVE  req'[r].pc = step /\ req'[r].kind = req[r].kind
    BY <1>c, GotoKeeps
  <1>d. ASSUME NEW step \in LastSteps, Goto(r, step), Active(r)
        PROVE  req'[r].pc = step
    <2>1. req[r].kind \in Kinds \cup {"update", "list"}
      BY <1>b, <1>d, StateOf DEF Active
    <2> QED
      BY <1>b, <1>d, <2>1, GotoLast
  <1>e. ASSUME Answer(r) PROVE req'[r].pc = "answered"
    BY <1>b, <1>e, AnswerMoves
  <1> USE DEF At, Active, Steps, LastSteps, KindsAt, Taking
  <1>1. CASE CheckCaller(r)
    <2>1. holds' = holds /\ req[r].pc = "caller" /\ req[r].kind # "leave"
      BY <1>1, <1>a DEF CheckCaller
    <2>2. \/ Answer(r)
          \/ \E step \in {"target", "touch", "group", "write"} : Goto(r, step)
      BY <1>1 DEF CheckCaller, Check
    <2>3. ~InTx(r) /\ ~InTx(r)'
      BY <2>1, <2>2, <1>c, <1>d, <1>e DEF InTx
    <2> QED
      BY <2>1, <2>3
  <1>2. ASSUME NEW err \in BOOLEAN, CheckTarget(r, err)
        PROVE  holds' = holds /\ (InTx(r)' <=> InTx(r))
    <2>1. holds' = holds /\ req[r].pc = "target" /\ req[r].kind \in Taking
      BY <1>2, <1>a DEF CheckTarget
    <2>2. CASE req[r].kind = "leave"
      <3>1. \E step \in {"count", "delete"} : Goto(r, step)
        BY <1>2, <2>2 DEF CheckTarget
      <3> QED
        BY <2>1, <2>2, <3>1, <1>c DEF InTx
    <2>3. CASE req[r].kind # "leave"
      <3>1. Answer(r) \/ \E step \in {"count", "write"} : Goto(r, step)
        BY <1>2, <2>1, <2>3 DEF CheckTarget, Check
      <3> QED
        BY <2>1, <2>3, <3>1, <1>c, <1>e DEF InTx
    <2> QED
      BY <2>1, <2>2, <2>3
  <1>3. ASSUME NEW err \in BOOLEAN, CheckCount(r, err)
        PROVE  holds' = holds /\ (InTx(r)' <=> InTx(r))
    <2>1. holds' = holds /\ req[r].pc = "count"
      BY <1>3 DEF CheckCount
    <2>2. CASE req[r].kind = "leave"
      <3>1. \E step \in {"pick", "delete"} : Goto(r, step)
        BY <1>3, <2>2 DEF CheckCount
      <3> QED
        BY <2>1, <2>2, <3>1, <1>c DEF InTx
    <2>3. CASE req[r].kind # "leave"
      <3>1. Answer(r) \/ Goto(r, "write")
        BY <1>3, <2>3 DEF CheckCount, Check
      <3> QED
        BY <2>1, <2>3, <3>1, <1>c, <1>e DEF InTx
    <2> QED
      BY <2>1, <2>2, <2>3
  <1>4. CASE CheckInvite(r) \/ AddNobody(r) \/ UpdateGroup(r) \/ ReadGroup(r) \/ ReadRows(r) \/ CheckMember(r)
    <2>1. holds' = holds /\ req[r].pc \in {"invite", "write", "touch", "group", "rows", "member"}
      BY <1>4 DEF CheckInvite, AddNobody, UpdateGroup, ReadGroup, ReadRows, CheckMember
    <2>2. \/ Answer(r)
          \/ \E step \in {"touch", "group", "rows"} : Goto(r, step)
          \/ req[r].pc \notin LastSteps /\ \E step \in {"write", "begin"} : Goto(r, step)
      BY <1>4 DEF CheckInvite, AddNobody, UpdateGroup, ReadGroup, ReadRows, CheckMember, Check
    <2>3. req'[r].pc \in {"answered", "touch", "group", "rows", "write", "begin"}
      BY <2>1, <2>2, <1>c, <1>d, <1>e
    <2> QED
      BY <2>1, <2>3 DEF InTx
  <1>5. ASSUME NEW u \in User, WriteRow(r, u)
        PROVE  holds' = holds /\ (InTx(r)' <=> InTx(r))
    <2>1. holds' = holds /\ req[r].pc = "write"
      BY <1>5 DEF WriteRow
    <2>2. CASE Goto(r, "touch")
      BY <2>1, <2>2, <1>d DEF InTx
    <2>3. CASE req' = [req EXCEPT ![r].who = @ \ {u}]
      <3>1. req[r] \in Request
        BY <2>1, <1>b, StateOf
      <3>2. req'[r].pc = "write"
        BY <2>1, <2>3, <3>1, <1>b DEF Request
      <3> QED
        BY <2>1, <3>2 DEF InTx
    <2> QED
      BY <1>5, <2>2, <2>3 DEF WriteRow
  <1>6. CASE Begin(r)
    <2>1. holds' = holds \cup {r} /\ req[r].pc = "begin" /\ req[r].kind = "leave" /\ Goto(r, "target")
      BY <1>6, <1>a DEF Begin
    <2>2. InTx(r)'
      BY <2>1, <1>c DEF InTx
    <2> QED
      BY <2>1, <2>2
  <1>7. CASE PickHeir(r)
    <2>1. holds' = holds /\ req[r].pc = "pick"
      BY <1>7 DEF PickHeir
    <2>2. CASE Goto(r, "delete")
      BY <2>1, <2>2, <1>c DEF InTx
    <2>3. ASSUME NEW h \in Members, req' = [req EXCEPT ![r].heir = h, ![r].pc = "succeed"]
          PROVE  InTx(r)'
      <3>1. req[r] \in Request
        BY <2>1, <1>b, StateOf
      <3>2. req'[r].pc = "succeed"
        BY <2>3, <3>1, <1>b DEF Request
      <3> QED
        BY <3>2 DEF InTx
    <2>4. InTx(r) /\ InTx(r)'
      BY <1>7, <2>1, <2>2, <2>3 DEF PickHeir, InTx
    <2> QED
      BY <2>1, <2>4
  <1>8. CASE PromoteHeir(r) \/ DeleteSelf(r) \/ CheckEmpty(r) \/ WriteGroup(r)
    <2>1. holds' = holds /\ req[r].pc \in {"succeed", "delete", "empty", "drop"}
      BY <1>8 DEF PromoteHeir, DeleteSelf, CheckEmpty, WriteGroup
    <2>2. \E step \in {"delete", "empty", "drop", "commit"} : Goto(r, step)
      BY <1>8 DEF PromoteHeir, DeleteSelf, CheckEmpty, WriteGroup
    <2>3. InTx(r) /\ InTx(r)'
      BY <2>1, <2>2, <1>c DEF InTx
    <2> QED
      BY <2>1, <2>3
  <1>9. CASE Commit(r) \/ Abort(r)
    <2>1. holds' = holds \ {r} /\ Answer(r)
      BY <1>9 DEF Commit, Abort, End
    <2>2. ~InTx(r)'
      BY <2>1, <1>e DEF InTx
    <2> QED
      BY <2>1, <2>2
  <1> QED
    BY <1>1, <1>2, <1>3, <1>4, <1>5, <1>6, <1>7, <1>8, <1>9 DEF Step

LEMMA HoldsPreserved == IInv /\ HoldsInv /\ [Next]_vars => HoldsInv'
  <1> SUFFICES ASSUME IInv, HoldsInv, [Next]_vars PROVE HoldsInv'
    OBVIOUS
  <1>a. TypeOK /\ \A s \in Req : RequestOK(s) /\ (s \in holds <=> InTx(s))
    BY DEF IInv, HoldsInv
  <1>1. ASSUME NEW u \in User, NEW S \in SUBSET User, Create(u, S) PROVE HoldsInv'
    BY <1>1, <1>a DEF Create, HoldsInv, InTx
  <1>2. ASSUME NEW r \in Req, NEW kind \in Kinds, NEW u \in User, Arrive(r, kind, u) PROVE HoldsInv'
    <2>1. holds' = holds /\ req[r].pc = "idle"
      BY <1>2 DEF Arrive, Idle
    <2>2. /\ \A s \in Req \ {r} : req'[s] = req[s]
          /\ req'[r].pc \in {"caller", "invite", "member", "rows"}
      BY <1>2, <1>a, ArrivalMoves
    <2> QED
      BY <2>1, <2>2, <1>a DEF HoldsInv, InTx
  <1>3. ASSUME NEW r \in Req, Step(r) \/ Abort(r) PROVE HoldsInv'
    <2>1. /\ r \in holds' <=> InTx(r)'
          /\ \A s \in Req \ {r} : s \in holds' <=> s \in holds
      BY <1>3, <1>a, HoldsMove
    <2>2. \A s \in Req \ {r} : req'[s] = req[s]
      BY <1>3, <1>a, HandlersMove DEF Good
    <2> QED
      BY <2>1, <2>2, <1>a DEF HoldsInv, InTx
  <1>4. CASE UNCHANGED vars
    BY <1>4, <1>a DEF vars, HoldsInv, InTx
  <1> QED
    BY <1>1, <1>2, <1>3, <1>4 DEF Next

\* Whoever has written rows has an open transaction, and is at its last
\* statements.
LEMMA LockersHold ==
    ASSUME IInv, HoldsInv, NEW s \in Req, NEW u, Locks(s, u)
    PROVE  s \in holds /\ req[s].pc \in {"delete", "empty", "drop", "commit"}
  BY DEF IInv, HoldsInv, TxOK, Locks, InTx

\* Where no request can go on, each waits for a row or for the pool; who
\* waits for a row waits for one that waits for a row too.
LEMMA WaitersWait ==
    ASSUME IInv, HoldsInv, \A r \in Req : ~CanGoOn(r)
    PROVE  /\ \A r \in holds : req[r].pc \in {"target", "count", "succeed", "delete"}
           /\ \A r \in holds : req[r].pc \in {"succeed", "delete"} =>
                \E s \in holds \ {r} : req[s].pc = "delete" /\ WaitsFor(r, s)
           /\ \A r \in Req : Active(r) => ~ConnectionFree \/ holds # {}
           /\ \A r \in holds : req[r].pc \in {"target", "count"} => ~ConnectionFree
  <1>a. holds \subseteq Req /\ \A r \in holds : InTx(r)
    BY DEF HoldsInv, IInv, TypeOK
  <1>1. \A r \in Req : req[r].pc \notin {"pick", "empty", "commit"}
    BY DEF CanGoOn, Active, Steps, At, AsksPool
  <1>2. \A r \in Req : ~GroupLocked(r)
    BY <1>1 DEF GroupLocked, At
  <1>3. \A r \in Req : req[r].pc # "drop"
    BY <1>2 DEF CanGoOn, Active, Steps, At, AsksPool
  <1>4. \A r \in holds : req[r].pc \in {"target", "count", "succeed", "delete"}
    BY <1>a, <1>1, <1>3 DEF InTx
  <1>5. ASSUME NEW r \in Req, NEW u, Locked(u, r)
        PROVE  \E s \in holds \ {r} : req[s].pc = "delete" /\ Locks(s, u)
    <2>1. PICK s \in Req \ {r} : Locks(s, u)
      BY <1>5 DEF Locked
    <2> QED
      BY <2>1, <1>1, <1>3, LockersHold
  <1>6. ASSUME NEW r \in holds, req[r].pc \in {"succeed", "delete"}
        PROVE  \E s \in holds \ {r} : req[s].pc = "delete" /\ WaitsFor(r, s)
    <2>1. CASE req[r].pc = "succeed"
      <3>1. Locked(req[r].heir, r)
        BY <1>a, <2>1 DEF CanGoOn, Active, Steps, At, AsksPool
      <3> QED
        BY <1>a, <1>5, <2>1, <3>1 DEF WaitsFor, At
    <2>2. CASE req[r].pc = "delete"
      <3>1. Locked(req[r].by, r)
        BY <1>a, <2>2 DEF CanGoOn, Active, Steps, At, AsksPool
      <3> QED
        BY <1>a, <1>5, <2>2, <3>1 DEF WaitsFor, At
    <2> QED
      BY <1>6, <2>1, <2>2
  <1>7. ASSUME NEW r \in Req, Active(r) PROVE ~ConnectionFree \/ holds # {}
    <2>1. CASE req[r].pc \in AsksPool
      BY <2>1, <1>2, <1>7 DEF CanGoOn, At, AsksPool
    <2>2. CASE req[r].pc = "write"
      <3>1. req[r].who # {} /\ (~ConnectionFree \/ \A u \in req[r].who : Locked(u, r))
        BY <1>7, <2>2 DEF CanGoOn, At, AsksPool
      <3> QED
        BY <3>1, <1>5
    <2>3. CASE req[r].pc \in {"succeed", "delete"}
      BY <2>3 DEF HoldsInv, InTx
    <2> QED
      BY <1>1, <1>3, <1>7, <2>1, <2>2, <2>3 DEF Active, Steps, AsksPool
  <1>8. ASSUME NEW r \in holds, req[r].pc \in {"target", "count"} PROVE ~ConnectionFree
    BY <1>8, <1>a DEF CanGoOn, Active, Steps, At, AsksPool
  <1> QED
    BY <1>4, <1>6, <1>7, <1>8

\* The group handlers cannot all wait for each other (pgx pool, row locks),
\* unless leaveGroups have taken the whole pool or wait in a circle, which
\* Postgres breaks; for any number of requests and any size of the pool.
THEOREM SomebodyCanGoOn == Spec => []SomebodyGoesOn
  <1>1. Init => HoldsInv
    BY DEF Init, HoldsInv, InTx, Idle
  <1>2. IInv /\ HoldsInv => SomebodyGoesOn
    <2> SUFFICES ASSUME IInv, HoldsInv, \A r \in Req : ~CanGoOn(r), NEW r \in Req, Active(r)
                 PROVE  PoolExhausted \/ LockCycle
      BY DEF SomebodyGoesOn
    <2> DEFINE W == {s \in holds : req[s].pc \in {"succeed", "delete"}}
    <2>1. CASE W # {}
      <3>1. \A s \in W : \E t \in W \ {s} : WaitsFor(s, t)
        BY WaitersWait
      <3>2. W \in (SUBSET holds) \ {{}}
        BY <2>1
      <3> HIDE DEF W
      <3> QED
        BY <3>1, <3>2 DEF LockCycle
    <2>2. CASE W = {}
      <3>1. \A s \in holds : req[s].pc \in {"target", "count"}
        BY <2>2, WaitersWait
      <3>2. ~ConnectionFree
        BY <3>1, WaitersWait
      <3>3. {s \in holds : Active(s)} = holds
        BY <3>1 DEF Active, Steps
      <3>4. holds \in SUBSET Req
        BY DEF IInv, TypeOK
      <3>5. Cardinality(holds) \in Nat
        BY <3>4, GroupAssumption, FS_Subset, FS_CardinalityType
      <3>6. Cardinality(holds) >= PoolSize
        BY <3>2, <3>5, GroupAssumption DEF ConnectionFree
      <3> QED
        BY <3>1, <3>3, <3>6 DEF PoolExhausted
    <2> QED
      BY <2>1, <2>2
  <1> QED
    BY <1>1, <1>2, Inductive, HoldsPreserved, PTL DEF Spec
=============================================================================
