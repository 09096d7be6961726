----------------------------- MODULE GroupAdmin -----------------------------
(***************************************************************************)
(* The group handlers of the api-gateway                                   *)
(* (services/api-gateway/internal/gateway/server.go) on one group.  Every  *)
(* SQL statement is a step, so requests interleave between a check and the *)
(* write it was made for.  Only leaveGroup and createGroup use a           *)
(* transaction; it runs at READ COMMITTED, its writes lock their rows and  *)
(* are seen by others after the commit.                                    *)
(*                                                                         *)
(* The connection pool is part of the model: a statement borrows a         *)
(* connection, a transaction keeps one, and leaveGroup makes two of its    *)
(* checks through the pool while it holds its transaction's connection.    *)
(*                                                                         *)
(* Abstractions: a group's name and time stamps are left out, the successor*)
(* a leaving admin promotes is any other member (the code takes the one    *)
(* with the oldest row), and a statement waiting for a row lock does not   *)
(* occupy a connection: whoever holds a row needs none but its own.  What  *)
(* the reading handlers answer is left out, the statements they wait for   *)
(* and the checks they end at are not.                                     *)
(***************************************************************************)
EXTENDS Naturals, FiniteSets

CONSTANTS
    User,      \* phone numbers
    Req,       \* bound: the requests made after the group was created
    Kinds,     \* the handlers those requests may call
    PoolSize,  \* connections of the pool (25)
    Nobody     \* no user

ASSUME GroupAssumption ==
    /\ IsFiniteSet(User) /\ IsFiniteSet(Req)
    /\ Kinds \subseteq 
         {"promote", "demote", "remove", "add", "join", "reset", "leave",
          "update", "code", "get", "list", "lookup"}
    /\ PoolSize \in Nat
    /\ Nobody \notin User

VARIABLES
    role,      \* committed rows of group_members
    exists,    \* the committed row of groups
    invite,    \* how many invite codes the group has had; the last is valid
    req,       \* the requests
    tx,        \* uncommitted writes of each leaveGroup
    holds,     \* requests that hold a transaction's connection
    disturbed  \* a check was stale or blind: see Disturb and CheckTarget

vars == <<role, exists, invite, req, tx, holds, disturbed>>

NoTx == [promoted |-> {}, gone |-> {}, drop |-> FALSE]

Steps == {"caller", "invite", "target", "count", "write", "touch", "member", "begin",
          "pick", "succeed", "delete", "empty", "drop", "commit", "group", "rows"}

Request == [kind : Kinds, by : User \cup {Nobody}, who : SUBSET User, code : Nat,
            pc : Steps, heir : User \cup {Nobody}]

\* At its last statements nothing matters of a request but what it is after:
\* one that has written its rows only updates the group.
LastSteps == {"touch", "group", "rows"}
Last(kind, step) ==
    [kind |-> CASE step = "rows" -> "list"
                [] step = "touch" /\ kind # "reset" -> "update"
                [] OTHER -> kind,
     pc |-> step]

Idle     == [pc |-> "idle"]
Answered == [pc |-> "answered"]

TypeOK ==
    /\ role \in [User -> {"none", "member", "admin"}]
    /\ exists \in BOOLEAN
    /\ invite \in Nat
    /\ req \in [Req -> Request \cup [kind : Kinds \cup {"update", "list"}, pc : LastSteps]
                           \cup {Idle, Answered}]
    /\ tx \in [Req -> [promoted : SUBSET User, gone : SUBSET User, drop : BOOLEAN]]
    /\ holds \subseteq Req
    /\ disturbed \in BOOLEAN

Init ==
    /\ role = [u \in User |-> "none"]
    /\ exists = FALSE
    /\ invite = 0
    /\ req = [r \in Req |-> Idle]
    /\ tx = [r \in Req |-> NoTx]
    /\ holds = {}
    /\ disturbed = FALSE

-----------------------------------------------------------------------------
Admins  == {u \in User : role[u] = "admin"}
Members == {u \in User : role[u] # "none"}

Active(r) == req[r].pc \in Steps
At(r, step) == req[r].pc = step
\* Once it is checked, the caller is of no more use but to leaveGroup.
Caller(r) == IF req[r].kind = "leave" THEN req[r].by ELSE Nobody
Goto(r, step) ==
    req' = [req EXCEPT ![r] = IF step \in LastSteps THEN Last(@.kind, step)
                              ELSE [@ EXCEPT !.pc = step, !.by = Caller(r)]]
Answer(r) == req' = [req EXCEPT ![r] = Answered]

\* A check that passes leads to the next step; one that fails is answered.
Check(r, ok, step) == IF ok THEN Goto(r, step) ELSE Answer(r)

\* A statement outside a transaction needs a connection of its own.
ConnectionFree == Cardinality(holds) < PoolSize

\* Rows a transaction other than r's has written; the row of the group is the
\* last one leaveGroup writes.
Locks(s, u) == u \in tx[s].promoted \cup tx[s].gone
Locked(u, r) == \E s \in Req \ {r} : Locks(s, u)
GroupLocked(r) == \E s \in Req \ {r} : At(s, "commit") /\ exists

\* Mutant: the error paths of leaveGroup forget the deferred Rollback.
EndLeaking(r) ==
    /\ Answer(r)
    /\ tx' = [tx EXCEPT ![r] = NoTx]
    /\ UNCHANGED holds

\* Ends a request and its transaction, if it has one: what was not committed
\* is rolled back and the connection returned.
End(r) ==
    /\ Answer(r)
    /\ tx' = [tx EXCEPT ![r] = NoTx]
    /\ holds' = holds \ {r}

-----------------------------------------------------------------------------
\* createGroup: one transaction inserts the group, its creator as admin and
\* the members named; when it fails nothing is left.
Create(u, S) ==
    /\ invite = 0
    /\ exists' = TRUE
    /\ invite' = 1
    /\ role' = [v \in User |-> IF v = u THEN "admin" ELSE IF v \in S THEN "member" ELSE "none"]
    /\ UNCHANGED <<req, tx, holds, disturbed>>

\* Handlers that can disturb each other: both take an admin away, or one
\* leaves while the other brings a member in.
Taking == {"demote", "remove", "leave"}
Disturb(k, l) ==
    \/ {k, l} \subseteq Taking
    \/ k = "leave" /\ l \in {"add", "join"}
    \/ l = "leave" /\ k \in {"add", "join"}

FirstStep(kind) ==
    CASE kind \in {"leave", "get"} -> "member" [] kind = "join" -> "invite"
      [] OTHER -> "caller"

\* The users a request of user u may name, and the invite codes it may carry.
Named(kind, u) ==
    CASE kind = "add" -> SUBSET User
      [] kind \in {"promote", "demote", "remove"} -> {{v} : v \in User}
      [] OTHER -> {{u}}
Codes(kind) == IF kind = "join" THEN 1..invite ELSE {0}

\* lookupUsers, like listGroups, is one statement and checks nobody.
ReadsAtOnce == {"list", "lookup"}

\* User u makes a request.
Arrive(r, kind, u) ==
    /\ req[r] = Idle
    /\ invite > 0
    /\ \E who \in Named(kind, u), code \in Codes(kind) :
         req' = [req EXCEPT ![r] =
                   IF kind \in ReadsAtOnce THEN Last(kind, "rows")
                   ELSE [kind |-> kind, by |-> u, who |-> who, code |-> code,
                         pc |-> FirstStep(kind), heir |-> Nobody]]
    /\ disturbed' = (disturbed \/ \E s \in Req : Active(s) /\ Disturb(kind, req[s].kind))
    /\ UNCHANGED <<role, exists, invite, tx, holds>>

\* isGroupAdmin(caller).
CheckCaller(r) ==
    /\ At(r, "caller")
    /\ ConnectionFree
    /\ Check(r, req[r].by \in Admins,
             CASE req[r].kind \in {"demote", "remove"} -> "target"
               [] req[r].kind \in {"reset", "update"}  -> "touch"
               [] req[r].kind = "code"                 -> "group"
               [] OTHER                                -> "write")
    /\ UNCHANGED <<role, exists, invite, tx, holds, disturbed>>

\* isGroupAdmin(target) of demote and remove, and of leave, whose target is
\* the caller, while its transaction is open.  A query that fails counts as
\* "no", which lets remove and leave go on.
CheckTarget(r, err) ==
    /\ At(r, "target")
    /\ ConnectionFree
    /\ LET isAdmin == ~err /\ req[r].who \subseteq Admins
       IN  CASE req[r].kind = "demote" -> Check(r, isAdmin, "count")
             [] req[r].kind = "remove" -> Goto(r, IF isAdmin THEN "count" ELSE "write")
             [] req[r].kind = "leave"  -> Goto(r, IF isAdmin THEN "count" ELSE "delete")
    /\ disturbed' = (disturbed \/ (err /\ req[r].kind # "demote"))
    /\ UNCHANGED <<role, exists, invite, tx, holds>>

\* joinByInvite looks the group of its code up.
CheckInvite(r) ==
    /\ At(r, "invite")
    /\ ConnectionFree
    /\ Check(r, exists /\ req[r].code = invite, "write")
    /\ UNCHANGED <<role, exists, invite, tx, holds, disturbed>>

\* Mutant: the comparison is off by one.
NoAdmin(err) == err \/ Cardinality(Admins) < 1

\* adminCount <= 1, where a query that fails counts as zero.
LastAdmin(err) == err \/ Cardinality(Admins) <= 1

\* demote and remove refuse to touch the last admin, leave looks for an heir.
CheckCount(r, err) ==
    /\ At(r, "count")
    /\ ConnectionFree
    /\ IF req[r].kind = "leave"
       THEN Goto(r, IF LastAdmin(err) THEN "pick" ELSE "delete")
       ELSE Check(r, ~LastAdmin(err), "write")
    /\ UNCHANGED <<role, exists, invite, tx, holds, disturbed>>

\* What a statement on row u leaves of it.
Row(kind, u) ==
    CASE kind = "remove"              -> "none"
      [] kind \in {"add", "join"}     -> IF role[u] = "none" THEN "member" ELSE role[u]
      [] kind = "promote"             -> IF role[u] = "none" THEN "none" ELSE "admin"
      [] kind = "demote"              -> IF role[u] = "none" THEN "none" ELSE "member"

\* The statement a request came for: one row of group_members, of each member
\* in turn for addGroupMembers.
WriteRow(r, u) ==
    /\ At(r, "write")
    /\ u \in req[r].who
    /\ ~Locked(u, r)
    /\ ConnectionFree
    /\ role' = [role EXCEPT ![u] = Row(req[r].kind, u)]
    /\ IF req[r].who = {u} THEN Goto(r, "touch") ELSE req' = [req EXCEPT ![r].who = @ \ {u}]
    /\ UNCHANGED <<exists, invite, tx, holds, disturbed>>

\* addGroupMembers with no phone left after dedupeIDs.
AddNobody(r) ==
    /\ At(r, "write")
    /\ req[r].who = {}
    /\ Goto(r, "touch")
    /\ UNCHANGED <<role, exists, invite, tx, holds, disturbed>>

\* The update of the row of the group, if it is still there: the statement
\* updateGroup and resetGroupInvite came for, the time stamp after a change of
\* its members.  It waits for a leaveGroup that has written the row.
UpdateGroup(r) ==
    /\ At(r, "touch")
    /\ ~GroupLocked(r)
    /\ ConnectionFree
    /\ invite' = IF exists /\ req[r].kind = "reset" THEN invite + 1 ELSE invite
    /\ Answer(r)
    /\ UNCHANGED <<role, exists, tx, holds, disturbed>>

\* getGroup and getGroupInvite read the row of the group, which may be gone.
ReadGroup(r) ==
    /\ At(r, "group")
    /\ ConnectionFree
    /\ Check(r, exists /\ req[r].kind = "get", "rows")
    /\ UNCHANGED <<role, exists, invite, tx, holds, disturbed>>

\* getGroup reads the members as they are by now; listGroups and lookupUsers
\* end here too.
ReadRows(r) ==
    /\ At(r, "rows")
    /\ ConnectionFree
    /\ Answer(r)
    /\ UNCHANGED <<role, exists, invite, tx, holds, disturbed>>

-----------------------------------------------------------------------------
(* leaveGroup *)

CheckMember(r) ==
    /\ At(r, "member")
    /\ ConnectionFree
    /\ Check(r, req[r].by \in Members, IF req[r].kind = "get" THEN "group" ELSE "begin")
    /\ UNCHANGED <<role, exists, invite, tx, holds, disturbed>>

Begin(r) ==
    /\ At(r, "begin")
    /\ ConnectionFree
    /\ holds' = holds \cup {r}
    /\ Goto(r, "target")
    /\ UNCHANGED <<role, exists, invite, tx, disturbed>>

\* The sole admin selects another member, if any.
PickHeir(r) ==
    /\ At(r, "pick")
    /\ \/ /\ Members \subseteq {req[r].by}
          /\ Goto(r, "delete")
       \/ \E h \in Members \ {req[r].by} :
            req' = [req EXCEPT ![r].heir = h, ![r].pc = "succeed"]
    /\ UNCHANGED <<role, exists, invite, tx, holds, disturbed>>

\* Mutant: the heir is promoted by an upsert, as createGroup makes its admin.
UpsertHeir(r) ==
    /\ At(r, "succeed")
    /\ ~Locked(req[r].heir, r)
    /\ tx' = [tx EXCEPT ![r].promoted = {req[r].heir}]
    /\ Goto(r, "delete")
    /\ UNCHANGED <<role, exists, invite, holds, disturbed>>

\* The update of the heir's row, which may be gone by now.
PromoteHeir(r) ==
    /\ At(r, "succeed")
    /\ ~Locked(req[r].heir, r)
    /\ tx' = [tx EXCEPT ![r].promoted = {req[r].heir} \cap Members]
    /\ Goto(r, "delete")
    /\ UNCHANGED <<role, exists, invite, holds, disturbed>>

DeleteSelf(r) ==
    /\ At(r, "delete")
    /\ ~Locked(req[r].by, r)
    /\ tx' = [tx EXCEPT ![r].gone = {req[r].by} \cap Members]
    /\ Goto(r, "empty")
    /\ UNCHANGED <<role, exists, invite, holds, disturbed>>

\* The transaction counts the rows it sees: at zero the group is to go.
CheckEmpty(r) ==
    /\ At(r, "empty")
    /\ tx' = [tx EXCEPT ![r].drop = Members \subseteq tx[r].gone]
    /\ Goto(r, "drop")
    /\ UNCHANGED <<role, exists, invite, holds, disturbed>>

\* It deletes the group, or updates its time stamp.
WriteGroup(r) ==
    /\ At(r, "drop")
    /\ ~GroupLocked(r)
    /\ Goto(r, "commit")
    /\ UNCHANGED <<role, exists, invite, tx, holds, disturbed>>

Commit(r) ==
    /\ At(r, "commit")
    /\ role' = [u \in User |-> IF u \in tx[r].gone THEN "none"
                               ELSE IF u \in tx[r].promoted THEN "admin" ELSE role[u]]
    /\ exists' = (exists /\ ~tx[r].drop)
    /\ End(r)
    /\ UNCHANGED <<invite, disturbed>>

\* The client goes away, a statement fails, or Postgres breaks a deadlock:
\* the handler returns, and the deferred Rollback ends its transaction.
Abort(r) ==
    /\ Active(r)
    /\ End(r)
    /\ UNCHANGED <<role, exists, invite, disturbed>>

-----------------------------------------------------------------------------
Step(r) ==
    \/ CheckCaller(r) \/ CheckInvite(r)
    \/ \E err \in BOOLEAN : CheckTarget(r, err) \/ CheckCount(r, err)
    \/ \E u \in User : WriteRow(r, u)
    \/ AddNobody(r) \/ UpdateGroup(r) \/ ReadGroup(r) \/ ReadRows(r)
    \/ CheckMember(r) \/ Begin(r) \/ PickHeir(r) \/ PromoteHeir(r)
    \/ DeleteSelf(r) \/ CheckEmpty(r) \/ WriteGroup(r) \/ Commit(r)

Next ==
    \/ \E u \in User, S \in SUBSET User : Create(u, S)
    \/ \E r \in Req, kind \in Kinds, u \in User : Arrive(r, kind, u)
    \/ \E r \in Req : Step(r) \/ Abort(r)

Spec == Init /\ [][Next]_vars

-----------------------------------------------------------------------------
(* Safety *)

\* A group is there as long as it has members, and then has an admin.
HasAdmin == Members # {} => Admins # {}
Consistent == HasAdmin /\ (exists <=> Members # {})

\* Requests keep the group consistent however they interleave, abort or fail,
\* as long as no two overlapped that both take an admin away, or that leave
\* and bring a member in, and no isGroupAdmin of a target failed in remove or
\* leave.  The checks are statements of their own: only these make one stale
\* or blind, every other overlap and error is harmless.
ConsistentUnlessDisturbed == disturbed \/ Consistent

\* Whatever overlaps, a row of a member that is leaving is not changed under
\* the transaction that deletes it, and an heir whose promotion is waiting
\* for the commit is still a member when it comes.
TxRowsUntouched ==
    \A r \in Req : tx[r].gone \cup tx[r].promoted \subseteq Members

\* States are what they should be, and rows under a transaction are left alone.
Inv == TypeOK /\ TxRowsUntouched

(* Absence of deadlock *)

\* Statements that need a connection of their own.
AsksPool == {"caller", "invite", "target", "count", "touch", "member", "begin", "group", "rows"}

\* Request r waits for nobody: what it needs of the pool is free, and no other
\* transaction has written what it is to write.
CanGoOn(r) ==
    /\ Active(r)
    /\ req[r].pc \in AsksPool => ConnectionFree
    /\ At(r, "write") =>
         req[r].who = {} \/ (ConnectionFree /\ \E u \in req[r].who : ~Locked(u, r))
    /\ req[r].pc \in {"touch", "drop"} => ~GroupLocked(r)
    /\ At(r, "succeed") => ~Locked(req[r].heir, r)
    /\ At(r, "delete") => ~Locked(req[r].by, r)

\* Every connection is held by a leaveGroup, and none can go on without
\* another one.
PoolExhausted ==
    /\ Cardinality({r \in holds : Active(r)}) >= PoolSize
    /\ \A r \in holds : req[r].pc \in {"target", "count"}

\* leaveGroup r waits for a row s has written.
WaitsFor(r, s) ==
    \/ At(r, "succeed") /\ Locks(s, req[r].heir)
    \/ At(r, "delete") /\ Locks(s, req[r].by)

\* Transactions that wait for each other; Postgres aborts one of them.
LockCycle ==
    \E S \in (SUBSET holds) \ {{}} : \A r \in S : \E s \in S \ {r} : WaitsFor(r, s)

\* Whatever requests overlap, abort and fail, some request under way can go on,
\* so the gateway cannot hang on its database: unless transactions wait for
\* each other's rows, or leaveGroup, which asks the pool for a connection
\* while it holds one, has taken the whole pool.
SomebodyGoesOn ==
    \/ \A r \in Req : ~Active(r)
    \/ \E r \in Req : CanGoOn(r)
    \/ PoolExhausted
    \/ LockCycle

\* ... and to go on is to have a step.
NobodyStuck == SomebodyGoesOn /\ \A r \in Req : CanGoOn(r) <=> ENABLED Step(r)

(* What the error responses promise *)

\* "cannot remove last admin" (server.go:588) and "cannot demote last admin"
\* (server.go:642): a group with members never loses its last admin.
LastAdminStays == HasAdmin
=============================================================================
