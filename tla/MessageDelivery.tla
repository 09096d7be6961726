-------------------------- MODULE MessageDelivery --------------------------
(***************************************************************************)
(* chat-service (services/chat-service/cmd/server.go): SendMessage with    *)
(* the delivery to each recipient, MarkDelivered and MarkRead, and the     *)
(* consumers that tell the sender about a status, with the part of main()  *)
(* that starts and stops them.  Around it: Postgres, Redis and the         *)
(* api-gateway that connects the users, as far as chat-service can see     *)
(* them.                                                                   *)
(*                                                                         *)
(* Each statement sent to a store is a step of its own.  It may fail, and  *)
(* a failed statement may have been applied all the same; the budget       *)
(* MaxFaults bounds failures, cancelled requests and crashes together.  An *)
(* orderly stop is no failure: handlers end, but the consumers' context is *)
(* cancelled and nobody waits for them.                                    *)
(*                                                                         *)
(* Abstractions: a call sends one message, so messages name their calls;   *)
(* recipients are a set, as dedupeRecipients makes them; the workers of    *)
(* groupFanout serve the members of a group in any order and overlapping,  *)
(* those of a direct message are served one after the other.               *)
(***************************************************************************)
EXTENDS Naturals, Sequences, FiniteSets

CONSTANTS
    Msg,        \* SendMessage calls, and the messages they store
    User,       \* phone numbers
    Sender,     \* the sender of each message
    Roaming,    \* bound: users who come and go at the gateway
    Marker,     \* bound: users in whose name messages are marked
    MaxTries,   \* bound: how often one mark is repeated
    MaxMarks,   \* bound: MarkDelivered and MarkRead calls
    MaxFaults,  \* bound: failures, cancellations and crashes
    MaxStops    \* bound: signals chat-service gets

ASSUME DeliveryAssumption ==
    /\ Sender \in [Msg -> User]
    /\ Roaming \subseteq User
    /\ Marker \subseteq User
    /\ MaxTries \in Nat
    /\ MaxMarks \in Nat
    /\ MaxFaults \in Nat
    /\ MaxStops \in Nat

VARIABLES
    call,      \* progress of each SendMessage call
    isGroup,   \* calls that name a group
    rcpt,      \* recipients each call resolved
    route,     \* progress of deliverToRecipient for each recipient
    ctxGone,   \* calls whose context is cancelled
    stored,    \* the messages table
    status,    \* the message_status table
    announced, \* messages on the msg.sent stream
    pushed,    \* PUBLISH commands done on a recipient's channel
    queued,    \* LPUSH commands done on a recipient's offline list
    received,  \* users a push has reached
    mark,      \* progress of each MarkDelivered or MarkRead call
    events,    \* entries of the msg.delivered and msg.read streams not read
    taken,     \* entries each stream's consumer has read and not handled
    ticks,     \* ticks published on senders' channels
    lost,      \* marks one of whose events came to nothing
    presence,  \* users whose presence key says online
    link,      \* each user's connection to the gateway
    proc,      \* chat-service runs, is stopping or is down
    reading,   \* streams whose consumer is to read again or is reading
    stops,     \* signals so far
    faults     \* failures so far

sendVars  == <<call, isGroup, rcpt, route, ctxGone>>
storeVars == <<stored, announced, pushed, queued, received>>
markVars  == <<mark, events, taken, ticks, lost>>
procVars  == <<proc, reading, stops>>
userVars  == <<presence, link>>
vars == <<call, isGroup, rcpt, route, ctxGone, stored, status, announced,
          pushed, queued, received, mark, events, taken, ticks, lost, presence, link,
          proc, reading, stops, faults>>

Stream == {"delivered", "read"}

\* MarkDelivered and MarkRead calls: the same one may be made again.
Mark == [msg : Msg, user : Marker, status : Stream, try : 1..MaxTries]

Open == {"ensure", "insert", "sent", "announce", "route"}

TypeOK ==
    /\ call \in [Msg -> {"idle", "ok", "failed"} \cup Open]
    /\ isGroup \subseteq Msg
    /\ rcpt \in [Msg -> SUBSET User]
    /\ route \in [Msg -> [User -> {"todo", "online", "offline", "marking", "done"}]]
    /\ ctxGone \subseteq Msg
    /\ stored \in [Msg -> {"absent", "present", "ghost"}]
    /\ status \in [Msg -> [User -> {"none", "sent", "delivered", "read"}]]
    /\ announced \subseteq Msg
    /\ pushed \in [Msg -> [User -> Nat]]
    /\ queued \in [Msg -> [User -> Nat]]
    /\ received \in [Msg -> SUBSET User]
    /\ mark \in [Mark -> {"none", "called", "upserted", "ok", "failed"}]
    /\ events \in [Stream -> Seq(Mark)]
    /\ taken \in [Stream -> Seq(Mark)]
    /\ ticks \subseteq Mark
    /\ lost \subseteq Mark
    /\ presence \subseteq User
    /\ link \in [User -> {"away", "starting", "live"}]
    /\ proc \in {"up", "stopping", "down"}
    /\ reading \subseteq Stream
    /\ stops \in 0..MaxStops
    /\ faults \in 0..MaxFaults

Init ==
    /\ call = [m \in Msg |-> "idle"]
    /\ isGroup = {}
    /\ rcpt = [m \in Msg |-> {}]
    /\ route = [m \in Msg |-> [u \in User |-> "todo"]]
    /\ ctxGone = {}
    /\ stored = [m \in Msg |-> "absent"]
    /\ status = [m \in Msg |-> [u \in User |-> "none"]]
    /\ announced = {}
    /\ pushed = [m \in Msg |-> [u \in User |-> 0]]
    /\ queued = [m \in Msg |-> [u \in User |-> 0]]
    /\ received = [m \in Msg |-> {}]
    /\ mark = [k \in Mark |-> "none"]
    /\ events = [s \in Stream |-> <<>>]
    /\ taken = [s \in Stream |-> <<>>]
    /\ ticks = {}
    /\ lost = {}
    /\ presence = {}
    /\ link = [u \in User |-> "away"]
    /\ proc = "up"
    /\ reading = Stream
    /\ stops = 0
    /\ faults = 0

-----------------------------------------------------------------------------
(* Statements and their failures *)

\* A statement succeeds, is lost, or fails although it was applied.
Results == IF faults < MaxFaults THEN {"ok", "lost", "applied"} ELSE {"ok"}

\* With a cancelled context it fails before it is sent.
ResultsOf(m) == IF m \in ctxGone THEN {"lost"} ELSE Results

\* The Redis client sends a command again when its reply is lost: the command
\* succeeds and may have been applied twice.
RedisResults == IF faults < MaxFaults THEN Results \cup {"twice"} ELSE Results
RedisResultsOf(m) == IF m \in ctxGone THEN {"lost"} ELSE RedisResults

Applied(res) == res # "lost"
Copies(res) == CASE res = "lost" -> 0 [] res = "twice" -> 2 [] OTHER -> 1

Charge(res) == faults' = IF res = "ok" THEN faults ELSE faults + 1
ChargeOf(m, res) == IF m \in ctxGone THEN UNCHANGED faults ELSE Charge(res)

\* Where a call goes after a statement whose error ends it.
GoOn(m, res, next) == call' = [call EXCEPT ![m] = IF res = "ok" THEN next ELSE "failed"]

-----------------------------------------------------------------------------
(* SendMessage *)

\* dedupeRecipients drops repeats and the sender.
Recipients(m, S) == S \ {Sender[m]}

\* GetGroupMembers asks the replica, for a group message only.  Which members
\* it finds is open: the replica may be behind.
GetGroupMembers(group) == IF group THEN Results \ {"applied"} ELSE {"ok"}

\* SendMessage validates and reads a group's members; it fails when nobody is
\* left.
Start(m, group, S) ==
    /\ proc = "up"
    /\ call[m] = "idle"
    /\ \E res \in GetGroupMembers(group) :
         /\ Charge(res)
         /\ rcpt' = [rcpt EXCEPT ![m] = Recipients(m, S)]
         /\ call' = [call EXCEPT ![m] =
                       IF res = "ok" /\ rcpt'[m] # {} THEN "ensure" ELSE "failed"]
    /\ isGroup' = IF group THEN isGroup \cup {m} ELSE isGroup
    /\ UNCHANGED <<route, ctxGone, storeVars, status, markVars, userVars, procVars>>

\* EnsureConversation.
Ensure(m) ==
    /\ call[m] = "ensure"
    /\ \E res \in ResultsOf(m) : GoOn(m, res, "insert") /\ ChargeOf(m, res)
    /\ UNCHANGED <<isGroup, rcpt, route, ctxGone, storeVars, status, markVars, userVars, procVars>>

\* InsertMessage: after an error the call ends, and a row that was inserted
\* nevertheless is a ghost nobody was told of.
Insert(m) ==
    /\ call[m] = "insert"
    /\ \E res \in ResultsOf(m) :
         /\ GoOn(m, res, "sent")
         /\ ChargeOf(m, res)
         /\ stored' = [stored EXCEPT ![m] =
                         CASE res = "ok" -> "present" [] res = "lost" -> "absent" [] OTHER -> "ghost"]
    /\ UNCHANGED <<isGroup, rcpt, route, ctxGone, announced, pushed, queued, received,
                   status, markVars, userVars, procVars>>

\* UpsertMessageStatus overwrites whatever status the row has.
Upsert(m, u, s, res) ==
    status' = IF Applied(res) THEN [status EXCEPT ![m][u] = s] ELSE status

\* The sender's own row becomes "sent"; an error is ignored.
MarkSent(m) ==
    /\ call[m] = "sent"
    /\ call' = [call EXCEPT ![m] = "announce"]
    /\ \E res \in ResultsOf(m) : Upsert(m, Sender[m], "sent", res) /\ ChargeOf(m, res)
    /\ UNCHANGED <<isGroup, rcpt, route, ctxGone, storeVars, markVars, userVars, procVars>>

\* bus.Publish("msg.sent"); an error is logged.
Announce(m) ==
    /\ call[m] = "announce"
    /\ call' = [call EXCEPT ![m] = "route"]
    /\ \E res \in RedisResultsOf(m) :
         /\ announced' = IF Applied(res) THEN announced \cup {m} ELSE announced
         /\ ChargeOf(m, res)
    /\ UNCHANGED <<isGroup, rcpt, route, ctxGone, stored, pushed, queued, received, status,
                   markVars, userVars, procVars>>

\* Mutant: groupFanout starts no worker for its only batch.
MayBeginDirect(m, u) ==
    m \notin isGroup /\ \A v \in rcpt[m] \ {u} : route[m][v] \in {"todo", "done"}

\* A direct message's loop has one recipient in hand at a time.
MayBegin(m, u) ==
    m \in isGroup \/ \A v \in rcpt[m] \ {u} : route[m][v] \in {"todo", "done"}

RouteTo(m, u, step) == route' = [route EXCEPT ![m][u] = step]

\* isOnline reads the presence key; an error counts as offline.
CheckPresence(m, u) ==
    /\ call[m] = "route"
    /\ u \in rcpt[m]
    /\ route[m][u] = "todo"
    /\ MayBegin(m, u)
    /\ \E res \in ResultsOf(m) \ {"applied"} :
         /\ RouteTo(m, u, IF res = "ok" /\ u \in presence THEN "online" ELSE "offline")
         /\ ChargeOf(m, res)
    /\ UNCHANGED <<call, isGroup, rcpt, ctxGone, storeVars, status, markVars, userVars, procVars>>

\* Mutant: a push that fails falls back to the offline list.
PushOrQueue(m, u) ==
    /\ call[m] = "route"
    /\ route[m][u] = "online"
    /\ \E res \in RedisResultsOf(m) :
         /\ ChargeOf(m, res)
         /\ pushed' = [pushed EXCEPT ![m][u] = @ + Copies(res)]
         /\ received' = IF Applied(res) /\ link[u] = "live"
                        THEN [received EXCEPT ![m] = @ \cup {u}] ELSE received
         /\ RouteTo(m, u, IF res = "ok" THEN "marking" ELSE "offline")
    /\ UNCHANGED <<call, isGroup, rcpt, ctxGone, stored, announced, queued, status, markVars, userVars, procVars>>

\* PUBLISH on the recipient's channel reaches whoever is subscribed then.  An
\* error is logged and the number of receivers ignored.
Push(m, u) ==
    /\ call[m] = "route"
    /\ route[m][u] = "online"
    /\ \E res \in RedisResultsOf(m) :
         /\ ChargeOf(m, res)
         /\ pushed' = [pushed EXCEPT ![m][u] = @ + Copies(res)]
         /\ received' = IF Applied(res) /\ link[u] = "live"
                        THEN [received EXCEPT ![m] = @ \cup {u}] ELSE received
    /\ RouteTo(m, u, "marking")
    /\ UNCHANGED <<call, isGroup, rcpt, ctxGone, stored, announced, queued, status, markVars, userVars, procVars>>

\* The recipient's row becomes "delivered", whatever came of the push.
MarkRouted(m, u) ==
    /\ call[m] = "route"
    /\ route[m][u] = "marking"
    /\ \E res \in ResultsOf(m) : Upsert(m, u, "delivered", res) /\ ChargeOf(m, res)
    /\ RouteTo(m, u, "done")
    /\ UNCHANGED <<call, isGroup, rcpt, ctxGone, storeVars, markVars, userVars, procVars>>

\* Mutant: a queued message counts as delivered.
QueueAsDelivered(m, u) ==
    /\ call[m] = "route"
    /\ route[m][u] = "offline"
    /\ \E res \in RedisResultsOf(m) :
         /\ ChargeOf(m, res)
         /\ queued' = [queued EXCEPT ![m][u] = @ + Copies(res)]
         /\ Upsert(m, u, "delivered", res)
    /\ RouteTo(m, u, "done")
    /\ UNCHANGED <<call, isGroup, rcpt, ctxGone, stored, announced, pushed, received,
                   markVars, userVars, procVars>>

\* The pipeline pushes onto the offline list and renews its TTL.
Queue(m, u) ==
    /\ call[m] = "route"
    /\ route[m][u] = "offline"
    /\ \E res \in RedisResultsOf(m) :
         /\ ChargeOf(m, res)
         /\ queued' = [queued EXCEPT ![m][u] = @ + Copies(res)]
    /\ RouteTo(m, u, "done")
    /\ UNCHANGED <<call, isGroup, rcpt, ctxGone, stored, announced, pushed, received, status,
                   markVars, userVars, procVars>>

\* Mutant: groupFanout returns without waiting for its workers.
NoneWaiting(m) == \A u \in rcpt[m] : route[m][u] # "todo"

\* The loop has ended, or groupFanout's wg.Wait has returned.
AllServed(m) == \A u \in rcpt[m] : route[m][u] = "done"

\* SendMessage responds; a caller whose context is gone sees an error.
Finish(m) ==
    /\ call[m] = "route"
    /\ AllServed(m)
    /\ call' = [call EXCEPT ![m] = IF m \in ctxGone THEN "failed" ELSE "ok"]
    /\ UNCHANGED <<isGroup, rcpt, route, ctxGone, storeVars, status, markVars, userVars, procVars, faults>>

\* The caller goes away or its deadline passes.
CtxCancelled(m) ==
    /\ call[m] \in Open
    /\ m \notin ctxGone
    /\ faults < MaxFaults
    /\ ctxGone' = ctxGone \cup {m}
    /\ faults' = faults + 1
    /\ UNCHANGED <<call, isGroup, rcpt, route, storeVars, status, markVars, userVars, procVars>>

-----------------------------------------------------------------------------
(* Status updates *)

\* MarkDelivered or MarkRead is called, for any message and in any user's
\* name: markStatus checks neither who was addressed nor what was marked
\* before.
CallMark(k) ==
    /\ proc = "up"
    /\ mark[k] = "none"
    /\ \A t \in 1..(k.try - 1) : mark[[k EXCEPT !.try = t]] # "none"
    /\ Cardinality({l \in Mark : mark[l] # "none"}) < MaxMarks
    /\ mark' = [mark EXCEPT ![k] = "called"]
    /\ UNCHANGED <<sendVars, storeVars, status, events, taken, ticks, lost, userVars, procVars, faults>>

\* The row refers to a message, so a mark of none is refused.
MarkResults(m) == IF stored[m] = "absent" THEN {"refused"} ELSE Results

\* Mutant: markStatus publishes its event although the upsert failed.
MarkUpsertIgnoring(k) ==
    /\ mark[k] = "called"
    /\ \E res \in MarkResults(k.msg) :
         /\ IF res = "refused" THEN UNCHANGED <<status, faults>>
            ELSE Upsert(k.msg, k.user, k.status, res) /\ Charge(res)
         /\ mark' = [mark EXCEPT ![k] = "upserted"]
    /\ UNCHANGED <<sendVars, storeVars, events, taken, ticks, lost, userVars, procVars>>

\* markStatus writes the row; an error ends the call.
MarkUpsert(k) ==
    /\ mark[k] = "called"
    /\ \E res \in MarkResults(k.msg) :
         /\ IF res = "refused" THEN UNCHANGED <<status, faults>>
            ELSE Upsert(k.msg, k.user, k.status, res) /\ Charge(res)
         /\ mark' = [mark EXCEPT ![k] = IF res = "ok" THEN "upserted" ELSE "failed"]
    /\ UNCHANGED <<sendVars, storeVars, events, taken, ticks, lost, userVars, procVars>>

\* The events of the marks S come to nothing.
Lose(S) == lost' = lost \cup S

\* markStatus publishes the event; an error is logged.
MarkPublish(k) ==
    /\ mark[k] = "upserted"
    /\ mark' = [mark EXCEPT ![k] = "ok"]
    /\ \E res \in RedisResults :
         /\ events' = [events EXCEPT ![k.status] = @ \o [i \in 1..Copies(res) |-> k]]
         /\ Lose(IF Applied(res) THEN {} ELSE {k})
         /\ Charge(res)
    /\ UNCHANGED <<sendVars, storeVars, status, taken, ticks, userVars, procVars>>

\* The consumer of stream s reads some of the entries nobody has read.  When
\* the reply is lost they are gone: only new entries are ever asked for.  A
\* read that fails without effect is tried again.  While the process is
\* stopping, this is the end of the read that was under way.
ReadEvents(s) ==
    /\ s \in reading
    /\ taken[s] = <<>>
    /\ events[s] # <<>>
    /\ \E n \in 1..Len(events[s]), res \in Results \ {"lost"} :
         LET got == SubSeq(events[s], 1, n)
         IN  /\ events' = [events EXCEPT ![s] = SubSeq(@, n + 1, Len(@))]
             /\ taken' = IF res = "ok" THEN [taken EXCEPT ![s] = got] ELSE taken
             /\ Lose(IF res = "ok" THEN {} ELSE {got[i] : i \in 1..n})
             /\ Charge(res)
    /\ reading' = IF proc = "up" THEN reading ELSE reading \ {s}
    /\ UNCHANGED <<sendVars, storeVars, status, mark, ticks, userVars, proc, stops>>

\* GetMessageByID finds a row that was inserted, unless the query fails, as
\* it does with the cancelled context of a process that is stopping.
GetMessageByID(m) ==
    IF proc # "up" \/ stored[m] = "absent" THEN {"lost"} ELSE Results \ {"applied"}


\* handleStatusEvent looks the message up and publishes a tick to its sender;
\* when either fails the event is dropped.  Each stream has its own consumer.
HandleStatusEvent(s) ==
    /\ taken[s] # <<>>
    /\ \E found \in GetMessageByID(Head(taken[s]).msg) :
       \E res \in IF found = "ok" THEN Results ELSE {found} :
         /\ ticks' = IF Applied(res) THEN ticks \cup {Head(taken[s])} ELSE ticks
         /\ Lose(IF Applied(res) THEN {} ELSE {Head(taken[s])})
         /\ IF proc = "up" THEN Charge(res) ELSE UNCHANGED faults
    /\ taken' = [taken EXCEPT ![s] = Tail(@)]
    /\ UNCHANGED <<sendVars, storeVars, status, mark, events, userVars, procVars>>

\* The consumer's last read takes nothing.
EndConsumer(s) ==
    /\ proc = "stopping"
    /\ s \in reading
    /\ reading' = reading \ {s}
    /\ UNCHANGED <<sendVars, storeVars, status, markVars, userVars, proc, stops, faults>>

-----------------------------------------------------------------------------
(* main(), and crashes *)

\* A signal cancels ctx: new calls are refused, and the consumers go no
\* further than the read they are in.
Signal ==
    /\ proc = "up"
    /\ stops < MaxStops
    /\ proc' = "stopping"
    /\ stops' = stops + 1
    /\ reading' = {s \in reading : taken[s] = <<>>}
    /\ UNCHANGED <<sendVars, storeVars, status, markVars, userVars, faults>>

\* The process is gone with what its consumers had read.
Gone ==
    /\ proc' = "down"
    /\ reading' = {}
    /\ taken' = [s \in Stream |-> <<>>]
    /\ Lose(UNION {{taken[s][i] : i \in DOMAIN taken[s]} : s \in Stream})

\* GracefulStop has waited for the handlers, and nobody for the consumers.
Exit ==
    /\ proc = "stopping"
    /\ \A m \in Msg : call[m] \notin Open
    /\ \A k \in Mark : mark[k] \notin {"called", "upserted"}
    /\ Gone
    /\ UNCHANGED <<sendVars, storeVars, status, mark, events, ticks, userVars, stops, faults>>

\* chat-service is started again and joins the same consumer group.
StartAgain ==
    /\ proc = "down"
    /\ proc' = "up"
    /\ reading' = Stream
    /\ UNCHANGED <<sendVars, storeVars, status, markVars, userVars, stops, faults>>

\* chat-service crashes: the calls in progress are gone, their callers see an
\* error, and what the stores hold remains.
Crash ==
    /\ proc # "down"
    /\ faults < MaxFaults
    /\ faults' = faults + 1
    /\ call' = [m \in Msg |-> IF call[m] \in Open THEN "failed" ELSE call[m]]
    /\ mark' = [k \in Mark |-> IF mark[k] \in {"called", "upserted"} THEN "failed" ELSE mark[k]]
    /\ Gone
    /\ UNCHANGED <<isGroup, rcpt, route, ctxGone, storeVars, status, events, ticks, userVars, stops>>

-----------------------------------------------------------------------------
(* The gateway *)

\* The hub adds a connection: it sets the presence key, or logs that it
\* could not, and starts a goroutine that will subscribe.
Connect(u) ==
    /\ link[u] = "away"
    /\ presence' \in {presence, presence \cup {u}}
    /\ link' = [link EXCEPT ![u] = "starting"]
    /\ UNCHANGED <<sendVars, storeVars, status, markVars, procVars, faults>>

Subscribe(u) ==
    /\ link[u] = "starting"
    /\ link' = [link EXCEPT ![u] = "live"]
    /\ UNCHANGED <<sendVars, storeVars, status, markVars, presence, procVars, faults>>

\* The client goes away.  The key stays (see GatewayHub) ...
Disconnect(u) ==
    /\ link[u] # "away"
    /\ link' = [link EXCEPT ![u] = "away"]
    /\ UNCHANGED <<sendVars, storeVars, status, markVars, presence, procVars, faults>>

\* ... until it expires.
PresenceExpires(u) ==
    /\ u \in presence
    /\ presence' = presence \ {u}
    /\ UNCHANGED <<sendVars, storeVars, status, markVars, link, procVars, faults>>

-----------------------------------------------------------------------------
SendStep(m) ==
    \/ Ensure(m) \/ Insert(m) \/ MarkSent(m) \/ Announce(m) \/ Finish(m)
    \/ \E u \in User : CheckPresence(m, u) \/ Push(m, u) \/ MarkRouted(m, u) \/ Queue(m, u)

MarkStep(k) == MarkUpsert(k) \/ MarkPublish(k)

ConsumerStep(s) == ReadEvents(s) \/ HandleStatusEvent(s) \/ EndConsumer(s)

Next ==
    \/ \E m \in Msg, group \in BOOLEAN, S \in SUBSET User : Start(m, group, S)
    \/ \E m \in Msg : SendStep(m) \/ CtxCancelled(m)
    \/ \E k \in Mark : CallMark(k) \/ MarkStep(k)
    \/ \E s \in Stream : ConsumerStep(s)
    \/ \E u \in Roaming : Connect(u) \/ Subscribe(u) \/ Disconnect(u) \/ PresenceExpires(u)
    \/ Signal \/ Exit \/ StartAgain \/ Crash

Spec == Init /\ [][Next]_vars

\* Calls that began go on, the consumers keep reading and a process that is
\* stopping exits; users, failures and whoever starts the process again owe
\* nothing.
FairSpec ==
    /\ Spec
    /\ \A m \in Msg : WF_vars(SendStep(m))
    /\ \A k \in Mark : WF_vars(MarkStep(k))
    /\ \A s \in Stream : WF_vars(ConsumerStep(s))
    /\ WF_vars(Exit)
-----------------------------------------------------------------------------
(* Safety *)

\* A message is handed to a recipient at most once, by a push or through
\* the offline list but not both, whatever fails in between, and never to
\* its sender or to somebody who was not addressed.  A second copy needs a
\* reply that Redis lost.
HandedAtMostOnce ==
    \A m \in Msg, u \in User :
      /\ pushed[m][u] = 0 \/ queued[m][u] = 0
      /\ pushed[m][u] + queued[m][u] <= 1 + faults
      /\ pushed[m][u] + queued[m][u] > 0 => u \in rcpt[m] \ {Sender[m]}

\* When SendMessage reports success the message is stored and every recipient
\* was served; without failures, each got it pushed or queued.  Group workers
\* run concurrently with the caller, who must not respond before them.
AckMeansHanded ==
    \A m \in Msg : call[m] = "ok" =>
      /\ stored[m] = "present"
      /\ \A u \in rcpt[m] : route[m][u] = "done"
      /\ faults = 0 => \A u \in rcpt[m] : pushed[m][u] + queued[m][u] = 1

\* No announcement, push or queue entry ever refers to a message whose
\* insertion failed or is still to come, and no tick to one without a row.
StoredFirst ==
    \A m \in Msg :
      /\ m \in announced \/ (\E u \in User : pushed[m][u] + queued[m][u] > 0)
           => stored[m] = "present"
      /\ (\E k \in ticks : k.msg = m) => stored[m] # "absent"

\* States are what they should be, each recipient is served once, before the
\* caller is answered and after the message is stored.
Inv == TypeOK /\ HandedAtMostOnce /\ AckMeansHanded /\ StoredFirst

\* A status row never claims what nobody did: "read" needs a MarkRead, only
\* the sender is "sent", and without a MarkDelivered "delivered" stands for an
\* attempted push and never for a message parked in the offline list.
StatusJustified ==
    \A m \in Msg, u \in User :
      LET marked(s) == \E k \in Mark :
                         k.msg = m /\ k.user = u /\ k.status = s /\ mark[k] \notin {"none", "called"}
      IN  /\ status[m][u] = "delivered" =>
               marked("delivered") \/ (route[m][u] = "done" /\ queued[m][u] = 0)
          /\ status[m][u] = "read" => marked("read")
          /\ status[m][u] = "sent" => u = Sender[m]

\* The sender never sees a tick of a user whose status row was not written:
\* markStatus writes before it publishes, and a late consumer finds the row.
\* Only a sender that marks its own message may find it "sent" again.
TickHasRow ==
    \A k \in ticks : \/ status[k.msg][k.user] \in {"delivered", "read"}
                     \/ status[k.msg][k.user] = "sent" /\ k.user = Sender[k.msg]

\* What the sender sees has a row, and every row a reason.
RowsTrue == StatusJustified /\ TickHasRow

(* Liveness *)

\* Every call of SendMessage ends, with all the recipients it has to serve.
CallsFinish == \A m \in Msg : (call[m] \in Open) ~> (call[m] \in {"ok", "failed"})


(* What the gateway's presence key is for *)

\* "Mark user as online in Redis for chat-service delivery" (hub.go:147): a
\* message pushed because its recipient is online reaches the recipient.
PushReachesUser ==
    \A m \in Msg, u \in User : pushed[m][u] > 0 => u \in received[m]

-----------------------------------------------------------------------------
(* SendMessage implements MessageContract *)

fate ==
    [m \in Msg |-> [u \in User |->
       IF stored[m] # "present" \/ u \notin rcpt[m] THEN "none"
       ELSE IF pushed[m][u] + queued[m][u] > 0 THEN "handed"
       ELSE IF route[m][u] \in {"marking", "done"} \/ call[m] = "failed" THEN "lost"
       ELSE "accepted"]]

reply ==
    [m \in Msg |-> CASE call[m] = "ok" -> "ok" [] call[m] = "failed" -> "error" [] OTHER -> "none"]

Contract == INSTANCE MessageContract

\* Every step of chat-service is a step of the contract or changes nothing
\* the contract speaks of.
ImplementsContract == Contract!Spec
-----------------------------------------------------------------------------
(* The calls implement AnyOrder *)

\* The recipients whose turn is to come, and those deliverToRecipient is busy
\* with.
Waiting(m) == {u \in rcpt[m] : route[m][u] = "todo"}
InHand(m) == {u \in rcpt[m] : route[m][u] \in {"online", "offline", "marking"}}

\* A call as AnyOrder sees it, which GroupFanout implements by its goroutines:
\* there deliverToRecipient is a beginning and an end, here these are the
\* look-up of the presence and the last statement.
Serving(m) == INSTANCE AnyOrder WITH
    Recipient <- User,
    waiting <- Waiting(m),
    busy <- InHand(m),
    returned <- call[m] # "route"

\* From the announcement on a call behaves as AnyOrder says, whatever else
\* goes on in the process: it begins with all its recipients waiting, serves
\* each of them once, and returns when none is left.  Only a crash ends it
\* before.
ServesInAnyOrder ==
    [][\A m \in Msg :
         /\ call[m] # "route" /\ call'[m] = "route" =>
              Serving(m)!Init' /\ Waiting(m)' = rcpt'[m]
         /\ call[m] = "route" => [Serving(m)!Next]_(Serving(m)!vars) \/ Crash]_vars

\* What SendMessage does is what both abstractions say.
SendRefines == ImplementsContract /\ ServesInAnyOrder
=============================================================================
