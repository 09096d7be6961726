------------------------------- MODULE WsHub -------------------------------
(***************************************************************************)
(* The connection hub of pkg/ws (hub.go, conn.go): the goroutine of Run,   *)
(* and for each connection a goroutine that reads and one that writes.     *)
(*                                                                         *)
(* A payload is named by its place in the order of the broadcasts; those   *)
(* of Conn.Send have numbers above MaxFrames.  The handler of a frame may  *)
(* broadcast it, as the one in internal/chat does.                         *)
(* Register and Unregister meet the hub in its select.  A pump fails when  *)
(* its client is gone, when its socket was closed, or by its deadline.     *)
(* Sends on a closed channel and second closes panic; nothing runs then.   *)
(***************************************************************************)
EXTENDS Naturals, Sequences, FiniteSets

CONSTANTS
    Conn,       \* connections, each served once
    User,
    UserOf,     \* the user of each connection
    HubRoom,    \* capacity of the channel broadcast (256)
    SendRoom,   \* capacity of a connection's channel send (64)
    MaxFrames   \* bound: payloads broadcast or sent

HubAssumption ==
    /\ IsFiniteSet(Conn) /\ UserOf \in [Conn -> User]
    /\ HubRoom \in Nat \ {0} /\ SendRoom \in Nat \ {0} /\ MaxFrames \in Nat

VARIABLES
    cancelled,  \* the context of Run and of the connections
    ended,      \* whether Run has returned
    clients,    \* the registered connections
    broadcast,  \* the channel: payloads with their targets, {} for everybody
    frames,     \* frames read and payloads sent so far
    sent,       \* broadcasts so far
    send,       \* the channel of each connection ...
    open,       \* ... whether it is open
    reader,     \* where readPump is
    writer,     \* where writePump is
    closed,     \* connections whose cleanup has begun
    gone,       \* connections whose socket is closed
    written,    \* what each client was sent
    offline,    \* calls of onOffline that are running
    panicked    \* what panicked

hub == <<ended, clients, broadcast, sent, offline>>
chan == <<send, open>>
pumps == <<reader, writer>>
vars == <<cancelled, hub, frames, chan, pumps, closed, gone, written, panicked>>

Payload == 1..(2 * MaxFrames)
Places == {"unregister", "close", "done"}

TypeOK ==
    /\ cancelled \in BOOLEAN /\ ended \in BOOLEAN
    /\ clients \subseteq Conn /\ open \subseteq Conn
    /\ broadcast \in Seq([frame : 1..sent, to : SUBSET User]) /\ Len(broadcast) <= HubRoom
    /\ frames \in 0..MaxFrames /\ sent \in 0..frames
    /\ send \in [Conn -> Seq(Payload)] /\ \A c \in Conn : Len(send[c]) <= SendRoom
    /\ reader \in [Conn -> {"new", "register", "read", "handler", "cleanup"} \cup Places]
    /\ writer \in [Conn -> {"new", "write", "cleanup"} \cup Places]
    /\ gone \subseteq closed /\ closed \subseteq Conn
    /\ written \in [Conn -> Seq(Payload)]
    /\ offline \in [User -> 0..Cardinality(Conn)]
    /\ panicked \in {"nothing", "hub", "caller"}

Init ==
    /\ cancelled = FALSE /\ ended = FALSE
    /\ clients = {}
    /\ broadcast = <<>>
    /\ frames = 0 /\ sent = 0
    /\ send = [c \in Conn |-> <<>>]
    /\ open = Conn
    /\ reader = [c \in Conn |-> "new"]
    /\ writer = [c \in Conn |-> "new"]
    /\ closed = {} /\ gone = {}
    /\ written = [c \in Conn |-> <<>>]
    /\ offline = [u \in User |-> 0]
    /\ panicked = "nothing"

-----------------------------------------------------------------------------
(* The goroutine of Run *)

\* Whom a payload is for: everybody, or the connections of the users it names.
\* Every caller of Broadcast names one user, so that a set stands for the list;
\* a list with a user twice would be sent to that user twice.
Targets(to) == IF to = {} THEN clients ELSE {c \in clients : UserOf[c] \in to}

\* Mutant: the hub waits in deliver until every channel has room.
SelectsWhenRoom ==
    /\ ~ended /\ panicked = "nothing"
    /\ \A i \in DOMAIN broadcast, c \in clients :
         i = 1 /\ c \in Targets(broadcast[i].to) => Len(send[c]) < SendRoom

\* The hub is at its select: nothing it does between two rounds can wait.
Selects == ~ended /\ panicked = "nothing"

\* Register meets the select, and Serve starts both pumps.
Register(c) ==
    /\ Selects /\ reader[c] = "register"
    /\ clients' = clients \cup {c}
    /\ reader' = [reader EXCEPT ![c] = "read"]
    /\ writer' = [writer EXCEPT ![c] = "write"]
    /\ UNCHANGED <<cancelled, ended, broadcast, sent, offline, frames, chan, closed, gone, written, panicked>>

OfUser(u, C) == {c \in C : UserOf[c] = u}

\* Mutant: the connection stays in the set of its user.
NotDeleted(c) == clients

\* delete(set, conn).
Without(c) == clients \ {c}

\* A channel that is closed already would panic.
Closes(C) ==
    /\ open' = open \ C
    /\ panicked' = IF C \subseteq open THEN panicked ELSE "hub"

\* Unregister meets the select.  A connection in its set is taken out and its
\* channel closed; a user without connections is reported.
Unregister(c) ==
    /\ Selects
    /\ \/ reader[c] = "unregister" /\ reader' = [reader EXCEPT ![c] = "close"] /\ UNCHANGED writer
       \/ writer[c] = "unregister" /\ writer' = [writer EXCEPT ![c] = "close"] /\ UNCHANGED reader
    /\ IF c \in clients
       THEN /\ Closes({c})
            /\ clients' = Without(c)
            /\ offline' = IF OfUser(UserOf[c], clients) = {c}
                          THEN [offline EXCEPT ![UserOf[c]] = @ + 1] ELSE offline
       ELSE UNCHANGED <<clients, open, offline, panicked>>
    /\ UNCHANGED <<cancelled, ended, broadcast, sent, frames, send, closed, gone, written>>

\* Mutant: a payload that was passed over is queued again.
Requeued(o) ==
    IF \E c \in Targets(o.to) : Len(send[c]) = SendRoom
    THEN Append(Tail(broadcast), o) ELSE Tail(broadcast)

\* The payload is taken from the channel.
Taken(o) == Tail(broadcast)

\* deliver: a connection whose channel is full is passed over.
Deliver ==
    /\ Selects /\ broadcast # <<>>
    /\ LET o == Head(broadcast) IN
         /\ broadcast' = Taken(o)
         /\ panicked' = IF Targets(o.to) \subseteq open THEN panicked ELSE "hub"
         /\ send' = [c \in Conn |->
                       IF c \in Targets(o.to) /\ Len(send[c]) < SendRoom
                       THEN Append(send[c], o.frame) ELSE send[c]]
    /\ UNCHANGED <<cancelled, ended, clients, sent, offline, frames, open, pumps, closed, gone, written>>

\* The context is cancelled: closeAll, and Run returns.
End ==
    /\ Selects /\ cancelled
    /\ ended' = TRUE
    /\ Closes(clients)
    /\ UNCHANGED <<cancelled, clients, broadcast, sent, offline, frames, send, pumps, closed, gone, written>>

-----------------------------------------------------------------------------
(* The goroutines of a connection *)

Runs == panicked = "nothing"

Moves(c, from, to) ==
    \/ reader[c] = from /\ reader' = [reader EXCEPT ![c] = to] /\ UNCHANGED writer
    \/ writer[c] = from /\ writer' = [writer EXCEPT ![c] = to] /\ UNCHANGED reader

\* Serve: Register waits for the hub.
Serve(c) ==
    /\ Runs /\ reader[c] = "new"
    /\ reader' = [reader EXCEPT ![c] = "register"]
    /\ UNCHANGED <<cancelled, hub, frames, chan, writer, closed, gone, written, panicked>>

\* A frame arrives and goes to the handler, which is about to broadcast; one
\* that cannot be decoded, or is not broadcast, changes nothing here.
Read(c) ==
    /\ Runs /\ reader[c] = "read" /\ c \notin gone
    /\ frames < MaxFrames /\ frames' = frames + 1
    /\ reader' = [reader EXCEPT ![c] = "handler"]
    /\ UNCHANGED <<cancelled, hub, chan, writer, closed, gone, written, panicked>>

\* The handler's Broadcast, which waits for room.
Broadcast(c) ==
    /\ Runs /\ reader[c] = "handler"
    /\ Len(broadcast) < HubRoom
    /\ sent' = sent + 1
    /\ \E to \in {{}} \cup {{u} : u \in User} :
         broadcast' = Append(broadcast, [frame |-> sent + 1, to |-> to])
    /\ reader' = [reader EXCEPT ![c] = "read"]
    /\ UNCHANGED <<cancelled, ended, clients, offline, frames, chan, writer, closed, gone, written, panicked>>

ReadFails(c) ==
    /\ Runs /\ reader[c] = "read"
    /\ reader' = [reader EXCEPT ![c] = "cleanup"]
    /\ UNCHANGED <<cancelled, hub, frames, chan, writer, closed, gone, written, panicked>>

Write(c) ==
    /\ Runs /\ writer[c] = "write" /\ send[c] # <<>> /\ c \notin gone
    /\ written' = [written EXCEPT ![c] = Append(@, Head(send[c]))]
    /\ send' = [send EXCEPT ![c] = Tail(@)]
    /\ UNCHANGED <<cancelled, hub, frames, open, pumps, closed, gone, panicked>>

\* A payload or a ping cannot be written, the channel is closed and empty, or
\* the context is cancelled.
WriterLeaves(c) ==
    /\ Runs /\ writer[c] = "write"
    /\ writer' = [writer EXCEPT ![c] = "cleanup"]
    /\ UNCHANGED <<cancelled, hub, frames, chan, reader, closed, gone, written, panicked>>

\* cleanup: the first of the two pumps goes on to Unregister.
Cleanup(c) ==
    /\ Runs
    /\ Moves(c, "cleanup", IF c \in closed THEN "done" ELSE "unregister")
    /\ closed' = closed \cup {c}
    /\ UNCHANGED <<cancelled, hub, frames, chan, gone, written, panicked>>

\* WS.Close.
CloseSocket(c) ==
    /\ Runs /\ Moves(c, "close", "done")
    /\ gone' = gone \cup {c}
    /\ UNCHANGED <<cancelled, hub, frames, chan, closed, written, panicked>>

\* Conn.Send, called by whoever holds the connection: an error when the
\* channel is full, a panic when it is closed.
Send(c) ==
    /\ Runs /\ reader[c] # "new" /\ frames < MaxFrames
    /\ frames' = frames + 1
    /\ IF c \in open
       THEN /\ Len(send[c]) < SendRoom
            /\ send' = [send EXCEPT ![c] = Append(@, MaxFrames + frames + 1)]
            /\ UNCHANGED panicked
       ELSE panicked' = "caller" /\ UNCHANGED send
    /\ UNCHANGED <<cancelled, hub, open, pumps, closed, gone, written>>

\* A call of onOffline returns.
OfflineDone(u) ==
    /\ Runs /\ offline[u] > 0
    /\ offline' = [offline EXCEPT ![u] = @ - 1]
    /\ UNCHANGED <<cancelled, ended, clients, broadcast, sent, frames, chan, pumps, closed, gone, written, panicked>>

Cancel ==
    /\ Runs /\ ~cancelled /\ cancelled' = TRUE
    /\ UNCHANGED <<hub, frames, chan, pumps, closed, gone, written, panicked>>

-----------------------------------------------------------------------------
HubStep == Deliver \/ End \/ \E c \in Conn : Register(c) \/ Unregister(c)

\* What a pump does in any case: without a ping its client is not answered, and
\* the deadline of 40 s ends the read.
ReaderStep(c) ==
    \/ Broadcast(c)
    \/ (c \in gone \/ writer[c] # "write") /\ ReadFails(c)

WriterStep(c) ==
    \/ Write(c)
    \/ (c \in gone \/ cancelled \/ (c \notin open /\ send[c] = <<>>)) /\ WriterLeaves(c)

Next ==
    \/ HubStep \/ Cancel
    \/ \E u \in User : OfflineDone(u)
    \/ \E c \in Conn :
         \/ Serve(c) \/ Read(c) \/ Broadcast(c) \/ ReadFails(c)
         \/ Write(c) \/ WriterLeaves(c) \/ Cleanup(c) \/ CloseSocket(c) \/ Send(c)

Spec == Init /\ [][Next]_vars

\* Goroutines go on, and each arm of the hub's select that stays ready is
\* taken in the end; callers, clients and the context owe nothing.
WsFairness ==
    /\ WF_vars(Deliver)
    /\ \A c \in Conn :
         /\ WF_vars(Unregister(c))
         /\ WF_vars(ReaderStep(c)) /\ WF_vars(WriterStep(c))
         /\ WF_vars(Cleanup(c)) /\ WF_vars(CloseSocket(c))

FairSpec == Spec /\ WsFairness
-----------------------------------------------------------------------------
(* Safety *)

\* The hub never sends to a channel it has closed and never closes one twice,
\* whichever pump unregisters first and however closeAll meets them: if the
\* process panics, it was a caller of Send on a connection that is gone.
HubNeverPanics ==
    /\ panicked # "hub"
    /\ clients \subseteq open \/ ended

\* A client gets broadcasts in their order; a slow one misses some, but none
\* comes late or twice.
BroadcastsInOrder ==
    \A c \in Conn :
      LET s == written[c] \o send[c] IN
        \A i, j \in DOMAIN s : i < j /\ s[j] <= MaxFrames => s[i] < s[j] \/ s[i] > MaxFrames

Inv == TypeOK /\ HubNeverPanics

(* Liveness *)

\* A connection one of whose pumps has ended comes to its end: the hub drops
\* it, the socket is closed and the other pump ends, unless Run has returned,
\* when nobody receives from Unregister any more.
ConnectionsEnd ==
    \A c \in Conn :
      []<>(\/ c \notin closed \/ ended \/ panicked # "nothing"
           \/ c \in gone /\ reader[c] = "done" /\ writer[c] = "done")
=============================================================================
