----------------------------- MODULE GatewayHub -----------------------------
(***************************************************************************)
(* The WebSocket hub of the api-gateway                                    *)
(* (services/api-gateway/internal/gateway/hub.go) with the part of main()  *)
(* that starts and stops it.                                               *)
(*                                                                         *)
(* One goroutine executes Hub.Run: a select over the register, unregister  *)
(* and broadcast channels, ctx.Done() and a 30 s ticker, whose default     *)
(* branch polls an edge-triggered epoll descriptor and reads one frame     *)
(* from every connection it reports.  Each accepted WebSocket has an HTTP  *)
(* handler that waits at Register, and, once added, a goroutine that       *)
(* forwards the user's Redis channel until the connection's context is     *)
(* cancelled (MessageDelivery models what it forwards).                    *)
(*                                                                         *)
(* No read or write of a socket has a deadline: a client that sends the    *)
(* first bytes of a frame and no more, or that stops reading, holds the    *)
(* goroutine up until it goes on or the kernel gives the connection up.    *)
(*                                                                         *)
(* Abstractions: a frame is in inbox from its first byte on (its later     *)
(* bytes are read with it, and EpollWait reports no descriptor without     *)
(* unread bytes), the rate limiter of allowWSMessage answers either way,   *)
(* and time is left out: at a tick any connection may have been silent for *)
(* 40 s.  The groups channel has no sender in the repository and is left   *)
(* out.                                                                    *)
(***************************************************************************)
EXTENDS Naturals, Sequences, FiniteSets

CONSTANTS
    Conn,          \* accepted WebSocket connections
    User,          \* phone numbers of the connections' users
    UserOf,        \* the user of each connection
    MaxEvents,     \* length of the slice given to EpollWait (64)
    BroadcastCap,  \* capacity of the broadcast channel (128)
    MaxFrames,     \* bound: frames each client sends
    MaxStalls      \* bound: how often clients hold the hub up

ASSUME HubAssumption ==
    /\ IsFiniteSet(Conn)
    /\ UserOf \in [Conn -> User]
    /\ MaxEvents \in Nat
    /\ BroadcastCap \in Nat
    /\ MaxEvents <= BroadcastCap
    /\ MaxFrames \in Nat
    /\ MaxStalls \in Nat

VARIABLES
    pc,          \* where the hub goroutine is
    batch,       \* connections EpollWait reported that are not read yet
    conns,       \* h.conns
    registering, \* handlers waiting at h.register <- c
    unreg,       \* connections whose Unregister waits at h.unregister <- c
    broadcast,   \* contents of h.broadcast
    delivered,   \* the newest frame of each client sent to all connections
    inbox,       \* frames in each socket's receive buffer
    sent,        \* frames each client has sent
    hungUp,      \* connections whose client closed or dropped the socket
    edge,        \* readiness epoll has not reported yet
    holding,     \* connections a read or write of the hub waits for
    stalls,      \* how often the hub was held up
    presence,    \* the key presence:user:<phone>, and why it is missing
    cancelled,   \* connections whose context was cancelled
    fd,          \* the epoll descriptor number
    ctxDone,     \* ctx of Run is cancelled
    main         \* progress of main()

hubVars    == <<pc, batch, conns, unreg, broadcast, delivered>>
clientVars == <<inbox, sent, hungUp>>
userVars   == <<presence, cancelled>>
mainVars   == <<fd, ctxDone, main>>
stallVars  == <<holding, stalls>>
vars == <<pc, batch, conns, unreg, broadcast, delivered, registering, edge,
          inbox, sent, hungUp, presence, cancelled, fd, ctxDone, main,
          holding, stalls>>

Payload == [from : Conn, seq : Nat]
Frame   == [op : {"text", "hangup"}, seq : Nat]

TypeOK ==
    /\ pc \in {"select", "epoll", "blocked", "wedged", "returned"}
    /\ batch \subseteq Conn
    /\ conns \subseteq Conn
    /\ registering \subseteq Conn
    /\ unreg \subseteq Conn
    /\ broadcast \in Seq(Payload)
    /\ delivered \in [Conn -> Nat]
    /\ inbox \in [Conn -> Seq(Frame)]
    /\ sent \in [Conn -> Nat]
    /\ hungUp \subseteq Conn
    /\ edge \in [Conn -> BOOLEAN]
    /\ holding \subseteq Conn
    /\ stalls \in Nat
    /\ presence \in [User -> {"unset", "online", "expired", "deleted"}]
    /\ cancelled \subseteq Conn
    /\ fd \in {"open", "closed", "reused"}
    /\ ctxDone \in BOOLEAN
    /\ main \in {"serving", "draining", "waiting", "exited"}

Init ==
    /\ pc = "select"
    /\ batch = {}
    /\ conns = {}
    /\ registering = {}
    /\ unreg = {}
    /\ broadcast = <<>>
    /\ delivered = [c \in Conn |-> 0]
    /\ inbox = [c \in Conn |-> <<>>]
    /\ sent = [c \in Conn |-> 0]
    /\ hungUp = {}
    /\ edge = [c \in Conn |-> FALSE]
    /\ holding = {}
    /\ stalls = 0
    /\ presence = [u \in User |-> "unset"]
    /\ cancelled = {}
    /\ fd = "open"
    /\ ctxDone = FALSE
    /\ main = "serving"

-----------------------------------------------------------------------------
(* Clients, HTTP handlers and the store                                    *)

\* A connection of its own, with a context nobody has cancelled.
NewConnection(c) == c \notin registering \cup conns \cup cancelled

\* The handler waits at h.register <- c.
Register(c) == registering' = registering \cup {c}

\* wsConnect upgrades a request and registers its connection; one that cannot
\* be upgraded leaves nothing.  Requests in flight are still served while
\* httpServer.Shutdown drains.
Upgrade(c) ==
    /\ main \in {"serving", "draining"}
    /\ NewConnection(c)
    /\ Register(c)
    /\ UNCHANGED <<hubVars, edge, clientVars, userVars, mainVars, stallVars>>

\* The client sends a frame, or goes away, which the server reads as a last
\* frame.  EPOLLET reports the arrival only of a descriptor that was added.
ClientSends(c, op) ==
    /\ main # "exited"
    /\ c \in registering \cup conns
    /\ c \notin hungUp
    /\ sent[c] < MaxFrames
    /\ sent' = [sent EXCEPT ![c] = @ + 1]
    /\ inbox' = [inbox EXCEPT ![c] = Append(@, [op |-> op, seq |-> sent[c] + 1])]
    /\ hungUp' = IF op = "hangup" THEN hungUp \cup {c} ELSE hungUp
    /\ edge' = [edge EXCEPT ![c] = @ \/ c \in conns]
    /\ UNCHANGED <<hubVars, registering, userVars, mainVars, stallVars>>

\* Redis drops a presence key 24 h after it was written.
PresenceExpires(u) ==
    /\ presence[u] = "online"
    /\ presence' = [presence EXCEPT ![u] = "expired"]
    /\ UNCHANGED <<hubVars, registering, edge, clientVars, cancelled, mainVars, stallVars>>

\* A client the hub waits for sends the rest of its frame or reads on, or
\* the kernel gives its connection up: the read or write returns.
ClientGoesOn(c) ==
    /\ c \in holding
    /\ holding' = holding \ {c}
    /\ UNCHANGED <<hubVars, registering, edge, clientVars, userVars, mainVars, stalls>>

-----------------------------------------------------------------------------
(* The hub goroutine                                                       *)

\* A read or write on each connection of S does not end by itself.
WaitFor(S) ==
    /\ stalls < MaxStalls
    /\ holding' = S
    /\ stalls' = stalls + 1

\* Mutant: the default branch polls without looking at h.broadcast.
PollsWithBroadcastPending ==
    /\ registering = {}
    /\ unreg = {}
    /\ ~ctxDone

\* No case of the select is ready, so Go takes its default branch.
NothingReady ==
    /\ registering = {}
    /\ unreg = {}
    /\ broadcast = <<>>
    /\ ~ctxDone

\* EPOLL_CTL_ADD reports a descriptor that is readable already.
EdgeOnAdd(c) == inbox[c] # <<>>

\* What add writes to the presence key.
PresenceValue == "online"

\* add: c joins the map and the epoll set, the user is marked online (a
\* Redis error is only logged), and subscribeUser is started.
Add(c) ==
    /\ conns' = conns \cup {c}
    /\ edge' = [edge EXCEPT ![c] = EdgeOnAdd(c)]
    /\ \E ok \in BOOLEAN :
         presence' = IF ok THEN [presence EXCEPT ![UserOf[c]] = PresenceValue] ELSE presence
    /\ UNCHANGED cancelled

\* remove: c leaves the map and the epoll set, its context is cancelled and
\* its user's presence key deleted.
Remove(c) ==
    /\ conns' = conns \ {c}
    /\ edge' = [edge EXCEPT ![c] = FALSE]
    /\ presence' = [presence EXCEPT ![UserOf[c]] = "deleted"]
    /\ cancelled' = cancelled \cup {c}

\* The select receives from h.register or h.unregister.
Receive(c) ==
    /\ pc = "select"
    /\ holding = {}
    /\ c \in registering \cup unreg
    /\ IF c \in registering THEN Add(c) ELSE Remove(c)
    /\ registering' = registering \ {c}
    /\ unreg' = IF c \in registering THEN unreg ELSE unreg \ {c}
    /\ UNCHANGED <<pc, batch, broadcast, delivered, clientVars, mainVars, stallVars>>

\* Mutant: a payload some connection could not take is put back for a retry.
DeliverAndRequeue ==
    /\ pc = "select"
    /\ holding = {}
    /\ broadcast # <<>>
    /\ delivered' = [delivered EXCEPT ![Head(broadcast).from] = Head(broadcast).seq]
    /\ broadcast' \in {Tail(broadcast), Append(Tail(broadcast), Head(broadcast))}
    /\ UNCHANGED <<pc, batch, conns, unreg, registering, edge, clientVars, userVars, mainVars, stallVars>>

\* The select receives a payload from h.broadcast and sends it to all: each
\* Send ends, or waits for a client that does not read.
DeliverNext ==
    /\ pc = "select"
    /\ holding = {}
    /\ broadcast # <<>>
    /\ delivered' = [delivered EXCEPT ![Head(broadcast).from] = Head(broadcast).seq]
    /\ broadcast' = Tail(broadcast)
    /\ \/ UNCHANGED stallVars
       \/ \E S \in SUBSET conns \ {{}} : WaitFor(S)
    /\ UNCHANGED <<pc, batch, conns, unreg, registering, edge, clientVars, userVars, mainVars>>

\* Mutant: go h.Unregister(conn), which leaves the hub running.
UnregisterAsync(c) ==
    /\ unreg' = unreg \cup {c}
    /\ pc' = IF pc = "epoll" /\ batch' # {} THEN "epoll" ELSE "select"

\* Unregister(c), called on the hub goroutine: the send on the unbuffered
\* channel waits for a receiver, and the hub itself is the only one.
Unregister(c) ==
    /\ unreg' = unreg \cup {c}
    /\ pc' = "blocked"

\* A tick's pings wait for clients that do not read.
PingsStall ==
    /\ pc = "select"
    /\ holding = {}
    /\ \E S \in SUBSET conns \ {{}} : WaitFor(S)
    /\ UNCHANGED <<hubVars, registering, edge, clientVars, userVars, mainVars>>

\* checkHeartbeats finds a connection whose last pong is older than 40 s.  A
\* tick that finds none only sends pings.
HeartbeatLate(c) ==
    /\ pc = "select"
    /\ holding = {}
    /\ c \in conns
    /\ Unregister(c)
    /\ UNCHANGED <<batch, conns, broadcast, delivered, registering, edge, clientVars, userVars, mainVars, stallVars>>

\* The connections one EpollWait call may report.
Harvests ==
    LET ready == {c \in conns : edge[c]}
    IN  {S \in SUBSET ready : /\ S # {}
                              /\ Cardinality(S) <= MaxEvents
                              /\ S = ready \/ Cardinality(S) = MaxEvents}

\* Reporting an edge consumes it (EPOLLET).
EdgeAfter(S) == [c \in Conn |-> edge[c] /\ c \notin S]

\* Mutant: EpollWait is called without its 50 ms timeout.
EpollWaitForever ==
    /\ pc = "select"
    /\ holding = {}
    /\ NothingReady
    /\ fd = "open"
    /\ \E S \in Harvests \cup {{}} :
         /\ batch' = S
         /\ edge' = EdgeAfter(S)
    /\ pc' = "epoll"
    /\ UNCHANGED <<conns, unreg, broadcast, delivered, registering, clientVars, userVars, mainVars, stallVars>>

\* The default branch: EpollWait reports the ready connections.  A timeout
\* or EINTR changes nothing.
EpollWait ==
    /\ pc = "select"
    /\ holding = {}
    /\ NothingReady
    /\ fd = "open"
    /\ \E S \in Harvests :
         /\ batch' = S
         /\ edge' = EdgeAfter(S)
    /\ pc' = "epoll"
    /\ UNCHANGED <<conns, unreg, broadcast, delivered, registering, clientVars, userVars, mainVars, stallVars>>

\* Mutant: EBADF is retried like the other errors.
RetryClosed ==
    /\ pc = "select"
    /\ holding = {}
    /\ NothingReady
    /\ fd = "closed"
    /\ UNCHANGED vars

\* EpollWait fails with EBADF and Run returns.  When another descriptor took
\* the number, the error is a different one, which Run logs and retries.
EpollClosed ==
    /\ pc = "select"
    /\ holding = {}
    /\ NothingReady
    /\ fd = "closed"
    /\ pc' = "returned"
    /\ UNCHANGED <<batch, conns, unreg, broadcast, delivered, registering, edge, clientVars, userVars, mainVars, stallVars>>

\* Where Run goes after a read: to the batch's next event, or to the select.
AfterRead(rest) == IF rest = {} THEN "select" ELSE "epoll"

\* Broadcast(data): waits for ever when the channel is full, since its only
\* receiver is the goroutine that sends.
Broadcast(p, rest) ==
    IF Len(broadcast) < BroadcastCap
    THEN /\ broadcast' = Append(broadcast, p)
         /\ pc' = AfterRead(rest)
    ELSE /\ pc' = "wedged"
         /\ UNCHANGED broadcast

\* readMessage has begun a frame of c that is not complete, or answers a ping
\* of a client that does not read.
ReadStalls(c) ==
    /\ pc = "epoll"
    /\ holding = {}
    /\ c \in batch
    /\ inbox[c] # <<>>
    /\ WaitFor({c})
    /\ UNCHANGED <<hubVars, registering, edge, clientVars, userVars, mainVars>>

\* handleRead takes one frame off the socket: an error or a close frame leads
\* to Unregister; text that the rate limiter allows to Broadcast; a ping, a
\* pong, a lookup or an empty frame is queued nowhere.
HandleRead(c) ==
    /\ pc = "epoll"
    /\ holding = {}
    /\ c \in batch
    /\ inbox[c] # <<>>
    /\ LET f    == Head(inbox[c])
           rest == batch \ {c}
       IN  /\ batch' = rest
           /\ \/ /\ f.op = "hangup"
                 /\ Unregister(c)
                 /\ UNCHANGED broadcast
              \/ /\ f.op = "text"
                 /\ Broadcast([from |-> c, seq |-> f.seq], rest)
                 /\ UNCHANGED unreg
              \/ /\ f.op = "text"
                 /\ pc' = AfterRead(rest)
                 /\ UNCHANGED <<broadcast, unreg>>
    /\ inbox' = [inbox EXCEPT ![c] = Tail(@)]
    /\ UNCHANGED <<conns, delivered, registering, edge, sent, hungUp, userVars, mainVars, stallVars>>

\* The select sees ctx.Done(); Run returns and its defer closes the descriptor.
RunCancelled ==
    /\ pc = "select"
    /\ holding = {}
    /\ ctxDone
    /\ pc' = "returned"
    /\ fd' = "closed"
    /\ UNCHANGED <<batch, conns, unreg, broadcast, delivered, registering, edge, clientVars, userVars, ctxDone, main, stallVars>>

-----------------------------------------------------------------------------
(* main()                                                                  *)

\* A signal arrives, or ListenAndServe fails, which also cancels ctx.
Stop(failed) ==
    /\ main = "serving"
    /\ main' = "draining"
    /\ ctxDone' = failed
    /\ UNCHANGED <<hubVars, registering, edge, clientVars, userVars, fd, stallVars>>

\* httpServer.Shutdown has returned: hub.Shutdown closes the descriptor and
\* wg.Wait begins.
HubShutdown ==
    /\ main = "draining"
    /\ main' = "waiting"
    /\ fd' = "closed"
    /\ UNCHANGED <<hubVars, registering, edge, clientVars, userVars, ctxDone, stallVars>>

\* Another goroutine opens a file or a socket, which gets the closed number.
ReuseFd ==
    /\ main # "exited"
    /\ fd = "closed"
    /\ fd' = "reused"
    /\ UNCHANGED <<hubVars, registering, edge, clientVars, userVars, ctxDone, main, stallVars>>

\* wg.Wait returns once Run has.
MainExits ==
    /\ main = "waiting"
    /\ pc = "returned"
    /\ main' = "exited"
    /\ UNCHANGED <<hubVars, registering, edge, clientVars, userVars, fd, ctxDone, stallVars>>

-----------------------------------------------------------------------------
HubStep ==
    \/ \E c \in Conn : Receive(c)
    \/ DeliverNext
    \/ EpollWait
    \/ EpollClosed
    \/ \E c \in Conn : HandleRead(c)
    \/ RunCancelled

MainStep == HubShutdown \/ MainExits

Next ==
    \/ HubStep
    \/ MainStep
    \/ \E c \in Conn : HeartbeatLate(c)
    \/ \E c \in Conn : ReadStalls(c)
    \/ PingsStall
    \/ \E c \in Conn : ClientGoesOn(c)
    \/ \E c \in Conn : Upgrade(c)
    \/ \E c \in Conn, op \in {"text", "hangup"} : ClientSends(c, op)
    \/ \E u \in User : PresenceExpires(u)
    \/ \E failed \in BOOLEAN : Stop(failed)
    \/ ReuseFd

Spec == Init /\ [][Next]_vars

\* The hub goroutine runs while it waits for nobody, and so does main();
\* clients, timers, signals and the store owe nothing.
FairSpec ==
    /\ Spec
    /\ WF_vars(HubStep)
    /\ WF_vars(MainStep)
-----------------------------------------------------------------------------
(* Safety *)

\* The hub never waits on its own broadcast channel.  Nobody but the hub
\* sends on it, but one EpollWait may queue up to MaxEvents payloads before
\* the hub receives again: that there is room rests on the default branch
\* being taken only when the channel is empty.
BroadcastHasRoom == pc # "wedged"

\* A connection EpollWait reported has a frame to read when its turn comes:
\* readMessage never stalls the hub waiting for a frame that was already
\* consumed, though each read takes a frame and each arrival may be merged
\* into an earlier edge.
ReadsFindAFrame == \A c \in batch : inbox[c] # <<>>

\* Every connection sees the frames of one client in the order the client
\* sent them, and none twice: what is queued is newer than what went out, in
\* order, and older than what the socket still holds, whatever the batches
\* the frames were read in.
SenderOrder ==
    /\ \A i, j \in DOMAIN broadcast :
         i < j /\ broadcast[i].from = broadcast[j].from => broadcast[i].seq < broadcast[j].seq
    /\ \A i \in DOMAIN broadcast :
         LET c == broadcast[i].from
         IN  /\ broadcast[i].seq > delivered[c]
             /\ \A k \in DOMAIN inbox[c] : broadcast[i].seq < inbox[c][k].seq

\* States are what they should be, and the hub waits neither for room in its
\* own channel nor for a frame that is gone.
Inv == TypeOK /\ BroadcastHasRoom /\ ReadsFindAFrame

(* Action properties *)

\* Unregister is called only on the hub goroutine, which then waits for
\* itself: the hub that reaches it never takes another step, so no
\* connection is ever removed, no subscription goroutine cancelled and no
\* handler at Register served again.
HubStaysBlocked ==
    [][/\ pc = "blocked" => pc' = "blocked"
       /\ conns \subseteq conns'
       /\ cancelled' = cancelled]_vars

\* The presence key, as chat-service may take it: it is written when a
\* connection of its user joins the map, and only its 24 h take it away.
PresenceOnlyExpires ==
    [][\A u \in User : presence'[u] # presence[u] =>
         \/ presence[u] = "online" /\ presence'[u] = "expired"
         \/ presence'[u] = "online" /\ \E c \in conns' \ conns : UserOf[c] = u]_vars

\* What remove would undo is never undone.
HubRemovesNothing == HubStaysBlocked /\ PresenceOnlyExpires

(* Liveness *)

\* The hub has returned, or waits for itself in Unregister.
Stuck == pc \in {"blocked", "returned"}

\* Some client holds the hub up and never goes on.
HeldUp == <>[](holding # {})

\* A handler waiting at Register is served unless the hub stops: the hub
\* finishes its batch and polls for no further frames while a handler waits.
RegisterCompletes ==
    \A c \in Conn : (c \in registering) ~> (c \notin registering \/ Stuck)

\* Everything queued for broadcast is sent out unless the hub stops.
BroadcastDrains == (broadcast # <<>>) ~> (broadcast = <<>> \/ Stuck)

\* The hub neglects neither its callers nor its payloads, however often
\* clients stall its reads, broadcasts and pings, unless one of them never
\* goes on: that one client stops everybody, since no deadline is set.
HubServes == HeldUp \/ (RegisterCompletes /\ BroadcastDrains)

\* Closing the descriptor ends Run, so that main's wg.Wait returns, unless
\* the hub is blocked by then, a client holds it up for good, or the number
\* has been taken by another file.
ShutdownEndsRun ==
    HeldUp \/ ((main = "waiting") ~> (Stuck \/ fd = "reused"))

\* remove promises "Stop the Redis subscription goroutine" (hub.go:186) for a
\* registered connection whose client is gone.
DisconnectStopsSubscription ==
    \A c \in Conn :
      (c \in hungUp \cap conns /\ main = "serving")
        ~> (c \in cancelled \/ main # "serving")
=============================================================================
