-------------------------- MODULE GatewayHub_proof --------------------------
(***************************************************************************)
(* Proofs about the gateway hub for every set of connections and users and *)
(* every MaxEvents <= BroadcastCap.                                        *)
(***************************************************************************)
EXTENDS GatewayHub, SequenceTheorems, FiniteSetTheorems, TLAPS

\* The payloads queued and the reads still to come fit in one EpollWait's
\* worth of events, and the select is reached with an empty batch.
RoomInv ==
    /\ pc # "wedged"
    /\ pc = "select" => batch = {} /\ Len(broadcast) <= MaxEvents
    /\ pc = "epoll" => Len(broadcast) + Cardinality(batch) <= MaxEvents

\* A reported and an unreported edge of one socket stand for two frames.
ReadInv ==
    \A c \in Conn :
      /\ c \in batch => inbox[c] # <<>>
      /\ edge[c] => inbox[c] # <<>>
      /\ c \in batch /\ edge[c] => Len(inbox[c]) > 1

\* Whoever waits in Unregister is the hub itself, so nothing was removed.
NoRemovalInv ==
    /\ unreg # {} => pc = "blocked"
    /\ cancelled = {}

\* Frames keep their order in the socket, and none there has been delivered
\* or is newer than the client.
SocketInv ==
    \A c \in Conn :
      /\ delivered[c] <= sent[c]
      /\ \A k \in DOMAIN inbox[c] : delivered[c] < inbox[c][k].seq /\ inbox[c][k].seq <= sent[c]
      /\ \A j, k \in DOMAIN inbox[c] : j < k => inbox[c][j].seq < inbox[c][k].seq

\* ... nor is one that is queued.
QueueInv == \A i \in DOMAIN broadcast : broadcast[i].seq <= sent[broadcast[i].from]

OrderInv == SenderOrder /\ SocketInv /\ QueueInv

\* Nobody at Register is in the map yet.
JoinInv == registering \cap conns = {}

IInv == TypeOK /\ RoomInv /\ ReadInv /\ NoRemovalInv /\ OrderInv /\ JoinInv

-----------------------------------------------------------------------------
\* A set of connections has a natural number of elements, and one less
\* without one of them: the arithmetic of a batch being read.
LEMMA BatchSize ==
    ASSUME NEW S \in SUBSET Conn
    PROVE  /\ Cardinality(S) \in Nat
           /\ \A c \in S : Cardinality(S \ {c}) = Cardinality(S) - 1
  <1>1. IsFiniteSet(S)
    BY HubAssumption, FS_Subset
  <1> QED
    BY <1>1, FS_CardinalityType, FS_RemoveElement

\* The steps in which a client begins or ceases to hold the hub up.
HoldingStep ==
    \/ \E c \in Conn : ReadStalls(c) \/ ClientGoesOn(c)
    \/ PingsStall

\* A client that holds the hub up changes nothing else.
LEMMA HoldingChangesNothing ==
  TypeOK /\ HoldingStep =>
    /\ UNCHANGED <<pc, batch, conns, unreg, broadcast, delivered, registering, edge,
                   inbox, sent, hungUp, presence, cancelled, fd, ctxDone, main>>
    /\ holding' \subseteq Conn
    /\ stalls' \in Nat
  BY DEF TypeOK, HoldingStep, ReadStalls, ClientGoesOn, PingsStall, WaitFor,
         hubVars, clientVars, userVars, mainVars

\* The state predicates hold initially: no connection, nothing queued.
LEMMA InitIInv == Init => IInv
  <1> SUFFICES ASSUME Init PROVE IInv
    OBVIOUS
  <1> USE HubAssumption DEF Init
  <1>1. TypeOK
    <2>1. broadcast \in Seq(Payload) /\ delivered \in [Conn -> Nat]
      OBVIOUS
    <2>2. inbox \in [Conn -> Seq(Frame)] /\ sent \in [Conn -> Nat]
      OBVIOUS
    <2>3. edge \in [Conn -> BOOLEAN]
      BY Zenon
    <2> QED
      BY <2>1, <2>2, <2>3 DEF TypeOK
  <1>2. RoomInv
    BY DEF RoomInv
  <1>3. ReadInv /\ NoRemovalInv
    BY DEF ReadInv, NoRemovalInv
  <1>4. OrderInv
    BY DEF OrderInv, SenderOrder, SocketInv, QueueInv
  <1>5. JoinInv
    BY DEF JoinInv
  <1> QED
    BY <1>1, <1>2, <1>3, <1>4, <1>5 DEF IInv

\* Every action of the hub, its clients and main keeps the types.
LEMMA TypePreserved == TypeOK /\ [Next]_vars => TypeOK'
  <1> SUFFICES ASSUME TypeOK, [Next]_vars PROVE TypeOK'
    OBVIOUS
  <1> USE HubAssumption DEF TypeOK, hubVars, clientVars, userVars, mainVars, stallVars, Payload, Frame
  <1>1. ASSUME NEW c \in Conn, Receive(c) PROVE TypeOK'
    <2>1. edge' \in [Conn -> BOOLEAN]
      <3>1. CASE Add(c)
        BY <3>1, Zenon DEF Add, EdgeOnAdd
      <3>2. CASE Remove(c)
        BY <3>2, Zenon DEF Remove
      <3> QED
        BY <1>1, <3>1, <3>2 DEF Receive
    <2>2. conns' \subseteq Conn /\ cancelled' \subseteq Conn
      BY <1>1 DEF Receive, Add, Remove, PresenceValue
    <2>3. presence' \in [User -> {"unset", "online", "expired", "deleted"}]
      BY <1>1 DEF Receive, Add, Remove, PresenceValue
    <2> QED
      BY <1>1, <2>1, <2>2, <2>3 DEF Receive
  <1>2. CASE DeliverNext
    <2>1. Head(broadcast) \in Payload /\ Tail(broadcast) \in Seq(Payload)
      BY <1>2, HeadTailProperties DEF DeliverNext
    <2>2. delivered' \in [Conn -> Nat]
      BY <1>2, <2>1 DEF DeliverNext
    <2>3. holding' \subseteq Conn /\ stalls' \in Nat
      BY <1>2 DEF DeliverNext, WaitFor
    <2> QED
      BY <1>2, <2>1, <2>2, <2>3 DEF DeliverNext
  <1>3. CASE EpollWait
    <2>1. edge' \in [Conn -> BOOLEAN]
      BY <1>3, Zenon DEF EpollWait, EdgeAfter
    <2>2. batch' \subseteq Conn
      BY <1>3 DEF EpollWait, Harvests
    <2> QED
      BY <1>3, <2>1, <2>2 DEF EpollWait
  <1>4. CASE EpollClosed \/ RunCancelled
    BY <1>4 DEF EpollClosed, RunCancelled
  <1>5. ASSUME NEW c \in Conn, HandleRead(c) PROVE TypeOK'
    <2>1. inbox[c] \in Seq(Frame) /\ inbox[c] # <<>>
      BY <1>5 DEF HandleRead
    <2>2. Head(inbox[c]) \in Frame /\ Tail(inbox[c]) \in Seq(Frame)
      BY <2>1, HeadTailProperties
    <2>3. inbox' \in [Conn -> Seq(Frame)]
      BY <1>5, <2>2 DEF HandleRead
    <2>4. [from |-> c, seq |-> Head(inbox[c]).seq] \in Payload
      BY <2>2
    <2>5. broadcast' \in Seq(Payload)
      <3> DEFINE p == [from |-> c, seq |-> Head(inbox[c]).seq]
      <3>1. Append(broadcast, p) \in Seq(Payload)
        BY <2>4, AppendProperties
      <3>2. broadcast' = broadcast \/ broadcast' = Append(broadcast, p)
        BY <1>5 DEF HandleRead, Broadcast
      <3> QED
        BY <3>1, <3>2
    <2>6. /\ pc' \in {"select", "epoll", "blocked", "wedged", "returned"}
          /\ unreg' \subseteq Conn
          /\ batch' \subseteq Conn
      BY <1>5 DEF HandleRead, Unregister, Broadcast, AfterRead
    <2> QED
      BY <1>5, <2>3, <2>5, <2>6 DEF HandleRead
  <1>6. CASE MainStep
    BY <1>6 DEF MainStep, HubShutdown, MainExits
  <1>7. CASE \E c \in Conn : HeartbeatLate(c)
    BY <1>7 DEF HeartbeatLate, Unregister
  <1>8. CASE \E c \in Conn : Upgrade(c)
    BY <1>8 DEF Upgrade, NewConnection, Register
  <1>9. ASSUME NEW c \in Conn, NEW op \in {"text", "hangup"}, ClientSends(c, op)
        PROVE  TypeOK'
    <2>1. edge' \in [Conn -> BOOLEAN]
      BY <1>9, Zenon DEF ClientSends
    <2>2. sent' \in [Conn -> Nat]
      BY <1>9 DEF ClientSends
    <2>3. [op |-> op, seq |-> sent[c] + 1] \in Frame
      OBVIOUS
    <2>4. inbox' \in [Conn -> Seq(Frame)]
      BY <1>9, <2>3 DEF ClientSends
    <2> QED
      BY <1>9, <2>1, <2>2, <2>4 DEF ClientSends
  <1>10. CASE \E x \in User : PresenceExpires(x)
    BY <1>10 DEF PresenceExpires
  <1>11. CASE (\E failed \in BOOLEAN : Stop(failed)) \/ ReuseFd
    BY <1>11 DEF Stop, ReuseFd
  <1>12. CASE HoldingStep
    BY <1>12, HoldingChangesNothing
  <1>13. CASE UNCHANGED vars
    BY <1>13 DEF vars
  <1> QED
    BY <1>1, <1>2, <1>3, <1>4, <1>5, <1>6, <1>7, <1>8, <1>9, <1>10, <1>11, <1>12, <1>13
       DEF Next, HubStep, HoldingStep

\* A poll starts only from an empty channel and reports at most MaxEvents
\* connections; from then on a read queues at most the payload of the
\* connection it takes out of the batch.
LEMMA RoomPreserved == IInv /\ [Next]_vars => RoomInv'
  <1> SUFFICES ASSUME IInv, [Next]_vars PROVE RoomInv'
    OBVIOUS
  <1> USE HubAssumption DEF IInv, RoomInv
  <1>1. CASE \E c \in Conn : Receive(c)
    BY <1>1 DEF Receive
  <1>2. CASE DeliverNext
    <2>1. Len(Tail(broadcast)) = Len(broadcast) - 1 /\ Len(broadcast) \in Nat
      BY <1>2, HeadTailProperties, LenProperties DEF DeliverNext, TypeOK
    <2> QED
      BY <1>2, <2>1 DEF DeliverNext
  <1>3. CASE EpollWait
    <2>1. PICK S \in Harvests : batch' = S
      BY <1>3 DEF EpollWait
    <2>2. Cardinality(S) <= MaxEvents /\ S \in SUBSET Conn
      BY <2>1 DEF Harvests, TypeOK
    <2>3. Cardinality(S) \in Nat
      BY <2>2, BatchSize
    <2>4. Len(broadcast) = 0 /\ broadcast' = broadcast /\ pc' = "epoll"
      BY <1>3 DEF EpollWait, NothingReady
    <2> QED
      BY <2>1, <2>2, <2>3, <2>4
  <1>4. CASE EpollClosed \/ RunCancelled
    BY <1>4 DEF EpollClosed, RunCancelled
  <1>5. ASSUME NEW c \in Conn, HandleRead(c) PROVE RoomInv'
    <2> DEFINE p == [from |-> c, seq |-> Head(inbox[c]).seq]
    <2>1. /\ pc = "epoll"
          /\ c \in batch
          /\ batch' = batch \ {c}
      BY <1>5 DEF HandleRead
    <2>2. /\ Cardinality(batch) \in Nat
          /\ Cardinality(batch') \in Nat
          /\ Cardinality(batch') = Cardinality(batch) - 1
      BY <2>1, BatchSize DEF TypeOK
    <2>3. /\ Len(broadcast) \in Nat
          /\ Len(Append(broadcast, p)) = Len(broadcast) + 1
      BY AppendProperties, LenProperties DEF TypeOK
    <2>4. Len(broadcast) < BroadcastCap
      BY <2>1, <2>2, <2>3
    <2>5. \/ pc' = "blocked"
          \/ pc' = AfterRead(batch') /\ broadcast' \in {broadcast, Append(broadcast, p)}
      BY <1>5, <2>4 DEF HandleRead, Unregister, Broadcast
    <2>6. Len(broadcast') <= Len(broadcast) + 1 \/ pc' = "blocked"
      BY <2>3, <2>5
    <2>7. pc' = "select" => batch' = {}
      BY <2>5 DEF AfterRead
    <2>8. pc' # "wedged"
      BY <2>5 DEF AfterRead
    <2>9. pc' # "blocked" => Len(broadcast') \in Nat
      BY <2>3, <2>5
    <2> QED
      BY <2>1, <2>2, <2>3, <2>6, <2>7, <2>8, <2>9
  <1>6. CASE MainStep
    BY <1>6 DEF MainStep, HubShutdown, MainExits, hubVars
  <1>7. CASE \E c \in Conn : HeartbeatLate(c)
    BY <1>7 DEF HeartbeatLate, Unregister
  <1>8. CASE \E c \in Conn : Upgrade(c)
    BY <1>8 DEF Upgrade, NewConnection, Register, hubVars
  <1>9. CASE \E c \in Conn, op \in {"text", "hangup"} : ClientSends(c, op)
    BY <1>9 DEF ClientSends, hubVars
  <1>10. CASE \E x \in User : PresenceExpires(x)
    BY <1>10 DEF PresenceExpires, hubVars
  <1>11. CASE (\E failed \in BOOLEAN : Stop(failed)) \/ ReuseFd
    BY <1>11 DEF Stop, ReuseFd, hubVars
  <1>12. CASE HoldingStep
    BY <1>12, HoldingChangesNothing
  <1>13. CASE UNCHANGED vars
    BY <1>13 DEF vars
  <1> QED
    BY <1>1, <1>2, <1>3, <1>4, <1>5, <1>6, <1>7, <1>8, <1>9, <1>10, <1>11, <1>12, <1>13
       DEF Next, HubStep, HoldingStep

\* An arrival adds a frame and at most an edge; a poll turns edges into
\* events of the batch; a read removes an event and a frame.
LEMMA ReadPreserved == IInv /\ [Next]_vars => ReadInv'
  <1> SUFFICES ASSUME IInv, [Next]_vars, NEW d \in Conn
               PROVE  /\ d \in batch' => inbox'[d] # <<>>
                      /\ edge'[d] => inbox'[d] # <<>>
                      /\ d \in batch' /\ edge'[d] => Len(inbox'[d]) > 1
    BY DEF ReadInv
  <1> DEFINE Goal == /\ d \in batch' => inbox'[d] # <<>>
                     /\ edge'[d] => inbox'[d] # <<>>
                     /\ d \in batch' /\ edge'[d] => Len(inbox'[d]) > 1
  <1>a. /\ d \in batch => inbox[d] # <<>>
        /\ edge[d] => inbox[d] # <<>>
        /\ d \in batch /\ edge[d] => Len(inbox[d]) > 1
    BY DEF IInv, ReadInv
  <1>b. inbox[d] \in Seq(Frame) /\ Len(inbox[d]) \in Nat
    BY LenProperties DEF IInv, TypeOK
  <1>c. pc = "select" => batch = {}
    BY DEF IInv, RoomInv
  <1>1. ASSUME NEW c \in Conn, Receive(c) PROVE Goal
    <2>1. d \notin batch' /\ inbox' = inbox
      BY <1>1, <1>c DEF Receive, clientVars
    <2>2. edge'[d] => inbox[d] # <<>>
      <3>1. edge \in [Conn -> BOOLEAN]
        BY DEF IInv, TypeOK
      <3>2. CASE Add(c)
        BY <3>1, <3>2, <1>a, Zenon DEF Add, EdgeOnAdd
      <3>3. CASE Remove(c)
        BY <3>1, <3>3, <1>a, Zenon DEF Remove
      <3> QED
        BY <1>1, <3>2, <3>3 DEF Receive
    <2> QED
      BY <2>1, <2>2
  <1>2. CASE DeliverNext
    BY <1>2, <1>a DEF DeliverNext, clientVars
  <1>3. CASE EpollWait
    <2>1. PICK S \in Harvests : batch' = S /\ edge' = EdgeAfter(S)
      BY <1>3 DEF EpollWait
    <2>2. d \in S => edge[d]
      BY <2>1 DEF Harvests
    <2>3. edge'[d] = (edge[d] /\ d \notin S)
      BY <2>1 DEF EdgeAfter
    <2>4. inbox' = inbox
      BY <1>3 DEF EpollWait, clientVars
    <2> QED
      BY <1>a, <2>1, <2>2, <2>3, <2>4
  <1>4. CASE EpollClosed \/ RunCancelled
    BY <1>4, <1>a DEF EpollClosed, RunCancelled, clientVars
  <1>5. ASSUME NEW c \in Conn, HandleRead(c) PROVE Goal
    <2>1. /\ batch' = batch \ {c}
          /\ inbox' = [inbox EXCEPT ![c] = Tail(@)]
          /\ edge' = edge
      BY <1>5 DEF HandleRead
    <2>2. CASE d = c
      <3>1. d \in batch /\ inbox'[d] = Tail(inbox[d])
        BY <1>5, <2>1, <2>2 DEF HandleRead, IInv, TypeOK
      <3>2. inbox[d] # <<>> => Len(Tail(inbox[d])) = Len(inbox[d]) - 1
        BY <1>b, HeadTailProperties
      <3>3. edge[d] => Len(inbox'[d]) > 0
        BY <3>1, <3>2, <1>a, <1>b
      <3>4. edge[d] => inbox'[d] # <<>>
        BY <3>3
      <3> QED
        BY <2>1, <2>2, <3>4
    <2>3. CASE d # c
      BY <2>1, <2>3, <1>a DEF IInv, TypeOK
    <2> QED
      BY <2>2, <2>3
  <1>6. CASE MainStep
    BY <1>6, <1>a DEF MainStep, HubShutdown, MainExits, hubVars, clientVars
  <1>7. CASE \E c \in Conn : HeartbeatLate(c)
    BY <1>7, <1>a DEF HeartbeatLate, clientVars
  <1>8. CASE \E c \in Conn : Upgrade(c)
    BY <1>8, <1>a DEF Upgrade, NewConnection, Register, hubVars, clientVars
  <1>9. ASSUME NEW c \in Conn, NEW op \in {"text", "hangup"}, ClientSends(c, op)
        PROVE  Goal
    <2> DEFINE f == [op |-> op, seq |-> sent[c] + 1]
    <2>1. batch' = batch /\ inbox' = [inbox EXCEPT ![c] = Append(@, f)]
      BY <1>9 DEF ClientSends, hubVars
    <2>2. CASE d = c
      <3>1. inbox'[d] = Append(inbox[d], f)
        BY <2>1, <2>2 DEF IInv, TypeOK
      <3>2. f \in Frame
        BY DEF Frame, IInv, TypeOK
      <3>3. inbox'[d] # <<>> /\ Len(inbox'[d]) = Len(inbox[d]) + 1
        BY <3>1, <3>2, <1>b, AppendProperties
      <3>4. inbox[d] # <<>> => Len(inbox[d]) > 0
        BY <1>b, EmptySeq
      <3> QED
        BY <2>1, <3>3, <3>4, <1>a, <1>b
    <2>3. CASE d # c
      <3>1. edge'[d] = edge[d]
        BY <1>9, <2>3 DEF ClientSends, IInv, TypeOK
      <3>2. inbox'[d] = inbox[d]
        BY <2>1, <2>3 DEF IInv, TypeOK
      <3> QED
        BY <2>1, <3>1, <3>2, <1>a
    <2> QED
      BY <2>2, <2>3
  <1>10. CASE \E x \in User : PresenceExpires(x)
    BY <1>10, <1>a DEF PresenceExpires, hubVars, clientVars
  <1>11. CASE (\E failed \in BOOLEAN : Stop(failed)) \/ ReuseFd
    BY <1>11, <1>a DEF Stop, ReuseFd, hubVars, clientVars
  <1>12. CASE HoldingStep
    BY <1>12, HoldingChangesNothing, <1>a DEF IInv
  <1>13. CASE UNCHANGED vars
    BY <1>13, <1>a DEF vars
  <1> QED
    BY <1>1, <1>2, <1>3, <1>4, <1>5, <1>6, <1>7, <1>8, <1>9, <1>10, <1>11, <1>12, <1>13
       DEF Next, HubStep, HoldingStep

\* The hub is the only caller of Unregister, and it stays where it waits.
LEMMA NoRemovalPreserved ==
  IInv /\ [Next]_vars =>
    /\ NoRemovalInv'
    /\ pc = "blocked" => pc' = "blocked"
    /\ conns \subseteq conns'
    /\ cancelled' = cancelled
  <1> DEFINE Goal == /\ NoRemovalInv'
                     /\ pc = "blocked" => pc' = "blocked"
                     /\ conns \subseteq conns'
                     /\ cancelled' = cancelled
  <1> SUFFICES ASSUME IInv, [Next]_vars PROVE Goal
    OBVIOUS
  <1> USE HubAssumption DEF IInv, NoRemovalInv
  <1>1. ASSUME NEW c \in Conn, Receive(c) PROVE Goal
    <2>1. unreg = {} /\ c \in registering /\ Add(c)
      BY <1>1 DEF Receive
    <2> QED
      BY <1>1, <2>1 DEF Receive, Add
  <1>2. CASE DeliverNext \/ EpollWait \/ EpollClosed \/ RunCancelled
    BY <1>2 DEF DeliverNext, EpollWait, EpollClosed, RunCancelled, NothingReady, userVars
  <1>3. ASSUME NEW c \in Conn, HandleRead(c) PROVE Goal
    <2>1. unreg = {}
      BY <1>3 DEF HandleRead
    <2>2. unreg' = {} \/ pc' = "blocked"
      BY <1>3, <2>1 DEF HandleRead, Unregister
    <2> QED
      BY <1>3, <2>2 DEF HandleRead, userVars
  <1>4. CASE MainStep
    BY <1>4 DEF MainStep, HubShutdown, MainExits, hubVars, userVars
  <1>5. CASE \E c \in Conn : HeartbeatLate(c)
    BY <1>5 DEF HeartbeatLate, Unregister, userVars
  <1>6. CASE \E c \in Conn : Upgrade(c)
    BY <1>6 DEF Upgrade, NewConnection, Register, hubVars, userVars
  <1>7. CASE \E c \in Conn, op \in {"text", "hangup"} : ClientSends(c, op)
    BY <1>7 DEF ClientSends, hubVars, userVars
  <1>8. CASE \E x \in User : PresenceExpires(x)
    BY <1>8 DEF PresenceExpires, hubVars
  <1>9. CASE (\E failed \in BOOLEAN : Stop(failed)) \/ ReuseFd
    BY <1>9 DEF Stop, ReuseFd, hubVars, userVars
  <1>10. CASE HoldingStep
    BY <1>10, HoldingChangesNothing
  <1>11. CASE UNCHANGED vars
    BY <1>11 DEF vars
  <1> QED
    BY <1>1, <1>2, <1>3, <1>4, <1>5, <1>6, <1>7, <1>8, <1>9, <1>10, <1>11
       DEF Next, HubStep, HoldingStep

\* Taking a payload from the channel, moving a frame from a socket to the
\* channel, and a new frame keep the order along the way; nothing else touches
\* it.
LEMMA OrderPreserved == IInv /\ [Next]_vars => OrderInv'
  <1> SUFFICES ASSUME IInv, [Next]_vars PROVE OrderInv'
    OBVIOUS
  <1>a. /\ broadcast \in Seq(Payload) /\ delivered \in [Conn -> Nat]
        /\ inbox \in [Conn -> Seq(Frame)] /\ sent \in [Conn -> Nat]
    BY DEF IInv, TypeOK
  <1>b. \A c \in Conn : /\ \A k \in DOMAIN inbox[c] : inbox[c][k].seq \in Nat
                        /\ DOMAIN inbox[c] = 1..Len(inbox[c]) /\ Len(inbox[c]) \in Nat
    <2> TAKE c \in Conn
    <2>1. inbox[c] \in Seq(Frame)
      BY <1>a
    <2>2. DOMAIN inbox[c] = 1..Len(inbox[c]) /\ Len(inbox[c]) \in Nat
      BY <2>1
    <2>3. \A k \in 1..Len(inbox[c]) : inbox[c][k] \in Frame
      BY <2>1
    <2> QED
      BY <2>2, <2>3 DEF Frame
  <1>c. /\ DOMAIN broadcast = 1..Len(broadcast) /\ Len(broadcast) \in Nat
        /\ \A i \in DOMAIN broadcast : broadcast[i] \in Payload
                                       /\ broadcast[i].from \in Conn /\ broadcast[i].seq \in Nat
    <2>1. DOMAIN broadcast = 1..Len(broadcast) /\ Len(broadcast) \in Nat
      BY <1>a
    <2>2. \A i \in 1..Len(broadcast) : broadcast[i] \in Payload
      BY <1>a
    <2> QED
      BY <2>1, <2>2 DEF Payload
  <1>d. SenderOrder /\ SocketInv /\ QueueInv
    BY DEF IInv, OrderInv
  <1>1. CASE UNCHANGED <<broadcast, delivered, inbox, sent>>
    BY <1>1, <1>d DEF OrderInv, SenderOrder, SocketInv, QueueInv
  <1>2. CASE DeliverNext
    <2>1. /\ broadcast # <<>> /\ broadcast' = Tail(broadcast) /\ UNCHANGED <<inbox, sent>>
          /\ delivered' = [delivered EXCEPT ![Head(broadcast).from] = Head(broadcast).seq]
      BY <1>2 DEF DeliverNext, clientVars
    <2>2. /\ Head(broadcast) = broadcast[1] /\ 1 \in DOMAIN broadcast
          /\ DOMAIN broadcast' = 1..(Len(broadcast) - 1)
          /\ \A i \in DOMAIN broadcast' : i + 1 \in DOMAIN broadcast /\ broadcast'[i] = broadcast[i + 1]
      BY <2>1, <1>a, <1>c
    <2>3. \A c \in Conn : delivered'[c] = IF c = broadcast[1].from THEN broadcast[1].seq ELSE delivered[c]
      BY <2>1, <2>2, <1>a, <1>c
    <2>4. QueueInv'
      BY <2>1, <2>2, <1>c, <1>d DEF QueueInv
    <2>5. SocketInv'
      BY <2>1, <2>2, <2>3, <1>c, <1>d DEF SocketInv, SenderOrder, QueueInv
    <2>6. SenderOrder'
      <3>1. ASSUME NEW i \in DOMAIN broadcast', NEW j \in DOMAIN broadcast', i < j,
                   broadcast'[i].from = broadcast'[j].from
            PROVE  broadcast'[i].seq < broadcast'[j].seq
        BY <3>1, <2>2, <1>c, <1>d DEF SenderOrder
      <3>2. ASSUME NEW i \in DOMAIN broadcast'
            PROVE  /\ broadcast'[i].seq > delivered'[broadcast'[i].from]
                   /\ \A k \in DOMAIN inbox'[broadcast'[i].from] :
                        broadcast'[i].seq < inbox'[broadcast'[i].from][k].seq
        <4>1. i + 1 \in DOMAIN broadcast /\ broadcast'[i] = broadcast[i + 1] /\ i \in Nat /\ 1 < i + 1
          BY <2>2, <1>c
        <4>2. /\ broadcast[i + 1].seq > delivered[broadcast[i + 1].from]
              /\ \A k \in DOMAIN inbox[broadcast[i + 1].from] :
                   broadcast[i + 1].seq < inbox[broadcast[i + 1].from][k].seq
          BY <4>1, <1>d DEF SenderOrder
        <4>3. broadcast[1].from = broadcast[i + 1].from => broadcast[1].seq < broadcast[i + 1].seq
          BY <4>1, <2>2, <1>d DEF SenderOrder
        <4>4. broadcast[i + 1].seq > delivered'[broadcast[i + 1].from]
          BY <4>1, <4>2, <4>3, <2>2, <2>3, <1>c
        <4> QED
          BY <4>1, <4>2, <4>4, <2>1
      <3> QED
        BY <3>1, <3>2 DEF SenderOrder
    <2> QED
      BY <2>4, <2>5, <2>6 DEF OrderInv
  <1>3. ASSUME NEW c \in Conn, HandleRead(c) PROVE OrderInv'
    <2> DEFINE f == Head(inbox[c])
               p == [from |-> c, seq |-> f.seq]
    <2>1. /\ inbox[c] # <<>> /\ inbox' = [inbox EXCEPT ![c] = Tail(@)]
          /\ broadcast' \in {broadcast, Append(broadcast, p)}
          /\ UNCHANGED <<delivered, sent>>
      BY <1>3 DEF HandleRead, Broadcast
    <2>2. /\ f = inbox[c][1] /\ 1 \in DOMAIN inbox[c] /\ f.seq \in Nat
          /\ inbox'[c] = Tail(inbox[c])
          /\ DOMAIN inbox'[c] = 1..(Len(inbox[c]) - 1)
          /\ \A k \in DOMAIN inbox'[c] : k + 1 \in DOMAIN inbox[c] /\ inbox'[c][k] = inbox[c][k + 1]
      BY <2>1, <1>a, <1>b
    <2>3. \A d \in Conn \ {c} : inbox'[d] = inbox[d]
      BY <2>1, <1>a
    <2>4. SocketInv'
      <3>1. ASSUME NEW d \in Conn
            PROVE  /\ delivered'[d] <= sent'[d]
                   /\ \A k \in DOMAIN inbox'[d] : delivered'[d] < inbox'[d][k].seq /\ inbox'[d][k].seq <= sent'[d]
                   /\ \A j, k \in DOMAIN inbox'[d] : j < k => inbox'[d][j].seq < inbox'[d][k].seq
        <4>1. CASE d = c
          BY <4>1, <2>1, <2>2, <1>b, <1>d DEF SocketInv
        <4>2. CASE d # c
          BY <4>2, <2>1, <2>3, <1>d DEF SocketInv
        <4> QED
          BY <4>1, <4>2
      <3> QED
        BY <3>1 DEF SocketInv
    <2>5. /\ delivered[c] < f.seq /\ f.seq <= sent[c]
          /\ \A k \in DOMAIN inbox'[c] : f.seq < inbox'[c][k].seq
      BY <2>2, <1>b, <1>d DEF SocketInv
    <2>6. CASE broadcast' = broadcast
      <3>1. QueueInv'
        BY <2>1, <2>6, <1>d DEF QueueInv
      <3>2. ASSUME NEW i \in DOMAIN broadcast, NEW k \in DOMAIN inbox'[broadcast[i].from]
            PROVE  broadcast[i].seq < inbox'[broadcast[i].from][k].seq
        <4>1. CASE broadcast[i].from = c
          BY <4>1, <2>2, <1>b, <1>c, <1>d DEF SenderOrder
        <4>2. CASE broadcast[i].from # c
          BY <4>2, <2>3, <1>c, <1>d DEF SenderOrder
        <4> QED
          BY <4>1, <4>2
      <3>3. SenderOrder'
        BY <3>2, <2>1, <2>6, <1>d DEF SenderOrder
      <3> QED
        BY <3>1, <3>3, <2>4 DEF OrderInv
    <2>7. CASE broadcast' = Append(broadcast, p)
      <3> DEFINE n == Len(broadcast) + 1
      <3>1. /\ DOMAIN broadcast' = 1..n
            /\ \A i \in DOMAIN broadcast : broadcast'[i] = broadcast[i]
            /\ broadcast'[n].from = c /\ broadcast'[n].seq = f.seq
            /\ DOMAIN broadcast' = DOMAIN broadcast \cup {n}
        BY <2>7, <1>a, <1>c
      <3>2. QueueInv'
        BY <3>1, <2>1, <2>5, <1>d DEF QueueInv
      <3>3. ASSUME NEW i \in DOMAIN broadcast, broadcast[i].from = c PROVE broadcast[i].seq < f.seq
        BY <3>3, <2>2, <1>d DEF SenderOrder
      <3>4. ASSUME NEW i \in DOMAIN broadcast, NEW k \in DOMAIN inbox'[broadcast[i].from]
            PROVE  broadcast[i].seq < inbox'[broadcast[i].from][k].seq
        <4>1. CASE broadcast[i].from = c
          BY <4>1, <2>2, <1>b, <1>c, <1>d DEF SenderOrder
        <4>2. CASE broadcast[i].from # c
          BY <4>2, <2>3, <1>c, <1>d DEF SenderOrder
        <4> QED
          BY <4>1, <4>2
      <3>5. ASSUME NEW i \in DOMAIN broadcast', NEW j \in DOMAIN broadcast', i < j,
                   broadcast'[i].from = broadcast'[j].from
            PROVE  broadcast'[i].seq < broadcast'[j].seq
        <4>1. i \in DOMAIN broadcast
          BY <3>1, <3>5, <1>c
        <4>2. CASE j = n
          BY <4>1, <4>2, <3>1, <3>3, <3>5
        <4>3. CASE j \in DOMAIN broadcast
          BY <4>1, <4>3, <3>1, <3>5, <1>d DEF SenderOrder
        <4> QED
          BY <4>2, <4>3, <3>1
      <3>6. ASSUME NEW i \in DOMAIN broadcast'
            PROVE  /\ broadcast'[i].seq > delivered'[broadcast'[i].from]
                   /\ \A k \in DOMAIN inbox'[broadcast'[i].from] :
                        broadcast'[i].seq < inbox'[broadcast'[i].from][k].seq
        <4>1. CASE i = n
          BY <4>1, <3>1, <2>1, <2>5
        <4>2. CASE i \in DOMAIN broadcast
          BY <4>2, <3>1, <3>4, <2>1, <1>d DEF SenderOrder
        <4> QED
          BY <4>1, <4>2, <3>1
      <3> QED
        BY <3>2, <3>5, <3>6, <2>4 DEF OrderInv, SenderOrder
    <2> QED
      BY <2>1, <2>6, <2>7
  <1>4. ASSUME NEW c \in Conn, NEW op \in {"text", "hangup"}, ClientSends(c, op) PROVE OrderInv'
    <2> DEFINE f == [op |-> op, seq |-> sent[c] + 1]
               m == Len(inbox[c]) + 1
    <2>1. /\ inbox' = [inbox EXCEPT ![c] = Append(@, f)]
          /\ sent' = [sent EXCEPT ![c] = @ + 1]
          /\ UNCHANGED <<broadcast, delivered>>
      BY <1>4 DEF ClientSends, hubVars
    <2>2. /\ DOMAIN inbox'[c] = 1..m /\ DOMAIN inbox'[c] = DOMAIN inbox[c] \cup {m}
          /\ \A k \in DOMAIN inbox[c] : inbox'[c][k] = inbox[c][k] /\ k < m
          /\ inbox'[c][m].seq = sent[c] + 1
          /\ sent'[c] = sent[c] + 1 /\ sent[c] \in Nat
      BY <2>1, <1>a, <1>b
    <2>3. \A d \in Conn \ {c} : inbox'[d] = inbox[d] /\ sent'[d] = sent[d]
      BY <2>1, <1>a
    <2>4. SocketInv'
      <3>1. ASSUME NEW d \in Conn
            PROVE  /\ delivered'[d] <= sent'[d]
                   /\ \A k \in DOMAIN inbox'[d] : delivered'[d] < inbox'[d][k].seq /\ inbox'[d][k].seq <= sent'[d]
                   /\ \A j, k \in DOMAIN inbox'[d] : j < k => inbox'[d][j].seq < inbox'[d][k].seq
        <4>1. CASE d = c
          <5>1. delivered[c] \in Nat /\ delivered[c] <= sent[c]
            BY <1>a, <1>d DEF SocketInv
          <5>2. ASSUME NEW k \in DOMAIN inbox'[c]
                PROVE  delivered[c] < inbox'[c][k].seq /\ inbox'[c][k].seq <= sent[c] + 1
            <6>1. CASE k = m
              BY <6>1, <5>1, <2>2
            <6>2. CASE k \in DOMAIN inbox[c]
              <7>1. /\ delivered[c] < inbox[c][k].seq /\ inbox[c][k].seq <= sent[c]
                    /\ inbox[c][k].seq \in Nat
                BY <6>2, <1>b, <1>d DEF SocketInv
              <7> QED
                BY <6>2, <7>1, <2>2
            <6> QED
              BY <6>1, <6>2, <2>2
          <5>3. ASSUME NEW j \in DOMAIN inbox'[c], NEW k \in DOMAIN inbox'[c], j < k
                PROVE  inbox'[c][j].seq < inbox'[c][k].seq
            <6>1. j \in DOMAIN inbox[c] /\ inbox[c][j].seq <= sent[c]
              BY <5>3, <2>2, <1>b, <1>d DEF SocketInv
            <6>2. CASE k = m
              BY <6>1, <6>2, <2>2, <1>b
            <6>3. CASE k \in DOMAIN inbox[c]
              BY <6>1, <6>3, <5>3, <2>2, <1>d DEF SocketInv
            <6> QED
              BY <6>2, <6>3, <2>2
          <5> QED
            BY <4>1, <5>1, <5>2, <5>3, <2>1, <2>2
        <4>2. CASE d # c
          BY <4>2, <2>1, <2>3, <1>d DEF SocketInv
        <4> QED
          BY <4>1, <4>2
      <3> QED
        BY <3>1 DEF SocketInv
    <2>5. QueueInv'
      BY <2>1, <2>2, <2>3, <1>c, <1>d DEF QueueInv
    <2>6. ASSUME NEW i \in DOMAIN broadcast, NEW k \in DOMAIN inbox'[broadcast[i].from]
          PROVE  broadcast[i].seq < inbox'[broadcast[i].from][k].seq
      <3>1. CASE broadcast[i].from = c
        <4>1. k \in DOMAIN inbox'[c] /\ broadcast[i].seq \in Nat /\ broadcast[i].seq <= sent[c]
          BY <3>1, <1>c, <1>d DEF QueueInv
        <4>2. CASE k = m
          BY <3>1, <4>1, <4>2, <2>2
        <4>3. CASE k \in DOMAIN inbox[c]
          <5>1. broadcast[i].seq < inbox[c][k].seq
            BY <3>1, <4>3, <1>d DEF SenderOrder
          <5> QED
            BY <3>1, <4>3, <5>1, <2>2
        <4> QED
          BY <4>1, <4>2, <4>3, <2>2
      <3>2. CASE broadcast[i].from # c
        BY <3>2, <2>3, <1>c, <1>d DEF SenderOrder
      <3> QED
        BY <3>1, <3>2
    <2>7. SenderOrder'
      BY <2>6, <2>1, <1>d DEF SenderOrder
    <2> QED
      BY <2>4, <2>5, <2>7 DEF OrderInv
  <1>5. CASE MainStep
    BY <1>5, <1>1 DEF MainStep, HubShutdown, MainExits, hubVars, clientVars
  <1>6. CASE \E c \in Conn : Receive(c) \/ HeartbeatLate(c) \/ Upgrade(c)
    BY <1>6, <1>1 DEF Receive, HeartbeatLate, Upgrade, NewConnection, Register, hubVars, clientVars
  <1>7. CASE EpollWait \/ EpollClosed \/ RunCancelled
    BY <1>7, <1>1 DEF EpollWait, EpollClosed, RunCancelled, clientVars
  <1>8. CASE \E x \in User : PresenceExpires(x)
    BY <1>8, <1>1 DEF PresenceExpires, hubVars, clientVars
  <1>9. CASE (\E failed \in BOOLEAN : Stop(failed)) \/ ReuseFd
    BY <1>9, <1>1 DEF Stop, ReuseFd, hubVars, clientVars
  <1>10. CASE HoldingStep
    BY <1>10, HoldingChangesNothing, <1>1 DEF IInv
  <1>11. CASE UNCHANGED vars
    BY <1>11, <1>1 DEF vars
  <1> QED
    BY <1>2, <1>3, <1>4, <1>5, <1>6, <1>7, <1>8, <1>9, <1>10, <1>11 DEF Next, HubStep, HoldingStep

\* What a step may do to the presence key of x.
KeyStep(x) ==
    presence'[x] # presence[x] =>
      \/ presence[x] = "online" /\ presence'[x] = "expired"
      \/ presence'[x] = "online" /\ \E c \in conns' \ conns : UserOf[c] = x

\* Only add writes a key, for the connection it takes from Register into the
\* map, and remove, which deletes keys, is never reached.
LEMMA JoinPreserved ==
  IInv /\ [Next]_vars => JoinInv' /\ \A x \in User : KeyStep(x)
  <1> SUFFICES ASSUME IInv, [Next]_vars PROVE JoinInv' /\ \A x \in User : KeyStep(x)
    OBVIOUS
  <1>a. JoinInv /\ (unreg # {} => pc = "blocked")
    BY DEF IInv, NoRemovalInv
  <1>b. presence \in [User -> {"unset", "online", "expired", "deleted"}]
    BY DEF IInv, TypeOK
  <1>1. ASSUME NEW c \in Conn, Receive(c) PROVE JoinInv' /\ \A x \in User : KeyStep(x)
    <2>1. c \in registering /\ c \notin conns /\ Add(c) /\ registering' = registering \ {c}
      BY <1>1, <1>a DEF Receive, JoinInv
    <2>2. JoinInv'
      BY <2>1, <1>a DEF Add, JoinInv
    <2>3. ASSUME NEW x \in User PROVE KeyStep(x)
      <3>1. presence' = presence \/ presence' = [presence EXCEPT ![UserOf[c]] = "online"]
        BY <2>1 DEF Add, PresenceValue
      <3>2. c \in conns' \ conns
        BY <2>1 DEF Add
      <3>3. CASE x = UserOf[c]
        BY <1>b, <3>1, <3>2, <3>3 DEF KeyStep
      <3>4. CASE x # UserOf[c]
        BY <1>b, <3>1, <3>4 DEF KeyStep
      <3> QED
        BY <3>3, <3>4
    <2> QED
      BY <2>2, <2>3
  <1>2. UNCHANGED <<registering, conns, presence>> => JoinInv' /\ \A x \in User : KeyStep(x)
    BY <1>a DEF JoinInv, KeyStep
  <1>3. CASE DeliverNext \/ EpollWait \/ EpollClosed \/ RunCancelled
    BY <1>2, <1>3 DEF DeliverNext, EpollWait, EpollClosed, RunCancelled, userVars
  <1>4. CASE \E c \in Conn : HandleRead(c)
    BY <1>2, <1>4 DEF HandleRead, userVars
  <1>5. CASE MainStep \/ (\E failed \in BOOLEAN : Stop(failed)) \/ ReuseFd
    BY <1>2, <1>5 DEF MainStep, HubShutdown, MainExits, Stop, ReuseFd, hubVars, userVars
  <1>6. CASE \E c \in Conn : HeartbeatLate(c)
    BY <1>2, <1>6 DEF HeartbeatLate, userVars
  <1>7. ASSUME NEW c \in Conn, Upgrade(c) PROVE JoinInv' /\ \A x \in User : KeyStep(x)
    BY <1>a, <1>7 DEF Upgrade, NewConnection, Register, hubVars, userVars, JoinInv, KeyStep
  <1>8. CASE \E c \in Conn, op \in {"text", "hangup"} : ClientSends(c, op)
    BY <1>2, <1>8 DEF ClientSends, hubVars, userVars
  <1>9. ASSUME NEW y \in User, PresenceExpires(y) PROVE JoinInv' /\ \A x \in User : KeyStep(x)
    <2>1. UNCHANGED <<registering, conns>>
      BY <1>9 DEF PresenceExpires, hubVars
    <2>2. presence[y] = "online" /\ presence' = [presence EXCEPT ![y] = "expired"]
      BY <1>9 DEF PresenceExpires
    <2> QED
      BY <1>a, <1>b, <2>1, <2>2 DEF JoinInv, KeyStep
  <1>10. CASE HoldingStep
    BY <1>10, HoldingChangesNothing, <1>2 DEF IInv
  <1>11. CASE UNCHANGED vars
    BY <1>2, <1>11 DEF vars
  <1> QED
    BY <1>1, <1>3, <1>4, <1>5, <1>6, <1>7, <1>8, <1>9, <1>10, <1>11 DEF Next, HubStep, HoldingStep

-----------------------------------------------------------------------------
\* The inductive invariant holds in every reachable state.
THEOREM Inductive == Spec => []IInv
  <1>1. IInv /\ [Next]_vars => IInv'
    BY TypePreserved, RoomPreserved, ReadPreserved, NoRemovalPreserved, OrderPreserved, JoinPreserved
    DEF IInv
  <1> QED
    BY InitIInv, <1>1, PTL DEF Spec

\* Every variable of the hub keeps its type.
THEOREM TypeCorrect == Spec => []TypeOK
  <1>1. IInv => TypeOK
    BY DEF IInv
  <1> QED
    BY Inductive, <1>1, PTL

\* The hub never waits on its own broadcast channel: MaxEvents <= BroadcastCap
\* (64 and 128 in hub.go) is enough.
THEOREM BroadcastNeverFills == Spec => []BroadcastHasRoom
  <1>1. IInv => BroadcastHasRoom
    BY DEF IInv, RoomInv, BroadcastHasRoom
  <1> QED
    BY Inductive, <1>1, PTL

\* An event EpollWait reported stands for a frame that is still unread.
THEOREM ReadsAreBacked == Spec => []ReadsFindAFrame
  <1>1. IInv => ReadsFindAFrame
    BY DEF IInv, TypeOK, ReadInv, ReadsFindAFrame
  <1> QED
    BY Inductive, <1>1, PTL

\* The three together.
THEOREM InvHolds == Spec => []Inv
  <1>1. TypeOK /\ BroadcastHasRoom /\ ReadsFindAFrame => Inv
    BY DEF Inv
  <1> QED
    BY TypeCorrect, BroadcastNeverFills, ReadsAreBacked, <1>1, PTL

\* The frames of one client go out in the order it sent them, and none twice.
THEOREM OrderKept == Spec => []SenderOrder
  <1>1. IInv => SenderOrder
    BY DEF IInv, OrderInv
  <1> QED
    BY Inductive, <1>1, PTL

\* A hub that reached Unregister never goes on, and nothing is ever removed.
THEOREM BlockedForGood == Spec => HubStaysBlocked
  <1>1. IInv /\ [Next]_vars =>
          [/\ pc = "blocked" => pc' = "blocked"
           /\ conns \subseteq conns'
           /\ cancelled' = cancelled]_vars
    BY NoRemovalPreserved
  <1> QED
    BY Inductive, <1>1, PTL DEF Spec, HubStaysBlocked

\* The presence key of a user comes with a connection and goes by expiry only:
\* what chat-service's sending takes from the gateway.
THEOREM PresenceIsTheHubs == Spec => PresenceOnlyExpires
  <1>1. IInv /\ [Next]_vars =>
          \A u \in User : presence'[u] # presence[u] =>
            \/ presence[u] = "online" /\ presence'[u] = "expired"
            \/ presence'[u] = "online" /\ \E c \in conns' \ conns : UserOf[c] = u
    BY JoinPreserved DEF KeyStep
  <1> QED
    BY Inductive, <1>1, PTL DEF Spec, PresenceOnlyExpires

\* Unregister, reached or not, takes nothing away.
THEOREM NothingRemoved == Spec => HubRemovesNothing
  BY BlockedForGood, PresenceIsTheHubs DEF HubRemovesNothing
=============================================================================
