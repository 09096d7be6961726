------------------------------ MODULE Workers ------------------------------
(***************************************************************************)
(* The three parts of the repository whose goroutines share channels:      *)
(* groupFanout, the notification pool and the connection hub of pkg/ws.    *)
(* They share no state: a behaviour is one of them, and the others stay as *)
(* they begin.                                                             *)
(***************************************************************************)
EXTENDS GroupFanout

CONSTANTS Sender, Message, Capacity, Attempts                    \* of the pool
CONSTANTS Conn, User, UserOf, HubRoom, SendRoom, MaxFrames       \* of the hub

VARIABLES part, jobs, offered, refused, sender, held, failures, posted, cancelled, stop
VARIABLES down, ended, clients, broadcast, frames, sent, send, usable, reader, writer,
          closed, gone, written, offline, panicked

Pool == INSTANCE NotificationPool

Ws == INSTANCE WsHub WITH cancelled <- down, open <- usable

ASSUME WorkersAssumption == Pool!PoolAssumption /\ Ws!HubAssumption

poolVars == <<jobs, offered, refused, sender, held, failures, posted, cancelled, stop>>

wsVars ==
    <<down, ended, clients, broadcast, frames, sent, send, usable, reader, writer,
      closed, gone, written, offline, panicked>>

workersVars == <<part, vars, poolVars, wsVars>>

WorkersInit == part \in {"fanout", "pool", "ws"} /\ Init /\ Pool!PoolInit /\ Ws!Init

WorkersNext ==
    \/ part = "fanout" /\ Next /\ UNCHANGED <<part, poolVars, wsVars>>
    \/ part = "pool" /\ Pool!PoolNext /\ UNCHANGED <<part, vars, wsVars>>
    \/ part = "ws" /\ Ws!Next /\ UNCHANGED <<part, vars, poolVars>>

WorkersFairness ==
    /\ WF_vars(part = "fanout" /\ MainStep)
    /\ \A w \in Worker : WF_vars(part = "fanout" /\ WorkerStep(w))
    /\ Pool!PoolFairness /\ Ws!WsFairness

WorkersSpec == WorkersInit /\ [][WorkersNext]_workersVars /\ WorkersFairness
-----------------------------------------------------------------------------
\* FanoutReturns of GroupFanout, for the behaviours of groupFanout: what has
\* returned stays so.
FanoutCompletes == []<>(part = "fanout" => main = "returned")

\* States are what they should be; see NotificationPool, accepted messages
\* are kept and Stop waits for all senders; see WsHub, the hub never panics.
WorkersInv ==
    TypeOK /\ Pool!TypeOK /\ Pool!KeepsJobs /\ Pool!QuietAfterStop /\ Ws!Inv

\* See NotificationPool: accepted messages get their attempts, Stop returns.
PoolServes == Pool!Serves

\* See WsHub: a client gets broadcasts in their order, none late or twice.
BroadcastsInOrder == Ws!BroadcastsInOrder

\* See WsHub: a connection one of whose pumps has ended comes to its end.
ConnectionsEnd == Ws!ConnectionsEnd
=============================================================================
