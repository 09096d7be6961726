------------------------------ MODULE Services ------------------------------
(***************************************************************************)
(* The processes of the deployment: the api-gateway in front of one of the *)
(* gRPC services, from start to restart (services/*/cmd/main.go,           *)
(* services/api-gateway/internal/clients/clients.go), and the HTTP         *)
(* handlers that forward a request to the service and wait for its answer  *)
(* (createMessage, requestUpload, startCall, getUser, getPresence of       *)
(* services/api-gateway/internal/gateway/server.go).                       *)
(*                                                                         *)
(* A behaviour is about one service; which one is chosen at the start.     *)
(* What SendMessage does is the subject of MessageDelivery: here a handler *)
(* has one effect, between the arrival of the call and its answer.         *)
(*                                                                         *)
(* External, as the code uses it: systemd restarts whatever exits; a gRPC  *)
(* channel connects and reconnects by itself, holds a call while it is     *)
(* idle or connecting and fails it once an attempt to connect has failed;  *)
(* GracefulStop turns new calls away and waits for the running ones; a     *)
(* server whose accept loop failed keeps its connections.                  *)
(***************************************************************************)
EXTENDS Naturals, Sequences, FiniteSets

CONSTANTS
    Request,    \* bound: the HTTP requests
    MaxFaults   \* bound: signals, crashes and failures of what a process needs

ASSUME ServicesAssumption == IsFiniteSet(Request) /\ MaxFaults \in Nat

VARIABLES
    svc,      \* the service the requests are for
    proc,     \* the processes
    schema,   \* the database: migrations pending, applied, or one left half done
    conn,     \* the gateway has a connection to the service
    http,     \* the requests, as their client sees them
    rpc,      \* the calls, as the service sees them
    effects,  \* requests whose call had its effect: a row, or an entry of callIDs
    over,     \* calls ended by EndCall, or forgotten by a call-service that exited
    cut,      \* calls whose handler was running when the service exited
    crashed,  \* the service crashed while it had calls
    faults    \* how many faults there were

vars == <<svc, proc, schema, conn, http, rpc, effects, over, cut, crashed, faults>>

Names == {"chat", "call", "presence", "media", "user"}
Procs == {"gateway", "service"}

\* What each main needs before it serves, in its order; it exits at what fails.
\* Environment variables and certificates are there; dialling waits for nobody.
\* The gateway listens in the goroutine that serves: when it cannot, that is
\* ServeFails, and main ends by way of Shutdown.
GatewayNeeds  == <<"redis", "db">>
ChatNeeds     == <<"db", "replica", "migrate", "redis", "listen">>
CallNeeds     == <<"listen">>
PresenceNeeds == <<"redis", "listen">>
MediaNeeds    == <<"db", "listen">>
UserNeeds     == <<"db", "listen">>

Needs(p) ==
    CASE p = "gateway"    -> GatewayNeeds
      [] svc = "chat"     -> ChatNeeds
      [] svc = "call"     -> CallNeeds
      [] svc = "presence" -> PresenceNeeds
      [] svc = "media"    -> MediaNeeds
      [] svc = "user"     -> UserNeeds

\* Given the context that the signal cancels.
Cancelled == {"redis", "db", "replica"}

TypeOK ==
    /\ svc \in Names
    /\ \A p \in Procs :
         /\ proc[p].st \in {"down", "starting", "serving", "deaf", "draining"}
         /\ proc[p].done \in 0..Len(Needs(p))
         /\ proc[p].signal \in BOOLEAN
         /\ proc[p].stuck \in BOOLEAN
    /\ schema \in {"pending", "applied", "dirty"}
    /\ conn \in BOOLEAN
    /\ http \in [Request -> {"idle", "asked", "ok", "error", "gone"}]
    /\ rpc \in [Request -> {"none", "handled", "answering"}]
    /\ effects \subseteq Request /\ over \subseteq Request /\ cut \subseteq Request
    /\ crashed \in BOOLEAN
    /\ faults \in 0..MaxFaults

Down     == [st |-> "down",     done |-> 0, signal |-> FALSE, stuck |-> FALSE]
Starting == [st |-> "starting", done |-> 0, signal |-> FALSE, stuck |-> FALSE]

Init ==
    /\ svc \in Names
    /\ proc = [p \in Procs |-> Down]
    /\ schema \in {"pending", "applied"}
    /\ conn = FALSE
    /\ http = [c \in Request |-> "idle"]
    /\ rpc = [c \in Request |-> "none"]
    /\ effects = {} /\ over = {} /\ cut = {}
    /\ crashed = FALSE
    /\ faults = 0

-----------------------------------------------------------------------------
Is(p, st) == proc[p].st = st
Become(p, st) == proc' = [proc EXCEPT ![p].st = st]
Fault == faults < MaxFaults /\ faults' = faults + 1

Running == {c \in Request : rpc[c] # "none"}
Waiting == {c \in Request : http[c] = "asked"}

\* The process is gone.  The gateway's clients lose their connections; the
\* calls of the service fail in the gateway, and callIDs is forgotten.
Exit(p) ==
    /\ proc' = [proc EXCEPT ![p] = Down]
    /\ conn' = FALSE
    /\ IF p = "gateway"
       THEN /\ http' = [c \in Request |-> IF c \in Waiting THEN "gone" ELSE http[c]]
            /\ UNCHANGED <<rpc, effects, over, cut>>
       ELSE /\ http' = [c \in Request |->
                          IF c \in Waiting \cap Running THEN "error" ELSE http[c]]
            /\ rpc' = [c \in Request |-> "none"]
            /\ cut' = cut \cup Running
            /\ over' = IF svc = "call" THEN over \cup effects ELSE over
            /\ effects' = IF svc = "call" THEN {} ELSE effects

\* systemd: Restart=always.
Launch(p) ==
    /\ Is(p, "down")
    /\ proc' = [proc EXCEPT ![p] = Starting]
    /\ UNCHANGED <<svc, schema, conn, http, rpc, effects, over, cut, crashed, faults>>

\* What main is about to ask for.
AsksFor(p, need) ==
    /\ Is(p, "starting")
    /\ proc[p].done < Len(Needs(p))
    /\ need = Needs(p)[proc[p].done + 1]
Asks(p) == \E need \in Cancelled \cup {"migrate", "listen"} : AsksFor(p, need)

\* A migration that would start change something.
Migrating(p) == AsksFor(p, "migrate") /\ schema = "pending"

Refused(p) ==
    \/ proc[p].signal /\ \E need \in Cancelled : AsksFor(p, need)
    \/ AsksFor(p, "migrate") /\ schema = "dirty"

\* One more need is met.  RunMigrations takes no context and does nothing when
\* there is nothing to do.
Meet(p) ==
    /\ Asks(p)
    /\ ~Refused(p)
    /\ proc' = [proc EXCEPT ![p].done = @ + 1]
    /\ schema' = IF AsksFor(p, "migrate") THEN "applied" ELSE schema
    /\ UNCHANGED <<svc, conn, http, rpc, effects, over, cut, crashed, faults>>

\* main panics or logs and exits, as the signal came, or the last migration
\* failed half way.
Refuse(p) ==
    /\ Refused(p)
    /\ Exit(p)
    /\ UNCHANGED <<svc, schema, crashed, faults>>

\* What it needs is not there, or a migration fails, which leaves the schema
\* dirty.
GiveUp(p) ==
    /\ Fault
    /\ Asks(p)
    /\ schema' \in {schema} \cup IF Migrating(p) THEN {"dirty"} ELSE {}
    /\ Exit(p)
    /\ UNCHANGED <<svc, crashed>>

\* Serve is called.
Serve(p) ==
    /\ Is(p, "starting")
    /\ proc[p].done = Len(Needs(p))
    /\ Become(p, IF proc[p].signal THEN "draining" ELSE "serving")
    /\ UNCHANGED <<svc, schema, conn, http, rpc, effects, over, cut, crashed, faults>>

\* SIGTERM or SIGINT.  The services catch it from their first line on, the
\* gateway only when it serves: until then the signal kills it.
Signal(p) ==
    /\ Fault
    /\ \/ /\ p = "service" /\ Is(p, "starting")
          /\ proc' = [proc EXCEPT ![p].signal = TRUE]
          /\ UNCHANGED conn
       \/ /\ proc[p].st \in {"serving", "deaf"}
          /\ Become(p, "draining")
          /\ conn' = (conn /\ p = "gateway")
    /\ UNCHANGED <<svc, schema, http, rpc, effects, over, cut, crashed>>

\* Mutant: only chat-service stops when its gRPC server does.
StopsAlone == {"chat"}

\* The services whose main ends when Serve returns an error.
StopsWithServer == {"chat", "presence", "media"}

\* The accept loop fails.  call-service and user-service ignore it and live
\* on with the connections they have; the gateway cancels its context.
ServeFails(p) ==
    /\ Fault
    /\ Is(p, "serving")
    /\ LET stops == p = "gateway" \/ svc \in StopsWithServer
       IN  /\ Become(p, IF stops THEN "draining" ELSE "deaf")
           /\ conn' = (conn /\ (p = "gateway" \/ ~stops))
    /\ UNCHANGED <<svc, schema, http, rpc, effects, over, cut, crashed>>

\* Mutant: Stop in place of GracefulStop.
StopsAtOnce ==
    /\ Is("service", "draining")
    /\ Exit("service")
    /\ UNCHANGED <<svc, schema, crashed, faults>>

\* GracefulStop returns when no call is left, and main with it.  It knows of
\* gRPC calls only: chat-service's status consumers are not waited for, and
\* what a stop takes from them is in MessageDelivery (Gone, Exit).
Drained ==
    /\ Is("service", "draining")
    /\ Running = {}
    /\ Exit("service")
    /\ UNCHANGED <<svc, schema, crashed, faults>>

\* A WebSocket client hangs up, and the hub waits for itself for ever
\* (GatewayHub, HubStaysBlocked).
HubBlocks ==
    /\ proc["gateway"].st \in {"serving", "draining"}
    /\ ~proc["gateway"].stuck
    /\ proc' = [proc EXCEPT !["gateway"].stuck = TRUE]
    /\ UNCHANGED <<svc, schema, conn, http, rpc, effects, over, cut, crashed, faults>>

\* The gateway's Shutdown waits for its requests, for fifteen seconds at most,
\* and wg.Wait for the hub, which is why a blocked hub keeps main from ending.
ShutDown ==
    /\ Is("gateway", "draining")
    /\ ~proc["gateway"].stuck
    /\ Exit("gateway")
    /\ UNCHANGED <<svc, schema, crashed, faults>>

\* The process is killed.  A migration may be left half done.
Crash(p) ==
    /\ Fault
    /\ ~Is(p, "down")
    /\ schema' \in {schema} \cup IF Migrating(p) THEN {"dirty"} ELSE {}
    /\ crashed' = (crashed \/ (p = "service" /\ Running # {}))
    /\ Exit(p)
    /\ UNCHANGED svc

-----------------------------------------------------------------------------
(* Requests *)

\* The channel to the service connects, in its own time: the dialling in
\* NewClients does not wait for it.
Connect ==
    /\ ~conn
    /\ Is("service", "serving")
    /\ proc["gateway"].st \in {"serving", "draining"}
    /\ conn' = TRUE
    /\ UNCHANGED <<svc, proc, schema, http, rpc, effects, over, cut, crashed, faults>>

\* The connection breaks: the running calls fail, their handlers go on.
Disconnect ==
    /\ Fault
    /\ conn
    /\ conn' = FALSE
    /\ http' = [c \in Request |-> IF c \in Waiting \cap Running THEN "error" ELSE http[c]]
    /\ UNCHANGED <<svc, proc, schema, rpc, effects, over, cut, crashed>>

Ask(c) ==
    /\ http[c] = "idle"
    /\ Is("gateway", "serving")
    /\ http' = [http EXCEPT ![c] = "asked"]
    /\ UNCHANGED <<svc, proc, schema, conn, rpc, effects, over, cut, crashed, faults>>

\* Its client goes away, which cancels the context of the call.
HangUp(c) ==
    /\ c \in Waiting
    /\ http' = [http EXCEPT ![c] = "gone"]
    /\ UNCHANGED <<svc, proc, schema, conn, rpc, effects, over, cut, crashed, faults>>

\* The gateway's handler calls the service, or answers 500 when it cannot.  A
\* channel that is idle or connecting holds the call, which is the time before
\* this step; without a connection the call fails when an attempt has failed.
Forward(c) ==
    /\ c \in Waiting \ Running
    /\ \/ conn /\ rpc' = [rpc EXCEPT ![c] = "handled"] /\ UNCHANGED http
       \/ ~conn /\ http' = [http EXCEPT ![c] = "error"] /\ UNCHANGED rpc
    /\ UNCHANGED <<svc, proc, schema, conn, effects, over, cut, crashed, faults>>

\* Mutant: the answer is made before the row is written.
AnswersFirst(c, name) ==
    /\ svc = name /\ rpc[c] = "handled"
    /\ rpc' = [rpc EXCEPT ![c] = "answering"]
    /\ effects' \in {effects, effects \cup {c}}
    /\ UNCHANGED <<svc, proc, schema, conn, http, over, cut, crashed, faults>>

\* A handler does what it is for and goes on to answer.
Handles(c, name) ==
    /\ svc = name /\ rpc[c] = "handled"
    /\ rpc' = [rpc EXCEPT ![c] = "answering"]
    /\ effects' = effects \cup {c}
    /\ UNCHANGED <<svc, proc, schema, conn, http, over, cut, crashed, faults>>

\* The messages of the call are stored.
SendMessage(c) == Handles(c, "chat")

\* The call is entered in callIDs.
InitiateCall(c) == Handles(c, "call")

\* The row of the object is inserted; the URL is signed without asking anybody.
PresignUpload(c) == Handles(c, "media")

\* The key of the user is read.
GetPresence(c) == Handles(c, "presence")

\* The row of the user is read.
GetUser(c) == Handles(c, "user")

\* The statement fails, or its context ended before it ran.  InitiateCall has
\* none.
HandleFails(c) ==
    /\ svc # "call" /\ rpc[c] = "handled"
    /\ rpc' = [rpc EXCEPT ![c] = "none"]
    /\ http' = IF c \in Waiting THEN [http EXCEPT ![c] = "error"] ELSE http
    /\ UNCHANGED <<svc, proc, schema, conn, effects, over, cut, crashed, faults>>

Reply(c) ==
    /\ rpc[c] = "answering"
    /\ rpc' = [rpc EXCEPT ![c] = "none"]
    /\ http' = IF c \in Waiting THEN [http EXCEPT ![c] = "ok"] ELSE http
    /\ UNCHANGED <<svc, proc, schema, conn, effects, over, cut, crashed, faults>>

\* EndCall, which no route of the gateway leads to.
EndCall(c) ==
    /\ svc = "call"
    /\ proc["service"].st \in {"serving", "deaf"}
    /\ http[c] = "ok"
    /\ c \in effects
    /\ effects' = effects \ {c}
    /\ over' = over \cup {c}
    /\ UNCHANGED <<svc, proc, schema, conn, http, rpc, cut, crashed, faults>>

-----------------------------------------------------------------------------
ProcStep(p) == Launch(p) \/ Meet(p) \/ Refuse(p) \/ Serve(p)
CallStep(c) ==
    \/ SendMessage(c) \/ InitiateCall(c) \/ PresignUpload(c) \/ GetPresence(c) \/ GetUser(c)
    \/ HandleFails(c) \/ Reply(c)

Next ==
    \/ \E p \in Procs : ProcStep(p) \/ GiveUp(p) \/ Signal(p) \/ ServeFails(p) \/ Crash(p)
    \/ Drained \/ HubBlocks \/ ShutDown
    \/ Connect \/ Disconnect
    \/ \E c \in Request : Ask(c) \/ HangUp(c) \/ Forward(c) \/ CallStep(c) \/ EndCall(c)

Spec == Init /\ [][Next]_vars

\* Processes are scheduled, statements end and systemd restarts; nothing has
\* to be asked for or to fail.
Fairness ==
    /\ \A p \in Procs : WF_vars(ProcStep(p))
    /\ WF_vars(Drained) /\ WF_vars(ShutDown) /\ WF_vars(Connect)
    /\ \A c \in Request : WF_vars(Forward(c)) /\ WF_vars(CallStep(c))

FairSpec == Spec /\ Fairness

-----------------------------------------------------------------------------
\* JoinCall finds a call that is in callIDs, whoever asks.
JoinCall(c) == c \in effects

\* A client that got 200 has what it asked for: its row stays whatever
\* crashes, its call can be joined until it ends or call-service restarts.
OkMeansDone ==
    \A c \in Request : http[c] = "ok" =>
      IF svc = "call" THEN JoinCall(c) \/ c \in over ELSE c \in effects

\* No orderly stop of a service, on a signal or because its server failed,
\* cuts off a gRPC handler: the calls it accepted it finishes and answers.
\* (What chat-service's status consumers have read is another matter.)
CutOnlyByCrash == cut # {} => crashed

\* States are what they should be and answers are true.
Inv == TypeOK /\ OkMeansDone

\* The way from a client to the service is open.
Reachable == Is("gateway", "serving") /\ Is("service", "serving") /\ conn

\* When the faults end, the way is open again, whatever was killed, restarted
\* or cut on the way, and no request hangs.  Three things are left for an
\* operator: a call-service or user-service that went deaf, which nothing
\* restarts; a chat-service whose migration was left half done, which exits at
\* every start; and a gateway that was to stop while its hub was blocked, which
\* does not end.
ServedAgain ==
    /\ []<>(\/ Reachable
            \/ svc \in {"call", "user"} /\ Is("service", "deaf")
            \/ svc = "chat" /\ schema = "dirty"
            \/ Is("gateway", "draining") /\ proc["gateway"].stuck)
    /\ []<>(Waiting = {})
=============================================================================
