------------------------------ MODULE EventBus ------------------------------
(***************************************************************************)
(* NewEventBus (pkg/eventbus/eventbus.go): the driver that is configured   *)
(* decides for the life of the process which bus its callers get, the one  *)
(* of RedisStreams or the one of KafkaBus.  A process has one of them; the *)
(* processes and their failures are the same, the stores are not.          *)
(***************************************************************************)
EXTENDS RedisStreams

CONSTANTS Part, PartEvents, PartFaults, MaxStops  \* of the Kafka bus

VARIABLES driver, n, committed, st, claim, pos, busy, dirty, handled, again, skipped, stops

Kafka == INSTANCE KafkaBus WITH MaxEvents <- PartEvents, MaxFaults <- PartFaults

ASSUME BusAssumption == Kafka!KafkaAssumption

kafkaVars == <<n, committed, st, claim, pos, busy, dirty, handled, again, skipped, stops>>
streamVars == <<redisVars, pc, cur, upto, history>>
busVars == <<driver, kafkaVars, streamVars, stopping, faults>>

\* "kafka" in any case; everything else, the default too, means Redis.
NewEventBus == driver \in {"kafka", "redis"} /\ Init /\ Kafka!KInit

BusNext ==
    \/ driver = "redis" /\ Next /\ UNCHANGED <<driver, kafkaVars>>
    \/ driver = "kafka" /\ Kafka!KNext /\ UNCHANGED <<driver, streamVars>>

\* The bus that was not chosen stays as it was created and has no step.
BusSpec ==
    /\ NewEventBus /\ [][BusNext]_busVars
    /\ \A p \in Proc : WF_vars(Step(p))
    /\ Kafka!KFairness
-----------------------------------------------------------------------------
\* States are what they should be, and, see KafkaBus, without a failure no
\* entry of Kafka reaches the callback twice.
BusInv ==
    /\ driver = "redis" => TypeOK
    /\ driver = "kafka" => Kafka!TypeOK
    /\ Kafka!RepeatedOnlyByFault

\* See KafkaBus: at least once and in order where the group has committed.
KafkaImplementsLog == Kafka!KafkaImplementsLog

\* See KafkaBus: what is published to such a partition is handled.
KafkaServed == Kafka!KafkaServed
=============================================================================
