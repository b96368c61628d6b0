--------------------------- MODULE KafkaPipeline ---------------------------
(***************************************************************************)
(* The pipeline in its partition-aware topology (ulpf/core/pipeline.py over *)
(* ulpf/ingest/buffer/kafka_buffer.py): submit() publishes to a Kafka      *)
(* topic, each worker consumes the partitions the consumer group gave its  *)
(* own KafkaConsumerBuffer, and an event's offset is committed by ack().   *)
(*                                                                         *)
(* The broker's log and committed offsets survive a crash of the process;  *)
(* what a worker holds and how far it has fetched do not.  Shutdown cancels *)
(* the workers instead of draining: a worker processing an event when the  *)
(* cancellation arrives still runs the `finally' of _worker_owned.         *)
(* A partition p's records are numbered from 1; committed[p] is the number *)
(* of the last committed one, position[p] of the last one fetched.         *)
(***************************************************************************)
EXTENDS Integers, Sequences, FiniteSets

CONSTANTS
    Partitions, Workers, Events,
    PartOf,          \* Events -> Partitions, by source_id (_key_for)
    None,
    MaxCrashes,      \* bound: crashes of the process
    MaxStops,        \* bound: graceful shutdowns
    MaxRebalances,   \* bound: reassignments of partitions while running
    MaxFailures      \* bound: calls of the broker or of DeadLetterQueue.write that raise

ASSUME KafkaAssumption ==
    /\ PartOf \in [Events -> Partitions]
    /\ None \notin Workers
    /\ IsFiniteSet(Workers)
    /\ {MaxCrashes, MaxStops, MaxRebalances, MaxFailures} \subseteq Nat

VARIABLES
    log,        \* Partitions -> Seq(Events): the topic, durable
    committed,  \* Partitions -> offset: the group's committed offsets, durable
    runs,       \* Events -> how often it went through all its stages
    proc,       \* "down", "up" or "stopping"
    owner,      \* Partitions -> worker whose consumer has it, or None
    position,   \* Partitions -> last record handed out by getone()
    wk,         \* Workers -> where _worker_owned is
    cur,        \* Workers -> [part, off] of the event in hand, or None
    crashes, stops, rebalances, brokerFailures, dlqFailures

broker   == <<log, committed>>
counters == <<crashes, stops, rebalances, brokerFailures, dlqFailures>>
vars     == <<broker, runs, proc, owner, position, wk, cur, counters>>

Refs(L)  == UNION {{[part |-> p, off |-> i] : i \in 1..Len(L[p])} : p \in Partitions}
EventAt(r) == log[r.part][r.off]
WkStates == {"off", "get", "run", "ack", "lastAck", "dyingAck", "exited", "died"}
Published(e) == \E i \in DOMAIN log[PartOf[e]] : log[PartOf[e]][i] = e

Init ==
    /\ log = [p \in Partitions |-> <<>>]
    /\ committed = [p \in Partitions |-> 0]
    /\ runs = [e \in Events |-> 0]
    /\ proc = "down"
    /\ owner = [p \in Partitions |-> None]
    /\ position = [p \in Partitions |-> 0]
    /\ wk = [w \in Workers |-> "off"]
    /\ cur = [w \in Workers |-> None]
    /\ crashes = 0 /\ stops = 0 /\ rebalances = 0 /\ brokerFailures = 0 /\ dlqFailures = 0

-----------------------------------------------------------------------------
(* The producer side and the consumer group.                               *)

\* submit() -> KafkaProducerBuffer.publish: returns once the broker has it.
Publish(e) ==
    /\ proc = "up"
    /\ ~Published(e)
    /\ log' = [log EXCEPT ![PartOf[e]] = Append(@, e)]
    /\ UNCHANGED <<committed, runs, proc, owner, position, wk, cur, counters>>

\* Mutant: fetching begins at the end of the log.
StartLatest ==
    /\ proc = "down"
    /\ proc' = "up"
    /\ \E a \in [Partitions -> Workers] : owner' = a
    /\ position' = [p \in Partitions |-> Len(log[p])]
    /\ wk' = [w \in Workers |-> "get"]
    /\ UNCHANGED <<broker, runs, cur, counters>>

\* Consumers join the group, workers start: some disjoint assignment; fetching
\* begins after the committed offset (auto_offset_reset = earliest).
Start ==
    /\ proc = "down"
    /\ proc' = "up"
    /\ \E a \in [Partitions -> Workers] : owner' = a
    /\ position' = committed
    /\ wk' = [w \in Workers |-> "get"]
    /\ UNCHANGED <<broker, runs, cur, counters>>

\* Mutant: the new owner goes on where the old one had fetched to.
RebalanceKeepsPosition ==
    /\ proc = "up" /\ rebalances < MaxRebalances
    /\ rebalances' = rebalances + 1
    /\ \E a \in [Partitions -> Workers] : owner' = a
    /\ UNCHANGED <<broker, runs, proc, position, wk, cur, crashes, stops, brokerFailures, dlqFailures>>

\* The group rebalances: every partition is fetched from its committed offset.
Rebalance ==
    /\ proc = "up" /\ rebalances < MaxRebalances
    /\ rebalances' = rebalances + 1
    /\ \E a \in [Partitions -> Workers] : owner' = a
    /\ position' = committed
    /\ UNCHANGED <<broker, runs, proc, wk, cur, crashes, stops, brokerFailures, dlqFailures>>

-----------------------------------------------------------------------------
(* _worker_owned.                                                          *)

\* buffer.get(): the next record of one of its partitions.
Get(w) ==
    /\ proc = "up" /\ wk[w] = "get"
    /\ \E p \in Partitions :
          /\ owner[p] = w /\ position[p] < Len(log[p])
          /\ position' = [position EXCEPT ![p] = @ + 1]
          /\ cur' = [cur EXCEPT ![w] = [part |-> p, off |-> position[p] + 1]]
    /\ wk' = [wk EXCEPT ![w] = "run"]
    /\ UNCHANGED <<broker, runs, proc, owner, counters>>

\* The fetch raises: get() is outside the try, so the worker task ends.
GetRaises(w) ==
    /\ proc = "up" /\ wk[w] = "get"
    /\ brokerFailures + dlqFailures < MaxFailures
    /\ brokerFailures' = brokerFailures + 1
    /\ wk' = [wk EXCEPT ![w] = "died"]
    /\ UNCHANGED <<broker, runs, proc, owner, position, cur, crashes, stops, rebalances, dlqFailures>>

\* _run_stages ends: delivered, dropped or dead-lettered.
RunDone(w) ==
    /\ proc = "up" /\ wk[w] = "run"
    /\ runs' = [runs EXCEPT ![EventAt(cur[w])] = @ + 1]
    /\ wk' = [wk EXCEPT ![w] = "ack"]
    /\ UNCHANGED <<broker, proc, owner, position, cur, counters>>

\* A stage and then the dead letter raise: on to the finally, then the task ends.
RunRaises(w) ==
    /\ proc = "up" /\ wk[w] = "run"
    /\ brokerFailures + dlqFailures < MaxFailures
    /\ dlqFailures' = dlqFailures + 1
    /\ wk' = [wk EXCEPT ![w] = "dyingAck"]
    /\ UNCHANGED <<broker, runs, proc, owner, position, cur, crashes, stops, rebalances, brokerFailures>>

\* Where the worker goes once the awaited ack() has returned normally.
AfterAck == [ack |-> "get", lastAck |-> "exited", dyingAck |-> "died"]

\* ack(): commit the record's offset; only the partition's owner may.
Ack(w) ==
    /\ proc # "down" /\ wk[w] \in DOMAIN AfterAck
    /\ owner[cur[w].part] = w
    /\ committed' = [committed EXCEPT ![cur[w].part] = cur[w].off]
    /\ wk' = [wk EXCEPT ![w] = AfterAck[@]]
    /\ cur' = [cur EXCEPT ![w] = None]
    /\ UNCHANGED <<log, runs, proc, owner, position, counters>>

\* The commit raises (the broker refuses it, or the partition has moved to
\* another consumer): nothing catches it, the worker task ends.
AckRaises(w) ==
    /\ proc # "down" /\ wk[w] \in DOMAIN AfterAck
    /\ \/ owner[cur[w].part] # w /\ UNCHANGED brokerFailures
       \/ brokerFailures + dlqFailures < MaxFailures /\ brokerFailures' = brokerFailures + 1
    /\ wk' = [wk EXCEPT ![w] = "died"]
    /\ cur' = [cur EXCEPT ![w] = None]
    /\ UNCHANGED <<broker, runs, proc, owner, position, crashes, stops, rebalances, dlqFailures>>

-----------------------------------------------------------------------------
(* Shutdown, crash.                                                        *)

\* stop(): every worker task is cancelled.  One waiting in get() ends; one
\* awaiting a stage goes through its finally, so to ack(); one awaiting the
\* commit is interrupted, with the request sent or not.
AtCancel(s) ==
    CASE s \in {"off", "get"} -> "exited"
      [] s = "run"            -> "lastAck"
      [] s \in {"ack", "dyingAck"} -> "exited"
      [] OTHER                -> s

Stop ==
    /\ proc = "up" /\ stops < MaxStops
    /\ stops' = stops + 1
    /\ proc' = "stopping"
    /\ \E sent \in SUBSET {w \in Workers : wk[w] \in {"ack", "dyingAck"}} :
          committed' = [p \in Partitions |->
              IF owner[p] \in sent /\ cur[owner[p]].part = p THEN cur[owner[p]].off
              ELSE committed[p]]
    /\ wk' = [w \in Workers |-> AtCancel(wk[w])]
    /\ cur' = [w \in Workers |-> IF wk[w] = "run" THEN cur[w] ELSE None]
    /\ UNCHANGED <<log, runs, owner, position, crashes, rebalances, brokerFailures, dlqFailures>>

\* The process is gone: everything but the broker's state goes with it.
Gone ==
    /\ proc' = "down"
    /\ owner' = [p \in Partitions |-> None]
    /\ position' = [p \in Partitions |-> 0]
    /\ wk' = [w \in Workers |-> "off"]
    /\ cur' = [w \in Workers |-> None]
    /\ UNCHANGED <<broker, runs>>

\* gather() and the flush are over, the consumers have left the group.
StopDone ==
    /\ proc = "stopping"
    /\ \A w \in Workers : wk[w] \in {"exited", "died"}
    /\ Gone
    /\ UNCHANGED counters

Crash ==
    /\ proc # "down" /\ crashes < MaxCrashes
    /\ crashes' = crashes + 1
    /\ Gone
    /\ UNCHANGED <<stops, rebalances, brokerFailures, dlqFailures>>

-----------------------------------------------------------------------------
WorkerNext == \E w \in Workers :
    Get(w) \/ GetRaises(w) \/ RunDone(w) \/ RunRaises(w) \/ Ack(w) \/ AckRaises(w)

Next ==
    \/ \E e \in Events : Publish(e)
    \/ Start \/ Rebalance \/ WorkerNext \/ Stop \/ StopDone \/ Crash

Spec == Init /\ [][Next]_vars

\* A supervisor restarts the process; records are fetched, stages end and the
\* broker answers.  No failure, publication or rebalance is obliged to happen.
Fairness ==
    /\ WF_vars(Start) /\ WF_vars(StopDone)
    /\ \A w \in Workers :
         /\ WF_vars(Get(w)) /\ WF_vars(RunDone(w))
         /\ WF_vars(Ack(w) \/ (wk[w] \in DOMAIN AfterAck /\ owner[cur[w].part] # w /\ AckRaises(w)))

FairSpec == Spec /\ Fairness

-----------------------------------------------------------------------------
(* Properties.                                                             *)

TypeOK ==
    /\ log \in [Partitions -> Seq(Events)]
    /\ committed \in [Partitions -> Nat]
    /\ runs \in [Events -> Nat]
    /\ proc \in {"down", "up", "stopping"}
    /\ owner \in [Partitions -> Workers \cup {None}]
    /\ position \in [Partitions -> Nat]
    /\ wk \in [Workers -> WkStates]
    /\ \A w \in Workers :
         cur[w] \in (IF wk[w] \in {"run"} \cup DOMAIN AfterAck THEN Refs(log) ELSE {None})
    /\ crashes \in 0..MaxCrashes /\ stops \in 0..MaxStops /\ rebalances \in 0..MaxRebalances
    /\ brokerFailures \in 0..MaxFailures /\ dlqFailures \in 0..MaxFailures

\* A committed record that never went through its stages: Kafka will not give
\* it to anybody again.
Skipped(p, i) == i <= committed[p] /\ runs[log[p][i]] = 0

\* At-least-once: through every crash, rebalance and refused commit no offset is
\* committed past an event that has not gone through all its stages, so the group
\* still redelivers everything unprocessed.  Only a graceful stop and a failing
\* dead letter are excepted.
CommittedMeansProcessed ==
    /\ \A p \in Partitions : committed[p] <= Len(log[p])
    /\ stops + dlqFailures = 0 =>
         \A p \in Partitions : \A i \in 1..Len(log[p]) : ~Skipped(p, i)

\* The pipeline's docstring on shutdown: an event in the hands of a worker that is
\* cancelled is never acknowledged, so no event is ever skipped.
CancelledNeverAcknowledged ==
    \A p \in Partitions : \A i \in 1..Len(log[p]) : ~Skipped(p, i)

\* What keeps at-least-once true although a rebalance leaves several records of a
\* partition in hands at once: a record in hand is preceded only by processed
\* records, with the same two exceptions.
NoSkippedRecord ==
    stops + dlqFailures = 0 =>
        \A w \in Workers : wk[w] \in {"run"} \cup DOMAIN AfterAck =>
            \A i \in 1..(cur[w].off - 1) : runs[log[cur[w].part][i]] > 0

\* A second complete run of an event is explained by a crash, an interrupted
\* shutdown, a rebalance or a refused commit: never by the steady state.
RerunsAreExplained ==
    crashes + stops + rebalances + brokerFailures = 0 => \A e \in Events : runs[e] <= 1

\* A shutdown skips at most the one event each worker had in hand, and a failing
\* dead letter one more: the loss is bounded.
LossBounded ==
    Cardinality({r \in Refs(log) : Skipped(r.part, r.off)})
        <= stops * Cardinality(Workers) + dlqFailures

\* Every published event is eventually processed, unless it is one of the few
\* skipped or the worker that owns its partition was ended by an exception.
PublishedProcessed ==
    \A e \in Events :
        Published(e) ~> \/ runs[e] > 0
                        \/ \E r \in Refs(log) : EventAt(r) = e /\ Skipped(r.part, r.off)
                        \/ owner[PartOf[e]] # None /\ wk[owner[PartOf[e]]] = "died"

\* At-least-once delivery, taken together: offsets are committed only past processed
\* records but for the bounded loss of stops and failing dead letters, and a record runs
\* again only when something interrupted its first run.
AtLeastOnce == TypeOK /\ CommittedMeansProcessed /\ NoSkippedRecord /\ LossBounded /\ RerunsAreExplained
=============================================================================
