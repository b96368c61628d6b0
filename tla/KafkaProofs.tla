---------------------------- MODULE KafkaProofs ----------------------------
(* Theorems about KafkaPipeline: at-least-once delivery, for any number of *)
(* partitions, workers and events and any bounds on what goes wrong.       *)
EXTENDS KafkaPipeline, FiniteSetTheorems, SequenceTheorems, TLAPS

USE KafkaAssumption

InHand == {"run", "ack", "lastAck", "dyingAck"}
Ref(p, i) == [part |-> p, off |-> i]
Holds(w, r) == wk[w] \in InHand /\ cur[w] = r

(* The inductive invariant.                                                *)

\* Offsets never run ahead of the log, and a process that is down holds nothing.
Bounds ==
    /\ cur = [w \in Workers |-> cur[w]]
    /\ proc = "down" => \A w \in Workers : wk[w] = "off"
    /\ proc = "up" => \A w \in Workers : wk[w] # "lastAck"
    /\ \A p \in Partitions : committed[p] <= Len(log[p]) /\ position[p] <= Len(log[p])

\* An event is one record of its source's partition; only records are processed.
LogOnce ==
    /\ \A r \in Refs(log) : PartOf[EventAt(r)] = r.part
    /\ \A r, q \in Refs(log) : EventAt(r) = EventAt(q) => r = q
    /\ \A e \in Events : runs[e] > 0 => Published(e)

\* The acknowledgement of the normal path comes after the stages.
AckAfterRun == \A w \in Workers : wk[w] = "ack" => runs[EventAt(cur[w])] > 0

\* The records the group may never hand out again: committed, fetched and let go, or
\* covered by the commit a worker is about to send.  The record its partition's owner
\* fetched last is not among them while the owner holds it or died with it.
Passed(p, i) ==
    \/ i <= committed[p]
    \/ i < position[p]
    \/ i = position[p] /\ owner[p] \in Workers /\ wk[owner[p]] # "died" /\ ~Holds(owner[p], Ref(p, i))
    \/ \E w \in Workers :
         /\ wk[w] \in InHand /\ cur[w].part = p
         /\ i < cur[w].off \/ (i = cur[w].off /\ wk[w] \in {"lastAck", "dyingAck"})

Past == {r \in Refs(log) : runs[EventAt(r)] = 0 /\ Passed(r.part, r.off)}

Budget == stops * Cardinality(Workers) + dlqFailures

PastBounded == IsFiniteSet(Past) /\ Cardinality(Past) <= Budget

\* As long as nothing has interrupted the workers, records are handed out once, in order.
Calm == crashes + stops + rebalances + brokerFailures = 0
Steady ==
    /\ proc # "stopping"
    /\ proc = "down" => position = committed
    /\ \A e \in Events : runs[e] <= 1
    /\ \A r \in Refs(log) : r.off > position[r.part] => runs[EventAt(r)] = 0
    /\ \A w \in Workers : wk[w] = "run" =>
         /\ owner[cur[w].part] = w /\ cur[w].off = position[cur[w].part]
         /\ runs[EventAt(cur[w])] = 0

Inv == TypeOK /\ Bounds /\ LogOnce /\ AckAfterRun /\ PastBounded /\ (Calm => Steady)
-----------------------------------------------------------------------------
(* Records of the log.                                                     *)

LEMMA AckStates ==
    /\ DOMAIN AfterAck = {"ack", "lastAck", "dyingAck"}
    /\ {"run"} \cup DOMAIN AfterAck = InHand
    /\ AfterAck["ack"] = "get" /\ AfterAck["lastAck"] = "exited" /\ AfterAck["dyingAck"] = "died"
  BY DEF AfterAck, InHand

LEMMA RefFacts ==
    ASSUME TypeOK, NEW r \in Refs(log)
    PROVE  /\ r.part \in Partitions /\ Len(log[r.part]) \in Nat /\ r.off \in 1..Len(log[r.part])
           /\ r = Ref(r.part, r.off) /\ EventAt(r) \in Events
  <1>0. PICK p \in Partitions : \E i \in 1..Len(log[p]) : r = [part |-> p, off |-> i]
    BY DEF Refs
  <1>1. PICK i \in 1..Len(log[p]) : r = [part |-> p, off |-> i]
    BY <1>0
  <1>2. log[p] \in Seq(Events)
    BY DEF TypeOK
  <1>3. Len(log[p]) \in Nat /\ log[p][i] \in Events
    BY <1>1, <1>2, LenProperties, ElementOfSeq
  <1> QED BY <1>1, <1>3 DEF Ref, EventAt

LEMMA RefMake ==
    ASSUME TypeOK, NEW p \in Partitions, NEW i \in 1..Len(log[p])
    PROVE  Ref(p, i) \in Refs(log) /\ Ref(p, i).part = p /\ Ref(p, i).off = i /\ EventAt(Ref(p, i)) = log[p][i]
  BY DEF Refs, Ref, EventAt

LEMMA CurFacts ==
    ASSUME TypeOK, NEW w \in Workers
    PROVE  /\ wk[w] \in InHand => cur[w] \in Refs(log)
           /\ wk[w] \notin InHand => cur[w] = None
  BY AckStates DEF TypeOK

\* Publishing adds one record, at the end of the event's partition.
LEMMA PublishLog ==
    ASSUME TypeOK, NEW e \in Events, Publish(e)
    PROVE  LET new == Ref(PartOf[e], Len(log[PartOf[e]]) + 1)
           IN  /\ log' \in [Partitions -> Seq(Events)]
               /\ \A p \in Partitions : Len(log[p]) \in Nat /\ Len(log'[p]) \in Nat /\ Len(log[p]) <= Len(log'[p])
               /\ Refs(log') = Refs(log) \cup {new} /\ new \notin Refs(log)
               /\ \A r \in Refs(log) : EventAt(r)' = EventAt(r)
               /\ log'[new.part][new.off] = e /\ new.part = PartOf[e] /\ new.off = Len(log[PartOf[e]]) + 1
  <1> DEFINE p == PartOf[e]
             n == Len(log[p])
             new == Ref(p, n + 1)
  <1>1. p \in Partitions /\ log[p] \in Seq(Events) /\ n \in Nat
    BY LenProperties DEF TypeOK
  <1>2. /\ log' \in [Partitions -> Seq(Events)] /\ log'[p] = Append(log[p], e)
        /\ \A q \in Partitions \ {p} : log'[q] = log[q]
    BY <1>1, AppendProperties DEF TypeOK, Publish
  <1>3. /\ Len(log'[p]) = n + 1 /\ log'[p][n + 1] = e
        /\ \A i \in 1..n : log'[p][i] = log[p][i]
    BY <1>1, <1>2, AppendProperties
  <1>4. \A q \in Partitions : Len(log[q]) \in Nat /\ Len(log'[q]) \in Nat /\ Len(log[q]) <= Len(log'[q])
    <2> SUFFICES ASSUME NEW q \in Partitions
                 PROVE  Len(log[q]) \in Nat /\ Len(log'[q]) \in Nat /\ Len(log[q]) <= Len(log'[q])
      OBVIOUS
    <2>1. Len(log[q]) \in Nat
      BY LenProperties DEF TypeOK
    <2>2. CASE q = p
      BY <1>1, <1>3, <2>2
    <2>3. CASE q # p
      BY <1>2, <2>1, <2>3
    <2> QED BY <2>2, <2>3
  <1>5. \A q \in Partitions : 1..Len(log'[q]) = 1..Len(log[q]) \cup (IF q = p THEN {n + 1} ELSE {})
    <2> SUFFICES ASSUME NEW q \in Partitions
                 PROVE  1..Len(log'[q]) = 1..Len(log[q]) \cup (IF q = p THEN {n + 1} ELSE {})
      OBVIOUS
    <2>1. CASE q = p
      <3>1. 1..(n + 1) = 1..n \cup {n + 1}
        BY <1>1
      <3> QED BY <1>3, <2>1, <3>1
    <2>2. CASE q # p
      BY <1>2, <2>2
    <2> QED BY <2>1, <2>2
  <1>6. new.part = p /\ new.off = n + 1 /\ log'[new.part][new.off] = e
    BY <1>3 DEF Ref
  <1>7. Refs(log') = Refs(log) \cup {new}
    <2>1. ASSUME NEW r \in Refs(log') PROVE r \in Refs(log) \cup {new}
      <3>0. PICK q \in Partitions : \E i \in 1..Len(log'[q]) : r = [part |-> q, off |-> i]
        BY <2>1 DEF Refs
      <3>1. PICK i \in 1..Len(log'[q]) : r = [part |-> q, off |-> i]
        BY <3>0
      <3>2. i \in 1..Len(log[q]) \/ (q = p /\ i = n + 1)
        BY <1>5, <3>1
      <3> QED BY <3>1, <3>2 DEF Refs, Ref
    <2>2. ASSUME NEW r \in Refs(log) PROVE r \in Refs(log')
      <3>0. PICK q \in Partitions : \E i \in 1..Len(log[q]) : r = [part |-> q, off |-> i]
        BY <2>2 DEF Refs
      <3>1. PICK i \in 1..Len(log[q]) : r = [part |-> q, off |-> i]
        BY <3>0
      <3>2. i \in 1..Len(log'[q])
        BY <1>5, <3>1
      <3> QED BY <3>1, <3>2 DEF Refs
    <2>3. new \in Refs(log')
      <3>1. n + 1 \in 1..Len(log'[p])
        BY <1>5, <1>1
      <3> QED BY <1>1, <3>1 DEF Refs, Ref
    <2> HIDE DEF new
    <2> QED BY <2>1, <2>2, <2>3
  <1>8. new \notin Refs(log)
    <2> SUFFICES ASSUME new \in Refs(log) PROVE FALSE
      OBVIOUS
    <2>1. new.off \in 1..Len(log[new.part])
      BY RefFacts
    <2> QED BY <1>1, <1>6, <2>1
  <1>9. ASSUME NEW r \in Refs(log) PROVE EventAt(r)' = EventAt(r)
    <2>1. r.part \in Partitions /\ r.off \in 1..Len(log[r.part])
      BY RefFacts
    <2>2. CASE r.part = p
      BY <1>3, <2>1, <2>2 DEF EventAt
    <2>3. CASE r.part # p
      BY <1>2, <2>1, <2>3 DEF EventAt
    <2> QED BY <2>2, <2>3
  <1> QED BY <1>2, <1>4, <1>6, <1>7, <1>8, <1>9

-----------------------------------------------------------------------------
(* Type correctness, and offsets within the log.                           *)

LEMMA InvInit == Init => Inv
  <1> SUFFICES ASSUME Init PROVE Inv
    OBVIOUS
  <1>1. Refs(log) = {}
    <2>1. \A p \in Partitions : Len(log[p]) = 0
      BY EmptySeq DEF Init
    <2>2. \A p \in Partitions : 1..Len(log[p]) = {}
      BY <2>1
    <2> QED BY <2>2 DEF Refs
  <1>2. TypeOK
    <2>1. log \in [Partitions -> Seq(Events)]
      BY EmptySeq DEF Init
    <2>2. /\ committed \in [Partitions -> Nat] /\ position \in [Partitions -> Nat] /\ runs \in [Events -> Nat]
          /\ proc \in {"down", "up", "stopping"} /\ owner \in [Partitions -> Workers \cup {None}]
      BY DEF Init
    <2>3. /\ wk \in [Workers -> WkStates]
          /\ \A w \in Workers :
               cur[w] \in (IF wk[w] \in {"run"} \cup DOMAIN AfterAck THEN Refs(log) ELSE {None})
      BY AckStates DEF Init, WkStates
    <2>4. /\ crashes \in 0..MaxCrashes /\ stops \in 0..MaxStops /\ rebalances \in 0..MaxRebalances
          /\ brokerFailures \in 0..MaxFailures /\ dlqFailures \in 0..MaxFailures
      BY DEF Init
    <2> QED BY <2>1, <2>2, <2>3, <2>4 DEF TypeOK
  <1>3. Bounds
    BY EmptySeq DEF Init, Bounds
  <1>4. LogOnce /\ AckAfterRun
    BY <1>1 DEF Init, LogOnce, AckAfterRun
  <1>5. PastBounded
    <2>1. Past = {}
      BY <1>1 DEF Past
    <2>2. Budget = 0
      BY FS_CardinalityType DEF Init, Budget
    <2> QED BY <2>1, <2>2, FS_EmptySet DEF PastBounded
  <1>6. Steady
    BY <1>1 DEF Init, Steady
  <1> QED BY <1>2, <1>3, <1>4, <1>5, <1>6 DEF Inv

LEMMA CountersType ==
    ASSUME TypeOK, [Next]_vars
    PROVE  /\ crashes' \in 0..MaxCrashes /\ stops' \in 0..MaxStops /\ rebalances' \in 0..MaxRebalances
           /\ brokerFailures' \in 0..MaxFailures /\ dlqFailures' \in 0..MaxFailures
  <1>0. /\ crashes \in 0..MaxCrashes /\ stops \in 0..MaxStops /\ rebalances \in 0..MaxRebalances
        /\ brokerFailures \in 0..MaxFailures /\ dlqFailures \in 0..MaxFailures
    BY DEF TypeOK
  <1>1. CASE UNCHANGED counters
    BY <1>0, <1>1 DEF counters
  <1>2. CASE Rebalance \/ Stop \/ Crash
    <2>1. CASE Rebalance
      BY <1>0, <2>1 DEF Rebalance
    <2>2. CASE Stop
      BY <1>0, <2>2 DEF Stop
    <2>3. CASE Crash
      BY <1>0, <2>3 DEF Crash
    <2> QED BY <1>2, <2>1, <2>2, <2>3
  <1>3. ASSUME NEW w \in Workers, GetRaises(w) \/ RunRaises(w) \/ AckRaises(w)
        PROVE  /\ crashes' \in 0..MaxCrashes /\ stops' \in 0..MaxStops /\ rebalances' \in 0..MaxRebalances
               /\ brokerFailures' \in 0..MaxFailures /\ dlqFailures' \in 0..MaxFailures
    <2>1. CASE GetRaises(w)
      BY <1>0, <2>1 DEF GetRaises
    <2>2. CASE RunRaises(w)
      BY <1>0, <2>2 DEF RunRaises
    <2>3. CASE AckRaises(w)
      BY <1>0, <2>3 DEF AckRaises
    <2> QED BY <1>3, <2>1, <2>2, <2>3
  <1>4. \/ UNCHANGED counters \/ Rebalance \/ Stop \/ Crash
        \/ \E w \in Workers : GetRaises(w) \/ RunRaises(w) \/ AckRaises(w)
    BY DEF Next, WorkerNext, vars, counters, Publish, Start, Get, RunDone, Ack, StopDone
  <1> QED BY <1>1, <1>2, <1>3, <1>4

\* What a step of one worker leaves of the other workers' hands.
LEMMA WorkerMoves ==
    ASSUME TypeOK, Bounds, NEW w \in Workers, NEW s \in WkStates, NEW c,
           wk' = [wk EXCEPT ![w] = s], cur' = [cur EXCEPT ![w] = c],
           log' = log, c \in (IF s \in InHand THEN Refs(log) ELSE {None})
    PROVE  /\ wk' \in [Workers -> WkStates] /\ wk'[w] = s /\ cur'[w] = c
           /\ \A v \in Workers \ {w} : wk'[v] = wk[v] /\ cur'[v] = cur[v]
           /\ \A v \in Workers :
                cur'[v] \in (IF wk'[v] \in {"run"} \cup DOMAIN AfterAck THEN Refs(log') ELSE {None})
           /\ cur' = [v \in Workers |-> cur'[v]]
  <1>1. cur = [v \in Workers |-> cur[v]]
    BY DEF Bounds
  <1>2. /\ wk' \in [Workers -> WkStates] /\ wk'[w] = s
        /\ \A v \in Workers \ {w} : wk'[v] = wk[v]
    BY DEF TypeOK
  <1>3. /\ cur'[w] = c /\ cur' = [v \in Workers |-> cur'[v]]
        /\ \A v \in Workers \ {w} : cur'[v] = cur[v]
    BY <1>1
  <1>4. ASSUME NEW v \in Workers
        PROVE  cur'[v] \in (IF wk'[v] \in {"run"} \cup DOMAIN AfterAck THEN Refs(log') ELSE {None})
    <2>1. CASE v = w
      BY <1>2, <1>3, <2>1, AckStates
    <2>2. CASE v # w
      <3>1. wk'[v] = wk[v] /\ cur'[v] = cur[v]
        BY <1>2, <1>3, <2>2
      <3> QED BY <3>1 DEF TypeOK
    <2> QED BY <2>1, <2>2
  <1> QED BY <1>2, <1>3, <1>4

LEMMA TypeStep == TypeOK /\ Bounds /\ [Next]_vars => TypeOK' /\ Bounds'
  <1> SUFFICES ASSUME TypeOK, Bounds, [Next]_vars PROVE TypeOK' /\ Bounds'
    OBVIOUS
  <1>0. /\ crashes' \in 0..MaxCrashes /\ stops' \in 0..MaxStops /\ rebalances' \in 0..MaxRebalances
        /\ brokerFailures' \in 0..MaxFailures /\ dlqFailures' \in 0..MaxFailures
    BY CountersType
  <1>c. \A w \in Workers : /\ wk[w] \in InHand => cur[w] \in Refs(log)
                           /\ wk[w] \notin InHand => cur[w] = None
    BY CurFacts
  <1>n. \A p \in Partitions : Len(log[p]) \in Nat /\ committed[p] \in Nat /\ position[p] \in Nat
    BY LenProperties DEF TypeOK
  <1> DEFINE CurOK == \A w \in Workers :
                        cur[w] \in (IF wk[w] \in {"run"} \cup DOMAIN AfterAck THEN Refs(log) ELSE {None})
             Rest == /\ log' \in [Partitions -> Seq(Events)] /\ committed' \in [Partitions -> Nat]
                     /\ runs' \in [Events -> Nat] /\ proc' \in {"down", "up", "stopping"}
                     /\ owner' \in [Partitions -> Workers \cup {None}] /\ position' \in [Partitions -> Nat]
                     /\ wk' \in [Workers -> WkStates] /\ CurOK'
                     /\ cur' = [w \in Workers |-> cur'[w]]
                     /\ (proc' = "down" => \A w \in Workers : wk'[w] = "off")
                     /\ (proc' = "up" => \A w \in Workers : wk'[w] # "lastAck")
                     /\ \A p \in Partitions : committed'[p] <= Len(log'[p]) /\ position'[p] <= Len(log'[p])
  <1> SUFFICES Rest
    BY <1>0 DEF TypeOK, Bounds
  <1>1. ASSUME NEW e \in Events, Publish(e) PROVE Rest
    <2>1. /\ log' \in [Partitions -> Seq(Events)] /\ Refs(log) \subseteq Refs(log')
          /\ \A p \in Partitions : Len(log'[p]) \in Nat /\ Len(log[p]) <= Len(log'[p])
      BY <1>1, PublishLog
    <2>2. UNCHANGED <<committed, runs, proc, owner, position, wk, cur>>
      BY <1>1 DEF Publish
    <2>3. CurOK'
      BY <2>1, <2>2 DEF TypeOK
    <2>4. ASSUME NEW p \in Partitions PROVE committed'[p] <= Len(log'[p]) /\ position'[p] <= Len(log'[p])
      <3>1. /\ committed[p] \in Nat /\ position[p] \in Nat /\ Len(log[p]) \in Nat /\ Len(log'[p]) \in Nat
            /\ Len(log[p]) <= Len(log'[p]) /\ committed[p] <= Len(log[p]) /\ position[p] <= Len(log[p])
        BY <1>n, <2>1 DEF Bounds
      <3> QED BY <2>2, <3>1
    <2> QED BY <2>1, <2>2, <2>3, <2>4 DEF TypeOK, Bounds
  <1>2. CASE Start \/ Rebalance
    <2>1. /\ UNCHANGED <<log, committed, runs, cur>> /\ proc' = "up" /\ position' = committed
          /\ \E a \in [Partitions -> Workers] : owner' = a
      BY <1>2 DEF Start, Rebalance, broker
    <2>2. wk' \in [Workers -> WkStates] /\ CurOK' /\ \A w \in Workers : wk'[w] # "lastAck"
      <3>1. CASE Start
        <4>1. wk' = [w \in Workers |-> "get"] /\ proc = "down"
          BY <3>1 DEF Start
        <4>2. \A w \in Workers : wk[w] \notin InHand
          BY <4>1 DEF Bounds, InHand
        <4> QED BY <1>c, <2>1, <4>1, <4>2, AckStates DEF WkStates, InHand
      <3>2. CASE Rebalance
        BY <2>1, <3>2 DEF Rebalance, TypeOK, Bounds
      <3> QED BY <1>2, <3>1, <3>2
    <2> QED BY <2>1, <2>2 DEF TypeOK, Bounds
  <1>3. ASSUME NEW w \in Workers, Get(w) PROVE Rest
    <2>1. PICK p \in Partitions :
             /\ owner[p] = w /\ position[p] < Len(log[p])
             /\ position' = [position EXCEPT ![p] = @ + 1]
             /\ cur' = [cur EXCEPT ![w] = [part |-> p, off |-> position[p] + 1]]
      BY <1>3 DEF Get
    <2>2. wk' = [wk EXCEPT ![w] = "run"] /\ proc = "up" /\ UNCHANGED <<log, committed, runs, proc, owner>>
      BY <1>3 DEF Get, broker
    <2>3. position[p] + 1 \in 1..Len(log[p])
      BY <1>n, <2>1
    <2>4. [part |-> p, off |-> position[p] + 1] \in Refs(log)
      BY <2>3 DEF Refs
    <2>5. wk' \in [Workers -> WkStates] /\ CurOK' /\ cur' = [v \in Workers |-> cur'[v]]
      BY <2>1, <2>2, <2>4, WorkerMoves DEF WkStates, InHand
    <2>6. position' \in [Partitions -> Nat] /\ \A q \in Partitions : position'[q] <= Len(log'[q])
      <3>1. position'[p] = position[p] + 1 /\ \A q \in Partitions \ {p} : position'[q] = position[q]
        BY <2>1 DEF TypeOK
      <3>2. position[p] + 1 \in Nat /\ position[p] + 1 <= Len(log[p])
        BY <1>n, <2>3
      <3>3. position' \in [Partitions -> Nat]
        BY <2>1, <3>2 DEF TypeOK
      <3> QED BY <2>2, <3>1, <3>2, <3>3 DEF Bounds
    <2>7. \A v \in Workers : wk'[v] = "lastAck" => wk[v] = "lastAck"
      BY <2>2 DEF TypeOK
    <2> QED BY <2>2, <2>5, <2>6, <2>7 DEF TypeOK, Bounds
  <1>4. ASSUME NEW w \in Workers, GetRaises(w) \/ RunDone(w) \/ RunRaises(w) \/ AckRaises(w) \/ Ack(w) PROVE Rest
    <2>1. proc # "down" /\ UNCHANGED <<log, proc, owner, position>>
      BY <1>4 DEF GetRaises, RunDone, RunRaises, AckRaises, Ack, broker
    <2>2. wk' \in [Workers -> WkStates] /\ CurOK' /\ cur' = [v \in Workers |-> cur'[v]]
      <3>0. cur' = cur => cur' = [cur EXCEPT ![w] = cur[w]]
        BY DEF Bounds
      <3>1. CASE GetRaises(w)
        <4>1. wk[w] = "get" /\ wk' = [wk EXCEPT ![w] = "died"] /\ UNCHANGED <<cur, log>>
          BY <3>1 DEF GetRaises, broker
        <4>2. cur[w] \in (IF "died" \in InHand THEN Refs(log) ELSE {None}) /\ "died" \in WkStates
          BY <1>c, <4>1 DEF InHand, WkStates
        <4> QED BY <3>0, <4>1, <4>2, WorkerMoves
      <3>2. CASE RunDone(w) \/ RunRaises(w)
        <4>1. PICK s \in {"ack", "dyingAck"} :
                 wk[w] = "run" /\ wk' = [wk EXCEPT ![w] = s] /\ UNCHANGED <<cur, log>>
          BY <3>2 DEF RunDone, RunRaises, broker
        <4>2. cur[w] \in (IF s \in InHand THEN Refs(log) ELSE {None}) /\ s \in WkStates
          BY <1>c, <4>1 DEF InHand, WkStates
        <4> QED BY <3>0, <4>1, <4>2, WorkerMoves
      <3>3. CASE Ack(w) \/ AckRaises(w)
        <4>1. PICK s \in {"get", "exited", "died"} :
                 wk' = [wk EXCEPT ![w] = s] /\ cur' = [cur EXCEPT ![w] = None] /\ UNCHANGED log
          BY <3>3, AckStates DEF Ack, AckRaises, broker
        <4>2. None \in (IF s \in InHand THEN Refs(log) ELSE {None}) /\ s \in WkStates
          BY <4>1 DEF InHand, WkStates
        <4> QED BY <4>1, <4>2, WorkerMoves
      <3> QED BY <1>4, <3>1, <3>2, <3>3
    <2>3. runs' \in [Events -> Nat]
      <3>1. CASE RunDone(w)
        <4>1. runs' = [runs EXCEPT ![EventAt(cur[w])] = @ + 1] /\ cur[w] \in Refs(log)
          BY <1>c, <3>1 DEF RunDone, InHand
        <4>2. EventAt(cur[w]) \in Events
          BY <4>1, RefFacts
        <4> QED BY <4>1, <4>2 DEF TypeOK
      <3>2. CASE ~RunDone(w)
        BY <1>4, <3>2 DEF GetRaises, RunRaises, AckRaises, Ack, broker, TypeOK
      <3> QED BY <3>1, <3>2
    <2>4. committed' \in [Partitions -> Nat] /\ \A p \in Partitions : committed'[p] <= Len(log'[p])
      <3>1. CASE Ack(w)
        <4>1. committed' = [committed EXCEPT ![cur[w].part] = cur[w].off] /\ cur[w] \in Refs(log)
          BY <1>c, <3>1, AckStates DEF Ack, InHand
        <4>2. cur[w].part \in Partitions /\ cur[w].off \in 1..Len(log[cur[w].part])
          BY <4>1, RefFacts
        <4>3. cur[w].off \in Nat /\ cur[w].off <= Len(log[cur[w].part])
          BY <1>n, <4>2
        <4>4. /\ committed'[cur[w].part] = cur[w].off
              /\ \A q \in Partitions \ {cur[w].part} : committed'[q] = committed[q]
          BY <4>1, <4>2 DEF TypeOK
        <4>5. committed' \in [Partitions -> Nat]
          BY <4>1, <4>2, <4>3 DEF TypeOK
        <4> QED BY <2>1, <4>3, <4>4, <4>5 DEF Bounds
      <3>2. CASE ~Ack(w)
        <4>1. committed' = committed
          BY <1>4, <3>2 DEF GetRaises, RunRaises, AckRaises, RunDone, broker
        <4> QED BY <2>1, <4>1 DEF TypeOK, Bounds
      <3> QED BY <3>1, <3>2
    <2>5. \A v \in Workers : wk'[v] = "lastAck" => wk[v] = "lastAck"
      <3>1. \E s \in WkStates \ {"lastAck"} : wk' = [wk EXCEPT ![w] = s]
        BY <1>4, AckStates DEF GetRaises, RunDone, RunRaises, AckRaises, Ack, WkStates
      <3> QED BY <3>1 DEF TypeOK
    <2> QED BY <2>1, <2>2, <2>3, <2>4, <2>5 DEF TypeOK, Bounds
  <1>5. CASE Stop
    <2>1. /\ proc' = "stopping" /\ UNCHANGED <<log, runs, owner, position>>
          /\ wk' = [w \in Workers |-> AtCancel(wk[w])]
          /\ cur' = [w \in Workers |-> IF wk[w] = "run" THEN cur[w] ELSE None]
      BY <1>5 DEF Stop
    <2>2. PICK sent \in SUBSET {w \in Workers : wk[w] \in {"ack", "dyingAck"}} :
             committed' = [p \in Partitions |->
                IF owner[p] \in sent /\ cur[owner[p]].part = p THEN cur[owner[p]].off ELSE committed[p]]
      BY <1>5 DEF Stop
    <2>3. \A w \in Workers : AtCancel(wk[w]) \in WkStates /\ (AtCancel(wk[w]) \in InHand => wk[w] \in {"run", "lastAck"})
      BY DEF TypeOK, WkStates, AtCancel, InHand
    <2>4. \A w \in Workers : wk[w] = "run" => AtCancel(wk[w]) = "lastAck"
      BY DEF AtCancel
    <2>5. CurOK'
      <3>1. \A w \in Workers : AtCancel(wk[w]) \in InHand => wk[w] = "run"
        BY <1>5, <2>3 DEF Stop, Bounds
      <3> QED BY <1>c, <2>1, <2>3, <2>4, <3>1, AckStates DEF InHand
    <2>6. ASSUME NEW p \in Partitions PROVE committed'[p] \in Nat /\ committed'[p] <= Len(log'[p])
      <3>1. CASE owner[p] \in sent /\ cur[owner[p]].part = p
        <4>1. cur[owner[p]] \in Refs(log)
          BY <1>c, <2>2, <3>1 DEF InHand
        <4>2. cur[owner[p]].off \in 1..Len(log[p])
          BY <3>1, <4>1, RefFacts
        <4> QED BY <1>n, <2>1, <2>2, <3>1, <4>2
      <3>2. CASE ~(owner[p] \in sent /\ cur[owner[p]].part = p)
        BY <1>n, <2>1, <2>2, <3>2 DEF Bounds
      <3> QED BY <3>1, <3>2
    <2> QED BY <2>1, <2>2, <2>3, <2>5, <2>6 DEF TypeOK, Bounds
  <1>6. CASE Gone
    <2>1. CurOK'
      BY <1>6, AckStates DEF Gone, InHand
    <2> QED BY <1>6, <1>n, <2>1 DEF Gone, broker, TypeOK, Bounds, WkStates
  <1>7. CASE UNCHANGED vars
    BY <1>7 DEF vars, broker, TypeOK, Bounds
  <1> QED BY <1>1, <1>2, <1>3, <1>4, <1>5, <1>6, <1>7 DEF Next, WorkerNext, StopDone, Crash
-----------------------------------------------------------------------------
(* The log.                                                                *)

LEMMA PublishedRef ==
    ASSUME TypeOK, NEW e \in Events
    PROVE  Published(e) <=> \E r \in Refs(log) : EventAt(r) = e /\ r.part = PartOf[e]
  <1>1. PartOf[e] \in Partitions /\ DOMAIN log[PartOf[e]] = 1..Len(log[PartOf[e]])
    BY LenProperties DEF TypeOK
  <1>2. ASSUME Published(e) PROVE \E r \in Refs(log) : EventAt(r) = e /\ r.part = PartOf[e]
    <2>1. PICK i \in 1..Len(log[PartOf[e]]) : log[PartOf[e]][i] = e
      BY <1>1, <1>2 DEF Published
    <2> QED BY <1>1, <2>1, RefMake
  <1>3. ASSUME NEW r \in Refs(log), EventAt(r) = e, r.part = PartOf[e] PROVE Published(e)
    <2>1. r.off \in 1..Len(log[r.part])
      BY RefFacts
    <2> QED BY <1>1, <1>3, <2>1 DEF Published, EventAt
  <1> QED BY <1>2, <1>3

\* Everything but Publish leaves the log alone; everything but RunDone the run counts.
LEMMA LogAndRuns ==
    ASSUME [Next]_vars
    PROVE  /\ (\E e \in Events : Publish(e)) \/ log' = log
           /\ (\E w \in Workers : RunDone(w)) \/ runs' = runs
  BY DEF Next, WorkerNext, vars, broker, Publish, Start, Rebalance, Get, GetRaises, RunDone,
         RunRaises, Ack, AckRaises, Stop, StopDone, Crash, Gone

LEMMA RunDoneRuns ==
    ASSUME TypeOK, NEW w \in Workers, RunDone(w)
    PROVE  /\ wk[w] = "run" /\ cur[w] \in Refs(log) /\ EventAt(cur[w]) \in Events
           /\ runs'[EventAt(cur[w])] = runs[EventAt(cur[w])] + 1
           /\ \A e \in Events \ {EventAt(cur[w])} : runs'[e] = runs[e]
           /\ UNCHANGED <<log, committed, proc, owner, position, cur>>
           /\ wk' = [wk EXCEPT ![w] = "ack"]
  <1>1. wk[w] = "run" /\ runs' = [runs EXCEPT ![EventAt(cur[w])] = @ + 1] /\ cur[w] \in Refs(log)
    BY CurFacts DEF RunDone, InHand
  <1>2. EventAt(cur[w]) \in Events
    BY <1>1, RefFacts
  <1> QED BY <1>1, <1>2 DEF RunDone, broker, TypeOK

LEMMA RunsGrow ==
    ASSUME TypeOK, [Next]_vars, NEW e \in Events
    PROVE  runs[e] \in Nat /\ runs'[e] >= runs[e]
  <1>1. runs[e] \in Nat
    BY DEF TypeOK
  <1>2. ASSUME NEW w \in Workers, RunDone(w) PROVE runs'[e] >= runs[e]
    BY <1>1, <1>2, RunDoneRuns
  <1> QED BY <1>1, <1>2, LogAndRuns

LEMMA RecordsStay ==
    ASSUME TypeOK, [Next]_vars, NEW r \in Refs(log)
    PROVE  r \in Refs(log') /\ EventAt(r)' = EventAt(r)
  <1>1. ASSUME NEW e \in Events, Publish(e) PROVE r \in Refs(log') /\ EventAt(r)' = EventAt(r)
    BY <1>1, PublishLog
  <1>2. CASE log' = log
    BY <1>2 DEF EventAt
  <1> QED BY <1>1, <1>2, LogAndRuns

LEMMA LogStep == TypeOK /\ TypeOK' /\ LogOnce /\ [Next]_vars => LogOnce'
  <1> SUFFICES ASSUME TypeOK, TypeOK', LogOnce, [Next]_vars PROVE LogOnce'
    OBVIOUS
  <1>1. ASSUME NEW e \in Events, Published(e) PROVE Published(e)'
    <2>1. PICK r \in Refs(log) : EventAt(r) = e /\ r.part = PartOf[e]
      BY <1>1, PublishedRef
    <2>2. r \in Refs(log') /\ EventAt(r)' = e
      BY <2>1, RecordsStay
    <2>3. r.off \in 1..Len(log'[PartOf[e]])
      BY <2>1, <2>2 DEF Refs
    <2>4. DOMAIN log'[PartOf[e]] = 1..Len(log'[PartOf[e]])
      BY LenProperties DEF TypeOK
    <2> QED BY <2>1, <2>2, <2>3, <2>4 DEF Published, EventAt
  <1>2. ASSUME NEW e \in Events, Publish(e) PROVE LogOnce'
    <2> DEFINE new == Ref(PartOf[e], Len(log[PartOf[e]]) + 1)
    <2>1. /\ Refs(log') = Refs(log) \cup {new} /\ new \notin Refs(log) /\ new.part = PartOf[e]
          /\ log'[new.part][new.off] = e /\ \A r \in Refs(log) : EventAt(r)' = EventAt(r)
      BY <1>2, PublishLog
    <2>2. \A r \in Refs(log) : EventAt(r) # e
      <3> SUFFICES ASSUME NEW r \in Refs(log), EventAt(r) = e PROVE FALSE
        OBVIOUS
      <3>1. Published(e)
        BY PublishedRef DEF LogOnce
      <3> QED BY <1>2, <3>1 DEF Publish
    <2> HIDE DEF new
    <2>3. \A r \in Refs(log') : log'[r.part][r.off] = IF r = new THEN e ELSE EventAt(r)
      BY <2>1 DEF EventAt
    <2>4. /\ \A r \in Refs(log') : PartOf[log'[r.part][r.off]] = r.part
          /\ \A r, q \in Refs(log') : log'[r.part][r.off] = log'[q.part][q.off] => r = q
      BY <2>1, <2>2, <2>3 DEF LogOnce
    <2>5. \A d \in Events : runs'[d] > 0 => Published(d)'
      BY <1>1, <1>2 DEF LogOnce, Publish
    <2> QED BY <2>4, <2>5 DEF LogOnce, EventAt
  <1>3. ASSUME NEW w \in Workers, RunDone(w) PROVE LogOnce'
    <2>1. /\ cur[w] \in Refs(log) /\ log' = log
          /\ \A e \in Events \ {EventAt(cur[w])} : runs'[e] = runs[e]
      BY <1>3, RunDoneRuns
    <2>2. \A d \in Events : runs'[d] > 0 => Published(d)
      BY <2>1, PublishedRef DEF LogOnce
    <2> QED BY <1>1, <2>1, <2>2 DEF LogOnce, EventAt
  <1>4. CASE log' = log /\ runs' = runs
    BY <1>4 DEF LogOnce, EventAt, Published
  <1>5. ASSUME NEW e \in Events, Publish(e) PROVE runs' = runs
    BY <1>5 DEF Publish
  <1> QED BY <1>2, <1>3, <1>4, LogAndRuns

LEMMA AckStep == TypeOK /\ Bounds /\ AckAfterRun /\ [Next]_vars => AckAfterRun'
  <1> SUFFICES ASSUME TypeOK, Bounds, AckAfterRun, [Next]_vars, NEW v \in Workers, wk'[v] = "ack"
               PROVE  runs'[EventAt(cur[v])'] > 0
    BY DEF AckAfterRun
  <1>0. wk \in [Workers -> WkStates]
    BY DEF TypeOK
  <1>1. CASE wk[v] = "ack" /\ cur'[v] = cur[v]
    <2>1. cur[v] \in Refs(log)
      BY <1>1, CurFacts DEF InHand
    <2>2. EventAt(cur[v])' = EventAt(cur[v]) /\ EventAt(cur[v]) \in Events
      <3>1. \A r \in Refs(log) : EventAt(r)' = EventAt(r) /\ EventAt(r) \in Events
        BY RecordsStay, RefFacts
      <3> QED BY <1>1, <2>1, <3>1 DEF EventAt
    <2>3. runs'[EventAt(cur[v])] >= runs[EventAt(cur[v])] /\ runs[EventAt(cur[v])] \in Nat
      BY <2>2, RunsGrow
    <2>4. runs[EventAt(cur[v])] > 0
      BY <1>1 DEF AckAfterRun
    <2>5. runs'[EventAt(cur[v])] \in Int
      BY <2>2, LogAndRuns, RunDoneRuns, <2>3
    <2> QED BY <2>2, <2>3, <2>4, <2>5
  <1>2. CASE RunDone(v)
    <2>1. /\ runs'[EventAt(cur[v])] = runs[EventAt(cur[v])] + 1 /\ EventAt(cur[v]) \in Events
          /\ log' = log /\ cur' = cur
      BY <1>2, RunDoneRuns
    <2>2. runs[EventAt(cur[v])] \in Nat
      BY <2>1 DEF TypeOK
    <2> QED BY <2>1, <2>2 DEF EventAt
  <1>3. RunDone(v) \/ (wk[v] = "ack" /\ cur'[v] = cur[v])
    <2>0. cur = [w \in Workers |-> cur[w]]
      BY DEF Bounds
    <2>1. CASE (\E e \in Events : Publish(e)) \/ Rebalance \/ UNCHANGED vars
      BY <2>1 DEF Publish, Rebalance, vars
    <2>2. CASE Start \/ StopDone \/ Crash
      BY <2>2 DEF Start, StopDone, Crash, Gone
    <2>3. CASE Stop
      BY <1>0, <2>3 DEF Stop, AtCancel
    <2>4. ASSUME NEW w \in Workers, Get(w) \/ GetRaises(w) \/ RunDone(w) \/ RunRaises(w) \/ Ack(w) \/ AckRaises(w)
          PROVE  RunDone(v) \/ (wk[v] = "ack" /\ cur'[v] = cur[v])
      <3>1. CASE v = w
        BY <1>0, <2>4, <3>1, AckStates DEF Get, GetRaises, RunRaises, Ack, AckRaises
      <3>2. CASE v # w
        BY <1>0, <2>0, <2>4, <3>2 DEF Get, GetRaises, RunDone, RunRaises, Ack, AckRaises
      <3> QED BY <3>1, <3>2
    <2> QED BY <2>1, <2>2, <2>3, <2>4 DEF Next, WorkerNext
  <1> QED BY <1>1, <1>2, <1>3
-----------------------------------------------------------------------------
(* What is past and was never processed.                                   *)

LEMMA BudgetType == TypeOK => Budget \in Nat /\ stops \in Nat /\ dlqFailures \in Nat /\ Cardinality(Workers) \in Nat
  <1> SUFFICES ASSUME TypeOK
               PROVE  Budget \in Nat /\ stops \in Nat /\ dlqFailures \in Nat /\ Cardinality(Workers) \in Nat
    OBVIOUS
  <1>1. stops \in Nat /\ dlqFailures \in Nat /\ Cardinality(Workers) \in Nat
    BY FS_CardinalityType DEF TypeOK
  <1>2. stops * Cardinality(Workers) \in Nat
    BY <1>1
  <1> QED BY <1>1, <1>2 DEF Budget

LEMMA PastGrows ==
    ASSUME TypeOK, PastBounded, [Next]_vars, log' = log,
           NEW X, IsFiniteSet(X), NEW k \in Nat, Cardinality(X) <= k, Budget' = Budget + k,
           \A r \in Refs(log) : runs[EventAt(r)] = 0 /\ Passed(r.part, r.off)' => r \in Past \cup X
    PROVE  PastBounded'
  <1>1. Past' \subseteq Past \cup X
    <2> SUFFICES ASSUME NEW r \in Past' PROVE r \in Past \cup X
      OBVIOUS
    <2>1. r \in Refs(log) /\ runs'[EventAt(r)'] = 0 /\ Passed(r.part, r.off)'
      BY DEF Past
    <2>2. EventAt(r)' = EventAt(r) /\ EventAt(r) \in Events
      BY <2>1, RecordsStay, RefFacts
    <2>3. runs[EventAt(r)] \in Nat /\ runs'[EventAt(r)] >= runs[EventAt(r)]
      BY <2>2, RunsGrow
    <2>4. runs[EventAt(r)] = 0
      BY <2>1, <2>2, <2>3
    <2> QED BY <2>1, <2>4
  <1>2. /\ IsFiniteSet(Past \cup X)
        /\ Cardinality(Past \cup X) = Cardinality(Past) + Cardinality(X) - Cardinality(Past \cap X)
    BY FS_Union DEF PastBounded
  <1>3. Cardinality(Past) \in Nat /\ Cardinality(X) \in Nat /\ Cardinality(Past \cap X) \in Nat
    BY FS_CardinalityType, FS_Intersection DEF PastBounded
  <1>4. IsFiniteSet(Past') /\ Cardinality(Past') <= Cardinality(Past \cup X) /\ Cardinality(Past') \in Nat
    BY <1>1, <1>2, FS_Subset, FS_CardinalityType
  <1>5. Budget \in Nat /\ Cardinality(Past) <= Budget
    BY BudgetType DEF PastBounded
  <1>6. Cardinality(Past \cup X) <= Budget + k
    BY <1>2, <1>3, <1>5
  <1>7. Cardinality(Past \cup X) \in Int
    BY <1>2, <1>3
  <1> QED BY <1>4, <1>5, <1>6, <1>7 DEF PastBounded

\* A step after which no unprocessed record is newly past.
LEMMA PastKept ==
    ASSUME TypeOK, PastBounded, [Next]_vars, log' = log, UNCHANGED <<stops, dlqFailures>>,
           \A r \in Refs(log) : runs[EventAt(r)] = 0 /\ Passed(r.part, r.off)' => Passed(r.part, r.off)
    PROVE  PastBounded'
  <1>1. Budget' = Budget + 0
    BY BudgetType DEF Budget
  <1>2. \A r \in Refs(log) : runs[EventAt(r)] = 0 /\ Passed(r.part, r.off)' => r \in Past \cup {}
    BY DEF Past
  <1>3. IsFiniteSet({}) /\ Cardinality({}) <= 0 /\ 0 \in Nat
    BY FS_EmptySet
  <1> QED BY <1>1, <1>2, <1>3, PastGrows

\* Records up to the position of an owner that asks for more are past.
LEMMA FetchedPassed ==
    ASSUME TypeOK, NEW w \in Workers, wk[w] = "get", NEW p \in Partitions, owner[p] = w,
           NEW i \in Nat, i <= position[p]
    PROVE  Passed(p, i)
  <1>1. position[p] \in Nat
    BY DEF TypeOK
  <1>2. i < position[p] \/ i = position[p]
    BY <1>1
  <1> QED BY <1>2 DEF Passed, Holds, InHand

LEMMA GetPast ==
    ASSUME TypeOK, Bounds, PastBounded, [Next]_vars, NEW w \in Workers, Get(w)
    PROVE  PastBounded'
  <1>1. PICK p \in Partitions :
           /\ owner[p] = w /\ position' = [position EXCEPT ![p] = @ + 1]
           /\ cur' = [cur EXCEPT ![w] = Ref(p, position[p] + 1)] /\ position[p] < Len(log[p])
    BY DEF Get, Ref
  <1>2. /\ wk[w] = "get" /\ wk' = [wk EXCEPT ![w] = "run"]
        /\ UNCHANGED <<log, committed, owner, stops, dlqFailures>>
    BY DEF Get, broker, counters
  <1>3. /\ position[p] \in Nat /\ position'[p] = position[p] + 1
        /\ \A q \in Partitions \ {p} : position'[q] = position[q]
    BY <1>1 DEF TypeOK
  <1>4. Ref(p, position[p] + 1) \in Refs(log)
    <2>1. position[p] + 1 \in 1..Len(log[p])
      <3>1. Len(log[p]) \in Nat
        BY LenProperties DEF TypeOK
      <3> QED BY <1>1, <1>3, <3>1
    <2> QED BY <2>1, RefMake
  <1>5. /\ wk'[w] = "run" /\ cur'[w] = Ref(p, position[p] + 1)
        /\ \A v \in Workers \ {w} : wk'[v] = wk[v] /\ cur'[v] = cur[v]
    <2>1. "run" \in WkStates /\ Ref(p, position[p] + 1) \in (IF "run" \in InHand THEN Refs(log) ELSE {None})
      BY <1>4 DEF WkStates, InHand
    <2> QED BY <1>1, <1>2, <2>1, WorkerMoves
  <1>6. ASSUME NEW r \in Refs(log), Passed(r.part, r.off)' PROVE Passed(r.part, r.off)
    <2>0. r.part \in Partitions /\ r.off \in Nat /\ r = Ref(r.part, r.off)
      BY RefFacts
    <2>1. CASE r.off <= committed'[r.part]
      BY <1>2, <2>1 DEF Passed
    <2>2. CASE r.part = p /\ r.off <= position[p]
      BY <1>1, <1>2, <2>0, <2>2, FetchedPassed
    <2>3. CASE r.off < position'[r.part]
      <3>1. CASE r.part = p
        BY <1>3, <2>0, <2>2, <2>3, <3>1
      <3>2. CASE r.part # p
        BY <1>3, <2>0, <2>3, <3>2 DEF Passed
      <3> QED BY <3>1, <3>2
    <2>4. CASE /\ r.off = position'[r.part] /\ owner'[r.part] \in Workers /\ wk'[owner'[r.part]] # "died"
               /\ ~(wk'[owner'[r.part]] \in InHand /\ cur'[owner'[r.part]] = Ref(r.part, r.off))
      <3>1. r.part # p
        BY <1>1, <1>2, <1>3, <1>5, <2>4 DEF InHand
      <3>2. r.off = position[r.part] /\ owner[r.part] \in Workers
        BY <1>2, <1>3, <2>0, <2>4, <3>1
      <3>3. CASE owner[r.part] = w
        BY <1>2, <3>2, <3>3 DEF Passed, Holds, InHand
      <3>4. CASE owner[r.part] # w
        BY <1>2, <1>5, <2>4, <3>2, <3>4 DEF Passed, Holds
      <3> QED BY <3>3, <3>4
    <2>5. ASSUME NEW v \in Workers, wk'[v] \in InHand, cur'[v].part = r.part,
                 r.off < cur'[v].off \/ (r.off = cur'[v].off /\ wk'[v] \in {"lastAck", "dyingAck"})
          PROVE  Passed(r.part, r.off)
      <3>1. CASE v = w
        <4>1. r.part = p /\ r.off < position[p] + 1
          BY <1>5, <2>5, <3>1 DEF Ref
        <4> QED BY <1>3, <2>0, <2>2, <4>1
      <3>2. CASE v # w
        BY <1>5, <2>5, <3>2 DEF Passed
      <3> QED BY <3>1, <3>2
    <2> QED BY <1>6, <2>1, <2>3, <2>4, <2>5 DEF Passed, Holds
  <1> QED BY <1>2, <1>6, PastKept
\* A worker's step that leaves offsets and ownership alone.
LEMMA StatePast ==
    ASSUME TypeOK, Bounds, PastBounded, [Next]_vars, NEW w \in Workers,
           GetRaises(w) \/ RunDone(w) \/ RunRaises(w)
    PROVE  PastBounded'
  <1>0. wk \in [Workers -> WkStates]
    BY DEF TypeOK
  <1>1. UNCHANGED <<log, committed, owner, position, cur, stops>>
    BY DEF GetRaises, RunDone, RunRaises, broker, counters
  <1>2. CASE GetRaises(w) \/ RunDone(w)
    <2>1. dlqFailures' = dlqFailures
      BY <1>2 DEF GetRaises, RunDone, counters
    <2>2. PICK s \in {"died", "ack"} : wk'[w] = s /\ (s = "ack" <=> wk[w] = "run") /\ wk[w] \in {"get", "run"}
      BY <1>0, <1>2 DEF GetRaises, RunDone
    <2>3. \A v \in Workers \ {w} : wk'[v] = wk[v]
      BY <1>0, <1>2 DEF GetRaises, RunDone
    <2>4. \A v \in Workers : /\ wk'[v] \in InHand => wk[v] \in InHand
                             /\ wk'[v] # "died" => (wk[v] # "died" /\ (wk[v] \in InHand => wk'[v] \in InHand))
                             /\ wk'[v] \in {"lastAck", "dyingAck"} => wk[v] \in {"lastAck", "dyingAck"}
      BY <2>2, <2>3 DEF InHand
    <2>5. ASSUME NEW r \in Refs(log), Passed(r.part, r.off)' PROVE Passed(r.part, r.off)
      <3>1. CASE \/ r.off <= committed'[r.part] \/ r.off < position'[r.part]
                 \/ /\ r.off = position'[r.part] /\ owner'[r.part] \in Workers /\ wk'[owner'[r.part]] # "died"
                    /\ ~(wk'[owner'[r.part]] \in InHand /\ cur'[owner'[r.part]] = Ref(r.part, r.off))
        BY <1>1, <2>4, <3>1 DEF Passed, Holds
      <3>2. ASSUME NEW v \in Workers, wk'[v] \in InHand, cur'[v].part = r.part,
                   r.off < cur'[v].off \/ (r.off = cur'[v].off /\ wk'[v] \in {"lastAck", "dyingAck"})
            PROVE  Passed(r.part, r.off)
        <4>1. /\ wk[v] \in InHand /\ cur[v].part = r.part
              /\ r.off < cur[v].off \/ (r.off = cur[v].off /\ wk[v] \in {"lastAck", "dyingAck"})
          BY <1>1, <2>4, <3>2
        <4> QED BY <4>1 DEF Passed
      <3> QED BY <2>5, <3>1, <3>2 DEF Passed, Holds
    <2> QED BY <1>1, <2>1, <2>5, PastKept
  <1>3. CASE RunRaises(w)
    <2>1. dlqFailures' = dlqFailures + 1 /\ wk[w] = "run" /\ wk'[w] = "dyingAck"
      BY <1>0, <1>3 DEF RunRaises
    <2>2. \A v \in Workers \ {w} : wk'[v] = wk[v]
      BY <1>0, <1>3 DEF RunRaises
    <2>3. \A v \in Workers : (wk'[v] \in InHand <=> wk[v] \in InHand) /\ (wk'[v] = "died" <=> wk[v] = "died")
      BY <2>1, <2>2 DEF InHand
    <2>4. cur[w] \in Refs(log)
      BY <2>1, CurFacts DEF InHand
    <2>5. Budget' = Budget + 1
      BY <1>1, <2>1, BudgetType DEF Budget
    <2>6. ASSUME NEW r \in Refs(log), runs[EventAt(r)] = 0, Passed(r.part, r.off)', r # cur[w]
          PROVE  Passed(r.part, r.off)
      <3>1. CASE \E v \in Workers : /\ wk'[v] \in InHand /\ cur'[v].part = r.part
                                    /\ r.off = cur'[v].off /\ wk'[v] \in {"lastAck", "dyingAck"}
        <4>1. PICK v \in Workers : /\ wk'[v] \in InHand /\ cur'[v].part = r.part
                                   /\ r.off = cur'[v].off /\ wk'[v] \in {"lastAck", "dyingAck"}
          BY <3>1
        <4>2. v # w
          <5> SUFFICES ASSUME v = w PROVE FALSE
            OBVIOUS
          <5>1. r = Ref(r.part, r.off) /\ cur[w] = Ref(cur[w].part, cur[w].off)
            BY <2>4, RefFacts
          <5> QED BY <1>1, <2>6, <4>1, <5>1
        <4> QED BY <1>1, <2>2, <2>3, <4>1, <4>2 DEF Passed
      <3>2. CASE ~\E v \in Workers : /\ wk'[v] \in InHand /\ cur'[v].part = r.part
                                     /\ r.off = cur'[v].off /\ wk'[v] \in {"lastAck", "dyingAck"}
        BY <1>1, <2>3, <2>6, <3>2 DEF Passed, Holds
      <3> QED BY <3>1, <3>2
    <2>7. \A r \in Refs(log) : runs[EventAt(r)] = 0 /\ Passed(r.part, r.off)' => r \in Past \cup {cur[w]}
      BY <2>6 DEF Past
    <2>8. IsFiniteSet({cur[w]}) /\ Cardinality({cur[w]}) <= 1 /\ 1 \in Nat
      <3>1. IsFiniteSet({cur[w]}) /\ Cardinality({cur[w]}) = 1
        BY FS_Singleton
      <3> QED BY <3>1
    <2> QED BY <1>1, <2>5, <2>7, <2>8, PastGrows
  <1> QED BY <1>2, <1>3

\* A commit covers only what its sender had already passed.
LEMMA CommitCovers ==
    ASSUME TypeOK, AckAfterRun, NEW w \in Workers, wk[w] \in DOMAIN AfterAck,
           NEW r \in Refs(log), r.part = cur[w].part, r.off <= cur[w].off, runs[EventAt(r)] = 0
    PROVE  Passed(r.part, r.off)
  <1>1. wk[w] \in InHand /\ wk[w] \in {"ack", "lastAck", "dyingAck"} /\ cur[w] \in Refs(log)
    BY AckStates, CurFacts DEF InHand
  <1>2. /\ r = Ref(r.part, r.off) /\ cur[w] = Ref(cur[w].part, cur[w].off) /\ EventAt(r) \in Events
        /\ r.off \in Nat /\ cur[w].off \in Nat
    BY <1>1, RefFacts
  <1>3. CASE r.off < cur[w].off
    BY <1>1, <1>3 DEF Passed
  <1>4. CASE r.off = cur[w].off
    <2>1. r = cur[w]
      BY <1>2, <1>4
    <2>2. wk[w] # "ack"
      BY <2>1 DEF AckAfterRun
    <2> QED BY <1>1, <1>4, <2>2 DEF Passed
  <1> QED BY <1>2, <1>3, <1>4

LEMMA AckPast ==
    ASSUME TypeOK, Bounds, AckAfterRun, PastBounded, [Next]_vars, NEW w \in Workers, Ack(w) \/ AckRaises(w)
    PROVE  PastBounded'
  <1>0. wk \in [Workers -> WkStates] /\ cur = [v \in Workers |-> cur[v]] /\ committed \in [Partitions -> Nat]
    BY DEF TypeOK, Bounds
  <1>1. UNCHANGED <<log, owner, position, stops, dlqFailures>> /\ wk[w] \in DOMAIN AfterAck
    BY DEF Ack, AckRaises, broker, counters
  <1>2. wk[w] \in InHand /\ cur[w] \in Refs(log)
    BY <1>1, AckStates, CurFacts
  <1>3. /\ wk'[w] \in {"get", "exited", "died"}
        /\ \A v \in Workers \ {w} : wk'[v] = wk[v] /\ cur'[v] = cur[v]
    BY <1>0, <1>1, AckStates DEF Ack, AckRaises
  <1>4. \A q \in Partitions : committed'[q] = committed[q] \/ (q = cur[w].part /\ committed'[q] = cur[w].off)
    <2>1. cur[w].part \in Partitions
      BY <1>2, RefFacts
    <2> QED BY <1>0, <2>1 DEF Ack, AckRaises, broker
  <1>5. ASSUME NEW r \in Refs(log), runs[EventAt(r)] = 0, Passed(r.part, r.off)' PROVE Passed(r.part, r.off)
    <2>0. r.part \in Partitions /\ r.off \in Nat /\ r = Ref(r.part, r.off)
      BY RefFacts
    <2>1. CASE r.off <= committed'[r.part]
      <3>1. CASE committed'[r.part] = committed[r.part]
        BY <2>1, <3>1 DEF Passed
      <3>2. CASE r.part = cur[w].part /\ committed'[r.part] = cur[w].off
        BY <1>1, <1>5, <2>1, <3>2, CommitCovers
      <3> QED BY <1>4, <2>0, <3>1, <3>2
    <2>2. CASE r.off < position'[r.part]
      BY <1>1, <2>2 DEF Passed
    <2>3. CASE /\ r.off = position'[r.part] /\ owner'[r.part] \in Workers /\ wk'[owner'[r.part]] # "died"
               /\ ~(wk'[owner'[r.part]] \in InHand /\ cur'[owner'[r.part]] = Ref(r.part, r.off))
      <3>1. CASE owner[r.part] = w /\ cur[w] = r
        <4>1. r.part = cur[w].part /\ r.off <= cur[w].off
          BY <2>0, <3>1
        <4> QED BY <1>1, <1>5, <4>1, CommitCovers
      <3>2. CASE owner[r.part] = w /\ cur[w] # r
        BY <1>1, <1>2, <2>0, <2>3, <3>2 DEF Passed, Holds, InHand
      <3>3. CASE owner[r.part] # w
        BY <1>1, <1>3, <2>3, <3>3 DEF Passed, Holds
      <3> QED BY <3>1, <3>2, <3>3
    <2>4. ASSUME NEW v \in Workers, wk'[v] \in InHand, cur'[v].part = r.part,
                 r.off < cur'[v].off \/ (r.off = cur'[v].off /\ wk'[v] \in {"lastAck", "dyingAck"})
          PROVE  Passed(r.part, r.off)
      <3>1. v # w
        BY <1>3, <2>4 DEF InHand
      <3> QED BY <1>3, <2>4, <3>1 DEF Passed
    <2> QED BY <1>5, <2>1, <2>2, <2>3, <2>4 DEF Passed, Holds
  <1> QED BY <1>1, <1>5, PastKept
\* Starting, rebalancing or going down: fetching is back at what is committed, or stops.
LEMMA AssignPast ==
    ASSUME TypeOK, Bounds, PastBounded, [Next]_vars, Start \/ Rebalance
    PROVE  PastBounded'
  <1>1. UNCHANGED <<log, committed, cur, stops, dlqFailures>> /\ position' = committed
    BY DEF Start, Rebalance, broker, counters
  <1>2. \A v \in Workers : wk'[v] \in InHand => wk'[v] = wk[v]
    BY DEF Start, Rebalance, InHand
  <1>3. ASSUME NEW r \in Refs(log), Passed(r.part, r.off)' PROVE Passed(r.part, r.off)
    <2>0. r.part \in Partitions /\ r.off \in Nat /\ committed[r.part] \in Nat
      <3>1. r.part \in Partitions /\ r.off \in Nat
        BY RefFacts
      <3> QED BY <3>1 DEF TypeOK
    <2>1. CASE r.off <= committed'[r.part] \/ r.off < position'[r.part] \/ r.off = position'[r.part]
      <3>1. r.off <= committed[r.part]
        BY <1>1, <2>0, <2>1
      <3> QED BY <3>1 DEF Passed
    <2>2. ASSUME NEW v \in Workers, wk'[v] \in InHand, cur'[v].part = r.part,
                 r.off < cur'[v].off \/ (r.off = cur'[v].off /\ wk'[v] \in {"lastAck", "dyingAck"})
          PROVE  Passed(r.part, r.off)
      <3>1. wk[v] = wk'[v] /\ cur[v] = cur'[v]
        BY <1>1, <1>2, <2>2
      <3> QED BY <2>2, <3>1 DEF Passed
    <2> QED BY <1>3, <2>1, <2>2 DEF Passed
  <1> QED BY <1>1, <1>3, PastKept

LEMMA GonePast ==
    ASSUME TypeOK, Bounds, PastBounded, [Next]_vars, StopDone \/ Crash
    PROVE  PastBounded'
  <1>1. /\ UNCHANGED <<log, committed, stops, dlqFailures>>
        /\ position' = [p \in Partitions |-> 0] /\ wk' = [w \in Workers |-> "off"]
    BY DEF StopDone, Crash, Gone, broker, counters
  <1>2. ASSUME NEW r \in Refs(log), Passed(r.part, r.off)' PROVE Passed(r.part, r.off)
    <2>0. r.part \in Partitions /\ r.off \in 1..Len(log[r.part]) /\ Len(log[r.part]) \in Nat
      BY RefFacts
    <2>1. ~(r.off < position'[r.part]) /\ r.off # position'[r.part]
      BY <1>1, <2>0
    <2>2. \A v \in Workers : wk'[v] \notin InHand
      BY <1>1 DEF InHand
    <2>3. r.off <= committed[r.part]
      BY <1>1, <1>2, <2>1, <2>2 DEF Passed
    <2> QED BY <2>3 DEF Passed
  <1> QED BY <1>1, <1>2, PastKept

\* A shutdown can make the one record in each worker's hands past, and no other.
LEMMA StopPast ==
    ASSUME TypeOK, Bounds, AckAfterRun, PastBounded, [Next]_vars, Stop
    PROVE  PastBounded'
  <1> DEFINE Cut == {w \in Workers : wk[w] = "run"}
             X == {cur[w] : w \in Cut}
  <1>1. /\ UNCHANGED <<log, runs, owner, position, dlqFailures>> /\ stops' = stops + 1 /\ proc = "up"
        /\ wk' = [w \in Workers |-> AtCancel(wk[w])]
        /\ cur' = [w \in Workers |-> IF wk[w] = "run" THEN cur[w] ELSE None]
    BY DEF Stop
  <1>2. PICK sent \in SUBSET {w \in Workers : wk[w] \in {"ack", "dyingAck"}} :
           committed' = [p \in Partitions |->
              IF owner[p] \in sent /\ cur[owner[p]].part = p THEN cur[owner[p]].off ELSE committed[p]]
    BY DEF Stop
  <1>3. \A w \in Workers : /\ wk'[w] \in InHand <=> wk[w] = "run"
                           /\ wk[w] = "run" => wk'[w] = "lastAck" /\ cur'[w] = cur[w]
                           /\ wk'[w] = "died" <=> wk[w] = "died"
    <2>1. \A w \in Workers : wk[w] \in WkStates \ {"lastAck"} /\ wk'[w] = AtCancel(wk[w])
      BY <1>1 DEF TypeOK, Bounds
    <2> QED BY <1>1, <2>1 DEF AtCancel, WkStates, InHand
  <1>4. IsFiniteSet(X) /\ Cardinality(X) <= Cardinality(Workers) /\ Cardinality(Workers) \in Nat
    <2>1. Cut \subseteq Workers
      OBVIOUS
    <2>2. IsFiniteSet(Cut) /\ Cardinality(Cut) <= Cardinality(Workers) /\ Cardinality(Workers) \in Nat /\ Cardinality(Cut) \in Nat
      BY <2>1, FS_Subset, FS_CardinalityType
    <2>3. [w \in Cut |-> cur[w]] \in Surjection(Cut, X)
      BY DEF Surjection
    <2>4. IsFiniteSet(X) /\ Cardinality(X) <= Cardinality(Cut)
      BY <2>2, <2>3, FS_Surjection
    <2>5. Cardinality(X) \in Nat
      BY <2>4, FS_CardinalityType
    <2> HIDE DEF X, Cut
    <2> QED BY <2>2, <2>4, <2>5
  <1>5. Budget' = Budget + Cardinality(Workers)
    <2>1. stops \in Nat /\ dlqFailures \in Nat /\ Cardinality(Workers) \in Nat
      BY BudgetType
    <2>2. (stops + 1) * Cardinality(Workers) = stops * Cardinality(Workers) + Cardinality(Workers)
      BY <2>1
    <2>3. stops * Cardinality(Workers) \in Nat
      BY <2>1
    <2> QED BY <1>1, <2>1, <2>2, <2>3 DEF Budget
  <1>6. ASSUME NEW r \in Refs(log), runs[EventAt(r)] = 0, Passed(r.part, r.off)', r \notin X
        PROVE  Passed(r.part, r.off)
    <2>0. r.part \in Partitions /\ r.off \in Nat /\ r = Ref(r.part, r.off)
      BY RefFacts
    <2>1. CASE r.off <= committed'[r.part]
      <3>1. CASE owner[r.part] \in sent /\ cur[owner[r.part]].part = r.part
        <4>1. /\ owner[r.part] \in Workers /\ wk[owner[r.part]] \in DOMAIN AfterAck
              /\ r.off <= cur[owner[r.part]].off
          BY <1>2, <2>0, <2>1, <3>1, AckStates
        <4> QED BY <1>6, <3>1, <4>1, CommitCovers
      <3>2. CASE ~(owner[r.part] \in sent /\ cur[owner[r.part]].part = r.part)
        BY <1>2, <2>0, <2>1, <3>2 DEF Passed
      <3> QED BY <3>1, <3>2
    <2>2. CASE r.off < position'[r.part]
      BY <1>1, <2>2 DEF Passed
    <2>3. CASE /\ r.off = position'[r.part] /\ owner'[r.part] \in Workers /\ wk'[owner'[r.part]] # "died"
               /\ ~(wk'[owner'[r.part]] \in InHand /\ cur'[owner'[r.part]] = Ref(r.part, r.off))
      <3> DEFINE o == owner[r.part]
      <3>0. o \in Workers /\ wk[o] # "died" /\ r.off = position[r.part] /\ ~(wk[o] = "run" /\ cur[o] = r)
        BY <1>1, <1>3, <2>0, <2>3
      <3>1. CASE wk[o] \in InHand /\ cur[o] = r
        <4>1. wk[o] \in DOMAIN AfterAck
          BY <3>0, <3>1, AckStates DEF InHand
        <4>2. r.part = cur[o].part /\ r.off <= cur[o].off
          BY <2>0, <3>1
        <4> QED BY <1>6, <3>0, <4>1, <4>2, CommitCovers
      <3>2. CASE ~(wk[o] \in InHand /\ cur[o] = r)
        BY <2>0, <3>0, <3>2 DEF Passed, Holds
      <3> QED BY <3>1, <3>2
    <2>4. ASSUME NEW v \in Workers, wk'[v] \in InHand, cur'[v].part = r.part,
                 r.off < cur'[v].off \/ (r.off = cur'[v].off /\ wk'[v] \in {"lastAck", "dyingAck"})
          PROVE  Passed(r.part, r.off)
      <3>1. wk[v] = "run" /\ cur'[v] = cur[v] /\ cur[v] \in X
        BY <1>3, <2>4
      <3>2. cur[v] \in Refs(log)
        BY <3>1, CurFacts DEF InHand
      <3>3. cur[v] = Ref(cur[v].part, cur[v].off)
        BY <3>2, RefFacts
      <3>4. r.off < cur[v].off
        BY <1>6, <2>0, <2>4, <3>1, <3>3
      <3> QED BY <2>4, <3>1, <3>4 DEF Passed, InHand
    <2> QED BY <1>6, <2>1, <2>2, <2>3, <2>4 DEF Passed, Holds
  <1>7. \A r \in Refs(log) : runs[EventAt(r)] = 0 /\ Passed(r.part, r.off)' => r \in Past \cup X
    <2> HIDE DEF X
    <2> QED BY <1>6 DEF Past
  <1> HIDE DEF X
  <1> QED BY <1>1, <1>4, <1>5, <1>7, PastGrows

\* A new record is past nothing.
LEMMA PublishPast ==
    ASSUME TypeOK, Bounds, PastBounded, NEW e \in Events, Publish(e)
    PROVE  PastBounded'
  <1> DEFINE p == PartOf[e]
             n == Len(log[p])
             new == Ref(p, n + 1)
  <1>1. /\ Refs(log') = Refs(log) \cup {new} /\ new.part = p /\ new.off = n + 1
        /\ \A r \in Refs(log) : EventAt(r)' = EventAt(r)
    BY PublishLog
  <1>2. UNCHANGED <<committed, runs, owner, position, wk, cur, stops, dlqFailures>>
    BY DEF Publish, counters
  <1>3. \A r : Passed(r.part, r.off)' <=> Passed(r.part, r.off)
    BY <1>2 DEF Passed, Holds
  <1>4. p \in Partitions /\ n \in Nat /\ committed[p] \in Nat /\ position[p] \in Nat
        /\ committed[p] <= n /\ position[p] <= n
    <2>1. p \in Partitions /\ log[p] \in Seq(Events)
      BY DEF TypeOK
    <2>2. n \in Nat
      BY <2>1, LenProperties
    <2> QED BY <2>1, <2>2 DEF TypeOK, Bounds
  <1>5. ~Passed(new.part, new.off)
    <2>1. ~(n + 1 <= committed[p]) /\ ~(n + 1 < position[p]) /\ n + 1 # position[p]
      BY <1>4
    <2>2. ASSUME NEW w \in Workers, wk[w] \in InHand, cur[w].part = p PROVE ~(n + 1 < cur[w].off) /\ n + 1 # cur[w].off
      <3>1. cur[w] \in Refs(log)
        BY <2>2, CurFacts
      <3>2. cur[w].off \in 1..Len(log[p])
        BY <2>2, <3>1, RefFacts
      <3> QED BY <1>4, <3>2
    <2> HIDE DEF n, p, new
    <2> QED BY <1>1, <2>1, <2>2 DEF Passed
  <1>6. Past' \subseteq Past
    <2> SUFFICES ASSUME NEW r \in Past' PROVE r \in Past
      OBVIOUS
    <2>1. r \in Refs(log') /\ runs'[EventAt(r)'] = 0 /\ Passed(r.part, r.off)'
      BY DEF Past
    <2>2. r \in Refs(log)
      <3> HIDE DEF new
      <3> QED BY <1>1, <1>3, <1>5, <2>1
    <2> QED BY <1>1, <1>2, <1>3, <2>1, <2>2 DEF Past
  <1>7. Budget' = Budget
    BY <1>2 DEF Budget
  <1>8. IsFiniteSet(Past') /\ Cardinality(Past') <= Cardinality(Past)
    BY <1>6, FS_Subset DEF PastBounded
  <1>9. Cardinality(Past) \in Nat /\ Cardinality(Past') \in Nat /\ Budget \in Nat
    BY <1>8, FS_CardinalityType, BudgetType DEF PastBounded
  <1> QED BY <1>7, <1>8, <1>9 DEF PastBounded

LEMMA PastStep ==
    ASSUME TypeOK, Bounds, AckAfterRun, PastBounded, [Next]_vars
    PROVE  PastBounded'
  <1>1. CASE UNCHANGED vars
    <2>1. UNCHANGED <<log, runs, committed, position, owner, wk, cur, stops, dlqFailures>>
      BY <1>1 DEF vars, broker, counters
    <2> QED BY <2>1 DEF PastBounded, Past, Passed, Holds, EventAt, Budget
  <1>2. CASE Next
    BY <1>2, PublishPast, AssignPast, GetPast, StatePast, AckPast, StopPast, GonePast DEF Next, WorkerNext
  <1> QED BY <1>1, <1>2
-----------------------------------------------------------------------------
(* While nothing has interrupted the workers.                              *)

\* Crashes, stops, rebalances and broker failures are only ever added.
LEMMA CalmBefore ==
    ASSUME TypeOK, [Next]_vars, Calm'
    PROVE  Calm /\ ~Stop /\ ~Crash /\ ~Rebalance /\ \A w \in Workers : ~GetRaises(w)
  <1>0. crashes \in Nat /\ stops \in Nat /\ rebalances \in Nat /\ brokerFailures \in Nat
    BY DEF TypeOK
  <1>1. /\ crashes' \in Nat /\ stops' \in Nat /\ rebalances' \in Nat /\ brokerFailures' \in Nat
    BY CountersType
  <1>2. crashes' = 0 /\ stops' = 0 /\ rebalances' = 0 /\ brokerFailures' = 0
    <2>1. crashes' + stops' + rebalances' + brokerFailures' = 0
      BY DEF Calm
    <2>2. \A a, b, c, d \in Nat : a + b + c + d = 0 => a = 0 /\ b = 0 /\ c = 0 /\ d = 0
      OBVIOUS
    <2> HIDE KafkaAssumption
    <2> QED BY <1>1, <2>1, <2>2
  <1>3. ~Stop /\ ~Crash /\ ~Rebalance /\ \A w \in Workers : ~GetRaises(w)
    BY <1>0, <1>2 DEF Stop, Crash, Rebalance, GetRaises
  <1>4. /\ crashes' = crashes /\ stops' = stops /\ rebalances' = rebalances
        /\ brokerFailures' = brokerFailures \/ brokerFailures' = brokerFailures + 1
    <2>1. CASE UNCHANGED counters
      BY <2>1 DEF counters
    <2>2. ASSUME NEW w \in Workers, RunRaises(w) \/ AckRaises(w)
          PROVE  /\ crashes' = crashes /\ stops' = stops /\ rebalances' = rebalances
                 /\ brokerFailures' = brokerFailures \/ brokerFailures' = brokerFailures + 1
      BY <2>2 DEF RunRaises, AckRaises
    <2>3. UNCHANGED counters \/ \E w \in Workers : RunRaises(w) \/ AckRaises(w)
      BY <1>3 DEF Next, WorkerNext, vars, Publish, Start, Get, RunDone, Ack, StopDone
    <2> QED BY <2>1, <2>2, <2>3
  <1> QED BY <1>0, <1>2, <1>3, <1>4 DEF Calm

LEMMA SteadyStep ==
    ASSUME TypeOK, Bounds, LogOnce, Calm => Steady, [Next]_vars, Calm'
    PROVE  Steady'
  <1>0. Calm /\ Steady /\ ~Stop /\ ~Crash /\ ~Rebalance /\ \A w \in Workers : ~GetRaises(w)
    BY CalmBefore
  <1>t. wk \in [Workers -> WkStates] /\ cur = [w \in Workers |-> cur[w]] /\ position \in [Partitions -> Nat]
    BY DEF TypeOK, Bounds
  <1>1. ASSUME NEW e \in Events, Publish(e) PROVE Steady'
    <2> DEFINE p == PartOf[e]
               new == Ref(p, Len(log[p]) + 1)
    <2>1. /\ Refs(log') = Refs(log) \cup {new} /\ new.part = p /\ new.off = Len(log[p]) + 1
          /\ log'[new.part][new.off] = e /\ \A r \in Refs(log) : EventAt(r)' = EventAt(r)
      BY <1>1, PublishLog
    <2>2. proc = "up" /\ ~Published(e) /\ UNCHANGED <<proc, committed, runs, owner, position, wk, cur>>
      BY <1>1 DEF Publish
    <2>3. runs[e] = 0
      BY <2>2 DEF LogOnce, TypeOK
    <2> HIDE DEF new, p
    <2>4. ASSUME NEW r \in Refs(log'), r.off > position'[r.part] PROVE runs'[log'[r.part][r.off]] = 0
      <3>1. CASE r = new
        BY <2>1, <2>2, <2>3, <3>1
      <3>2. CASE r \in Refs(log)
        BY <1>0, <2>1, <2>2, <2>4, <3>2 DEF Steady, EventAt
      <3> QED BY <2>1, <3>1, <3>2
    <2>5. ASSUME NEW w \in Workers, wk'[w] = "run"
          PROVE  /\ owner'[cur'[w].part] = w /\ cur'[w].off = position'[cur'[w].part]
                 /\ runs'[log'[cur'[w].part][cur'[w].off]] = 0
      <3>1. wk[w] = "run" /\ cur[w] \in Refs(log)
        BY <2>2, <2>5, CurFacts DEF InHand
      <3>2. log'[cur[w].part][cur[w].off] = EventAt(cur[w])
        BY <2>1, <3>1 DEF EventAt
      <3> QED BY <1>0, <2>2, <3>1, <3>2 DEF Steady
    <2> QED BY <1>0, <2>2, <2>4, <2>5 DEF Steady, EventAt
  <1>2. CASE Start
    <2>1. /\ proc' = "up" /\ UNCHANGED <<log, runs, committed>> /\ position' = committed
          /\ \A w \in Workers : wk'[w] = "get" /\ position = committed
      BY <1>0, <1>2 DEF Start, Steady, broker
    <2>2. position' = position
      BY <1>0, <1>2 DEF Start, Steady
    <2> QED BY <1>0, <2>1, <2>2 DEF Steady, EventAt
  <1>3. ASSUME NEW w \in Workers, Get(w) PROVE Steady'
    <2>1. PICK p \in Partitions :
             /\ owner[p] = w /\ position' = [position EXCEPT ![p] = @ + 1]
             /\ cur' = [cur EXCEPT ![w] = Ref(p, position[p] + 1)] /\ position[p] < Len(log[p])
      BY <1>3 DEF Get, Ref
    <2>2. /\ proc = "up" /\ wk[w] = "get" /\ wk' = [wk EXCEPT ![w] = "run"]
          /\ UNCHANGED <<proc, log, committed, owner, runs>>
      BY <1>3 DEF Get, broker
    <2>3. /\ position[p] \in Nat /\ position'[p] = position[p] + 1
          /\ \A q \in Partitions \ {p} : position'[q] = position[q] /\ position[q] \in Nat
      BY <1>t, <2>1
    <2>4. LET r == Ref(p, position[p] + 1)
          IN  /\ cur'[w] = r /\ r \in Refs(log) /\ r.part = p /\ r.off = position[p] + 1
              /\ runs[EventAt(r)] = 0
      <3>1. position[p] + 1 \in 1..Len(log[p])
        <4>1. Len(log[p]) \in Nat
          BY LenProperties DEF TypeOK
        <4> QED BY <2>1, <2>3, <4>1
      <3>2. LET r == Ref(p, position[p] + 1) IN r \in Refs(log) /\ r.part = p /\ r.off = position[p] + 1
        BY <3>1, RefMake
      <3>3. position[p] + 1 > position[p]
        BY <2>3
      <3>4. cur'[w] = Ref(p, position[p] + 1)
        BY <1>t, <2>1
      <3> QED BY <1>0, <3>2, <3>3, <3>4 DEF Steady
    <2>5. ASSUME NEW r \in Refs(log), r.off > position'[r.part] PROVE runs[EventAt(r)] = 0
      <3>1. r.part \in Partitions /\ r.off \in Nat
        BY RefFacts
      <3>2. r.off > position[r.part]
        BY <2>3, <2>5, <3>1
      <3> QED BY <1>0, <3>2 DEF Steady
    <2>6. ASSUME NEW v \in Workers, wk'[v] = "run"
          PROVE  /\ owner[cur'[v].part] = v /\ cur'[v].off = position'[cur'[v].part]
                 /\ runs[EventAt(cur'[v])] = 0
      <3>1. CASE v = w
        BY <2>1, <2>3, <2>4, <3>1
      <3>2. CASE v # w
        <4>1. wk[v] = "run" /\ cur'[v] = cur[v]
          BY <1>t, <2>1, <2>2, <2>6, <3>2
        <4>2. cur[v].part \in Partitions
          <5>1. cur[v] \in Refs(log)
            BY <4>1, CurFacts DEF InHand
          <5> QED BY <5>1, RefFacts
        <4>3. /\ owner[cur[v].part] = v /\ cur[v].off = position[cur[v].part] /\ runs[EventAt(cur[v])] = 0
          BY <1>0, <4>1 DEF Steady
        <4> QED BY <2>1, <2>3, <3>2, <4>1, <4>2, <4>3
      <3> QED BY <3>1, <3>2
    <2> QED BY <1>0, <2>2, <2>5, <2>6 DEF Steady, EventAt
  <1>4. ASSUME NEW w \in Workers, RunDone(w) PROVE Steady'
    <2> DEFINE e == EventAt(cur[w])
    <2>1. /\ wk[w] = "run" /\ cur[w] \in Refs(log) /\ e \in Events
          /\ runs'[e] = runs[e] + 1 /\ \A d \in Events \ {e} : runs'[d] = runs[d]
          /\ UNCHANGED <<log, committed, proc, owner, position, cur>> /\ wk' = [wk EXCEPT ![w] = "ack"]
      BY <1>4, RunDoneRuns
    <2>2. runs[e] = 0 /\ owner[cur[w].part] = w /\ cur[w].off = position[cur[w].part]
      BY <1>0, <2>1 DEF Steady
    <2>3. \A d \in Events : runs'[d] <= 1
      BY <1>0, <2>1, <2>2 DEF Steady
    <2>4. ASSUME NEW r \in Refs(log), r # cur[w] PROVE EventAt(r) \in Events \ {e}
      BY <2>1, <2>4, RefFacts DEF LogOnce
    <2>5. ASSUME NEW r \in Refs(log), r.off > position[r.part] PROVE runs'[EventAt(r)] = 0
      <3>1. cur[w].off \in Nat
        BY <2>1, RefFacts
      <3>2. r # cur[w]
        BY <2>2, <2>5, <3>1
      <3>3. runs[EventAt(r)] = 0
        BY <1>0, <2>5 DEF Steady
      <3> QED BY <2>1, <2>4, <3>2, <3>3
    <2>6. ASSUME NEW v \in Workers, wk'[v] = "run"
          PROVE  /\ owner[cur[v].part] = v /\ cur[v].off = position[cur[v].part]
                 /\ runs'[EventAt(cur[v])] = 0
      <3>1. v # w /\ wk[v] = "run"
        BY <1>t, <2>1, <2>6
      <3>2. /\ owner[cur[v].part] = v /\ cur[v].off = position[cur[v].part] /\ runs[EventAt(cur[v])] = 0
        BY <1>0, <3>1 DEF Steady
      <3>3. cur[v] \in Refs(log) /\ cur[v] # cur[w]
        BY <2>2, <3>1, <3>2, CurFacts DEF InHand
      <3> QED BY <2>1, <2>4, <3>2, <3>3
    <2> QED BY <1>0, <2>1, <2>3, <2>5, <2>6 DEF Steady, EventAt
  <1>5. ASSUME NEW w \in Workers, RunRaises(w) \/ Ack(w) \/ AckRaises(w) PROVE Steady'
    <2>1. UNCHANGED <<log, runs, proc, owner, position>> /\ proc # "down"
      BY <1>5 DEF RunRaises, Ack, AckRaises, broker
    <2>2. ASSUME NEW v \in Workers, wk'[v] = "run" PROVE wk[v] = "run" /\ cur'[v] = cur[v]
      <3>1. wk'[w] # "run"
        BY <1>t, <1>5, AckStates DEF RunRaises, Ack, AckRaises
      <3>2. v # w
        BY <2>2, <3>1
      <3> QED BY <1>t, <1>5, <2>2, <3>2 DEF RunRaises, Ack, AckRaises
    <2> QED BY <1>0, <2>1, <2>2 DEF Steady, EventAt
  <1>6. ~StopDone
    BY <1>0 DEF StopDone, Steady
  <1>7. CASE UNCHANGED vars
    <2>1. UNCHANGED <<log, committed, runs, proc, owner, position, wk, cur>>
      BY <1>7 DEF vars, broker
    <2> QED BY <1>0, <2>1 DEF Steady, EventAt
  <1> QED BY <1>0, <1>1, <1>2, <1>3, <1>4, <1>5, <1>6, <1>7 DEF Next, WorkerNext

-----------------------------------------------------------------------------
(* The theorems.                                                           *)

LEMMA InvStep == Inv /\ [Next]_vars => Inv'
  <1> SUFFICES ASSUME Inv, [Next]_vars PROVE Inv'
    OBVIOUS
  <1>1. TypeOK' /\ Bounds'
    BY TypeStep DEF Inv
  <1>2. LogOnce'
    BY <1>1, LogStep DEF Inv
  <1>3. AckAfterRun'
    BY AckStep DEF Inv
  <1>4. PastBounded'
    BY PastStep DEF Inv
  <1>5. Calm' => Steady'
    BY SteadyStep DEF Inv
  <1> QED BY <1>1, <1>2, <1>3, <1>4, <1>5 DEF Inv

\* Nothing is past unprocessed before the first stop or failed dead letter.
LEMMA NothingPast == Inv /\ stops + dlqFailures = 0 => Past = {}
  <1> SUFFICES ASSUME Inv, stops + dlqFailures = 0 PROVE Past = {}
    OBVIOUS
  <1>1. stops \in Nat /\ dlqFailures \in Nat /\ Cardinality(Workers) \in Nat
    BY BudgetType DEF Inv
  <1>2. stops = 0 /\ dlqFailures = 0
    BY <1>1 DEF Inv
  <1>3. Budget = 0
    BY <1>1, <1>2 DEF Budget
  <1>4. IsFiniteSet(Past) /\ Cardinality(Past) \in Nat /\ Cardinality(Past) <= 0
    BY <1>3, FS_CardinalityType DEF Inv, PastBounded
  <1> QED BY <1>4, FS_EmptySet

LEMMA InvGives == Inv => AtLeastOnce
  <1> SUFFICES ASSUME Inv PROVE AtLeastOnce
    OBVIOUS
  <1>0. TypeOK /\ Bounds
    BY DEF Inv
  <1>r. \A p \in Partitions : \A i \in 1..Len(log[p]) :
           Ref(p, i) \in Refs(log) /\ Ref(p, i).part = p /\ Ref(p, i).off = i /\ EventAt(Ref(p, i)) = log[p][i]
    BY <1>0, RefMake
  <1>1. CommittedMeansProcessed
    <2>1. ASSUME stops + dlqFailures = 0, NEW p \in Partitions, NEW i \in 1..Len(log[p]), Skipped(p, i) PROVE FALSE
      <3>1. Passed(p, i) /\ runs[log[p][i]] = 0
        BY <2>1 DEF Skipped, Passed
      <3>2. Ref(p, i) \in Past
        BY <1>r, <3>1 DEF Past
      <3> QED BY <2>1, <3>2, NothingPast
    <2> QED BY <1>0, <2>1 DEF CommittedMeansProcessed, Bounds
  <1>2. NoSkippedRecord
    <2> SUFFICES ASSUME stops + dlqFailures = 0, NEW w \in Workers, wk[w] \in {"run"} \cup DOMAIN AfterAck,
                        NEW i \in 1..(cur[w].off - 1)
                 PROVE  runs[log[cur[w].part][i]] > 0
      BY DEF NoSkippedRecord
    <2> DEFINE p == cur[w].part
    <2>1. wk[w] \in InHand /\ cur[w] \in Refs(log)
      BY <1>0, AckStates, CurFacts
    <2>2. p \in Partitions /\ Len(log[p]) \in Nat /\ cur[w].off \in 1..Len(log[p])
      BY <1>0, <2>1, RefFacts
    <2>3. i \in 1..Len(log[p]) /\ i < cur[w].off
      BY <2>2
    <2>4. Passed(p, i)
      BY <2>1, <2>3 DEF Passed
    <2>5. Ref(p, i) \in Refs(log) \ Past /\ EventAt(Ref(p, i)) = log[p][i] /\ Ref(p, i).part = p /\ Ref(p, i).off = i
      BY <1>r, <2>2, <2>3, NothingPast
    <2>6. runs[log[p][i]] # 0
      BY <2>4, <2>5 DEF Past
    <2>7. EventAt(Ref(p, i)) \in Events
      BY <1>0, <2>5, RefFacts
    <2>8. runs[log[p][i]] \in Nat
      BY <1>0, <2>5, <2>7 DEF TypeOK
    <2> QED BY <2>6, <2>8
  <1>3. LossBounded
    <2> DEFINE Lost == {r \in Refs(log) : Skipped(r.part, r.off)}
    <2>1. Lost \subseteq Past
      BY DEF Past, Skipped, Passed, EventAt
    <2>2. IsFiniteSet(Past) /\ Cardinality(Past) \in Nat /\ Cardinality(Past) <= Budget /\ Budget \in Nat
      BY <1>0, BudgetType, FS_CardinalityType DEF Inv, PastBounded
    <2>3. Cardinality(Lost) <= Cardinality(Past) /\ Cardinality(Lost) \in Nat
      BY <2>1, <2>2, FS_Subset, FS_CardinalityType
    <2> HIDE DEF Lost
    <2>4. Cardinality(Lost) <= Budget
      BY <2>2, <2>3
    <2> QED BY <2>4 DEF LossBounded, Budget, Lost
  <1>4. RerunsAreExplained
    BY DEF Inv, Calm, Steady, RerunsAreExplained
  <1> QED BY <1>0, <1>1, <1>2, <1>3, <1>4 DEF AtLeastOnce

LEMMA InvHolds == Spec => []Inv
  BY InvInit, InvStep, PTL DEF Spec

\* At-least-once delivery, for any number of partitions, workers and events and any number
\* of crashes, rebalances, shutdowns and failures: until a graceful stop or a failing dead
\* letter, nothing is committed past an unprocessed record; the records those two can skip
\* are counted; a second run of a record has a cause.
THEOREM DeliveredAtLeastOnce == Spec => []AtLeastOnce
  BY InvHolds, InvGives, PTL
=============================================================================
