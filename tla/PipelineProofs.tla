--------------------------- MODULE PipelineProofs ---------------------------
(* Theorems about Pipeline, for any number of events, workers and slots.   *)
EXTENDS Pipeline, FiniteSetTheorems, SequenceTheorems, TLAPS

USE PipelineAssumption

(* The inductive invariant.                                                *)

Late == {"putting", "gathering", "flushing", "done", "failed"}

\* A worker holds an item exactly while it is processing one, and only an
\* event can be waiting for a sink.
ItemDiscipline == \A w \in Workers :
    /\ item[w] # None <=> wk[w] \in {"run", "sink", "resumed"}
    /\ wk[w] \in {"sink", "resumed"} => item[w] \in Events

\* From the moment join() has returned, the events that were in time are settled;
\* no more can become so, because the pipeline is stopped.
DrainedByJoin ==
    /\ stp \in Late \cup {"joining"} => stopped
    /\ \A e \in inTime : sub[e] = "enqueued"
    /\ stp \in Late => \A e \in inTime : Settled(e)
    /\ stp \in {"flushing", "done", "failed"} => AllEnded

Inv == TypeOK /\ PlacedOnce /\ UnfinishedExact /\ ItemDiscipline /\ DrainedByJoin

-----------------------------------------------------------------------------
(* A worker with an item in hand is counted.                               *)

LEMMA BusyFinite ==
    /\ IsFiniteSet(Workers) /\ IsFiniteSet(Busy)
    /\ Cardinality(Busy) \in Nat
    /\ Cardinality(Busy) = 0 => Busy = {}
  <1>1. IsFiniteSet(Workers)
    BY FS_Interval DEF Workers
  <1>2. Busy \subseteq Workers
    BY DEF Busy
  <1> QED BY <1>1, <1>2, FS_Subset, FS_CardinalityType, FS_EmptySet

LEMMA BusyPositive ==
    ASSUME TypeOK, UnfinishedExact, NEW w \in Workers, item[w] \in Items
    PROVE  unfinished # 0
  <1>1. w \in Busy
    BY DEF Busy, Items
  <1>2. Cardinality(Busy) # 0 /\ Cardinality(Busy) \in Nat
    BY <1>1, BusyFinite
  <1>3. Len(queue) \in Nat
    BY LenProperties DEF TypeOK
  <1> QED BY <1>2, <1>3 DEF UnfinishedExact

-----------------------------------------------------------------------------
(* Type correctness.                                                       *)

LEMMA WakeNextType ==
    ASSUME NEW S, NEW q \in Seq(S)
    PROVE  WakeNext(q) \in Seq(S) /\ Rest(q) \in Seq(S)
  <1>1. CASE q = <<>>
    BY <1>1 DEF WakeNext, Rest
  <1>2. CASE q # <<>>
    <2>1. Head(q) \in S /\ Tail(q) \in Seq(S)
      BY <1>2, HeadTailProperties
    <2>2. <<Head(q)>> \in Seq(S)
      BY <2>1
    <2> QED BY <1>2, <2>1, <2>2 DEF WakeNext, Rest
  <1> QED BY <1>1, <1>2

LEMMA PutNowaitType ==
    ASSUME TypeOK, NEW x \in Items, PutNowait(x)
    PROVE  /\ ready' \in Seq(Tasks) /\ queue' \in Seq(Items) /\ unfinished' \in Nat
           /\ putters' \in Seq(Events \cup {StopTask}) /\ getters' \in Seq(Workers)
  <1>1. WakeNext(getters) \in Seq(Tasks) /\ Rest(getters) \in Seq(Workers)
    <2>1. getters \in Seq(Workers) /\ getters \in Seq(Tasks)
      BY DEF TypeOK, Tasks
    <2> QED BY <2>1, WakeNextType
  <1>2. ready' \in Seq(Tasks)
    BY <1>1, ConcatProperties DEF PutNowait, TypeOK
  <1>3. queue' \in Seq(Items)
    BY AppendProperties DEF PutNowait, TypeOK
  <1> QED BY <1>1, <1>2, <1>3 DEF PutNowait, TypeOK

LEMMA PutWaitType ==
    ASSUME TypeOK, NEW t \in Events \cup {StopTask}, PutWait(t)
    PROVE  /\ ready' \in Seq(Tasks) /\ queue' \in Seq(Items) /\ unfinished' \in Nat
           /\ putters' \in Seq(Events \cup {StopTask}) /\ getters' \in Seq(Workers)
  BY AppendProperties DEF PutWait, TypeOK

LEMMA TaskDoneType ==
    ASSUME TypeOK, TaskDone, unfinished # 0
    PROVE  ready' \in Seq(Tasks) /\ stp' \in StopStates /\ unfinished' \in Nat
  <1>1. Append(ready, StopTask) \in Seq(Tasks)
    BY AppendProperties DEF TypeOK, Tasks
  <1>2. CASE unfinished = 1 /\ stp = "joining"
    <2>1. ready' = Append(ready, StopTask) /\ stp' = "putting"
      BY <1>2 DEF TaskDone
    <2>2. unfinished' \in Nat
      BY DEF TaskDone, TypeOK
    <2> QED BY <1>1, <2>1, <2>2 DEF StopStates
  <1>3. CASE ~(unfinished = 1 /\ stp = "joining")
    BY <1>3 DEF TaskDone, TypeOK
  <1> QED BY <1>2, <1>3

LEMMA ReadyAppendType ==
    ASSUME TypeOK, NEW t \in Tasks
    PROVE  Append(ready, t) \in Seq(Tasks)
  BY AppendProperties DEF TypeOK

LEMMA FlushListLen == Len(FlushList) \in Nat
  BY LenProperties

LEMMA TypeInit == Init => TypeOK
  <1> SUFFICES ASSUME Init PROVE TypeOK
    OBVIOUS
  <1>1. /\ ready \in Seq(Tasks) /\ queue \in Seq(Items)
        /\ putters \in Seq(Events \cup {StopTask}) /\ getters \in Seq(Workers)
    BY EmptySeq DEF Init
  <1>2. sub \in [Events -> SubStates] /\ wk \in [Workers -> WkStates]
    BY DEF Init, SubStates, WkStates
  <1>3. out \in [Events -> Fates] /\ item \in [Workers -> Items \cup {None}]
    BY DEF Init, Fates
  <1>4. sent \in 0..NWorkers /\ flushed \in 0..Len(FlushList) /\ flushes \in [Stages -> Nat]
    BY FlushListLen DEF Init
  <1>5. stp \in StopStates /\ stopped \in BOOLEAN /\ inTime \subseteq Events
    BY DEF Init, StopStates
  <1>6. /\ starts \in 0..MaxStarts /\ dlqFailures \in 0..MaxDlqFailures
        /\ flushFailures \in 0..MaxFlushFailures /\ unfinished \in Nat
    BY DEF Init
  <1>7. running \in Tasks \cup {None}
    BY DEF Init
  <1> QED BY <1>1, <1>2, <1>3, <1>4, <1>5, <1>6, <1>7 DEF TypeOK

LEMMA TypeStep == Inv /\ [Next]_vars => TypeOK'
  <1> SUFFICES ASSUME Inv, [Next]_vars PROVE TypeOK'
    OBVIOUS
  <1>0. TypeOK /\ \A w \in Workers : item[w] \in Items => unfinished # 0
    BY BusyPositive DEF Inv
  <1> USE DEF SubStates, WkStates, Fates
  <1>1. CASE LoopPick
    <2>1. Head(ready) \in Tasks /\ Tail(ready) \in Seq(Tasks)
      BY <1>0, <1>1, HeadTailProperties DEF LoopPick, TypeOK
    <2> QED BY <1>0, <1>1, <2>1 DEF LoopPick, TypeOK, buffer, flushing, counters
  <1>2. CASE Start
    <2>1. [w \in Workers |-> w] \in Seq(Tasks)
      BY DEF Workers, Tasks
    <2>2. ready' \in Seq(Tasks)
      BY <1>0, <1>2, <2>1, ConcatProperties DEF Start, TypeOK
    <2>3. sent' \in 0..NWorkers /\ flushed' \in 0..Len(FlushList) /\ flushes' \in [Stages -> Nat]
      BY <1>2, FlushListLen DEF Start
    <2>4. stp' \in StopStates /\ stopped' \in BOOLEAN
      BY <1>2 DEF Start, StopStates
    <2>5. starts' \in 0..MaxStarts /\ wk' \in [Workers -> WkStates]
      BY <1>0, <1>2 DEF Start, TypeOK
    <2> QED BY <1>0, <1>2, <2>2, <2>3, <2>4, <2>5 DEF Start, TypeOK, buffer
  <1>3. ASSUME NEW e \in Events, Arrive(e) PROVE TypeOK'
    BY <1>0, <1>3, ReadyAppendType DEF Arrive, TypeOK, buffer, flushing, counters, Tasks
  <1>4. ASSUME NEW e \in Events, SubmitRejected(e) PROVE TypeOK'
    BY <1>0, <1>4 DEF SubmitRejected, TypeOK, buffer, flushing, counters
  <1>5. ASSUME NEW e \in Events, SubmitPut(e) PROVE TypeOK'
    BY <1>0, <1>5, PutNowaitType DEF SubmitPut, TypeOK, flushing, counters, Items
  <1>6. ASSUME NEW e \in Events, SubmitWait(e) PROVE TypeOK'
    BY <1>0, <1>6, PutWaitType DEF SubmitWait, TypeOK, flushing, counters
  <1>7. ASSUME NEW w \in Workers, WorkerTake(w) PROVE TypeOK'
    <2>1. Head(queue) \in Items /\ Tail(queue) \in Seq(Items)
      BY <1>0, <1>7, HeadTailProperties DEF WorkerTake, TypeOK
    <2>2. WakeNext(putters) \in Seq(Tasks) /\ Rest(putters) \in Seq(Events \cup {StopTask})
      <3>1. putters \in Seq(Events \cup {StopTask}) /\ putters \in Seq(Tasks)
        BY <1>0 DEF TypeOK, Tasks
      <3> QED BY <1>0, <3>1, WakeNextType
    <2>3. ready' \in Seq(Tasks)
      BY <1>0, <1>7, <2>2, ConcatProperties DEF WorkerTake, TypeOK
    <2> QED BY <1>0, <1>7, <2>1, <2>2, <2>3 DEF WorkerTake, TypeOK, flushing, counters
  <1>8. ASSUME NEW w \in Workers, WorkerWait(w) PROVE TypeOK'
    BY <1>0, <1>8, AppendProperties DEF WorkerWait, TypeOK, flushing, counters
  <1>9. ASSUME NEW w \in Workers, WorkerExit(w) PROVE TypeOK'
    <2>1. unfinished # 0
      BY <1>0, <1>9 DEF WorkerExit, Items
    <2> QED BY <1>0, <1>9, <2>1, TaskDoneType DEF WorkerExit, TypeOK, flushing, counters
  <1>10. ASSUME NEW w \in Workers, WorkerSettle(w) PROVE TypeOK'
    <2>1. unfinished # 0
      BY <1>0, <1>10 DEF WorkerSettle, Items
    <2> QED BY <1>0, <1>10, <2>1, TaskDoneType DEF WorkerSettle, TypeOK, flushing, counters
  <1>11. ASSUME NEW w \in Workers, WorkerDies(w) PROVE TypeOK'
    <2>1. unfinished # 0
      BY <1>0, <1>11 DEF WorkerDies, Items
    <2> QED BY <1>0, <1>11, <2>1, TaskDoneType DEF WorkerDies, TypeOK, flushing, counters
  <1>12. ASSUME NEW w \in Workers, WorkerSuspend(w) PROVE TypeOK'
    BY <1>0, <1>12 DEF WorkerSuspend, TypeOK, buffer, flushing, counters
  <1>13. ASSUME NEW w \in Workers, SinkReady(w) PROVE TypeOK'
    BY <1>0, <1>13, ReadyAppendType DEF SinkReady, TypeOK, buffer, flushing, counters, Tasks
  <1>14. CASE StopCall
    BY <1>0, <1>14, ReadyAppendType DEF StopCall, TypeOK, buffer, flushing, counters, Tasks, StopStates
  <1>15. CASE StopBegin
    BY <1>0, <1>15 DEF StopBegin, TypeOK, buffer, flushing, counters, StopStates
  <1>16. CASE StopPut
    <2>1. sent' \in 0..NWorkers
      BY <1>0, <1>16 DEF StopPut, TypeOK
    <2>2. SHUTDOWN \in Items
      BY DEF Items
    <2> QED BY <1>0, <1>16, <2>1, <2>2, PutNowaitType DEF StopPut, TypeOK, flushing, counters
  <1>17. CASE StopPutWait
    BY <1>0, <1>17, PutWaitType DEF StopPutWait, TypeOK, flushing, counters
  <1>18. CASE StopGather
    BY <1>0, <1>18 DEF StopGather, TypeOK, buffer, flushing, counters, StopStates
  <1>19. CASE GatherDone
    BY <1>0, <1>19, ReadyAppendType DEF GatherDone, TypeOK, buffer, flushing, counters, Tasks, StopStates
  <1>20. CASE StopFlush
    <2>1. flushed + 1 \in DOMAIN FlushList /\ FlushList[flushed + 1] \in Stages
      BY <1>0, <1>20 DEF StopFlush, TypeOK, Stages
    <2> QED BY <1>0, <1>20, <2>1 DEF StopFlush, TypeOK, loop, buffer, counters
  <1>21. CASE StopFlushFails
    BY <1>0, <1>21 DEF StopFlushFails, TypeOK, buffer, flushing, StopStates
  <1>22. CASE StopReturn
    BY <1>0, <1>22 DEF StopReturn, TypeOK, buffer, flushing, counters, StopStates
  <1>23. CASE UNCHANGED vars
    BY <1>0, <1>23 DEF vars, TypeOK, loop, buffer, flushing, counters
  <1> QED
    BY <1>1, <1>2, <1>3, <1>4, <1>5, <1>6, <1>7, <1>8, <1>9, <1>10, <1>11, <1>12,
       <1>13, <1>14, <1>15, <1>16, <1>17, <1>18, <1>19, <1>20, <1>21, <1>22, <1>23
       DEF Next, SubmitNext, WorkerNext, StopNext

-----------------------------------------------------------------------------
(* Facts about the queue as a sequence.                                    *)

In(q, x) == \E i \in DOMAIN q : q[i] = x
NoRepeat(q) == \A i, j \in DOMAIN q : q[i] = q[j] /\ q[i] \in Events => i = j

LEMMA InAppend ==
    ASSUME NEW S, NEW q \in Seq(S), NEW x \in S
    PROVE  /\ \A y : In(Append(q, x), y) <=> In(q, y) \/ y = x
           /\ Len(Append(q, x)) = Len(q) + 1
           /\ NoRepeat(q) /\ ~In(q, x) => NoRepeat(Append(q, x))
           /\ NoRepeat(q) /\ x \notin Events => NoRepeat(Append(q, x))
  <1> DEFINE r == Append(q, x)
  <1>1. /\ r \in Seq(S) /\ Len(r) = Len(q) + 1 /\ Len(q) \in Nat
        /\ DOMAIN q = 1..Len(q) /\ DOMAIN r = 1..(Len(q) + 1)
        /\ \A i \in 1..Len(q) : r[i] = q[i]
        /\ r[Len(q) + 1] = x
    BY AppendProperties, LenProperties
  <1> HIDE DEF r
  <1>2. ASSUME NEW y PROVE In(r, y) <=> In(q, y) \/ y = x
    BY <1>1 DEF In
  <1>3. ASSUME NoRepeat(q), ~In(q, x) \/ x \notin Events PROVE NoRepeat(r)
    BY <1>1, <1>3 DEF In, NoRepeat
  <1> QED BY <1>1, <1>2, <1>3 DEF r

LEMMA InTail ==
    ASSUME NEW S, NEW q \in Seq(S), q # <<>>
    PROVE  /\ \A y : In(q, y) <=> In(Tail(q), y) \/ y = Head(q)
           /\ Len(Tail(q)) = Len(q) - 1 /\ Len(q) \in Nat
           /\ NoRepeat(q) => NoRepeat(Tail(q))
           /\ NoRepeat(q) /\ Head(q) \in Events => ~In(Tail(q), Head(q))
  <1> DEFINE r == Tail(q)
  <1>1. /\ r \in Seq(S) /\ Len(r) = Len(q) - 1 /\ Len(q) \in Nat /\ Len(q) >= 1
        /\ DOMAIN q = 1..Len(q) /\ DOMAIN r = 1..(Len(q) - 1)
        /\ \A i \in 1..Len(r) : r[i] = q[i + 1]
        /\ Head(q) = q[1]
    BY HeadTailProperties, LenProperties, EmptySeq
  <1> HIDE DEF r
  <1>2. ASSUME NEW y PROVE In(q, y) <=> In(r, y) \/ y = Head(q)
    <2>1. ASSUME In(q, y) PROVE In(r, y) \/ y = Head(q)
      <3>1. PICK i \in 1..Len(q) : q[i] = y
        BY <1>1, <2>1 DEF In
      <3>2. CASE i = 1
        BY <1>1, <3>1, <3>2
      <3>3. CASE i # 1
        <4>1. i - 1 \in DOMAIN r /\ r[i - 1] = q[(i - 1) + 1]
          BY <1>1, <3>3
        <4> QED BY <1>1, <3>1, <4>1 DEF In
      <3> QED BY <3>2, <3>3
    <2>2. ASSUME In(r, y) PROVE In(q, y)
      <3>1. PICK i \in 1..Len(r) : r[i] = y
        BY <1>1, <2>2 DEF In
      <3>2. i + 1 \in DOMAIN q /\ q[i + 1] = y
        BY <1>1, <3>1
      <3> QED BY <3>2 DEF In
    <2>3. In(q, Head(q))
      BY <1>1 DEF In
    <2> QED BY <2>1, <2>2, <2>3
  <1>3. ASSUME NoRepeat(q) PROVE NoRepeat(r)
    <2> SUFFICES ASSUME NEW i \in DOMAIN r, NEW j \in DOMAIN r, r[i] = r[j], r[i] \in Events
                 PROVE  i = j
      BY DEF NoRepeat
    <2>1. i + 1 \in DOMAIN q /\ j + 1 \in DOMAIN q /\ q[i + 1] = q[j + 1] /\ q[i + 1] \in Events
      BY <1>1
    <2>2. i + 1 = j + 1
      BY <1>3, <2>1 DEF NoRepeat
    <2> QED BY <1>1, <2>2
  <1>4. ASSUME NoRepeat(q), Head(q) \in Events PROVE ~In(r, Head(q))
    <2> SUFFICES ASSUME NEW i \in DOMAIN r, r[i] = Head(q) PROVE FALSE
      BY DEF In
    <2>1. 1 \in DOMAIN q /\ i + 1 \in DOMAIN q /\ q[i + 1] = q[1] /\ q[1] \in Events
      BY <1>1, <1>4
    <2>2. i + 1 = 1
      BY <1>4, <2>1 DEF NoRepeat
    <2> QED BY <1>1, <2>2
  <1> QED BY <1>1, <1>2, <1>3, <1>4 DEF r

-----------------------------------------------------------------------------
(* Facts about the number of busy workers.                                 *)

LEMMA BusyMore ==
    ASSUME TypeOK, NEW w \in Workers, NEW x \in Items, item[w] = None,
           item' = [item EXCEPT ![w] = x]
    PROVE  Cardinality(Busy') = Cardinality(Busy) + 1
  <1>1. Busy' = Busy \cup {w} /\ w \notin Busy
    BY DEF Busy, TypeOK, Items
  <1> QED BY <1>1, BusyFinite, FS_AddElement

LEMMA BusyLess ==
    ASSUME TypeOK, NEW w \in Workers, item[w] # None,
           item' = [item EXCEPT ![w] = None]
    PROVE  Cardinality(Busy') = Cardinality(Busy) - 1
  <1>1. Busy' = Busy \ {w} /\ w \in Busy
    BY DEF Busy, TypeOK
  <1> QED BY <1>1, BusyFinite, FS_RemoveElement

-----------------------------------------------------------------------------
(* How the queue's primitives act on the invariant.                        *)

LEMMA QuietStep ==
    ASSUME PlacedOnce, UnfinishedExact, UNCHANGED <<queue, unfinished, item, out>>,
           \A e \in Events : sub'[e] = "enqueued" <=> sub[e] = "enqueued"
    PROVE  PlacedOnce' /\ UnfinishedExact'
  BY DEF PlacedOnce, UnfinishedExact, InQueue, Held, Settled, Busy

LEMMA PutStep ==
    ASSUME TypeOK, PlacedOnce, UnfinishedExact,
           NEW x \in Items, PutNowait(x), UNCHANGED <<item, out>>,
           x \in Events => sub[x] # "enqueued",
           \A e \in Events : sub'[e] = "enqueued" <=> sub[e] = "enqueued" \/ e = x
    PROVE  PlacedOnce' /\ UnfinishedExact'
  <1>1. queue \in Seq(Items) /\ queue' = Append(queue, x)
    BY DEF TypeOK, PutNowait
  <1>2. /\ \A y : In(queue', y) <=> In(queue, y) \/ y = x
        /\ Len(queue') = Len(queue) + 1
        /\ NoRepeat(queue) /\ ~In(queue, x) => NoRepeat(queue')
        /\ NoRepeat(queue) /\ x \notin Events => NoRepeat(queue')
    BY <1>1, InAppend
  <1>3. x \in Events => ~In(queue, x) /\ ~Held(x) /\ ~Settled(x)
    BY DEF PlacedOnce, InQueue, In
  <1>4. \A e \in Events : InQueue(e)' <=> InQueue(e) \/ e = x
    BY <1>2 DEF InQueue, In
  <1>5. \A e \in Events : (Held(e)' <=> Held(e)) /\ (Settled(e)' <=> Settled(e))
    BY DEF Held, Settled
  <1>6. NoRepeat(queue')
    BY <1>2, <1>3 DEF PlacedOnce, NoRepeat
  <1>7. PlacedOnce'
    <2>1. ASSUME NEW e \in Events
          PROVE /\ (InQueue(e)' \/ Held(e)') <=> (sub'[e] = "enqueued" /\ ~Settled(e)')
                /\ ~(InQueue(e)' /\ Held(e)')
                /\ Settled(e)' => sub'[e] = "enqueued"
      <3>1. CASE e = x
        BY <3>1, <1>3, <1>4, <1>5
      <3>2. CASE e # x
        BY <3>2, <1>4, <1>5 DEF PlacedOnce
      <3> QED BY <3>1, <3>2
    <2>2. \A v, w \in Workers : item'[v] = item'[w] /\ item'[v] \in Events => v = w
      BY DEF PlacedOnce
    <2> QED BY <1>6, <2>1, <2>2 DEF PlacedOnce, NoRepeat
  <1>8. UnfinishedExact'
    <2>1. Busy' = Busy
      BY DEF Busy
    <2>2. Len(queue) < Capacity /\ Len(queue) \in Nat
      BY <1>1, LenProperties DEF PutNowait, Full
    <2>3. unfinished' = unfinished + 1 /\ unfinished = Len(queue) + Cardinality(Busy)
      BY DEF UnfinishedExact, PutNowait
    <2> QED BY <1>2, <2>1, <2>2, <2>3, BusyFinite DEF UnfinishedExact
  <1> QED BY <1>7, <1>8

LEMMA TakeStep ==
    ASSUME Inv, NEW w \in Workers, WorkerTake(w)
    PROVE  PlacedOnce' /\ UnfinishedExact'
  <1>1. queue \in Seq(Items) /\ queue # <<>> /\ queue' = Tail(queue) /\ Head(queue) \in Items
    BY HeadTailProperties DEF Inv, TypeOK, WorkerTake
  <1>2. /\ \A y : In(queue, y) <=> In(queue', y) \/ y = Head(queue)
        /\ Len(queue') = Len(queue) - 1 /\ Len(queue) \in Nat
        /\ NoRepeat(queue) => NoRepeat(queue')
        /\ NoRepeat(queue) /\ Head(queue) \in Events => ~In(queue', Head(queue))
    BY <1>1, InTail
  <1>3. NoRepeat(queue)
    BY DEF Inv, PlacedOnce, NoRepeat
  <1>4. item[w] = None /\ item \in [Workers -> Items \cup {None}]
    BY DEF Inv, ItemDiscipline, TypeOK, WorkerTake
  <1>5. item' = [item EXCEPT ![w] = Head(queue)] /\ UNCHANGED <<sub, out, unfinished>>
    BY DEF WorkerTake
  <1>6. \A e \in Events : Settled(e)' <=> Settled(e)
    BY <1>5 DEF Settled
  <1>7. \A e \in Events : Held(e)' <=> Held(e) \/ e = Head(queue)
    BY <1>4, <1>5 DEF Held
  <1>8. \A e \in Events : InQueue(e) <=> InQueue(e)' \/ e = Head(queue)
    BY <1>2 DEF InQueue, In
  <1>9. \A e \in Events : e = Head(queue) => ~InQueue(e)' /\ ~Held(e)
    <2> SUFFICES ASSUME NEW e \in Events, e = Head(queue) PROVE ~InQueue(e)' /\ ~Held(e)
      OBVIOUS
    <2>1. InQueue(e)
      BY <1>8
    <2>2. ~In(queue', e)
      BY <1>2, <1>3
    <2> QED BY <2>1, <2>2 DEF Inv, PlacedOnce, InQueue, In
  <1>10. PlacedOnce'
    <2>1. ASSUME NEW e \in Events
          PROVE /\ (InQueue(e)' \/ Held(e)') <=> (sub'[e] = "enqueued" /\ ~Settled(e)')
                /\ ~(InQueue(e)' /\ Held(e)')
                /\ Settled(e)' => sub'[e] = "enqueued"
      <3>1. CASE e = Head(queue)
        <4>1. InQueue(e) /\ ~InQueue(e)' /\ Held(e)'
          BY <3>1, <1>7, <1>8, <1>9
        <4> QED BY <4>1, <1>5, <1>6 DEF Inv, PlacedOnce
      <3>2. CASE e # Head(queue)
        BY <3>2, <1>5, <1>6, <1>7, <1>8 DEF Inv, PlacedOnce
      <3> QED BY <3>1, <3>2
    <2>2. ASSUME NEW u \in Workers, NEW v \in Workers, item'[u] = item'[v], item'[u] \in Events
          PROVE  u = v
      <3>1. CASE u # w /\ v # w
        BY <2>2, <3>1, <1>4, <1>5 DEF Inv, PlacedOnce
      <3>2. CASE u = w \/ v = w
        <4>1. \A z \in Workers \ {w} : item'[z] = item[z]
          BY <1>4, <1>5
        <4>2. item'[w] = Head(queue)
          BY <1>4, <1>5
        <4> QED BY <2>2, <3>2, <4>1, <4>2, <1>9 DEF Held
      <3> QED BY <3>1, <3>2
    <2> QED BY <1>2, <1>3, <2>1, <2>2 DEF PlacedOnce, NoRepeat
  <1>11. UnfinishedExact'
    <2>1. Cardinality(Busy') = Cardinality(Busy) + 1
      BY <1>1, <1>4, <1>5, BusyMore DEF Inv
    <2> QED BY <1>2, <1>5, <2>1, BusyFinite DEF Inv, UnfinishedExact
  <1> QED BY <1>10, <1>11

LEMMA DoneStep ==
    ASSUME Inv, NEW w \in Workers, item[w] # None, TaskDone,
           item' = [item EXCEPT ![w] = None], UNCHANGED <<queue, sub>>,
           \/ item[w] = SHUTDOWN /\ UNCHANGED out
           \/ item[w] \in Events /\ \E fate \in Fates \ {"none"} : out' = [out EXCEPT ![item[w]] = fate]
    PROVE  PlacedOnce' /\ UnfinishedExact'
  <1>1. item \in [Workers -> Items \cup {None}] /\ out \in [Events -> Fates]
    BY DEF Inv, TypeOK
  <1>2. \A e \in Events : InQueue(e)' <=> InQueue(e)
    BY DEF InQueue
  <1>3. \A e \in Events : Held(e)' <=> Held(e) /\ e # item[w]
    BY <1>1 DEF Held, Inv, PlacedOnce
  <1>4. \A e \in Events : Settled(e)' <=> Settled(e) \/ e = item[w]
    BY <1>1 DEF Settled
  <1>5. item[w] \in Events => Held(item[w]) /\ sub[item[w]] = "enqueued" /\ ~InQueue(item[w])
    BY DEF Held, Inv, PlacedOnce
  <1>6. PlacedOnce'
    <2>1. ASSUME NEW e \in Events
          PROVE /\ (InQueue(e)' \/ Held(e)') <=> (sub'[e] = "enqueued" /\ ~Settled(e)')
                /\ ~(InQueue(e)' /\ Held(e)')
                /\ Settled(e)' => sub'[e] = "enqueued"
      BY <1>2, <1>3, <1>4, <1>5 DEF Inv, PlacedOnce
    <2>2. \A u, v \in Workers : item'[u] = item'[v] /\ item'[u] \in Events => u = v
      BY <1>1 DEF Inv, PlacedOnce
    <2> QED BY <2>1, <2>2 DEF Inv, PlacedOnce
  <1>7. UnfinishedExact'
    <2>1. Cardinality(Busy') = Cardinality(Busy) - 1
      BY BusyLess DEF Inv
    <2>2. unfinished' = unfinished - 1 /\ unfinished \in Int /\ Len(queue) \in Nat
      BY LenProperties DEF TaskDone, Inv, TypeOK
    <2> QED BY <2>1, <2>2, BusyFinite DEF Inv, UnfinishedExact
  <1> QED BY <1>6, <1>7

\* When nothing is unfinished, every enqueued event is settled.
AllSettled == \A e \in Events : sub[e] = "enqueued" => Settled(e)

LEMMA NothingPending ==
    TypeOK /\ PlacedOnce /\ UnfinishedExact /\ unfinished = 0 => AllSettled
  <1> SUFFICES ASSUME TypeOK, PlacedOnce, UnfinishedExact, unfinished = 0 PROVE AllSettled
    OBVIOUS
  <1>1. Len(queue) \in Nat /\ queue \in Seq(Items)
    BY LenProperties DEF TypeOK
  <1>2. Len(queue) = 0 /\ Busy = {}
    BY <1>1, BusyFinite DEF UnfinishedExact
  <1>3. \A e \in Events : ~InQueue(e)
    BY <1>1, <1>2, LenProperties DEF InQueue
  <1>4. \A e \in Events : ~Held(e)
    BY <1>2 DEF Held, Busy
  <1> QED BY <1>3, <1>4 DEF PlacedOnce, AllSettled

-----------------------------------------------------------------------------
LEMMA InvInit == Init => Inv
  <1> SUFFICES ASSUME Init PROVE Inv
    OBVIOUS
  <1>1. TypeOK
    BY TypeInit
  <1>2. PlacedOnce
    BY DEF Init, PlacedOnce, InQueue, Held, Settled
  <1>3. UnfinishedExact
    <2>1. Busy = {}
      BY DEF Init, Busy
    <2> QED BY <2>1, FS_EmptySet DEF Init, UnfinishedExact
  <1>4. ItemDiscipline /\ DrainedByJoin
    BY DEF Init, ItemDiscipline, DrainedByJoin, Late
  <1> QED BY <1>1, <1>2, <1>3, <1>4 DEF Inv

\* The end of an item's processing: TaskDone may let join() return, and then
\* nothing is pending.
LEMMA DoneDrained ==
    ASSUME Inv, PlacedOnce', UnfinishedExact', TypeOK', TaskDone,
           UNCHANGED <<sub, inTime, stopped>>,
           \A e \in Events : Settled(e) => Settled(e)',
           NEW w \in Workers, ~Ended(w)
    PROVE  DrainedByJoin'
  <1>1. CASE unfinished = 1 /\ stp = "joining"
    <2>1. unfinished' = 0 /\ stp' = "putting"
      BY <1>1 DEF TaskDone
    <2>2. (unfinished = 0)'
      BY <2>1
    <2>3. AllSettled'
      BY <2>2, NothingPending, PTL
    <2> QED BY <1>1, <2>1, <2>3 DEF Inv, DrainedByJoin, Late, TypeOK, AllSettled
  <1>2. CASE ~(unfinished = 1 /\ stp = "joining")
    <2>1. stp' = stp /\ stp \notin {"flushing", "done", "failed"}
      BY <1>2 DEF TaskDone, Inv, DrainedByJoin, AllEnded
    <2> QED BY <2>1 DEF Inv, DrainedByJoin, TypeOK
  <1> QED BY <1>1, <1>2

LEMMA InvStep == Inv /\ [Next]_vars => Inv'
  <1> SUFFICES ASSUME Inv, [Next]_vars PROVE Inv'
    OBVIOUS
  <1>0. TypeOK /\ TypeOK'
    BY TypeStep DEF Inv
  <1> USE DEF buffer, flushing, counters, loop
  <1>1. CASE LoopPick
    <2>1. PlacedOnce' /\ UnfinishedExact'
      BY <1>1, QuietStep DEF LoopPick, Inv
    <2>2. ItemDiscipline' /\ DrainedByJoin'
      BY <1>1 DEF LoopPick, Inv, ItemDiscipline, DrainedByJoin, Settled, AllEnded, Ended
    <2> QED BY <1>0, <2>1, <2>2 DEF Inv
  <1>2. CASE Start
    <2>1. PlacedOnce' /\ UnfinishedExact'
      BY <1>2, QuietStep DEF Start, Inv
    <2>2. ItemDiscipline'
      <3>1. \A w \in Workers : item[w] = None
        BY <1>2 DEF Start, AllEnded, Ended, Inv, ItemDiscipline
      <3> QED BY <1>2, <3>1 DEF Start, ItemDiscipline
    <2>3. DrainedByJoin'
      BY <1>2 DEF Start, Inv, DrainedByJoin, Late
    <2> QED BY <1>0, <2>1, <2>2, <2>3 DEF Inv
  <1>3. ASSUME NEW e \in Events, Arrive(e) \/ SubmitRejected(e) \/ SubmitWait(e) PROVE Inv'
    <2>1. /\ UNCHANGED <<queue, unfinished, item, out, wk, stopped, stp, inTime>>
          /\ \A x \in Events : sub'[x] = "enqueued" <=> sub[x] = "enqueued"
      BY <1>3, <1>0 DEF Arrive, SubmitRejected, SubmitWait, PutWait, TypeOK
    <2>2. PlacedOnce' /\ UnfinishedExact'
      BY <2>1, QuietStep DEF Inv
    <2>3. ItemDiscipline' /\ DrainedByJoin'
      BY <2>1, <1>0 DEF Inv, ItemDiscipline, DrainedByJoin, Settled, AllEnded, Ended, TypeOK
    <2> QED BY <1>0, <2>2, <2>3 DEF Inv
  <1>4. ASSUME NEW e \in Events, SubmitPut(e) PROVE Inv'
    <2>1. /\ PutNowait(e) /\ e \in Items /\ sub[e] # "enqueued"
          /\ UNCHANGED <<item, out, wk, stopped, stp>>
          /\ inTime' = IF stopped THEN inTime ELSE inTime \cup {e}
          /\ \A x \in Events : sub'[x] = "enqueued" <=> sub[x] = "enqueued" \/ x = e
      BY <1>4, <1>0 DEF SubmitPut, TypeOK, Items
    <2>2. PlacedOnce' /\ UnfinishedExact'
      BY <1>0, <2>1, PutStep DEF Inv
    <2>3. ItemDiscipline'
      BY <2>1 DEF Inv, ItemDiscipline
    <2>4. DrainedByJoin'
      BY <1>0, <2>1 DEF Inv, DrainedByJoin, Settled, AllEnded, Ended, Late, TypeOK
    <2> QED BY <1>0, <2>2, <2>3, <2>4 DEF Inv
  <1>5. ASSUME NEW w \in Workers, WorkerTake(w) PROVE Inv'
    <2>1. PlacedOnce' /\ UnfinishedExact'
      BY <1>5, TakeStep
    <2>2. Head(queue) \in Items
      BY <1>0, <1>5, HeadTailProperties DEF WorkerTake, TypeOK
    <2>3. ItemDiscipline'
      BY <1>0, <1>5, <2>2 DEF WorkerTake, Inv, ItemDiscipline, TypeOK, Items
    <2>4. DrainedByJoin'
      BY <1>0, <1>5 DEF WorkerTake, Inv, DrainedByJoin, Settled, AllEnded, Ended, TypeOK
    <2> QED BY <1>0, <2>1, <2>3, <2>4 DEF Inv
  <1>6. ASSUME NEW w \in Workers, WorkerWait(w) PROVE Inv'
    <2>1. PlacedOnce' /\ UnfinishedExact'
      BY <1>6, QuietStep DEF WorkerWait, Inv
    <2>2. ItemDiscipline' /\ DrainedByJoin'
      BY <1>6 DEF WorkerWait, Inv, ItemDiscipline, DrainedByJoin, Settled, AllEnded, Ended
    <2> QED BY <1>0, <2>1, <2>2 DEF Inv
  <1>7. ASSUME NEW w \in Workers, WorkerExit(w) PROVE Inv'
    <2>1. item[w] # None /\ ~Ended(w)
      BY <1>7 DEF WorkerExit, Ended
    <2>2. PlacedOnce' /\ UnfinishedExact'
      BY <1>7, <2>1, DoneStep DEF WorkerExit
    <2>3. ItemDiscipline'
      BY <1>0, <1>7 DEF WorkerExit, Inv, ItemDiscipline, TypeOK
    <2>4. DrainedByJoin'
      BY <1>0, <1>7, <2>1, <2>2, DoneDrained DEF WorkerExit, Settled
    <2> QED BY <1>0, <2>2, <2>3, <2>4 DEF Inv
  <1>8. ASSUME NEW w \in Workers, WorkerSettle(w) \/ WorkerDies(w) PROVE Inv'
    <2>1. /\ item[w] # None /\ item[w] \in Events /\ ~Ended(w) /\ TaskDone
          /\ item' = [item EXCEPT ![w] = None] /\ UNCHANGED <<queue, sub, inTime, stopped>>
          /\ wk' = [wk EXCEPT ![w] = "get"] \/ wk' = [wk EXCEPT ![w] = "died"]
      BY <1>8 DEF WorkerSettle, WorkerDies, Ended
    <2>2. \E fate \in Fates \ {"none"} : out' = [out EXCEPT ![item[w]] = fate]
      BY <1>8 DEF WorkerSettle, WorkerDies, Fates
    <2>3. PlacedOnce' /\ UnfinishedExact'
      BY <2>1, <2>2, DoneStep
    <2>4. ItemDiscipline'
      BY <1>0, <2>1 DEF Inv, ItemDiscipline, TypeOK
    <2>5. \A e \in Events : Settled(e) => Settled(e)'
      BY <1>0, <2>2 DEF Settled, TypeOK
    <2>6. DrainedByJoin'
      BY <1>0, <2>1, <2>3, <2>5, DoneDrained
    <2> QED BY <1>0, <2>3, <2>4, <2>6 DEF Inv
  <1>9. ASSUME NEW w \in Workers, WorkerSuspend(w) \/ SinkReady(w) PROVE Inv'
    <2>1. PlacedOnce' /\ UnfinishedExact'
      BY <1>9, QuietStep DEF WorkerSuspend, SinkReady, Inv
    <2>2. ItemDiscipline'
      BY <1>0, <1>9 DEF WorkerSuspend, SinkReady, Inv, ItemDiscipline, TypeOK
    <2>3. DrainedByJoin'
      BY <1>0, <1>9 DEF WorkerSuspend, SinkReady, Inv, DrainedByJoin, Settled, AllEnded, Ended, TypeOK
    <2> QED BY <1>0, <2>1, <2>2, <2>3 DEF Inv
  <1>10. CASE StopBegin
    <2>1. PlacedOnce' /\ UnfinishedExact'
      BY <1>10, QuietStep DEF StopBegin, Inv
    <2>2. ItemDiscipline'
      BY <1>10 DEF StopBegin, Inv, ItemDiscipline
    <2>3. DrainedByJoin'
      <3>1. CASE unfinished > 0
        BY <1>10, <3>1 DEF StopBegin, Inv, DrainedByJoin, Late
      <3>2. CASE ~(unfinished > 0)
        <4>1. unfinished = 0
          BY <3>2, LenProperties, BusyFinite DEF Inv, UnfinishedExact, TypeOK
        <4>2. \A e \in Events : sub[e] = "enqueued" => Settled(e)
          BY <4>1, NothingPending DEF Inv, AllSettled
        <4> QED BY <1>0, <1>10, <3>2, <4>2 DEF StopBegin, Inv, DrainedByJoin, Late, Settled, TypeOK
      <3> QED BY <3>1, <3>2
    <2> QED BY <1>0, <2>1, <2>2, <2>3 DEF Inv
  <1>11. CASE StopPut
    <2>1. PlacedOnce' /\ UnfinishedExact'
      <3>1. SHUTDOWN \in Items /\ SHUTDOWN \notin Events
        BY DEF Items
      <3> QED BY <1>0, <1>11, <3>1, PutStep DEF StopPut, Inv
    <2>2. ItemDiscipline' /\ DrainedByJoin'
      BY <1>11 DEF StopPut, Inv, ItemDiscipline, DrainedByJoin, Settled, AllEnded, Ended
    <2> QED BY <1>0, <2>1, <2>2 DEF Inv
  <1>12. CASE StopCall \/ StopPutWait \/ StopGather \/ GatherDone \/ StopFlush \/ StopFlushFails \/ StopReturn
    <2>1. UNCHANGED <<queue, unfinished, item, out, sub, wk, inTime, stopped>>
      BY <1>12 DEF StopCall, StopPutWait, PutWait, StopGather, GatherDone, StopFlush,
                   StopFlushFails, StopReturn
    <2>2. PlacedOnce' /\ UnfinishedExact'
      BY <2>1, QuietStep DEF Inv
    <2>3. ItemDiscipline'
      BY <2>1 DEF Inv, ItemDiscipline
    <2>4. /\ stp' \in Late \cup {"joining"} => stp \in Late \cup {"joining"}
          /\ stp' \in Late => stp \in Late
          /\ stp' \in {"flushing", "done", "failed"} => stp \in {"flushing", "done", "failed"} \/ AllEnded
      BY <1>12 DEF StopCall, StopPutWait, StopGather, GatherDone, StopFlush,
                   StopFlushFails, StopReturn, Late
    <2>5. DrainedByJoin'
      BY <2>1, <2>4 DEF Inv, DrainedByJoin, Settled, AllEnded, Ended
    <2> QED BY <1>0, <2>2, <2>3, <2>5 DEF Inv
  <1>13. CASE UNCHANGED vars
    <2>1. PlacedOnce' /\ UnfinishedExact'
      BY <1>13, QuietStep DEF vars, Inv
    <2>2. ItemDiscipline' /\ DrainedByJoin'
      BY <1>13 DEF vars, Inv, ItemDiscipline, DrainedByJoin, Settled, AllEnded, Ended
    <2> QED BY <1>0, <2>1, <2>2 DEF Inv
  <1> QED
    BY <1>1, <1>2, <1>3, <1>4, <1>5, <1>6, <1>7, <1>8, <1>9, <1>10, <1>11, <1>12, <1>13
       DEF Next, SubmitNext, WorkerNext, StopNext

LEMMA InvHolds == Spec => []Inv
  BY InvInit, InvStep, PTL DEF Spec

-----------------------------------------------------------------------------
(* The results.                                                            *)

\* Type correctness of the shared-mode pipeline: queues hold tasks and items,
\* every submit, worker and stop call is in one of its modelled positions, and
\* the unfinished count never falls below zero (task_done would raise).
THEOREM TypeCorrect == Spec => []TypeOK
  <1>1. Inv => TypeOK
    BY DEF Inv
  <1> QED BY <1>1, InvHolds, PTL

\* The worker pool neither loses nor duplicates an accepted event, for any
\* number of submitters, workers and queue slots and any interleaving.
THEOREM EventsPlacedOnce == Spec => []PlacedOnce
  <1>1. Inv => PlacedOnce
    BY DEF Inv
  <1> QED BY <1>1, InvHolds, PTL

\* The queue is bounded and its unfinished count exact: task_done never raises.
THEOREM UnfinishedCountExact == Spec => []UnfinishedExact
  <1>1. Inv => UnfinishedExact
    BY DEF Inv
  <1> QED BY <1>1, InvHolds, PTL

\* By the time stop() flushes the stages, every worker has ended empty-handed
\* and every event enqueued before stop() was called is settled.
THEOREM FlushAfterDrain == Spec => []DrainedBeforeFlush
  <1>1. Inv => DrainedBeforeFlush
    BY DEF Inv, DrainedByJoin, DrainedBeforeFlush, Late, AllEnded, Ended, ItemDiscipline
  <1> QED BY <1>1, InvHolds, PTL

\* What became of an event never changes once decided.
THEOREM FatesAreFinal == Spec => FateIsFinal
  <1>1. Inv /\ [Next]_vars => [\A e \in Events : Settled(e) => out'[e] = out[e]]_vars
    <2> SUFFICES ASSUME Inv, Next, NEW e \in Events, Settled(e) PROVE out'[e] = out[e]
      OBVIOUS
    <2>1. ~Held(e)
      BY DEF Inv, PlacedOnce
    <2>2. ASSUME NEW w \in Workers, WorkerSettle(w) \/ WorkerDies(w) PROVE out'[e] = out[e]
      <3>1. item[w] # e
        BY <2>1 DEF Held
      <3>2. \E fate \in Fates : out' = [out EXCEPT ![item[w]] = fate]
        BY <2>2 DEF WorkerSettle, WorkerDies, Fates
      <3> QED BY <3>1, <3>2 DEF Inv, TypeOK
    <2>3. CASE UNCHANGED out
      BY <2>3
    <2> QED
      BY <2>2, <2>3 DEF Next, SubmitNext, WorkerNext, StopNext, LoopPick, Start, Arrive,
         SubmitRejected, SubmitPut, SubmitWait, WorkerTake, WorkerWait, WorkerExit,
         WorkerSuspend, SinkReady, StopCall, StopBegin, StopPut, StopPutWait, StopGather,
         GatherDone, StopFlush, StopFlushFails, StopReturn
  <1> QED BY <1>1, InvHolds, PTL DEF Spec, FateIsFinal
-----------------------------------------------------------------------------
(* What the event loop's ready list and the queue's wait lists hold, and   *)
(* that no wake-up at the bounded queue is lost.                           *)


Distinct(q) == \A i, j \in DOMAIN q : q[i] = q[j] => i = j

\* Every task is in at most one place: it has the loop, is ready, or waits in one
\* wait list; and where it is agrees with where its coroutine stands.
Schedule ==
    /\ Distinct(ready) /\ Distinct(putters) /\ Distinct(getters)
    /\ running # None => ~In(ready, running)
    /\ \A e \in Events : Runnable(e) => sub[e] \in {"called", "waiting"}
    /\ \A w \in Workers : Runnable(w) => wk[w] \in {"get", "run", "resumed"}
    /\ Runnable(StopTask) => stp \in {"called", "putting", "flushing"}
    /\ \A t \in Events \cup {StopTask} : In(putters, t) => Waiting(t) /\ ~Runnable(t)
    /\ In(putters, StopTask) => sent < NWorkers
    /\ \A w \in Workers : In(getters, w) => wk[w] = "get" /\ ~Runnable(w)

\* The runnable tasks that will try to put again: stop() only while it has a
\* sentinel left to put.  This is what makes the wake-up count inductive, since
\* stop() goes on to gather() without giving its last announcement back.
Coming == {t \in Events \cup {StopTask} :
              Waiting(t) /\ Runnable(t) /\ ~(t = StopTask /\ sent = NWorkers)}
Seekers == {w \in Workers : wk[w] = "get" /\ Runnable(w)}

SlotsAnnounced == putters # <<>> => Capacity - Len(queue) <= Cardinality(Coming)
ItemsAnnounced == getters # <<>> => Len(queue) <= Cardinality(Seekers)

WInv == Schedule /\ SlotsAnnounced /\ ItemsAnnounced

-----------------------------------------------------------------------------
(* Sequences without repetition.                                           *)

LEMMA DistinctAppend ==
    ASSUME NEW S, NEW q \in Seq(S), NEW x \in S, Distinct(q), ~In(q, x)
    PROVE  Distinct(Append(q, x)) /\ \A y : In(Append(q, x), y) <=> In(q, y) \/ y = x
  <1> DEFINE r == Append(q, x)
  <1>1. /\ Len(q) \in Nat /\ DOMAIN q = 1..Len(q) /\ DOMAIN r = 1..(Len(q) + 1)
        /\ \A i \in 1..Len(q) : r[i] = q[i]
        /\ r[Len(q) + 1] = x
    BY AppendProperties, LenProperties
  <1> HIDE DEF r
  <1>2. Distinct(r)
    BY <1>1 DEF In, Distinct
  <1>3. \A y : In(r, y) <=> In(q, y) \/ y = x
    BY <1>1 DEF In
  <1> QED BY <1>2, <1>3 DEF r

LEMMA DistinctTail ==
    ASSUME NEW S, NEW q \in Seq(S), q # <<>>, Distinct(q)
    PROVE  /\ Distinct(Tail(q)) /\ ~In(Tail(q), Head(q))
           /\ \A y : In(q, y) <=> In(Tail(q), y) \/ y = Head(q)
  <1> DEFINE r == Tail(q)
  <1>1. /\ Len(q) \in Nat /\ Len(q) >= 1
        /\ DOMAIN q = 1..Len(q) /\ DOMAIN r = 1..(Len(q) - 1)
        /\ \A i \in 1..(Len(q) - 1) : r[i] = q[i + 1]
        /\ Head(q) = q[1]
    BY HeadTailProperties, LenProperties, EmptySeq
  <1> HIDE DEF r
  <1>2. Distinct(r)
    <2> SUFFICES ASSUME NEW i \in DOMAIN r, NEW j \in DOMAIN r, r[i] = r[j] PROVE i = j
      BY DEF Distinct
    <2>1. i + 1 \in DOMAIN q /\ j + 1 \in DOMAIN q /\ q[i + 1] = q[j + 1]
      BY <1>1
    <2>2. i + 1 = j + 1
      BY <2>1 DEF Distinct
    <2> QED BY <1>1, <2>2
  <1>3. ~In(r, Head(q))
    <2> SUFFICES ASSUME NEW i \in DOMAIN r, r[i] = Head(q) PROVE FALSE
      BY DEF In
    <2>1. 1 \in DOMAIN q /\ i + 1 \in DOMAIN q /\ q[i + 1] = q[1]
      BY <1>1
    <2>2. i + 1 = 1
      BY <2>1 DEF Distinct
    <2> QED BY <1>1, <2>2
  <1>4. \A y : In(q, y) <=> In(r, y) \/ y = Head(q)
    BY InTail DEF r
  <1> QED BY <1>2, <1>3, <1>4 DEF r

LEMMA NothingInEmpty == \A y : ~In(<<>>, y)
  BY DEF In

\* What announcing to the head of a wait list does to the ready list.
LEMMA WakeNextFacts ==
    ASSUME NEW S, NEW r \in Seq(S), NEW q \in Seq(S), Distinct(r), Distinct(q),
           \A y \in S : In(q, y) => ~In(r, y)
    PROVE  /\ Distinct(r \o WakeNext(q)) /\ Distinct(Rest(q))
           /\ q = <<>> => r \o WakeNext(q) = r /\ Rest(q) = q
           /\ q # <<>> => /\ Head(q) \in S /\ In(q, Head(q)) /\ ~In(Rest(q), Head(q))
                          /\ \A y : In(r \o WakeNext(q), y) <=> In(r, y) \/ y = Head(q)
                          /\ \A y : In(q, y) <=> In(Rest(q), y) \/ y = Head(q)
  <1>1. CASE q = <<>>
    BY <1>1, ConcatEmptySeq DEF WakeNext, Rest
  <1>2. CASE q # <<>>
    <2>1. Head(q) \in S /\ WakeNext(q) = <<Head(q)>> /\ Rest(q) = Tail(q)
      BY <1>2, HeadTailProperties DEF WakeNext, Rest
    <2>2. r \o WakeNext(q) = Append(r, Head(q))
      BY <2>1, AppendIsConcat
    <2>3. /\ Distinct(Tail(q)) /\ ~In(Tail(q), Head(q))
          /\ \A y : In(q, y) <=> In(Tail(q), y) \/ y = Head(q)
      BY <1>2, DistinctTail
    <2>4. In(q, Head(q)) /\ ~In(r, Head(q))
      BY <2>1, <2>3
    <2>5. /\ Distinct(Append(r, Head(q)))
          /\ \A y : In(Append(r, Head(q)), y) <=> In(r, y) \/ y = Head(q)
      BY <2>1, <2>4, DistinctAppend
    <2> QED BY <1>2, <2>1, <2>2, <2>3, <2>4, <2>5
  <1> QED BY <1>1, <1>2

LEMMA RunnableIn ==
    /\ \A t : Runnable(t) <=> running = t \/ In(ready, t)
    /\ \A t : Runnable(t)' <=> running' = t \/ In(ready', t)
  BY DEF Runnable, In

LEMMA TasksApart ==
    /\ None \notin Tasks /\ StopTask \in Tasks /\ StopTask \notin Events /\ StopTask \notin Workers
    /\ \A e \in Events : e \in Tasks /\ e \notin Workers
    /\ \A w \in Workers : w \in Tasks /\ w \notin Events
  BY DEF Tasks

\* The loop's own state when a step makes no task runnable, or just one.
LEMMA ReadySame ==
    ASSUME Schedule, ready' = ready, running' \in {running, None}
    PROVE  /\ Distinct(ready') /\ (running' # None => ~In(ready', running'))
           /\ \A x : Runnable(x)' <=> running' = x \/ In(ready, x)
  BY RunnableIn DEF Schedule

LEMMA ReadyGains ==
    ASSUME TypeOK, Schedule, NEW t \in Tasks, ~Runnable(t),
           ready' = Append(ready, t), running' \in {running, None}
    PROVE  /\ Distinct(ready') /\ (running' # None => ~In(ready', running'))
           /\ \A x : Runnable(x)' <=> running' = x \/ In(ready, x) \/ x = t
  <1>1. ready \in Seq(Tasks) /\ ~In(ready, t) /\ running # t
    BY RunnableIn DEF TypeOK
  <1>2. Distinct(ready') /\ \A y : In(ready', y) <=> In(ready, y) \/ y = t
    BY <1>1, DistinctAppend DEF Schedule
  <1> QED BY <1>1, <1>2, RunnableIn DEF Schedule

-----------------------------------------------------------------------------
(* The counts of runnable tasks.                                           *)

LEMMA ComingFinite == TypeOK => IsFiniteSet(Coming) /\ Cardinality(Coming) \in Nat
  <1> SUFFICES ASSUME TypeOK PROVE IsFiniteSet(Coming) /\ Cardinality(Coming) \in Nat
    OBVIOUS
  <1> DEFINE R == {ready[i] : i \in 1..Len(ready)}
  <1>1. Len(ready) \in Nat /\ DOMAIN ready = 1..Len(ready) /\ ready \in [1..Len(ready) -> Tasks]
    BY LenProperties DEF TypeOK
  <1>2. ready \in Surjection(1..Len(ready), R)
    BY <1>1 DEF Surjection
  <1>3. IsFiniteSet(1..Len(ready))
    BY <1>1, FS_Interval
  <1>4. IsFiniteSet(R)
    BY <1>2, <1>3, FS_Surjection
  <1>5. IsFiniteSet(R \cup {running})
    BY <1>4, FS_AddElement
  <1>6. Coming \subseteq R \cup {running}
    BY <1>1 DEF Coming, Runnable
  <1> QED BY <1>5, <1>6, FS_Subset, FS_CardinalityType

LEMMA SeekersFinite == IsFiniteSet(Seekers) /\ Cardinality(Seekers) \in Nat
  <1>1. Seekers \subseteq Workers
    BY DEF Seekers
  <1> QED BY <1>1, BusyFinite, FS_Subset, FS_CardinalityType

LEMMA QueueLen == TypeOK => Len(queue) \in Nat /\ Capacity \in Nat
  BY LenProperties DEF TypeOK

\* A step that takes no runnable putter away and frees no slot.
LEMMA SlotsKept ==
    ASSUME TypeOK, TypeOK', SlotsAnnounced, Coming \subseteq Coming',
           Len(queue) <= Len(queue'), putters' # <<>> => putters # <<>>
    PROVE  SlotsAnnounced'
  <1>0. (IsFiniteSet(Coming) /\ Cardinality(Coming) \in Nat)' /\ (Len(queue) \in Nat /\ Capacity \in Nat)'
    BY ComingFinite, QueueLen, PTL
  <1>1. IsFiniteSet(Coming') /\ Cardinality(Coming') \in Nat /\ Len(queue') \in Nat
    BY <1>0
  <1>2. Cardinality(Coming) <= Cardinality(Coming') /\ Cardinality(Coming) \in Nat
    BY <1>1, ComingFinite, FS_Subset
  <1>3. Len(queue) \in Nat /\ Capacity \in Nat
    BY QueueLen
  <1> QED BY <1>1, <1>2, <1>3 DEF SlotsAnnounced

\* A step that takes no seeking worker away and adds no item.
LEMMA ItemsKept ==
    ASSUME TypeOK, TypeOK', ItemsAnnounced, Seekers \subseteq Seekers',
           Len(queue') <= Len(queue), getters' # <<>> => getters # <<>>
    PROVE  ItemsAnnounced'
  <1>0. (IsFiniteSet(Seekers) /\ Cardinality(Seekers) \in Nat)' /\ (Len(queue) \in Nat /\ Capacity \in Nat)'
    BY SeekersFinite, QueueLen, PTL
  <1>1. IsFiniteSet(Seekers') /\ Cardinality(Seekers') \in Nat
    BY <1>0
  <1>2. Cardinality(Seekers) <= Cardinality(Seekers') /\ Cardinality(Seekers) \in Nat
    BY <1>1, SeekersFinite, FS_Subset
  <1>3. Len(queue) \in Nat /\ Len(queue') \in Nat
    BY <1>0, QueueLen
  <1> QED BY <1>1, <1>2, <1>3 DEF ItemsAnnounced

-----------------------------------------------------------------------------
(* The steps.                                                              *)

\* PutNowait: the slot is used up, the head of the waiting workers is told.
LEMMA PutWakes ==
    ASSUME TypeOK, TypeOK', WInv, NEW x \in Items, NEW t \in Tasks \ Workers, PutNowait(x),
           running = t, running' \in {running, None}, UNCHANGED wk,
           \A e \in Events \ {t} : sub'[e] = sub[e],
           t \in Events => sub'[t] = "enqueued" /\ running' = None /\ UNCHANGED <<stp, sent>>,
           t = StopTask => stp = "putting" /\ stp' = stp /\ sent' = sent + 1 /\ running' = t
    PROVE  WInv'
  <1>0. /\ ready \in Seq(Tasks) /\ getters \in Seq(Workers) /\ getters \in Seq(Tasks)
        /\ queue \in Seq(Items)
    BY DEF TypeOK, Tasks
  <1>1. /\ queue' = Append(queue, x) /\ ready' = ready \o WakeNext(getters)
        /\ getters' = Rest(getters) /\ putters' = putters
    BY DEF PutNowait
  <1>2. \A y \in Tasks : In(getters, y) => y \in Workers
    BY <1>0 DEF In
  <1>3. \A y \in Tasks : In(getters, y) => ~In(ready, y)
    BY <1>2, RunnableIn DEF WInv, Schedule
  <1>4. /\ Distinct(ready') /\ Distinct(getters')
        /\ getters = <<>> => ready' = ready /\ getters' = getters
        /\ getters # <<>> => /\ Head(getters) \in Tasks /\ In(getters, Head(getters))
                             /\ ~In(getters', Head(getters))
                             /\ \A y : In(ready', y) <=> In(ready, y) \/ y = Head(getters)
                             /\ \A y : In(getters, y) <=> In(getters', y) \/ y = Head(getters)
    BY <1>0, <1>1, <1>3, WakeNextFacts DEF WInv, Schedule
  <1>5. Len(queue') = Len(queue) + 1 /\ Len(queue) \in Nat /\ Len(queue') \in Nat /\ Capacity \in Nat
    BY <1>0, <1>1, AppendProperties, QueueLen
  <1>6. getters # <<>> => Head(getters) \in Workers /\ wk[Head(getters)] = "get" /\ ~Runnable(Head(getters))
    BY <1>2, <1>4 DEF WInv, Schedule
  <1>7. /\ \A y \in Tasks \ Workers : In(ready', y) <=> In(ready, y)
        /\ \A y \in Workers : Runnable(y)' <=> Runnable(y) \/ (getters # <<>> /\ y = Head(getters))
        /\ \A y \in Tasks \ (Workers \cup {t}) : Runnable(y)' <=> Runnable(y)
        /\ Runnable(t)' <=> running' = t
    BY <1>4, <1>6, RunnableIn, TasksApart DEF WInv, Schedule
  <1>8. Schedule'
    <2>1. running' # None => ~In(ready', running')
      <3>1. t # None /\ ~In(ready, t)
        BY TasksApart DEF WInv, Schedule
      <3>2. ~In(ready', t)
        BY <1>7, <3>1
      <3> QED BY <3>2
    <2>2. ASSUME NEW e \in Events, Runnable(e)' PROVE sub'[e] \in {"called", "waiting"}
      <3>1. e # t
        BY <1>7, <2>2, TasksApart
      <3>2. sub'[e] = sub[e] /\ Runnable(e)
        BY <1>7, <2>2, <3>1, TasksApart
      <3> QED BY <3>2 DEF WInv, Schedule
    <2>3. \A w \in Workers : Runnable(w)' => wk'[w] \in {"get", "run", "resumed"}
      BY <1>6, <1>7 DEF WInv, Schedule
    <2>4. Runnable(StopTask)' => stp' \in {"called", "putting", "flushing"}
      BY <1>7, TasksApart DEF WInv, Schedule, Tasks
    <2>5. ASSUME NEW y \in Events \cup {StopTask}, In(putters', y)
          PROVE  Waiting(y)' /\ ~Runnable(y)'
      <3>1. Waiting(y) /\ ~Runnable(y) /\ y # t /\ y \in Tasks \ Workers
        BY <1>1, <2>5, RunnableIn, TasksApart DEF WInv, Schedule
      <3>2. ~Runnable(y)'
        BY <1>7, <3>1
      <3>3. t \in Events \/ t = StopTask
        BY DEF Tasks
      <3> QED BY <3>1, <3>2, <3>3, TasksApart DEF Waiting
    <2>6. In(putters', StopTask) => sent' < NWorkers
      <3>1. In(putters, StopTask) => t # StopTask
        BY RunnableIn DEF WInv, Schedule
      <3>2. t \in Events \/ t = StopTask
        BY DEF Tasks
      <3> QED BY <1>1, <3>1, <3>2 DEF WInv, Schedule
    <2>7. \A w \in Workers : In(getters', w) => wk'[w] = "get" /\ ~Runnable(w)'
      BY <1>4, <1>7 DEF WInv, Schedule
    <2> QED BY <1>1, <1>4, <2>1, <2>2, <2>3, <2>4, <2>5, <2>6, <2>7 DEF WInv, Schedule
  <1>9. SlotsAnnounced'
    <2> SUFFICES ASSUME putters' # <<>> PROVE Capacity - Len(queue') <= Cardinality(Coming')
      BY DEF SlotsAnnounced
    <2>1. Capacity - Len(queue) <= Cardinality(Coming)
      BY <1>1 DEF WInv, SlotsAnnounced
    <2>2. Coming \ {t} \subseteq Coming'
      <3> SUFFICES ASSUME NEW y \in Coming, y # t PROVE y \in Coming'
        OBVIOUS
      <3>1. y \in Tasks \ (Workers \cup {t}) /\ Runnable(y) /\ Waiting(y) /\ ~(y = StopTask /\ sent = NWorkers)
        BY TasksApart DEF Coming
      <3>2. Runnable(y)'
        BY <1>7, <3>1
      <3>3. t \in Events \/ t = StopTask
        BY DEF Tasks
      <3>4. Waiting(y)' /\ ~(y = StopTask /\ sent' = NWorkers)
        BY <3>1, <3>3, TasksApart DEF Waiting, Tasks
      <3> QED BY <3>1, <3>2, <3>4 DEF Coming
    <2>3. /\ IsFiniteSet(Coming) /\ Cardinality(Coming) \in Nat
          /\ IsFiniteSet(Coming') /\ Cardinality(Coming') \in Nat
      <3>1. (IsFiniteSet(Coming) /\ Cardinality(Coming) \in Nat)'
        BY ComingFinite, PTL
      <3> QED BY <3>1, ComingFinite
    <2>4. Cardinality(Coming \ {t}) >= Cardinality(Coming) - 1 /\ Cardinality(Coming \ {t}) \in Nat
      <3>1. IsFiniteSet(Coming \ {t}) /\ Cardinality(Coming \ {t}) =
               IF t \in Coming THEN Cardinality(Coming) - 1 ELSE Cardinality(Coming)
        BY <2>3, FS_RemoveElement
      <3>2. Cardinality(Coming \ {t}) \in Nat
        BY <3>1, FS_CardinalityType
      <3> QED BY <2>3, <3>1, <3>2
    <2>5. Cardinality(Coming \ {t}) <= Cardinality(Coming')
      BY <2>2, <2>3, FS_Subset
    <2> QED BY <1>5, <2>1, <2>3, <2>4, <2>5
  <1>10. ItemsAnnounced'
    <2> SUFFICES ASSUME getters' # <<>> PROVE Len(queue') <= Cardinality(Seekers')
      BY DEF ItemsAnnounced
    <2>1. getters # <<>>
      BY <1>4
    <2>2. Len(queue) <= Cardinality(Seekers)
      BY <2>1 DEF WInv, ItemsAnnounced
    <2>3. Seekers' = Seekers \cup {Head(getters)} /\ Head(getters) \notin Seekers
      BY <1>6, <1>7, <2>1 DEF Seekers
    <2>4. Cardinality(Seekers') = Cardinality(Seekers) + 1
      BY <2>3, SeekersFinite, FS_AddElement
    <2> QED BY <1>5, <2>2, <2>4, SeekersFinite
  <1> QED BY <1>8, <1>9, <1>10 DEF WInv

\* WorkerTake: the slot that becomes free is announced to the first waiting putter.
LEMMA TakeWakes ==
    ASSUME TypeOK, TypeOK', WInv, NEW w \in Workers, WorkerTake(w)
    PROVE  WInv'
  <1>0. /\ ready \in Seq(Tasks) /\ putters \in Seq(Events \cup {StopTask}) /\ putters \in Seq(Tasks)
        /\ queue \in Seq(Items) /\ wk \in [Workers -> WkStates]
    <2>1. /\ ready \in Seq(Tasks) /\ putters \in Seq(Events \cup {StopTask})
          /\ queue \in Seq(Items) /\ wk \in [Workers -> WkStates]
      BY DEF TypeOK
    <2>2. putters \in Seq(Tasks)
      BY <2>1 DEF Tasks
    <2> QED BY <2>1, <2>2
  <1>1. /\ queue' = Tail(queue) /\ queue # <<>> /\ ready' = ready \o WakeNext(putters)
        /\ putters' = Rest(putters) /\ running = w /\ running' = running
        /\ wk' = [wk EXCEPT ![w] = "run"] /\ UNCHANGED <<getters, sub, stp, sent>>
    BY DEF WorkerTake
  <1>2. \A y \in Tasks : In(putters, y) => y \in Events \cup {StopTask}
    BY <1>0 DEF In
  <1>3. \A y \in Tasks : In(putters, y) => ~In(ready, y)
    BY <1>2, RunnableIn DEF WInv, Schedule
  <1>4. /\ Distinct(ready') /\ Distinct(putters')
        /\ putters = <<>> => ready' = ready /\ putters' = putters
        /\ putters # <<>> => /\ Head(putters) \in Tasks /\ In(putters, Head(putters))
                             /\ ~In(putters', Head(putters))
                             /\ \A y : In(ready', y) <=> In(ready, y) \/ y = Head(putters)
                             /\ \A y : In(putters, y) <=> In(putters', y) \/ y = Head(putters)
    BY <1>0, <1>1, <1>3, WakeNextFacts DEF WInv, Schedule
  <1>5. Len(queue') = Len(queue) - 1 /\ Len(queue) \in Nat /\ Len(queue') \in Nat /\ Capacity \in Nat
    BY <1>0, <1>1, HeadTailProperties, QueueLen, LenProperties
  <1>6. putters # <<>> => /\ Head(putters) \in Events \cup {StopTask}
                          /\ Waiting(Head(putters)) /\ ~Runnable(Head(putters))
                          /\ ~(Head(putters) = StopTask /\ sent = NWorkers)
    <2>1. putters # <<>> => /\ Head(putters) \in Events \cup {StopTask}
                            /\ Waiting(Head(putters)) /\ ~Runnable(Head(putters))
      BY <1>2, <1>4 DEF WInv, Schedule
    <2>2. In(putters, StopTask) => sent # NWorkers
      BY DEF WInv, Schedule, TypeOK
    <2> QED BY <1>4, <2>1, <2>2
  <1>7. /\ \A y \in Tasks : Runnable(y)' <=> Runnable(y) \/ (putters # <<>> /\ y = Head(putters))
        /\ \A y \in Workers : Runnable(y)' <=> Runnable(y)
    <2>1. \A y \in Tasks : Runnable(y)' <=> Runnable(y) \/ (putters # <<>> /\ y = Head(putters))
      BY <1>1, <1>4, RunnableIn
    <2> QED BY <1>6, <2>1, TasksApart
  <1>8. Schedule'
    <2>1. running' # None => ~In(ready', running')
      BY <1>1, <1>4, <1>6, RunnableIn, TasksApart DEF WInv, Schedule
    <2>2. ASSUME NEW e \in Events, Runnable(e)' PROVE sub'[e] \in {"called", "waiting"}
      BY <1>1, <1>6, <1>7, <2>2, TasksApart DEF WInv, Schedule, Waiting
    <2>3. \A v \in Workers : Runnable(v)' => wk'[v] \in {"get", "run", "resumed"}
      BY <1>0, <1>1, <1>7 DEF WInv, Schedule
    <2>4. Runnable(StopTask)' => stp' \in {"called", "putting", "flushing"}
      BY <1>1, <1>6, <1>7, TasksApart DEF WInv, Schedule, Waiting
    <2>5. \A y \in Events \cup {StopTask} : In(putters', y) => Waiting(y)' /\ ~Runnable(y)'
      BY <1>1, <1>4, <1>7, TasksApart DEF WInv, Schedule, Waiting
    <2>6. In(putters', StopTask) => sent' < NWorkers
      BY <1>1, <1>4 DEF WInv, Schedule
    <2>7. \A v \in Workers : In(getters', v) => wk'[v] = "get" /\ ~Runnable(v)'
      BY <1>0, <1>1, <1>7, RunnableIn DEF WInv, Schedule
    <2> QED BY <1>1, <1>4, <2>1, <2>2, <2>3, <2>4, <2>5, <2>6, <2>7 DEF WInv, Schedule
  <1>9. SlotsAnnounced'
    <2> SUFFICES ASSUME putters' # <<>> PROVE Capacity - Len(queue') <= Cardinality(Coming')
      BY DEF SlotsAnnounced
    <2>1. putters # <<>>
      BY <1>4
    <2>2. Capacity - Len(queue) <= Cardinality(Coming)
      BY <2>1 DEF WInv, SlotsAnnounced
    <2>3. Coming' = Coming \cup {Head(putters)} /\ Head(putters) \notin Coming
      BY <1>1, <1>6, <1>7, <2>1, TasksApart DEF Coming, Waiting
    <2>4. Cardinality(Coming') = Cardinality(Coming) + 1 /\ Cardinality(Coming) \in Nat
      BY <2>3, ComingFinite, FS_AddElement
    <2> QED BY <1>5, <2>2, <2>4
  <1>10. ItemsAnnounced'
    <2> SUFFICES ASSUME getters' # <<>> PROVE Len(queue') <= Cardinality(Seekers')
      BY DEF ItemsAnnounced
    <2>1. Len(queue) <= Cardinality(Seekers)
      BY <1>1 DEF WInv, ItemsAnnounced
    <2>2. Seekers \ {w} = Seekers'
      BY <1>0, <1>1, <1>7 DEF Seekers
    <2>3. Cardinality(Seekers') = (IF w \in Seekers THEN Cardinality(Seekers) - 1 ELSE Cardinality(Seekers))
      BY <2>2, SeekersFinite, FS_RemoveElement
    <2> QED BY <1>5, <2>1, <2>3, SeekersFinite
  <1> QED BY <1>8, <1>9, <1>10 DEF WInv

\* The queue is full, so the task waits behind the others: no slot is free.
LEMMA WaitFull ==
    ASSUME TypeOK, TypeOK', WInv, NEW t \in Events \cup {StopTask}, PutWait(t), running = t,
           running' = None, UNCHANGED <<wk, stp, sent>>,
           \A e \in Events \ {t} : sub'[e] = sub[e], t \in Events => sub'[t] = "waiting",
           t = StopTask => stp = "putting" /\ sent < NWorkers
    PROVE  WInv'
  <1>0. putters \in Seq(Events \cup {StopTask}) /\ Len(queue) \in Nat
    BY QueueLen DEF TypeOK
  <1>1. putters' = Append(putters, t) /\ UNCHANGED <<ready, queue, getters>> /\ Len(queue) >= Capacity
    BY DEF PutWait, Full
  <1>2. ~In(putters, t) /\ t \in Tasks
    BY RunnableIn, TasksApart DEF WInv, Schedule
  <1>3. Distinct(putters') /\ \A y : In(putters', y) <=> In(putters, y) \/ y = t
    BY <1>0, <1>1, <1>2, DistinctAppend DEF WInv, Schedule
  <1>4. /\ Distinct(ready') /\ \A y \in Tasks : Runnable(y)' <=> Runnable(y) /\ y # t
    BY <1>1, <1>2, RunnableIn, TasksApart DEF WInv, Schedule
  <1>5. Schedule'
    <2>1. \A e \in Events : Runnable(e)' => sub'[e] \in {"called", "waiting"}
      BY <1>4, TasksApart DEF WInv, Schedule
    <2>2. \A v \in Workers : Runnable(v)' => wk'[v] \in {"get", "run", "resumed"}
      BY <1>4, TasksApart DEF WInv, Schedule
    <2>3. Runnable(StopTask)' => stp' \in {"called", "putting", "flushing"}
      BY <1>4, TasksApart DEF WInv, Schedule
    <2>4. \A y \in Events \cup {StopTask} : In(putters', y) => Waiting(y)' /\ ~Runnable(y)'
      BY <1>3, <1>4, TasksApart DEF WInv, Schedule, Waiting
    <2>5. In(putters', StopTask) => sent' < NWorkers
      BY <1>3 DEF WInv, Schedule
    <2>6. \A v \in Workers : In(getters', v) => wk'[v] = "get" /\ ~Runnable(v)'
      BY <1>1, <1>4, TasksApart DEF WInv, Schedule
    <2> QED BY <1>1, <1>3, <1>4, <2>1, <2>2, <2>3, <2>4, <2>5, <2>6 DEF WInv, Schedule
  <1>6. SlotsAnnounced'
    <2>1. (IsFiniteSet(Coming) /\ Cardinality(Coming) \in Nat)'
      BY ComingFinite, PTL
    <2> QED BY <1>0, <1>1, <2>1 DEF SlotsAnnounced
  <1>7. ItemsAnnounced'
    <2>1. Seekers' = Seekers
      BY <1>4, TasksApart DEF Seekers
    <2> QED BY <1>1, <2>1 DEF WInv, ItemsAnnounced
  <1> QED BY <1>5, <1>6, <1>7 DEF WInv

\* The queue is empty, so the worker waits behind the others: no item is there.
LEMMA WaitEmpty ==
    ASSUME TypeOK, TypeOK', WInv, NEW w \in Workers, WorkerWait(w)
    PROVE  WInv'
  <1>0. getters \in Seq(Workers)
    BY DEF TypeOK
  <1>1. /\ getters' = Append(getters, w) /\ UNCHANGED <<ready, queue, putters, sub, wk, stp, sent>>
        /\ running = w /\ running' = None /\ wk[w] = "get" /\ queue = <<>>
    BY DEF WorkerWait
  <1>2. ~In(getters, w)
    BY <1>1, RunnableIn DEF WInv, Schedule
  <1>3. Distinct(getters') /\ \A y : In(getters', y) <=> In(getters, y) \/ y = w
    BY <1>0, <1>1, <1>2, DistinctAppend DEF WInv, Schedule
  <1>4. /\ Distinct(ready') /\ \A y \in Tasks : Runnable(y)' <=> Runnable(y) /\ y # w
    BY <1>1, RunnableIn, TasksApart DEF WInv, Schedule
  <1>5. Schedule'
    <2>1. \A e \in Events : Runnable(e)' => sub'[e] \in {"called", "waiting"}
      BY <1>1, <1>4, TasksApart DEF WInv, Schedule
    <2>2. \A v \in Workers : Runnable(v)' => wk'[v] \in {"get", "run", "resumed"}
      BY <1>1, <1>4, TasksApart DEF WInv, Schedule
    <2>3. Runnable(StopTask)' => stp' \in {"called", "putting", "flushing"}
      BY <1>1, <1>4, TasksApart DEF WInv, Schedule
    <2>4. \A y \in Events \cup {StopTask} : In(putters', y) => Waiting(y)' /\ ~Runnable(y)'
      BY <1>1, <1>4, TasksApart DEF WInv, Schedule, Waiting
    <2>5. \A v \in Workers : In(getters', v) => wk'[v] = "get" /\ ~Runnable(v)'
      BY <1>1, <1>3, <1>4, TasksApart DEF WInv, Schedule
    <2> QED BY <1>1, <1>3, <1>4, <2>1, <2>2, <2>3, <2>4, <2>5 DEF WInv, Schedule
  <1>6. SlotsAnnounced'
    <2>1. Coming' = Coming
      BY <1>1, <1>4, TasksApart DEF Coming, Waiting
    <2> QED BY <1>1, <2>1 DEF WInv, SlotsAnnounced
  <1>7. ItemsAnnounced'
    <2>1. (IsFiniteSet(Seekers) /\ Cardinality(Seekers) \in Nat)'
      BY SeekersFinite, PTL
    <2> QED BY <1>1, <2>1, EmptySeq DEF ItemsAnnounced
  <1> QED BY <1>5, <1>6, <1>7 DEF WInv

\* A step that leaves the queue and its wait lists alone and moves only tasks of T,
\* none of which waits at the queue or is on its way to put.
LEMMA CalmStep ==
    ASSUME TypeOK, TypeOK', WInv, UNCHANGED <<queue, putters, getters>>, NEW T \in SUBSET Tasks,
           Distinct(ready'), running' # None => ~In(ready', running'),
           \A x \in Tasks \ T : Runnable(x)' <=> Runnable(x),
           \A e \in Events \ T : sub'[e] = sub[e],
           \A w \in Workers \ T : wk'[w] = wk[w],
           StopTask \notin T => UNCHANGED <<stp, sent>>,
           \A x \in T : ~In(putters, x) /\ ~In(getters, x) /\ x \notin Coming /\ (x \in Seekers => x \in Seekers'),
           \A e \in T \cap Events : Runnable(e)' => sub'[e] \in {"called", "waiting"},
           \A w \in T \cap Workers : Runnable(w)' => wk'[w] \in {"get", "run", "resumed"},
           StopTask \in T /\ Runnable(StopTask)' => stp' \in {"called", "putting", "flushing"}
    PROVE  WInv'
  <1>1. Schedule'
    <2>1. \A e \in Events : Runnable(e)' => sub'[e] \in {"called", "waiting"}
      BY TasksApart DEF WInv, Schedule
    <2>2. \A w \in Workers : Runnable(w)' => wk'[w] \in {"get", "run", "resumed"}
      BY TasksApart DEF WInv, Schedule
    <2>3. Runnable(StopTask)' => stp' \in {"called", "putting", "flushing"}
      BY TasksApart DEF WInv, Schedule
    <2>4. ASSUME NEW t \in Events \cup {StopTask}, In(putters', t) PROVE Waiting(t)' /\ ~Runnable(t)'
      <3>1. t \in Tasks \ T /\ Waiting(t) /\ ~Runnable(t)
        BY <2>4, TasksApart DEF WInv, Schedule
      <3>2. ~Runnable(t)'
        BY <3>1
      <3> QED BY <3>1, <3>2 DEF Waiting
    <2>5. In(putters', StopTask) => sent' < NWorkers
      BY DEF WInv, Schedule
    <2>6. \A w \in Workers : In(getters', w) => wk'[w] = "get" /\ ~Runnable(w)'
      BY TasksApart DEF WInv, Schedule
    <2> QED BY <2>1, <2>2, <2>3, <2>4, <2>5, <2>6 DEF WInv, Schedule
  <1>2. SlotsAnnounced'
    <2>1. ASSUME NEW t \in Coming PROVE t \in Coming'
      <3>1. /\ t \in Tasks \ T /\ t \in Events \cup {StopTask} /\ Waiting(t) /\ Runnable(t)
            /\ ~(t = StopTask /\ sent = NWorkers)
        BY <2>1, TasksApart DEF Coming
      <3>2. Runnable(t)'
        BY <3>1
      <3> QED BY <3>1, <3>2 DEF Coming, Waiting
    <2>2. Len(queue) \in Nat /\ queue' = queue
      BY QueueLen
    <2> QED BY <2>1, <2>2, SlotsKept DEF WInv
  <1>3. ItemsAnnounced'
    <2>1. Seekers \subseteq Seekers'
      BY TasksApart DEF Seekers
    <2>2. Len(queue) \in Nat /\ queue' = queue
      BY QueueLen
    <2> QED BY <2>1, <2>2, ItemsKept DEF WInv
  <1> QED BY <1>1, <1>2, <1>3 DEF WInv

\* Which lists a task can be in.
LEMMA WaitLists ==
    ASSUME TypeOK
    PROVE  /\ \A x : In(putters, x) => x \in Events \cup {StopTask}
           /\ \A x : In(getters, x) => x \in Workers
           /\ \A x : In(ready, x) => x \in Tasks
  BY DEF TypeOK, In

\* The end of an item's processing, which may let join() return.
LEMMA DoneWakes ==
    ASSUME TypeOK, TypeOK', WInv, NEW w \in Workers, running = w, TaskDone,
           wk[w] \in {"run", "resumed"}, NEW s, wk' = [wk EXCEPT ![w] = s],
           \/ s = "get" /\ running' = running
           \/ running' = None,
           UNCHANGED <<queue, putters, getters, sub, sent>>
    PROVE  WInv'
  <1>0. /\ w \in Tasks /\ w \notin Events \cup {StopTask} /\ ~In(putters, w) /\ ~In(getters, w)
        /\ w \notin Coming /\ w \notin Seekers /\ ~In(ready, w)
    BY WaitLists, TasksApart, RunnableIn DEF WInv, Schedule, Coming, Seekers
  <1>1. wk'[w] = s /\ \A v \in Workers \ {w} : wk'[v] = wk[v]
    BY DEF TypeOK
  <1>2. CASE unfinished = 1 /\ stp = "joining"
    <2>1. ready' = Append(ready, StopTask) /\ stp' = "putting" /\ StopTask \in Tasks
      BY <1>2, TasksApart DEF TaskDone
    <2>2. ~Runnable(StopTask) /\ ~In(putters, StopTask) /\ ~In(getters, StopTask) /\ StopTask \notin Coming
      BY <1>2, WaitLists, TasksApart DEF WInv, Schedule, Waiting, Coming
    <2>3. /\ Distinct(ready') /\ (running' # None => ~In(ready', running'))
          /\ \A x : Runnable(x)' <=> running' = x \/ In(ready, x) \/ x = StopTask
      BY <2>1, <2>2, ReadyGains DEF WInv
    <2>4. \A x \in Tasks \ {w, StopTask} : Runnable(x)' <=> Runnable(x)
      BY <2>3, RunnableIn, TasksApart
    <2>5. Runnable(w)' => wk'[w] = "get"
      BY <1>0, <1>1, <2>3, TasksApart
    <2>6. {w, StopTask} \in SUBSET Tasks
      BY <1>0, <2>1
    <2>7. StopTask \notin Seekers
      BY TasksApart DEF Seekers
    <2>8. /\ \A v \in Workers \ {w, StopTask} : wk'[v] = wk[v]
          /\ \A e \in Events \ {w, StopTask} : sub'[e] = sub[e]
      BY <1>1
    <2>9. \A x \in {w, StopTask} : ~In(putters, x) /\ ~In(getters, x) /\ x \notin Coming /\ x \notin Seekers
      BY <1>0, <2>2, <2>7
    <2>10. {w, StopTask} \cap Events = {} /\ {w, StopTask} \cap Workers \subseteq {w}
      BY <1>0, TasksApart
    <2>11. /\ \A e \in {w, StopTask} \cap Events : Runnable(e)' => sub'[e] \in {"called", "waiting"}
           /\ \A v \in {w, StopTask} \cap Workers : Runnable(v)' => wk'[v] \in {"get", "run", "resumed"}
           /\ stp' \in {"called", "putting", "flushing"} /\ StopTask \in {w, StopTask}
           /\ \A x \in {w, StopTask} : x \in Seekers => x \in Seekers'
      BY <2>1, <2>5, <2>9, <2>10
    <2> QED BY <2>3, <2>4, <2>6, <2>8, <2>9, <2>11, CalmStep
  <1>3. CASE ~(unfinished = 1 /\ stp = "joining")
    <2>1. ready' = ready /\ stp' = stp
      BY <1>3 DEF TaskDone
    <2>3. /\ Distinct(ready') /\ (running' # None => ~In(ready', running'))
          /\ \A x : Runnable(x)' <=> running' = x \/ In(ready, x)
      BY <2>1, ReadySame DEF WInv
    <2>4. \A x \in Tasks \ {w} : Runnable(x)' <=> Runnable(x)
      BY <2>3, RunnableIn, TasksApart
    <2>5. Runnable(w)' => wk'[w] = "get"
      BY <1>0, <1>1, <2>3, TasksApart
    <2>6. {w} \in SUBSET Tasks /\ StopTask \notin {w} /\ {w} \cap Events = {}
      BY <1>0
    <2> QED BY <1>0, <1>1, <2>1, <2>3, <2>4, <2>5, <2>6, CalmStep
  <1> QED BY <1>2, <1>3

\* A step of the task that has the loop, which goes on or gives the loop up.
LEMMA RunnerStep ==
    ASSUME TypeOK, TypeOK', WInv, NEW t \in Tasks, running = t, running' \in {running, None},
           UNCHANGED <<ready, queue, putters, getters>>,
           \A e \in Events \ {t} : sub'[e] = sub[e],
           \A w \in Workers \ {t} : wk'[w] = wk[w],
           t # StopTask => UNCHANGED <<stp, sent>>,
           t \notin Coming, t \notin Seekers,
           running' # None => t = StopTask /\ stp' \in {"called", "putting", "flushing"}
    PROVE  WInv'
  <1>1. /\ Distinct(ready') /\ (running' # None => ~In(ready', running'))
        /\ \A x : Runnable(x)' <=> running' = x \/ In(ready, x)
    BY ReadySame DEF WInv
  <1>2. ~In(ready, t) /\ t # None
    BY TasksApart DEF WInv, Schedule
  <1>3. \A x \in Tasks \ {t} : Runnable(x)' <=> Runnable(x)
    BY <1>1, RunnableIn, TasksApart
  <1>4. ~In(putters, t) /\ ~In(getters, t)
    BY WaitLists, RunnableIn DEF WInv, Schedule
  <1>5. Runnable(t)' => t = StopTask /\ stp' \in {"called", "putting", "flushing"}
    BY <1>1, <1>2
  <1>6. {t} \in SUBSET Tasks /\ UNCHANGED <<queue, putters, getters>>
    OBVIOUS
  <1>7. StopTask \notin {t} => UNCHANGED <<stp, sent>>
    OBVIOUS
  <1>8. \A x \in {t} : ~In(putters, x) /\ ~In(getters, x) /\ x \notin Coming /\ (x \in Seekers => x \in Seekers')
    BY <1>4
  <1>9. /\ \A e \in {t} \cap Events : Runnable(e)' => sub'[e] \in {"called", "waiting"}
        /\ \A w \in {t} \cap Workers : Runnable(w)' => wk'[w] \in {"get", "run", "resumed"}
        /\ StopTask \in {t} /\ Runnable(StopTask)' => stp' \in {"called", "putting", "flushing"}
    BY <1>5, TasksApart
  <1> QED BY <1>1, <1>3, <1>6, <1>7, <1>8, <1>9, CalmStep

\* A step from outside the loop that makes one task runnable.
LEMMA ScheduleStep ==
    ASSUME TypeOK, TypeOK', WInv, NEW t \in Tasks, ~Runnable(t), ready' = Append(ready, t),
           UNCHANGED <<running, queue, putters, getters, sent>>,
           ~In(putters, t), ~In(getters, t),
           \A e \in Events \ {t} : sub'[e] = sub[e],
           \A w \in Workers \ {t} : wk'[w] = wk[w],
           t # StopTask => UNCHANGED stp,
           t \in Events => sub'[t] = "called",
           t \in Workers => wk'[t] = "resumed",
           t = StopTask => stp' \in {"called", "flushing"}
    PROVE  WInv'
  <1>1. /\ Distinct(ready') /\ (running' # None => ~In(ready', running'))
        /\ \A x : Runnable(x)' <=> running' = x \/ In(ready, x) \/ x = t
    BY ReadyGains DEF WInv
  <1>2. \A x \in Tasks \ {t} : Runnable(x)' <=> Runnable(x)
    BY <1>1, RunnableIn
  <1>3. t \notin Coming /\ t \notin Seekers /\ {t} \in SUBSET Tasks
    BY DEF Coming, Seekers
  <1>4. UNCHANGED <<queue, putters, getters>> /\ (StopTask \notin {t} => UNCHANGED <<stp, sent>>)
    OBVIOUS
  <1>5. \A x \in {t} : ~In(putters, x) /\ ~In(getters, x) /\ x \notin Coming /\ (x \in Seekers => x \in Seekers')
    BY <1>3
  <1>6. /\ \A e \in {t} \cap Events : Runnable(e)' => sub'[e] \in {"called", "waiting"}
        /\ \A w \in {t} \cap Workers : Runnable(w)' => wk'[w] \in {"get", "run", "resumed"}
        /\ StopTask \in {t} /\ Runnable(StopTask)' => stp' \in {"called", "putting", "flushing"}
    BY TasksApart
  <1> QED BY <1>1, <1>2, <1>3, <1>4, <1>5, <1>6, CalmStep
\* The loop picks the head of its ready list: who is runnable does not change.
LEMMA PickStep ==
    ASSUME TypeOK, TypeOK', WInv, LoopPick
    PROVE  WInv'
  <1>1. /\ ready \in Seq(Tasks) /\ ready # <<>> /\ running = None
        /\ running' = Head(ready) /\ ready' = Tail(ready) /\ Head(ready) \in Tasks
        /\ UNCHANGED <<queue, putters, getters, sub, wk, stp, sent>>
    BY HeadTailProperties DEF LoopPick, TypeOK, buffer
  <1>2. /\ Distinct(ready') /\ ~In(ready', running')
        /\ \A y : In(ready, y) <=> In(ready', y) \/ y = running'
    BY <1>1, DistinctTail DEF WInv, Schedule
  <1>3. \A x \in Tasks : Runnable(x)' <=> Runnable(x)
    BY <1>1, <1>2, RunnableIn, TasksApart
  <1>4. {} \in SUBSET Tasks /\ UNCHANGED <<queue, putters, getters>>
    BY <1>1
  <1> QED BY <1>1, <1>2, <1>3, <1>4, CalmStep

\* The pool's tasks appended to the ready list.
LEMMA DistinctConcat ==
    ASSUME NEW S, NEW q \in Seq(S), NEW r \in Seq(S), Distinct(q), Distinct(r),
           \A y \in S : ~(In(q, y) /\ In(r, y))
    PROVE  Distinct(q \o r) /\ \A y : In(q \o r, y) <=> In(q, y) \/ In(r, y)
  <1> DEFINE c == q \o r
  <1>1. /\ Len(q) \in Nat /\ Len(r) \in Nat /\ DOMAIN q = 1..Len(q) /\ DOMAIN r = 1..Len(r)
        /\ DOMAIN c = 1..(Len(q) + Len(r))
        /\ \A i \in 1..Len(q) : c[i] = q[i] /\ c[i] \in S
        /\ \A i \in (Len(q) + 1)..(Len(q) + Len(r)) : c[i] = r[i - Len(q)] /\ c[i] \in S
    <2>1. /\ c \in Seq(S) /\ Len(c) = Len(q) + Len(r)
          /\ \A i \in 1..Len(c) : c[i] = IF i <= Len(q) THEN q[i] ELSE r[i - Len(q)]
      BY ConcatProperties
    <2>2. /\ Len(q) \in Nat /\ Len(r) \in Nat /\ DOMAIN q = 1..Len(q) /\ DOMAIN r = 1..Len(r)
          /\ DOMAIN c = 1..Len(c) /\ \A i \in 1..Len(c) : c[i] \in S
      BY <2>1, LenProperties, ElementOfSeq
    <2> HIDE DEF c
    <2>3. DOMAIN c = 1..(Len(q) + Len(r))
      BY <2>1, <2>2
    <2>4. ASSUME NEW i \in 1..Len(q) PROVE c[i] = q[i] /\ c[i] \in S
      <3>1. i \in 1..Len(c) /\ i <= Len(q)
        BY <2>1, <2>2
      <3> QED BY <2>1, <2>2, <3>1
    <2>5. ASSUME NEW i \in (Len(q) + 1)..(Len(q) + Len(r)) PROVE c[i] = r[i - Len(q)] /\ c[i] \in S
      <3>1. i \in 1..Len(c) /\ ~(i <= Len(q))
        BY <2>1, <2>2
      <3> QED BY <2>1, <2>2, <3>1
    <2> QED BY <2>2, <2>3, <2>4, <2>5
  <1> HIDE DEF c
  <1>2. \A y : In(c, y) <=> In(q, y) \/ In(r, y)
    <2>1. ASSUME NEW y, In(c, y) PROVE In(q, y) \/ In(r, y)
      <3>1. PICK i \in 1..(Len(q) + Len(r)) : c[i] = y
        BY <1>1, <2>1 DEF In
      <3>2. CASE i \in 1..Len(q)
        BY <1>1, <3>1, <3>2 DEF In
      <3>3. CASE i \in (Len(q) + 1)..(Len(q) + Len(r))
        <4>1. i - Len(q) \in DOMAIN r /\ r[i - Len(q)] = y
          BY <1>1, <3>1, <3>3
        <4> QED BY <4>1 DEF In
      <3> QED BY <1>1, <3>2, <3>3
    <2>2. ASSUME NEW y, In(q, y) PROVE In(c, y)
      BY <1>1, <2>2 DEF In
    <2>3. ASSUME NEW y, In(r, y) PROVE In(c, y)
      <3>1. PICK i \in 1..Len(r) : r[i] = y
        BY <1>1, <2>3 DEF In
      <3>2. i + Len(q) \in DOMAIN c /\ c[i + Len(q)] = r[(i + Len(q)) - Len(q)] /\ (i + Len(q)) - Len(q) = i
        BY <1>1
      <3> QED BY <3>1, <3>2 DEF In
    <2> QED BY <2>1, <2>2, <2>3
  <1>3. ASSUME NEW i \in DOMAIN c, NEW j \in DOMAIN c, c[i] = c[j], i <= Len(q) PROVE i = j
    <2>1. i \in 1..Len(q) /\ c[i] = q[i] /\ c[i] \in S /\ In(q, c[i])
      BY <1>1, <1>3 DEF In
    <2>2. CASE j \in 1..Len(q)
      BY <1>1, <1>3, <2>1, <2>2 DEF Distinct
    <2>3. CASE j \in (Len(q) + 1)..(Len(q) + Len(r))
      <3>1. j - Len(q) \in DOMAIN r /\ r[j - Len(q)] = c[i]
        BY <1>1, <1>3, <2>3
      <3> QED BY <2>1, <3>1 DEF In
    <2> QED BY <1>1, <2>2, <2>3
  <1>4. ASSUME NEW i \in DOMAIN c, NEW j \in DOMAIN c, c[i] = c[j], i > Len(q), j > Len(q) PROVE i = j
    <2>0. i \in (Len(q) + 1)..(Len(q) + Len(r)) /\ j \in (Len(q) + 1)..(Len(q) + Len(r))
      BY <1>1, <1>4
    <2>1. i - Len(q) \in DOMAIN r /\ j - Len(q) \in DOMAIN r /\ r[i - Len(q)] = r[j - Len(q)]
      BY <1>1, <1>4, <2>0
    <2>2. i - Len(q) = j - Len(q)
      BY <2>1 DEF Distinct
    <2> QED BY <1>1, <2>2
  <1>5. Distinct(c)
    <2> SUFFICES ASSUME NEW i \in DOMAIN c, NEW j \in DOMAIN c, c[i] = c[j] PROVE i = j
      BY DEF Distinct
    <2>1. CASE i <= Len(q)
      BY <1>3, <2>1
    <2>2. CASE j <= Len(q)
      BY <1>3, <2>2
    <2>3. CASE ~(i <= Len(q)) /\ ~(j <= Len(q))
      <3>1. i > Len(q) /\ j > Len(q)
        BY <1>1, <2>3
      <3> QED BY <1>4, <3>1
    <2> QED BY <2>1, <2>2, <2>3
  <1> QED BY <1>2, <1>5 DEF c

\* start(): no worker of the last pool is left anywhere, and stop() is over.
LEMMA StartStep ==
    ASSUME TypeOK, TypeOK', WInv, Start
    PROVE  WInv'
  <1> DEFINE pool == [w \in Workers |-> w]
             T == Workers \cup {StopTask}
  <1>1. /\ running = None /\ running' = None /\ AllEnded /\ stp \in {"idle", "done", "failed"}
        /\ ready' = ready \o pool /\ wk' = [w \in Workers |-> "get"] /\ stp' = "idle"
        /\ UNCHANGED <<queue, putters, getters, sub>>
    BY DEF Start, buffer
  <1>2. \A w \in Workers : wk[w] \notin {"get", "run", "resumed"}
    BY <1>1 DEF AllEnded, Ended
  <1>3. \A w \in Workers : ~Runnable(w) /\ ~In(getters, w)
    BY <1>2 DEF WInv, Schedule
  <1>4. ~Runnable(StopTask) /\ ~In(putters, StopTask)
    BY <1>1, TasksApart DEF WInv, Schedule, Waiting
  <1>5. ready \in Seq(Tasks) /\ pool \in Seq(Tasks) /\ Distinct(pool) /\ \A y : In(pool, y) <=> y \in Workers
    <2>1. ready \in Seq(Tasks) /\ pool \in Seq(Tasks)
      BY DEF TypeOK, Workers, Tasks
    <2>2. DOMAIN pool = Workers /\ \A w \in Workers : pool[w] = w
      OBVIOUS
    <2> QED BY <2>1, <2>2 DEF Distinct, In
  <1> HIDE DEF pool
  <1>6. Distinct(ready') /\ \A y : In(ready', y) <=> In(ready, y) \/ y \in Workers
    <2>1. \A y \in Tasks : ~(In(ready, y) /\ In(pool, y))
      BY <1>3, <1>5, RunnableIn
    <2> QED BY <1>1, <1>5, <2>1, DistinctConcat DEF WInv, Schedule
  <1>7. /\ \A x \in Tasks \ T : Runnable(x)' <=> Runnable(x)
        /\ ~Runnable(StopTask)'
    BY <1>1, <1>4, <1>6, RunnableIn, TasksApart
  <1>8. \A x \in T : ~In(putters, x) /\ ~In(getters, x) /\ x \notin Coming /\ (x \in Seekers => x \in Seekers')
    BY <1>2, <1>3, <1>4, WaitLists, TasksApart DEF Coming, Seekers
  <1>9. T \in SUBSET Tasks /\ StopTask \in T /\ Workers \ T = {} /\ T \cap Events = {} /\ T \cap Workers = Workers
    BY TasksApart
  <1>10. \A w \in T \cap Workers : Runnable(w)' => wk'[w] \in {"get", "run", "resumed"}
    BY <1>1
  <1>11. \A e \in Events \ T : sub'[e] = sub[e]
    BY <1>1
  <1> HIDE DEF T
  <1> QED BY <1>1, <1>6, <1>7, <1>8, <1>9, <1>10, <1>11, CalmStep

-----------------------------------------------------------------------------
(* The invariant.                                                          *)

LEMMA WInvInit == Init => WInv
  <1> SUFFICES ASSUME Init PROVE WInv
    OBVIOUS
  <1>1. /\ ready = <<>> /\ running = None /\ putters = <<>> /\ getters = <<>>
    BY DEF Init
  <1>2. \A t \in Tasks : ~Runnable(t)
    BY <1>1, RunnableIn, NothingInEmpty, TasksApart
  <1>3. Schedule
    BY <1>1, <1>2, NothingInEmpty, TasksApart DEF Schedule, Distinct
  <1> QED BY <1>1, <1>3 DEF WInv, SlotsAnnounced, ItemsAnnounced

LEMMA WInvStep == Inv /\ WInv /\ [Next]_vars => WInv'
  <1> SUFFICES ASSUME Inv, WInv, [Next]_vars PROVE WInv'
    OBVIOUS
  <1>0. TypeOK /\ TypeOK'
    BY TypeStep DEF Inv
  <1>t. /\ \A e \in Events : e \in Tasks \ Workers /\ e \in Items /\ e # StopTask
        /\ \A w \in Workers : w \in Tasks /\ w \notin Events /\ w # StopTask
        /\ StopTask \in Tasks \ Workers /\ StopTask \notin Events /\ SHUTDOWN \in Items
    BY TasksApart DEF Items
  <1>1. CASE LoopPick
    BY <1>0, <1>1, PickStep
  <1>2. CASE Start
    BY <1>0, <1>2, StartStep
  <1>3. ASSUME NEW e \in Events, Arrive(e) PROVE WInv'
    <2>1. /\ sub[e] = "idle" /\ sub' = [sub EXCEPT ![e] = "called"] /\ ready' = Append(ready, e)
          /\ UNCHANGED <<running, queue, putters, getters, wk, stp, sent>>
      BY <1>3 DEF Arrive, buffer
    <2>2. sub'[e] = "called" /\ \A d \in Events \ {e} : sub'[d] = sub[d]
      BY <1>0, <2>1 DEF TypeOK
    <2>3. ~Runnable(e) /\ ~In(putters, e) /\ ~In(getters, e)
      BY <1>0, <1>t, <2>1, WaitLists DEF WInv, Schedule, Waiting
    <2> QED BY <1>0, <1>t, <2>1, <2>2, <2>3, ScheduleStep
  <1>4. ASSUME NEW e \in Events, SubmitRejected(e) PROVE WInv'
    <2>1. /\ running = e /\ sub[e] = "called" /\ sub' = [sub EXCEPT ![e] = "rejected"] /\ running' = None
          /\ UNCHANGED <<ready, queue, putters, getters, wk, stp, sent>>
      BY <1>4 DEF SubmitRejected, buffer
    <2>2. \A d \in Events \ {e} : sub'[d] = sub[d]
      BY <1>0, <2>1 DEF TypeOK
    <2>3. e \notin Coming /\ e \notin Seekers
      BY <1>t, <2>1 DEF Coming, Seekers, Waiting
    <2> QED BY <1>0, <1>t, <2>1, <2>2, <2>3, RunnerStep
  <1>5. ASSUME NEW e \in Events, SubmitPut(e) PROVE WInv'
    <2>1. /\ running = e /\ PutNowait(e) /\ sub' = [sub EXCEPT ![e] = "enqueued"] /\ running' = None
          /\ UNCHANGED <<wk, stp, sent>>
      BY <1>5 DEF SubmitPut
    <2>2. sub'[e] = "enqueued" /\ \A d \in Events \ {e} : sub'[d] = sub[d]
      BY <1>0, <2>1 DEF TypeOK
    <2> QED BY <1>0, <1>t, <2>1, <2>2, PutWakes
  <1>6. ASSUME NEW e \in Events, SubmitWait(e) PROVE WInv'
    <2>1. /\ running = e /\ PutWait(e) /\ sub' = [sub EXCEPT ![e] = "waiting"] /\ running' = None
          /\ UNCHANGED <<wk, stp, sent>>
      BY <1>6 DEF SubmitWait
    <2>2. sub'[e] = "waiting" /\ \A d \in Events \ {e} : sub'[d] = sub[d]
      BY <1>0, <2>1 DEF TypeOK
    <2> QED BY <1>0, <1>t, <2>1, <2>2, WaitFull
  <1>7. ASSUME NEW w \in Workers, WorkerTake(w) PROVE WInv'
    BY <1>0, <1>7, TakeWakes
  <1>8. ASSUME NEW w \in Workers, WorkerWait(w) PROVE WInv'
    BY <1>0, <1>8, WaitEmpty
  <1>9. ASSUME NEW w \in Workers, WorkerExit(w) PROVE WInv'
    <2>1. /\ running = w /\ TaskDone /\ wk[w] \in {"run", "resumed"} /\ wk' = [wk EXCEPT ![w] = "exited"]
          /\ running' = None /\ UNCHANGED <<queue, putters, getters, sub, sent>>
      BY <1>9 DEF WorkerExit
    <2> QED BY <1>0, <2>1, DoneWakes
  <1>10. ASSUME NEW w \in Workers, WorkerSettle(w) PROVE WInv'
    <2>1. /\ running = w /\ TaskDone /\ wk[w] \in {"run", "resumed"} /\ wk' = [wk EXCEPT ![w] = "get"]
          /\ running' = running /\ UNCHANGED <<queue, putters, getters, sub, sent>>
      BY <1>10 DEF WorkerSettle
    <2> QED BY <1>0, <2>1, DoneWakes
  <1>11. ASSUME NEW w \in Workers, WorkerDies(w) PROVE WInv'
    <2>1. /\ running = w /\ TaskDone /\ wk[w] \in {"run", "resumed"} /\ wk' = [wk EXCEPT ![w] = "died"]
          /\ running' = None /\ UNCHANGED <<queue, putters, getters, sub, sent>>
      BY <1>11 DEF WorkerDies
    <2> QED BY <1>0, <2>1, DoneWakes
  <1>12. ASSUME NEW w \in Workers, WorkerSuspend(w) PROVE WInv'
    <2>1. /\ running = w /\ wk[w] = "run" /\ wk' = [wk EXCEPT ![w] = "sink"] /\ running' = None
          /\ UNCHANGED <<ready, queue, putters, getters, sub, stp, sent>>
      BY <1>12 DEF WorkerSuspend, buffer
    <2>2. \A v \in Workers \ {w} : wk'[v] = wk[v]
      BY <1>0, <2>1 DEF TypeOK
    <2>3. w \notin Coming /\ w \notin Seekers
      BY <1>t, <2>1 DEF Coming, Seekers
    <2> QED BY <1>0, <1>t, <2>1, <2>2, <2>3, RunnerStep
  <1>13. ASSUME NEW w \in Workers, SinkReady(w) PROVE WInv'
    <2>1. /\ wk[w] = "sink" /\ wk' = [wk EXCEPT ![w] = "resumed"] /\ ready' = Append(ready, w)
          /\ UNCHANGED <<running, queue, putters, getters, sub, stp, sent>>
      BY <1>13 DEF SinkReady, buffer
    <2>2. wk'[w] = "resumed" /\ \A v \in Workers \ {w} : wk'[v] = wk[v]
      BY <1>0, <2>1 DEF TypeOK
    <2>3. ~Runnable(w) /\ ~In(putters, w) /\ ~In(getters, w)
      BY <1>0, <1>t, <2>1, WaitLists DEF WInv, Schedule
    <2> QED BY <1>0, <1>t, <2>1, <2>2, <2>3, ScheduleStep
  <1>14. CASE StopCall \/ GatherDone
    <2>1. /\ stp \in {"idle", "gathering"} /\ stp' \in {"called", "flushing"} /\ ready' = Append(ready, StopTask)
          /\ UNCHANGED <<running, queue, putters, getters, sub, wk, sent>>
      BY <1>14 DEF StopCall, GatherDone, buffer
    <2>2. ~Runnable(StopTask) /\ ~In(putters, StopTask) /\ ~In(getters, StopTask)
      BY <1>0, <1>t, <2>1, WaitLists DEF WInv, Schedule, Waiting
    <2> QED BY <1>0, <1>t, <2>1, <2>2, ScheduleStep
  <1>15. CASE StopBegin \/ StopGather \/ StopFlush \/ StopFlushFails \/ StopReturn
    <2>1. /\ running = StopTask /\ running' \in {running, None}
          /\ UNCHANGED <<ready, queue, putters, getters, sub, wk, sent>>
          /\ stp = "putting" => sent = NWorkers
      BY <1>15 DEF StopBegin, StopGather, StopFlush, StopFlushFails, StopReturn, buffer, loop
    <2>2. running' # None => stp' \in {"called", "putting", "flushing"}
      BY <1>15 DEF StopBegin, StopGather, StopFlush, StopFlushFails, StopReturn, buffer, loop
    <2>3. StopTask \notin Coming /\ StopTask \notin Seekers
      BY <1>t, <2>1 DEF Coming, Seekers, Waiting
    <2> QED BY <1>0, <1>t, <2>1, <2>2, <2>3, RunnerStep
  <1>16. CASE StopPut
    <2>1. /\ running = StopTask /\ PutNowait(SHUTDOWN) /\ stp = "putting" /\ sent' = sent + 1
          /\ UNCHANGED <<running, sub, wk, stp>>
      BY <1>16 DEF StopPut
    <2> QED BY <1>0, <1>t, <2>1, PutWakes
  <1>17. CASE StopPutWait
    <2>1. /\ running = StopTask /\ PutWait(StopTask) /\ stp = "putting" /\ sent < NWorkers /\ running' = None
          /\ UNCHANGED <<sub, wk, stp, sent>>
      BY <1>17 DEF StopPutWait
    <2> QED BY <1>0, <1>t, <2>1, WaitFull
  <1>18. CASE UNCHANGED vars
    <2>1. UNCHANGED <<ready, running, queue, putters, getters, sub, wk, stp, sent>>
      BY <1>18 DEF vars, loop, buffer
    <2> QED BY <2>1 DEF WInv, Schedule, SlotsAnnounced, ItemsAnnounced, Coming, Seekers,
                        Runnable, Waiting, In, Distinct
  <1> QED BY <1>1, <1>2, <1>3, <1>4, <1>5, <1>6, <1>7, <1>8, <1>9, <1>10, <1>11, <1>12, <1>13,
             <1>14, <1>15, <1>16, <1>17, <1>18 DEF Next, SubmitNext, WorkerNext, StopNext

LEMMA WakeupsCounted == TypeOK /\ WInv => NoLostWakeup
  <1> SUFFICES ASSUME TypeOK, WInv PROVE NoLostWakeup
    OBVIOUS
  <1> DEFINE Woken == {t \in Events \cup {StopTask} : Waiting(t) /\ Runnable(t)}
  <1>1. Woken \subseteq Coming \cup {StopTask} /\ Coming \subseteq Woken
    BY DEF Coming
  <1>2. IsFiniteSet(Coming \cup {StopTask})
    BY ComingFinite, FS_AddElement
  <1>3. IsFiniteSet(Woken) /\ Cardinality(Woken) \in Nat
    BY <1>1, <1>2, FS_Subset, FS_CardinalityType
  <1>4. Cardinality(Coming) <= Cardinality(Woken) /\ Cardinality(Coming) \in Nat
    BY <1>1, <1>3, ComingFinite, FS_Subset
  <1>5. putters # <<>> => Capacity - Len(queue) <= Cardinality(Woken)
    <2> HIDE DEF Woken
    <2> QED BY <1>3, <1>4, QueueLen DEF WInv, SlotsAnnounced
  <1> QED BY <1>5 DEF WInv, ItemsAnnounced, Seekers, NoLostWakeup

\* While a submitter or stop() waits for a slot, each free slot has been announced to a
\* task that is runnable and will try again; while a worker waits for an item, each
\* queued item has a runnable worker coming for it.  For any number of events, workers
\* and slots, and however the event loop interleaves them.
THEOREM WakeupsNeverLost == Spec => []NoLostWakeup
  <1>1. Init => Inv /\ WInv
    BY InvInit, WInvInit
  <1>2. Inv /\ WInv /\ [Next]_vars => Inv' /\ WInv'
    BY InvStep, WInvStep
  <1>3. Inv /\ WInv => NoLostWakeup
    BY WakeupsCounted DEF Inv
  <1> QED BY <1>1, <1>2, <1>3, PTL DEF Spec
-----------------------------------------------------------------------------
(* The final flush.                                                        *)

\* A stage has been flushed once if the walk has met it, and not at all otherwise;
\* stop() returns normally only at the end of the walk.
FlushCount ==
    /\ stp = "done" => flushed = Len(FlushList)
    /\ \A s \in Stages : flushes[s] = IF \E m \in 1..flushed : FlushList[m] = s THEN 1 ELSE 0

LEMMA FlushInit == Init => FlushCount
  BY DEF Init, FlushCount

LEMMA FlushStep == TypeOK /\ FlushCount /\ [Next]_vars => FlushCount'
  <1> SUFFICES ASSUME TypeOK, FlushCount, [Next]_vars PROVE FlushCount'
    OBVIOUS
  <1>1. CASE Start
    BY <1>1 DEF Start, FlushCount
  <1>2. CASE StopFlush
    <2> DEFINE k == flushed + 1
    <2>1. /\ stp' = "flushing" /\ flushed' = k /\ flushed \in Nat /\ k \in 1..Len(FlushList)
          /\ flushes' = IF Seen(k) THEN flushes ELSE [flushes EXCEPT ![FlushList[k]] = @ + 1]
      BY <1>2, FlushListLen DEF StopFlush, TypeOK
    <2>2. /\ Len(FlushList) \in Nat /\ DOMAIN FlushList = 1..Len(FlushList)
          /\ FlushList[k] \in Stages /\ flushes \in [Stages -> Nat]
      BY <2>1, LenProperties DEF TypeOK, Stages
    <2>3. Seen(k) <=> \E m \in 1..flushed : FlushList[m] = FlushList[k]
      BY <2>1 DEF Seen
    <2>4. ASSUME NEW s \in Stages
          PROVE  (\E m \in 1..k : FlushList[m] = s) <=> (\E m \in 1..flushed : FlushList[m] = s) \/ s = FlushList[k]
      <3>1. 1..k = 1..flushed \cup {k}
        BY <2>1
      <3> QED BY <3>1
    <2>5. ASSUME NEW s \in Stages
          PROVE  flushes'[s] = IF \E m \in 1..k : FlushList[m] = s THEN 1 ELSE 0
      <3>0. flushes[s] = IF \E m \in 1..flushed : FlushList[m] = s THEN 1 ELSE 0
        BY DEF FlushCount
      <3>1. CASE s = FlushList[k] /\ ~Seen(k)
        <4>1. flushes'[s] = flushes[s] + 1 /\ flushes[s] = 0
          BY <2>1, <2>2, <2>3, <3>0, <3>1
        <4> QED BY <2>4, <3>1, <4>1
      <3>2. CASE s = FlushList[k] /\ Seen(k)
        BY <2>1, <2>3, <2>4, <3>0, <3>2
      <3>3. CASE s # FlushList[k]
        <4>1. flushes'[s] = flushes[s]
          BY <2>1, <2>2, <3>3
        <4> QED BY <2>4, <3>0, <3>3, <4>1
      <3> QED BY <3>1, <3>2, <3>3
    <2> QED BY <2>1, <2>5 DEF FlushCount
  <1>3. CASE StopReturn
    BY <1>3 DEF StopReturn, flushing, FlushCount
  <1>4. CASE TaskDone /\ UNCHANGED flushing
    BY <1>4 DEF TaskDone, flushing, FlushCount
  <1>5. CASE stp' # "done" /\ UNCHANGED flushing
    BY <1>5 DEF flushing, FlushCount
  <1>6. CASE stp' = stp /\ UNCHANGED flushing
    BY <1>6 DEF flushing, FlushCount
  <1>7. \/ Start \/ StopFlush \/ StopReturn \/ (TaskDone /\ UNCHANGED flushing)
        \/ (stp' # "done" /\ UNCHANGED flushing) \/ (stp' = stp /\ UNCHANGED flushing)
    <2>1. CASE LoopPick \/ SubmitNext
      BY <2>1 DEF LoopPick, SubmitNext, Arrive, SubmitRejected, SubmitPut, SubmitWait
    <2>2. CASE WorkerNext
      BY <2>2 DEF WorkerNext, WorkerTake, WorkerWait, WorkerExit, WorkerSettle, WorkerDies,
                  WorkerSuspend, SinkReady
    <2>3. CASE StopNext
      BY <2>3 DEF StopNext, StopCall, StopBegin, StopPut, StopPutWait, StopGather, GatherDone,
                  StopFlushFails
    <2>4. CASE UNCHANGED vars
      BY <2>4 DEF vars
    <2> QED BY <2>1, <2>2, <2>3, <2>4 DEF Next
  <1> QED BY <1>1, <1>2, <1>3, <1>4, <1>5, <1>6, <1>7

\* A stop() that returned normally has flushed each distinct stage object exactly once,
\* for every way the workers' stage lists may share objects.
THEOREM StagesFlushedOnce == Spec => []FlushedExactlyOnce
  <1>1. Init => Inv /\ FlushCount
    BY InvInit, FlushInit
  <1>2. Inv /\ FlushCount /\ [Next]_vars => Inv' /\ FlushCount'
    BY InvStep, FlushStep DEF Inv
  <1>3. Inv /\ FlushCount => FlushedExactlyOnce
    <2>1. ASSUME FlushCount, stp = "done", NEW s \in Stages PROVE flushes[s] = 1
      <3>1. DOMAIN FlushList = 1..Len(FlushList) /\ flushed = Len(FlushList)
        BY <2>1, LenProperties DEF FlushCount
      <3>2. \E m \in 1..flushed : FlushList[m] = s
        BY <3>1 DEF Stages
      <3> QED BY <2>1, <3>2 DEF FlushCount
    <2> QED BY <2>1 DEF FlushedExactlyOnce
  <1> QED BY <1>1, <1>2, <1>3, PTL DEF Spec
=============================================================================
