------------------------------ MODULE Pipeline ------------------------------
(***************************************************************************)
(* The pipeline orchestrator in its default, shared-queue topology         *)
(* (ulpf/core/pipeline.py over ulpf/ingest/queue.py): submitters block on a *)
(* bounded asyncio queue, a pool of worker tasks runs each event through   *)
(* the stages, and stop() drains the queue, wakes the workers with one     *)
(* sentinel each, waits for them and flushes the stages.                   *)
(*                                                                         *)
(* Everything runs on ONE asyncio event loop, and what that loop does is   *)
(* part of the model: tasks made runnable are served in the order of       *)
(* `ready', one at a time (`running'), and a task keeps the loop until it  *)
(* awaits something that is not available.  A queue slot freed by a worker *)
(* is announced to the first waiting submitter but not reserved for it.    *)
(***************************************************************************)
EXTENDS Integers, Sequences, FiniteSets

CONSTANTS
    Events,          \* the RawEvents handed to submit(), one submitting task each
    NWorkers,        \* settings.pipeline.worker_count
    Capacity,        \* settings.ingest.queue_max_size
    FlushList,       \* the flushable stage objects of all worker stage lists, in order
    StopTask,        \* the task that runs Pipeline.stop()
    SHUTDOWN,        \* the sentinel _SHUTDOWN
    None,            \* no task / no item
    MaxStarts,       \* bound: how often start() is called
    MaxDlqFailures,  \* bound: how many DeadLetterQueue.write calls raise
    MaxFlushFailures \* bound: how many stage flushes raise at shutdown

Workers == 1..NWorkers
Tasks   == Events \cup Workers \cup {StopTask}
Items   == Events \cup {SHUTDOWN}
Stages  == {FlushList[i] : i \in DOMAIN FlushList}

ASSUME PipelineAssumption ==
    /\ NWorkers \in Nat \ {0}
    /\ Capacity \in Nat \ {0}
    /\ FlushList \in Seq(Stages)
    /\ MaxStarts \in Nat
    /\ MaxDlqFailures \in Nat
    /\ MaxFlushFailures \in Nat
    /\ Events \cap Workers = {}
    /\ {StopTask, SHUTDOWN, None} \cap (Events \cup Workers) = {}
    /\ StopTask # None
    /\ SHUTDOWN # None

VARIABLES
    ready,       \* the loop's FIFO of runnable tasks
    running,     \* the task that has the loop, or None
    queue,       \* the bounded queue's items
    unfinished,  \* asyncio.Queue._unfinished_tasks
    putters,     \* tasks waiting for a slot, oldest first
    getters,     \* workers waiting for an item, oldest first
    sub,         \* Events -> where its submit() call is
    wk,          \* Workers -> where the worker task is
    item,        \* Workers -> the item it took and has not marked done
    out,         \* Events -> what became of an event a worker took
    stopped,     \* Pipeline._stopped
    stp,         \* where the stop() call is
    sent,        \* sentinels put by stop()
    flushed,     \* how far _flush_stages has walked FlushList
    flushes,     \* Stages -> number of flush() calls in this shutdown
    inTime,      \* history: events enqueued while the pipeline was not stopped
    starts, dlqFailures, flushFailures   \* counters for the bounds

loop     == <<ready, running>>
buffer   == <<queue, unfinished, putters, getters>>
counters == <<starts, dlqFailures, flushFailures>>
flushing == <<flushed, flushes>>
vars     == <<loop, buffer, sub, wk, item, out, stopped, stp, sent, flushing,
              inTime, counters>>

SubStates  == {"idle", "called", "waiting", "enqueued", "rejected"}
WkStates   == {"off", "get", "run", "sink", "resumed", "exited", "died"}
StopStates == {"idle", "called", "joining", "putting", "gathering", "flushing",
               "done", "failed"}
Fates      == {"none", "delivered", "dropped", "dead", "lost"}

Full      == Len(queue) >= Capacity
Ended(w)  == wk[w] \in {"off", "exited", "died"}
AllEnded  == \A w \in Workers : Ended(w)
Settled(e) == out[e] # "none"

Init ==
    /\ ready = <<>> /\ running = None
    /\ queue = <<>> /\ unfinished = 0 /\ putters = <<>> /\ getters = <<>>
    /\ sub = [e \in Events |-> "idle"]
    /\ wk = [w \in Workers |-> "off"]
    /\ item = [w \in Workers |-> None]
    /\ out = [e \in Events |-> "none"]
    /\ stopped = FALSE /\ stp = "idle" /\ sent = 0
    /\ flushed = 0 /\ flushes = [s \in Stages |-> 0]
    /\ inTime = {}
    /\ starts = 0 /\ dlqFailures = 0 /\ flushFailures = 0

-----------------------------------------------------------------------------
(* The event loop and the queue's primitives.                              *)

\* The loop picks the next runnable task.
LoopPick ==
    /\ running = None
    /\ ready # <<>>
    /\ running' = Head(ready)
    /\ ready' = Tail(ready)
    /\ UNCHANGED <<buffer, sub, wk, item, out, stopped, stp, sent, flushing,
                   inTime, counters>>

\* Mutant: the waiter is dropped from its list but never made runnable.
WakeNobody(q) == <<>>

\* Queue._wakeup_next: the first waiter of q, if any, becomes runnable.
WakeNext(q) == IF q = <<>> THEN <<>> ELSE <<Head(q)>>
Rest(q)     == IF q = <<>> THEN <<>> ELSE Tail(q)

\* put_nowait(x) with room: count it and announce it to one waiting worker.
PutNowait(x) ==
    /\ ~Full
    /\ queue' = Append(queue, x)
    /\ unfinished' = unfinished + 1
    /\ ready' = ready \o WakeNext(getters)
    /\ getters' = Rest(getters)
    /\ UNCHANGED putters

\* The slow path of put_with_backpressure: the queue is full, so wait.
PutWait(t) ==
    /\ Full
    /\ putters' = Append(putters, t)
    /\ UNCHANGED <<ready, queue, unfinished, getters>>

\* Mutant: a worker path that forgets task_done().
TaskDoneForgotten ==
    UNCHANGED <<unfinished, ready, stp>>

\* Mutant: the count reaches zero and join() is not told.
TaskDoneSilent ==
    /\ unfinished' = unfinished - 1
    /\ UNCHANGED <<ready, stp>>

\* Mutant: task_done() both after the stages and in the finally clause.
TaskDoneTwice ==
    /\ unfinished' = unfinished - 2
    /\ IF unfinished \in {1, 2} /\ stp = "joining"
         THEN ready' = Append(ready, StopTask) /\ stp' = "putting"
         ELSE UNCHANGED <<ready, stp>>

\* task_done(): the call that brings the count to zero wakes a waiting join().
TaskDone ==
    /\ unfinished' = unfinished - 1
    /\ IF unfinished = 1 /\ stp = "joining"
         THEN ready' = Append(ready, StopTask) /\ stp' = "putting"
         ELSE UNCHANGED <<ready, stp>>

-----------------------------------------------------------------------------
(* start() and submit().                                                   *)

\* start(): a worker task per worker, all runnable; refused while workers exist.
Start ==
    /\ running = None
    /\ starts < MaxStarts
    /\ AllEnded
    /\ stp \in (IF starts = 0 THEN {"idle"} ELSE {"done", "failed"})
    /\ starts' = starts + 1
    /\ wk' = [w \in Workers |-> "get"]
    /\ ready' = ready \o [w \in Workers |-> w]
    /\ stopped' = FALSE /\ stp' = "idle" /\ sent' = 0
    /\ flushed' = 0 /\ flushes' = [s \in Stages |-> 0]
    /\ UNCHANGED <<running, buffer, sub, item, out, inTime, dlqFailures, flushFailures>>

\* A listener calls submit(e) from a task of its own.
Arrive(e) ==
    /\ running = None
    /\ starts > 0
    /\ sub[e] = "idle"
    /\ sub' = [sub EXCEPT ![e] = "called"]
    /\ ready' = Append(ready, e)
    /\ UNCHANGED <<running, buffer, wk, item, out, stopped, stp, sent, flushing,
                   inTime, counters>>

\* submit() on a stopped pipeline raises PipelineStoppedError.
SubmitRejected(e) ==
    /\ running = e /\ sub[e] = "called"
    /\ stopped
    /\ sub' = [sub EXCEPT ![e] = "rejected"]
    /\ running' = None
    /\ UNCHANGED <<ready, buffer, wk, item, out, stopped, stp, sent, flushing,
                   inTime, counters>>

\* submit() puts the event, at once or when its wait for a slot is over.  The
\* stopped flag is looked at only before the first attempt.
SubmitPut(e) ==
    /\ running = e
    /\ \/ sub[e] = "called" /\ ~stopped
       \/ sub[e] = "waiting"
    /\ PutNowait(e)
    /\ sub' = [sub EXCEPT ![e] = "enqueued"]
    /\ inTime' = IF stopped THEN inTime ELSE inTime \cup {e}
    /\ running' = None
    /\ UNCHANGED <<wk, item, out, stopped, stp, sent, flushing, counters>>

\* submit() finds the queue full, the first time or again after a wake-up
\* that another task was quicker to use, and waits behind the other waiters.
SubmitWait(e) ==
    /\ running = e
    /\ \/ sub[e] = "called" /\ ~stopped
       \/ sub[e] = "waiting"
    /\ PutWait(e)
    /\ sub' = [sub EXCEPT ![e] = "waiting"]
    /\ running' = None
    /\ UNCHANGED <<wk, item, out, stopped, stp, sent, flushing, inTime, counters>>

-----------------------------------------------------------------------------
(* A worker: _worker_shared and _run_stages.                               *)

\* Mutant: the item is handed out but stays in the queue.
WorkerPeek(w) ==
    /\ running = w /\ wk[w] = "get"
    /\ queue # <<>>
    /\ item' = [item EXCEPT ![w] = Head(queue)]
    /\ ready' = ready \o WakeNext(putters)
    /\ putters' = Rest(putters)
    /\ wk' = [wk EXCEPT ![w] = "run"]
    /\ UNCHANGED <<running, queue, unfinished, getters, sub, out, stopped, stp, sent,
                   flushing, inTime, counters>>

\* queue.get() with an item there: take it and announce the free slot.
WorkerTake(w) ==
    /\ running = w /\ wk[w] = "get"
    /\ queue # <<>>
    /\ item' = [item EXCEPT ![w] = Head(queue)]
    /\ queue' = Tail(queue)
    /\ ready' = ready \o WakeNext(putters)
    /\ putters' = Rest(putters)
    /\ wk' = [wk EXCEPT ![w] = "run"]
    /\ UNCHANGED <<running, unfinished, getters, sub, out, stopped, stp, sent,
                   flushing, inTime, counters>>

\* queue.get() on an empty queue, the first time or after a vain wake-up.
WorkerWait(w) ==
    /\ running = w /\ wk[w] = "get"
    /\ queue = <<>>
    /\ getters' = Append(getters, w)
    /\ running' = None
    /\ UNCHANGED <<ready, queue, unfinished, putters, sub, wk, item, out, stopped,
                   stp, sent, flushing, inTime, counters>>

\* The item is the sentinel: return, marking it done on the way out.
WorkerExit(w) ==
    /\ running = w /\ wk[w] = "run" /\ item[w] = SHUTDOWN
    /\ TaskDone
    /\ wk' = [wk EXCEPT ![w] = "exited"]
    /\ item' = [item EXCEPT ![w] = None]
    /\ running' = None
    /\ UNCHANGED <<queue, putters, getters, sub, out, stopped, sent, flushing,
                   inTime, counters>>

\* _run_stages is over for the event: it reached the end of the chain, a stage
\* returned None, or a stage raised and the event was dead-lettered.
WorkerSettle(w) ==
    /\ running = w /\ wk[w] \in {"run", "resumed"} /\ item[w] \in Events
    /\ \E fate \in {"delivered", "dropped", "dead"} :
          out' = [out EXCEPT ![item[w]] = fate]
    /\ TaskDone
    /\ wk' = [wk EXCEPT ![w] = "get"]
    /\ item' = [item EXCEPT ![w] = None]
    /\ UNCHANGED <<running, queue, putters, getters, sub, stopped, sent, flushing,
                   inTime, counters>>

\* A stage raised and writing the dead letter raises too (a full disk): the
\* exception leaves _run_stages and ends the worker, through its finally.
WorkerDies(w) ==
    /\ running = w /\ wk[w] \in {"run", "resumed"} /\ item[w] \in Events
    /\ dlqFailures < MaxDlqFailures
    /\ dlqFailures' = dlqFailures + 1
    /\ out' = [out EXCEPT ![item[w]] = "lost"]
    /\ TaskDone
    /\ wk' = [wk EXCEPT ![w] = "died"]
    /\ item' = [item EXCEPT ![w] = None]
    /\ running' = None
    /\ UNCHANGED <<queue, putters, getters, sub, stopped, sent, flushing, inTime,
                   starts, flushFailures>>

\* The event reached a stage that awaits (the sinks): the loop is free meanwhile.
WorkerSuspend(w) ==
    /\ running = w /\ wk[w] = "run" /\ item[w] \in Events
    /\ wk' = [wk EXCEPT ![w] = "sink"]
    /\ running' = None
    /\ UNCHANGED <<ready, buffer, sub, item, out, stopped, stp, sent, flushing,
                   inTime, counters>>

\* The awaited sink writes are done: from a thread, so at any moment.
SinkReady(w) ==
    /\ wk[w] = "sink"
    /\ wk' = [wk EXCEPT ![w] = "resumed"]
    /\ ready' = Append(ready, w)
    /\ UNCHANGED <<running, buffer, sub, item, out, stopped, stp, sent, flushing,
                   inTime, counters>>

-----------------------------------------------------------------------------
(* stop().                                                                 *)

StopCall ==
    /\ running = None
    /\ starts > 0 /\ stp = "idle"
    /\ stp' = "called"
    /\ ready' = Append(ready, StopTask)
    /\ UNCHANGED <<running, buffer, sub, wk, item, out, stopped, sent, flushing,
                   inTime, counters>>

\* Refuse new events from here on, then join(): waits only if work is pending.
StopBegin ==
    /\ running = StopTask /\ stp = "called"
    /\ stopped' = TRUE
    /\ IF unfinished > 0
         THEN stp' = "joining" /\ running' = None
         ELSE stp' = "putting" /\ UNCHANGED running
    /\ UNCHANGED <<ready, buffer, sub, wk, item, out, sent, flushing, inTime, counters>>

\* One sentinel per worker, through the same bounded queue.
StopPut ==
    /\ running = StopTask /\ stp = "putting" /\ sent < NWorkers
    /\ PutNowait(SHUTDOWN)
    /\ sent' = sent + 1
    /\ UNCHANGED <<running, sub, wk, item, out, stopped, stp, flushing, inTime, counters>>

StopPutWait ==
    /\ running = StopTask /\ stp = "putting" /\ sent < NWorkers
    /\ PutWait(StopTask)
    /\ running' = None
    /\ UNCHANGED <<sub, wk, item, out, stopped, stp, sent, flushing, inTime, counters>>

StopGather ==
    /\ running = StopTask /\ stp = "putting" /\ sent = NWorkers
    /\ stp' = "gathering"
    /\ running' = None
    /\ UNCHANGED <<ready, buffer, sub, wk, item, out, stopped, sent, flushing,
                   inTime, counters>>

\* Mutant: the workers are not awaited before the flush.
GatherNotAwaited ==
    /\ stp = "gathering"
    /\ stp' = "flushing"
    /\ ready' = Append(ready, StopTask)
    /\ UNCHANGED <<running, buffer, sub, wk, item, out, stopped, sent, flushing,
                   inTime, counters>>

\* gather(return_exceptions=True): every worker has ended, in either way.
GatherDone ==
    /\ stp = "gathering" /\ AllEnded
    /\ stp' = "flushing"
    /\ ready' = Append(ready, StopTask)
    /\ UNCHANGED <<running, buffer, sub, wk, item, out, stopped, sent, flushing,
                   inTime, counters>>

\* Mutant: shared stage objects are not recognised.
SeenNever(n) == FALSE

\* The next object of the worker stage lists, flushed unless seen before.
Seen(n) == \E m \in 1..(n - 1) : FlushList[m] = FlushList[n]

StopFlush ==
    /\ running = StopTask /\ stp = "flushing" /\ flushed < Len(FlushList)
    /\ flushed' = flushed + 1
    /\ flushes' = IF Seen(flushed + 1) THEN flushes
                  ELSE [flushes EXCEPT ![FlushList[flushed + 1]] = @ + 1]
    /\ UNCHANGED <<loop, buffer, sub, wk, item, out, stopped, stp, sent, inTime, counters>>

\* A flush raises: stop() ends there, the later stages are not flushed.
StopFlushFails ==
    /\ running = StopTask /\ stp = "flushing" /\ flushed < Len(FlushList)
    /\ ~Seen(flushed + 1)
    /\ flushFailures < MaxFlushFailures
    /\ flushFailures' = flushFailures + 1
    /\ stp' = "failed"
    /\ running' = None
    /\ UNCHANGED <<ready, buffer, sub, wk, item, out, stopped, sent, flushing,
                   inTime, starts, dlqFailures>>

StopReturn ==
    /\ running = StopTask /\ stp = "flushing" /\ flushed = Len(FlushList)
    /\ stp' = "done"
    /\ running' = None
    /\ UNCHANGED <<ready, buffer, sub, wk, item, out, stopped, sent, flushing,
                   inTime, counters>>

-----------------------------------------------------------------------------
SubmitNext == \E e \in Events :
    Arrive(e) \/ SubmitRejected(e) \/ SubmitPut(e) \/ SubmitWait(e)

WorkerNext == \E w \in Workers :
    \/ WorkerTake(w) \/ WorkerWait(w) \/ WorkerExit(w) \/ WorkerSettle(w)
    \/ WorkerDies(w) \/ WorkerSuspend(w) \/ SinkReady(w)

StopNext ==
    \/ StopCall \/ StopBegin \/ StopPut \/ StopPutWait \/ StopGather
    \/ GatherDone \/ StopFlush \/ StopFlushFails \/ StopReturn

Next == LoopPick \/ Start \/ SubmitNext \/ WorkerNext \/ StopNext

Spec == Init /\ [][Next]_vars

\* The loop runs what is runnable, a task that has it goes on to its next
\* await, sink I/O completes and a finished gather() is noticed.  Nobody is
\* obliged to submit, to start or to stop, and no failure is obliged to happen.
TaskStep(t) ==
    \/ t \in Events  /\ (SubmitRejected(t) \/ SubmitPut(t) \/ SubmitWait(t))
    \/ t \in Workers /\ (WorkerTake(t) \/ WorkerWait(t) \/ WorkerExit(t) \/ WorkerSettle(t))
    \/ t = StopTask  /\ (StopBegin \/ StopPut \/ StopPutWait \/ StopGather
                         \/ StopFlush \/ StopReturn)

Fairness ==
    /\ WF_vars(LoopPick)
    /\ WF_vars(\E t \in Tasks : TaskStep(t))
    /\ \A w \in Workers : WF_vars(SinkReady(w))
    /\ WF_vars(GatherDone)

FairSpec == Spec /\ Fairness

-----------------------------------------------------------------------------
(* Properties.                                                             *)

TypeOK ==
    /\ ready \in Seq(Tasks) /\ running \in Tasks \cup {None}
    /\ queue \in Seq(Items) /\ unfinished \in Nat
    /\ putters \in Seq(Events \cup {StopTask}) /\ getters \in Seq(Workers)
    /\ sub \in [Events -> SubStates]
    /\ wk \in [Workers -> WkStates]
    /\ item \in [Workers -> Items \cup {None}]
    /\ out \in [Events -> Fates]
    /\ stopped \in BOOLEAN /\ stp \in StopStates /\ sent \in 0..NWorkers
    /\ flushed \in 0..Len(FlushList) /\ flushes \in [Stages -> Nat]
    /\ inTime \subseteq Events
    /\ starts \in 0..MaxStarts
    /\ dlqFailures \in 0..MaxDlqFailures /\ flushFailures \in 0..MaxFlushFailures

InQueue(e)    == \E i \in DOMAIN queue : queue[i] = e
Held(e)       == \E w \in Workers : item[w] = e
Busy          == {w \in Workers : item[w] # None}

\* An event whose submit() returned is in exactly one place until it is
\* settled (one queue slot or one worker's hands), and in none afterwards: the
\* worker pool neither loses nor duplicates an event, whatever the interleaving.
PlacedOnce ==
    /\ \A e \in Events :
         /\ (InQueue(e) \/ Held(e)) <=> (sub[e] = "enqueued" /\ ~Settled(e))
         /\ ~(InQueue(e) /\ Held(e))
         /\ Settled(e) => sub[e] = "enqueued"
    /\ \A i, j \in DOMAIN queue : queue[i] = queue[j] /\ queue[i] \in Events => i = j
    /\ \A v, w \in Workers : item[v] = item[w] /\ item[v] \in Events => v = w

\* The queue never exceeds its size, and asyncio's unfinished count is exactly
\* the items queued plus the items taken and not marked done: task_done never
\* raises and join() returns neither early nor late.
UnfinishedExact ==
    /\ Len(queue) <= Capacity
    /\ unfinished = Len(queue) + Cardinality(Busy)

Runnable(t) == running = t \/ \E i \in DOMAIN ready : ready[i] = t
Waiting(t)  == IF t = StopTask THEN stp = "putting" ELSE sub[t] = "waiting"

\* No lost wake-up at the bounded queue: while a task waits for a slot, every
\* free slot has been announced to a waiter that is runnable; while a worker
\* waits for an item, every queued item has a runnable worker coming for it.
NoLostWakeup ==
    /\ putters # <<>> =>
         Capacity - Len(queue) <=
            Cardinality({t \in Events \cup {StopTask} : Waiting(t) /\ Runnable(t)})
    /\ getters # <<>> =>
         Len(queue) <= Cardinality({w \in Workers : wk[w] = "get" /\ Runnable(w)})

\* When stop() begins to flush, every worker has ended, no item is held, and
\* every event enqueued before stop() was called has been settled: no event
\* of those can reach a stage after that stage's final flush.
DrainedBeforeFlush ==
    stp \in {"flushing", "done", "failed"} =>
        /\ AllEnded
        /\ \A w \in Workers : item[w] = None
        /\ \A e \in inTime : Settled(e)

\* stop() that returned normally has flushed each distinct stage object once,
\* however many worker stage lists share it.
FlushedExactlyOnce == stp = "done" => \A s \in Stages : flushes[s] = 1

\* An event's fate, once decided, never changes: no event is delivered twice or
\* dead-lettered after having been delivered.
FateIsFinal == [][\A e \in Events : Settled(e) => out'[e] = out[e]]_vars

\* What the module docstring promises of shared-mode shutdown: when stop() has
\* returned, no accepted event is left in the queue.
NoItemAbandoned == stp = "done" => \A e \in Events : ~InQueue(e)

\* An event enqueued before shutdown is eventually settled.
EnqueuedSettles ==
    \A e \in Events : (e \in inTime) ~> Settled(e)

\* A call of stop() eventually returns, with an error when a stage's flush failed,
\* unless a failing dead letter has ended a worker: stop() still puts one sentinel per
\* worker, and waits on a full queue when the workers left have taken theirs.  The
\* sentinel of a dead worker may even outlive its stop() and end a worker of the next start.
StopReturns ==
    (stp = "called") ~> \/ stp \in {"done", "failed"}
                        \/ dlqFailures > 0
=============================================================================
