----------------------------- MODULE ClickHouseSink -----------------------------
(***************************************************************************)
(* The ClickHouse sink (src/ulpf/sinks/clickhouse_sink.py): writers, the   *)
(* timer and close() deliver batches one at a time under the flush lock;   *)
(* a batch leaves the buffer when it was delivered or, on a 4xx answer,      *)
(* spooled to a file.  The spool is read back at the next start.  The      *)
(* server may get a batch although the request fails: the table is a set   *)
(* because ReplacingMergeTree folds duplicates.                            *)
(***************************************************************************)
EXTENDS Naturals, Sequences, FiniteSets, SequencesExt

CONSTANTS ChRows, ChWriters, ChTimer, ChCloser,
          BatchRows, MaxBuffer,   \* batch_rows, max_buffer_rows
          ChMaxRetries,             \* max_retries
          ChMaxFailures,            \* bound on retryable failures
          MaxFatal,               \* bound on 4xx answers
          MaxSpoolErrors,         \* bound on spool files that cannot be written
          ChMaxStarts               \* bound on process starts
\* The batch and buffer limits are positive counts, the writers are a pool of workers.
ASSUME ChAssumption ==
  /\ BatchRows \in Nat \ {0} /\ MaxBuffer \in Nat \ {0} /\ ChMaxRetries \in Nat
  /\ IsFiniteSet(ChWriters) /\ ChTimer \notin ChWriters /\ ChCloser \notin ChWriters \cup {ChTimer}
  /\ "nobody" \notin ChWriters \cup {ChTimer, ChCloser}

VARIABLES chUp,      \* "down", "up", "closing"
          chBuffer,    \* _buffer
          spool,     \* rows in the spool files
          table,     \* rows the server has
          chAt,        \* each task: "idle", "drain" (for the lock), "post", "dead"
          chLock,      \* holder of _flush_lock, or nobody
          chTake,      \* rows of the batch being delivered
          chAttempt,   \* attempt number of that batch
          rounds,    \* drains close() has done
          reloaded,  \* rows read back from the spool at the last start
          chTaken, chLost,            \* rows accepted; rows gone with a process
          chStarts, chCrashes, chFailures, fatals, spoolErrors
chCounts == <<chStarts, chCrashes, chFailures, fatals, spoolErrors>>
chVars == <<chUp, chBuffer, spool, table, chAt, chLock, chTake, chAttempt, rounds, reloaded, chTaken, chLost, chCounts>>

ChTasks == ChWriters \cup {ChTimer, ChCloser}
ChNobody == "nobody"
ChBatch == ToSet(SubSeq(chBuffer, 1, chTake))
ChRest == SubSeq(chBuffer, chTake + 1, Len(chBuffer))
ChQuiet == [t \in ChTasks |-> "idle"]

ClickHouseInit == /\ chUp = "down" /\ chBuffer = <<>> /\ spool = {} /\ table = {}
        /\ chAt = ChQuiet /\ chLock = ChNobody /\ chTake = 0 /\ chAttempt = 0 /\ rounds = 0
        /\ reloaded = 0 /\ chTaken = {} /\ chLost = {}
        /\ chStarts = 0 /\ chCrashes = 0 /\ chFailures = 0 /\ fatals = 0 /\ spoolErrors = 0

\* Mutant: the spool is left out at start and overwritten later.
StartForgets ==
  /\ chUp = "down" /\ chStarts < ChMaxStarts
  /\ chUp' = "up" /\ chStarts' = chStarts + 1 /\ spool' = {} /\ reloaded' = 0
  /\ UNCHANGED <<chBuffer, table, chAt, chLock, chTake, chAttempt, rounds, chTaken, chLost, chCrashes, chFailures, fatals, spoolErrors>>

\* start(): every spool file is read into the buffer and unlinked.
ChStart ==
  /\ chUp = "down" /\ chStarts < ChMaxStarts
  /\ chUp' = "up" /\ chStarts' = chStarts + 1
  /\ chBuffer' = SetToSeq(spool) /\ spool' = {} /\ reloaded' = Cardinality(spool)
  /\ UNCHANGED <<table, chAt, chLock, chTake, chAttempt, rounds, chTaken, chLost, chCrashes, chFailures, fatals, spoolErrors>>

\* Where a task goes when _drain_once is over: a writer drains again while the
\* buffer is full, the timer sleeps, close() goes round up to max_retries + 2 times.
AfterDrain(t, buf) ==
  CASE t \in ChWriters -> IF Len(buf) >= MaxBuffer THEN "drain" ELSE "idle"
    [] t = ChTimer     -> "idle"
    [] t = ChCloser    -> IF buf # <<>> /\ rounds < ChMaxRetries + 2 THEN "drain" ELSE "finish"

\* write(): the row is buffered, then a drain at batch_rows, then more until there is room.
ChWrite(t, r) ==
  /\ chUp = "up" /\ chAt[t] = "idle" /\ r \notin chTaken
  /\ chBuffer' = Append(chBuffer, r) /\ chTaken' = chTaken \cup {r}
  /\ chAt' = [chAt EXCEPT ![t] = IF Len(chBuffer') >= BatchRows \/ Len(chBuffer') >= MaxBuffer
                             THEN "drain" ELSE "idle"]
  /\ UNCHANGED <<chUp, spool, table, chLock, chTake, chAttempt, rounds, reloaded, chLost, chCounts>>

\* _timer_loop: the sleep is over and there are rows.
TimerFires ==
  /\ chUp = "up" /\ chAt[ChTimer] = "idle" /\ chBuffer # <<>>
  /\ chAt' = [chAt EXCEPT ![ChTimer] = "drain"]
  /\ UNCHANGED <<chUp, chBuffer, spool, table, chLock, chTake, chAttempt, rounds, reloaded, chTaken, chLost, chCounts>>

\* _drain_once: the lock, then the first batch_rows rows; an empty buffer ends it.
ChAcquire(t) ==
  /\ chAt[t] = "drain" /\ chLock = ChNobody
  /\ rounds' = IF t = ChCloser THEN rounds + 1 ELSE rounds
  /\ IF chBuffer = <<>>
     THEN chAt' = [chAt EXCEPT ![t] = AfterDrain(t, chBuffer)] /\ UNCHANGED <<chLock, chTake, chAttempt>>
     ELSE /\ chLock' = t /\ chAttempt' = 0 /\ chAt' = [chAt EXCEPT ![t] = "post"]
          /\ chTake' = IF Len(chBuffer) < BatchRows THEN Len(chBuffer) ELSE BatchRows
  /\ UNCHANGED <<chUp, chBuffer, spool, table, reloaded, chTaken, chLost, chCounts>>

ChRelease(t, buf) == chLock' = ChNobody /\ chTake' = 0 /\ chAttempt' = 0 /\ chAt' = [chAt EXCEPT ![t] = AfterDrain(t, buf)]

\* The server has taken the batch: its rows leave the buffer.
Delivered(t) ==
  /\ chAt[t] = "post" /\ table' = table \cup ChBatch /\ chBuffer' = ChRest
  /\ ChRelease(t, ChRest)
  /\ UNCHANGED <<chUp, spool, rounds, reloaded, chTaken, chLost, chCounts>>

\* Mutant: the batch is removed although its last chAttempt failed.
RetryableDrops(t, landed) ==
  /\ chAt[t] = "post" /\ chFailures < ChMaxFailures /\ chFailures' = chFailures + 1
  /\ table' = IF landed THEN table \cup ChBatch ELSE table
  /\ IF chAttempt >= ChMaxRetries
     THEN ChRelease(t, ChRest) /\ chBuffer' = ChRest
     ELSE chAttempt' = chAttempt + 1 /\ UNCHANGED <<chAt, chLock, chTake, chBuffer>>
  /\ UNCHANGED <<chUp, spool, rounds, reloaded, chTaken, chLost, chStarts, chCrashes, fatals, spoolErrors>>

\* A transport error, 429 or 5xx, of the insert or of the table's DDL: again after
\* a pause, or the rows stay for later.
Retryable(t, landed) ==
  /\ chAt[t] = "post" /\ chFailures < ChMaxFailures /\ chFailures' = chFailures + 1
  /\ table' = IF landed THEN table \cup ChBatch ELSE table
  /\ IF chAttempt >= ChMaxRetries
     THEN ChRelease(t, chBuffer)
     ELSE chAttempt' = chAttempt + 1 /\ UNCHANGED <<chAt, chLock, chTake>>
  /\ UNCHANGED <<chUp, chBuffer, spool, rounds, reloaded, chTaken, chLost, chStarts, chCrashes, fatals, spoolErrors>>

\* A 4xx answer: the batch is spooled and leaves the buffer.
Fatal(t) ==
  /\ chAt[t] = "post" /\ fatals < MaxFatal /\ fatals' = fatals + 1
  /\ spool' = spool \cup ChBatch /\ chBuffer' = ChRest /\ ChRelease(t, ChRest)
  /\ UNCHANGED <<chUp, table, rounds, reloaded, chTaken, chLost, chStarts, chCrashes, chFailures, spoolErrors>>

\* The spool file cannot be written: the exception leaves _drain_once with the rows
\* still buffered.  A writer's event is counted as failed; it ends the timer.
SpoolRaises(t) ==
  /\ chAt[t] = "post" /\ t # ChCloser /\ fatals < MaxFatal /\ fatals' = fatals + 1
  /\ spoolErrors < MaxSpoolErrors /\ spoolErrors' = spoolErrors + 1
  /\ chLock' = ChNobody /\ chTake' = 0 /\ chAttempt' = 0
  /\ chAt' = [chAt EXCEPT ![t] = IF t = ChTimer THEN "dead" ELSE "idle"]
  /\ UNCHANGED <<chUp, chBuffer, spool, table, rounds, reloaded, chTaken, chLost, chStarts, chCrashes, chFailures>>

\* The buffer is gone with the process.
Vanish == /\ chUp' = "down" /\ chBuffer' = <<>> /\ chAt' = ChQuiet /\ chLock' = ChNobody /\ chTake' = 0 /\ chAttempt' = 0
          /\ rounds' = 0 /\ chLost' = chLost \cup ToSet(chBuffer) /\ chCrashes' = chCrashes + 1

\* close(), when the pipeline's workers have ended: the timer is cancelled wherever
\* it is (its request may have gone out), then drains follow.
CloseBegin(landed) ==
  /\ chUp = "up" /\ \A t \in ChWriters : chAt[t] = "idle"
  /\ chAt[ChTimer] # "dead"
  /\ table' = IF landed /\ chLock = ChTimer THEN table \cup ChBatch ELSE table
  /\ chLock' = ChNobody /\ chTake' = 0 /\ chAttempt' = 0 /\ chUp' = "closing"
  /\ chAt' = [chAt EXCEPT ![ChTimer] = "idle", ![ChCloser] = IF chBuffer = <<>> THEN "finish" ELSE "drain"]
  /\ UNCHANGED <<chBuffer, spool, rounds, reloaded, chTaken, chLost, chCounts>>

\* A timer that ended with an exception raises it in close(), and so does a spool
\* file that close() cannot write: what is in memory is neither delivered nor spooled.
CloseRaises ==
  /\ \/ /\ chUp = "up" /\ \A t \in ChWriters : chAt[t] = "idle"
        /\ chAt[ChTimer] = "dead" /\ UNCHANGED <<fatals, spoolErrors>>
     \/ /\ spoolErrors < MaxSpoolErrors /\ spoolErrors' = spoolErrors + 1
        /\ \/ chAt[ChCloser] = "post" /\ fatals < MaxFatal /\ fatals' = fatals + 1
           \/ chAt[ChCloser] = "finish" /\ chBuffer # <<>> /\ UNCHANGED fatals
  /\ Vanish /\ UNCHANGED <<spool, table, reloaded, chTaken, chStarts, chFailures>>

\* What close() could not deliver is spooled.
CloseEnd ==
  /\ chAt[ChCloser] = "finish" /\ chUp' = "down"
  /\ spool' = spool \cup ToSet(chBuffer) /\ chBuffer' = <<>>
  /\ chAt' = ChQuiet /\ rounds' = 0
  /\ UNCHANGED <<table, chLock, chTake, chAttempt, reloaded, chTaken, chLost, chCounts>>

ClickHouseCrash ==
  /\ chUp # "down" /\ chStarts < ChMaxStarts /\ Vanish
  /\ UNCHANGED <<spool, table, reloaded, chTaken, chStarts, chFailures, fatals, spoolErrors>>

ChDrain(t) == ChAcquire(t) \/ Delivered(t) \/ (\E l \in BOOLEAN : Retryable(t, l)) \/ Fatal(t) \/ SpoolRaises(t)
ClickHouseNext == \/ ChStart \/ TimerFires \/ (\E l \in BOOLEAN : CloseBegin(l)) \/ CloseRaises \/ CloseEnd \/ ClickHouseCrash
        \/ (\E t \in ChWriters, r \in ChRows : ChWrite(t, r))
        \/ (\E t \in ChTasks : ChDrain(t))

\* The loop runs the tasks, the timer's sleep ends, the server answers in some way.
ChProgress == TimerFires \/ CloseEnd \/ \E t \in ChTasks : ChDrain(t)
-----------------------------------------------------------------------------
Promise == INSTANCE BufferedDelivery WITH
             held <- ToSet(chBuffer) \cup spool, Rows <- ChRows, sent <- table, discarded <- chLost, faults <- chCrashes
\* The sink keeps the promise of BufferedDelivery, a fault being the end of a process
\* that did not close(): rows taken are held until the table has them.
DeliversOrHolds == Promise!Spec

\* close() leaves nothing behind: after it every row ever accepted is in the table, in
\* a spool file, or was lost with an earlier process.
ClosedMeansLanded == chUp = "down" => chTaken \subseteq table \cup spool \cup chLost

\* The memory bound: each writer is at most one row over the limit, and what was
\* read back at the start comes on top, and each write() that a spool error ended early.
BufferBounded == Len(chBuffer) <= MaxBuffer - 1 + Cardinality(ChWriters) + reloaded + spoolErrors

Gone(r) == r \in chLost \ (table \cup spool \cup ToSet(chBuffer))
\* "Spooled on shutdown ... and re-loaded on the next start().  Nothing is ever lost": a
\* row that was in a spool file is never gone from table, spool and buffer alike.
SpooledNeverLost == \A r \in ChRows : [](r \in spool => []~Gone(r))

\* An accepted row reaches the table or a spool file, unless its process is killed or
\* a spool file that could not be written has ended the timer.
EveryRowLands == \A r \in ChRows : r \in chTaken ~> r \in table \cup spool \cup chLost \/ chAt[ChTimer] = "dead"

\* Every accepted row lands, with the buffer within its bound on the way and nothing left
\* behind by close().
RowsLand == [](ClosedMeansLanded /\ BufferBounded) /\ EveryRowLands
=============================================================================
