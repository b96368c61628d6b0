------------------------------ MODULE ParquetSink ------------------------------
(***************************************************************************)
(* The silver sink as SinkManager drives it (src/ulpf/sinks/manager.py,    *)
(* src/ulpf/sinks/parquet_sink.py).  Every pipeline worker hands its event *)
(* to the one ParquetSink in a thread of its own (asyncio.to_thread), and  *)
(* nothing locks the sink.  A step ends where CPython may switch threads   *)
(* with effect: before _row() returns and the row is appended, at each     *)
(* turn of the flush loop, and around the file write.  Lists are heap      *)
(* objects: a thread may append to one the buffer no longer refers to.       *)
(***************************************************************************)
EXTENDS Naturals, Sequences, FiniteSets, SequencesExt

CONSTANTS PqEvents,      \* normalized events handed to the sinks
          PqWorkers,     \* pipeline workers, one thread each
          PqCloser,      \* the thread of close() at shutdown
          PartitionOf,   \* (date, source_type) of each event
          MaxRows,       \* _max_rows
          MaxFileErrors  \* bound on failing file writes

\* close() has a thread of its own, after the workers have ended.
ASSUME PqAssumption == PqCloser \notin PqWorkers

VARIABLES pqAt,      \* where each thread is
          pqEvent,   \* the event each thread writes
          listOf,    \* the list each write() got from setdefault
          lists,     \* contents of the list objects made so far
          pqBuffer,  \* _buffer: a dict in insertion order, key and list
          buffered,  \* _buffered
          flushPos, sizeAt, \* position and dict size of each running flush loop
          chunk,     \* rows of the table each flush is writing to its file
          silver,    \* how many rows of the silver tier hold each event
          passedOn, deadLettered,  \* what process() did with its events
          pqFailures,  \* file writes that raised
          overlapped,  \* events whose write met another thread's flush
          incidents    \* what went wrong so far: "failed", "resized", "two"

pqVars == <<pqAt, pqEvent, listOf, lists, pqBuffer, buffered, flushPos, sizeAt, chunk, silver,
            passedOn, deadLettered, pqFailures, overlapped, incidents>>

PqThreads == PqWorkers \cup {PqCloser}
Flushing(t) == pqAt[t] \in {"flush", "file"}
Buffered == UNION {lists[pqBuffer[i].list] : i \in DOMAIN pqBuffer}

ParquetInit == /\ pqAt = [t \in PqThreads |-> "idle"]
        /\ pqEvent \in [PqThreads -> {CHOOSE e \in PqEvents : TRUE}]
        /\ listOf = [t \in PqThreads |-> 0]
        /\ lists = <<>> /\ pqBuffer = <<>> /\ buffered = 0
        /\ flushPos = [t \in PqThreads |-> 0] /\ sizeAt = [t \in PqThreads |-> 0]
        /\ chunk = [t \in PqThreads |-> {}]
        /\ silver = [e \in PqEvents |-> 0]
        /\ passedOn = {} /\ deadLettered = {} /\ pqFailures = 0 /\ overlapped = {} /\ incidents = {}

\* process() -> write(): the key, and the list setdefault returns for it.
WriteOpen(t, e) ==
  /\ pqAt[t] = "idle" /\ pqAt[PqCloser] = "idle"
  /\ e \notin passedOn \cup deadLettered /\ \A u \in PqWorkers : pqAt[u] = "idle" \/ pqEvent[u] # e
  /\ LET at == {i \in DOMAIN pqBuffer : pqBuffer[i].key = PartitionOf[e]}
     IN IF at # {}
        THEN /\ listOf' = [listOf EXCEPT ![t] = pqBuffer[CHOOSE i \in at : TRUE].list]
             /\ UNCHANGED <<lists, pqBuffer>>
        ELSE /\ lists' = Append(lists, {})
             /\ listOf' = [listOf EXCEPT ![t] = Len(lists')]
             /\ pqBuffer' = Append(pqBuffer, [key |-> PartitionOf[e], list |-> Len(lists')])
  /\ pqAt' = [pqAt EXCEPT ![t] = "open"] /\ pqEvent' = [pqEvent EXCEPT ![t] = e]
  /\ overlapped' = IF \E u \in PqThreads : Flushing(u) THEN overlapped \cup {e} ELSE overlapped
  /\ UNCHANGED <<buffered, flushPos, sizeAt, chunk, silver, passedOn, deadLettered, pqFailures, incidents>>

\* The row is appended, and a flush begins when one is due by count or by time.
WriteAppend(t, due) ==
  /\ pqAt[t] = "open"
  /\ lists' = [lists EXCEPT ![listOf[t]] = @ \cup {pqEvent[t]}]
  /\ buffered' = buffered + 1
  /\ LET flush == due \/ buffered' >= MaxRows
     IN /\ pqAt' = [pqAt EXCEPT ![t] = IF flush THEN "flush" ELSE "done"]
        /\ overlapped' = overlapped
             \cup (IF \E u \in PqThreads : Flushing(u) THEN {pqEvent[t]} ELSE {})
             \cup (IF flush THEN {pqEvent[u] : u \in {v \in PqWorkers \ {t} : pqAt[v] = "open"}} ELSE {})
        /\ flushPos' = [flushPos EXCEPT ![t] = 0] /\ sizeAt' = [sizeAt EXCEPT ![t] = Len(pqBuffer)]
        /\ incidents' = IF flush /\ \E u \in PqThreads : Flushing(u) THEN incidents \cup {"two"} ELSE incidents
  /\ UNCHANGED <<pqEvent, listOf, pqBuffer, chunk, silver, passedOn, deadLettered, pqFailures>>

\* One turn of the loop over the dict.
FlushNext(t) ==
  /\ pqAt[t] = "flush" /\ Len(pqBuffer) = sizeAt[t] /\ flushPos[t] < sizeAt[t]
  /\ LET rows == lists[pqBuffer[flushPos[t] + 1].list]
     IN /\ chunk' = [chunk EXCEPT ![t] = rows]
        /\ pqAt' = [pqAt EXCEPT ![t] = IF rows = {} THEN "flush" ELSE "file"]
  /\ flushPos' = [flushPos EXCEPT ![t] = @ + 1]
  /\ UNCHANGED <<pqEvent, listOf, lists, pqBuffer, buffered, sizeAt, silver, passedOn, deadLettered, pqFailures, overlapped, incidents>>

\* "dictionary changed size during iteration": another thread added a key or cleared.
FlushResized(t) ==
  /\ pqAt[t] = "flush" /\ Len(pqBuffer) # sizeAt[t]
  /\ pqAt' = [pqAt EXCEPT ![t] = "raised"] /\ incidents' = incidents \cup {"resized"}
  /\ UNCHANGED <<pqEvent, listOf, lists, pqBuffer, buffered, flushPos, sizeAt, chunk, silver, passedOn, deadLettered, pqFailures, overlapped>>

\* write_table of the rows read when the table was built.
FlushFile(t) ==
  /\ pqAt[t] = "file"
  /\ silver' = [e \in PqEvents |-> silver[e] + IF e \in chunk[t] THEN 1 ELSE 0]
  /\ chunk' = [chunk EXCEPT ![t] = {}] /\ pqAt' = [pqAt EXCEPT ![t] = "flush"]
  /\ UNCHANGED <<pqEvent, listOf, lists, pqBuffer, buffered, flushPos, sizeAt, passedOn, deadLettered, pqFailures, overlapped, incidents>>

\* Mutant: the buffer is cleared although the write failed.
FlushFileLoses(t) ==
  /\ pqAt[t] = "file" /\ pqFailures < MaxFileErrors
  /\ pqFailures' = pqFailures + 1 /\ incidents' = incidents \cup {"failed"} /\ pqBuffer' = <<>> /\ buffered' = 0
  /\ chunk' = [chunk EXCEPT ![t] = {}] /\ pqAt' = [pqAt EXCEPT ![t] = "raised"]
  /\ UNCHANGED <<pqEvent, listOf, lists, flushPos, sizeAt, silver, passedOn, deadLettered, overlapped>>

\* write_table raises: nothing is cleared.
FlushFileFails(t) ==
  /\ pqAt[t] = "file" /\ pqFailures < MaxFileErrors
  /\ pqFailures' = pqFailures + 1 /\ incidents' = incidents \cup {"failed"}
  /\ chunk' = [chunk EXCEPT ![t] = {}] /\ pqAt' = [pqAt EXCEPT ![t] = "raised"]
  /\ UNCHANGED <<pqEvent, listOf, lists, pqBuffer, buffered, flushPos, sizeAt, silver, passedOn, deadLettered, overlapped>>

\* The loop is over: the whole buffer is cleared, whatever was added meanwhile.
FlushEnd(t) ==
  /\ pqAt[t] = "flush" /\ Len(pqBuffer) = sizeAt[t] /\ flushPos[t] >= sizeAt[t]
  /\ pqBuffer' = <<>> /\ buffered' = 0 /\ pqAt' = [pqAt EXCEPT ![t] = "done"]
  /\ UNCHANGED <<pqEvent, listOf, lists, flushPos, sizeAt, chunk, silver, passedOn, deadLettered, pqFailures, overlapped, incidents>>

\* The rest of process(): a required sink that raised dead-letters the event.
\* The optional sinks' results decide nothing.
Settle(t) ==
  /\ t \in PqWorkers /\ pqAt[t] \in {"done", "raised"}
  /\ IF pqAt[t] = "done" THEN passedOn' = passedOn \cup {pqEvent[t]} /\ UNCHANGED deadLettered
                       ELSE deadLettered' = deadLettered \cup {pqEvent[t]} /\ UNCHANGED passedOn
  /\ pqAt' = [pqAt EXCEPT ![t] = "idle"]
  /\ UNCHANGED <<pqEvent, listOf, lists, pqBuffer, buffered, flushPos, sizeAt, chunk, silver, pqFailures, overlapped, incidents>>

\* SinkManager.flush at shutdown, the workers having ended: close() flushes; an
\* exception is logged.
ParquetClose ==
  /\ \A t \in PqThreads : pqAt[t] = "idle"
  /\ pqAt' = [pqAt EXCEPT ![PqCloser] = "flush"]
  /\ flushPos' = [flushPos EXCEPT ![PqCloser] = 0] /\ sizeAt' = [sizeAt EXCEPT ![PqCloser] = Len(pqBuffer)]
  /\ UNCHANGED <<pqEvent, listOf, lists, pqBuffer, buffered, chunk, silver, passedOn, deadLettered, pqFailures, overlapped, incidents>>

ParquetNext ==
  \/ \E t \in PqWorkers, e \in PqEvents : WriteOpen(t, e)
  \/ \E t \in PqWorkers, due \in BOOLEAN : WriteAppend(t, due)
  \/ \E t \in PqThreads : FlushNext(t) \/ FlushResized(t) \/ FlushFile(t) \/ FlushFileFails(t) \/ FlushEnd(t)
  \/ \E t \in PqWorkers : Settle(t)
  \/ ParquetClose
-----------------------------------------------------------------------------
Kept(e) == silver[e] > 0 \/ e \in Buffered

\* manager.py: an event is "never silently lost".  An event process() passed on is in the
\* silver tier or in the buffer that the next flush writes, unless its write met another
\* thread's flush; with one worker there is none.  An event whose flush raised keeps its row too,
\* although it was also dead-lettered.
LossNeedsOverlap == \A e \in (passedOn \cup deadLettered) \ overlapped : Kept(e)

\* A row is in the silver tier twice only when a flush raised after writing some
\* of its files, or when two flushes ran at once.
DuplicatesAreExplained == (\E e \in PqEvents : silver[e] > 1) => incidents # {}

\* A shutdown whose flush went through leaves nothing in the buffer.
CloseWritesAll == pqAt[PqCloser] = "done" => pqBuffer = <<>> /\ \A e \in passedOn \ overlapped : silver[e] > 0

\* What becomes of a row, taken together: it is lost only to an overlap, doubled only by a
\* failed or overlapping flush, and on disk after a shutdown.
RowsAccounted == LossNeedsOverlap /\ DuplicatesAreExplained /\ CloseWritesAll
=============================================================================
