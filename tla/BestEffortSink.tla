----------------------------- MODULE BestEffortSink -----------------------------
(***************************************************************************)
(* The OpenSearch and Splunk HEC sinks (src/ulpf/sinks/opensearch_sink.py, *)
(* splunk_hec_sink.py, _delivery.py): the same machine twice.  There is no *)
(* lock: writers, the timer and close() each take a batch OUT of the       *)
(* buffer and then deliver it, with retries, and drop it when that fails.  *)
(* Only OpenSearch parses the reply (MaxBadReplies = 0 for Splunk) and     *)
(* only its reply can name rejected documents.                             *)
(***************************************************************************)
EXTENDS Naturals, Sequences, FiniteSets, SequencesExt

CONSTANTS Docs, BeWriters, BeTimer, BeCloser,
          BatchDocs,      \* batch_docs, batch_events
          BeMaxRetries,   \* max_retries
          MaxBadReplies   \* bound on 2xx replies that are not JSON
\* A batch has at least one document; timer and close() are tasks of their own.
ASSUME BeAssumption ==
  /\ BatchDocs \in Nat \ {0} /\ BeMaxRetries \in Nat
  /\ IsFiniteSet(BeWriters) /\ BeTimer \notin BeWriters /\ BeCloser \notin BeWriters \cup {BeTimer}

VARIABLES beUp,        \* "down", "up", "off" (self-disabled), "closing", "closed"
          beBuffer,    \* _buffer
          beAt,        \* each task: "idle", "send", "dead"
          beBatch,     \* the documents each task has taken out and is sending
          beTry,       \* its attempt number
          index,       \* documents the server has
          docsIndexed, docsDropped,  \* the sink's two counters
          beTaken,     \* documents accepted by write()
          vanished,    \* documents gone that neither counter holds
          dropped,     \* documents given up and counted, or rejected by the server
          badReplies, beFaults
beVars == <<beUp, beBuffer, beAt, beBatch, beTry, index, docsIndexed, docsDropped,
            beTaken, vanished, dropped, badReplies, beFaults>>

BeTasks == BeWriters \cup {BeTimer, BeCloser}
InFlight == UNION {beBatch[t] : t \in BeTasks}
WritersDone == \A t \in BeWriters : beAt[t] = "idle"

BestEffortInit ==
  /\ beUp = "down" /\ beBuffer = <<>> /\ index = {} /\ docsIndexed = 0 /\ docsDropped = 0
  /\ beAt = [t \in BeTasks |-> "idle"] /\ beBatch = [t \in BeTasks |-> {}] /\ beTry = [t \in BeTasks |-> 0]
  /\ beTaken = {} /\ vanished = {} /\ dropped = {} /\ badReplies = 0 /\ beFaults = 0

\* start(): an unhealthy server disables the sink for the whole run.
BeStart(healthy) ==
  /\ beUp = "down" /\ beUp' = IF healthy THEN "up" ELSE "off"
  /\ UNCHANGED <<beBuffer, beAt, beBatch, beTry, index, docsIndexed, docsDropped, beTaken, vanished, dropped, badReplies, beFaults>>

\* Mutant: the slice of documents to send is one too short.
TakeBatchShort(t, buf) ==
  LET n == IF Len(buf) < BatchDocs THEN Len(buf) ELSE BatchDocs
  IN /\ beBuffer' = SubSeq(buf, n + 1, Len(buf))
     /\ beBatch' = [beBatch EXCEPT ![t] = ToSet(SubSeq(buf, 1, n - 1))]
     /\ beAt' = [beAt EXCEPT ![t] = IF n = 0 THEN "idle" ELSE "send"]
     /\ beTry' = [beTry EXCEPT ![t] = 0]

\* _drain_once up to its await: the batch leaves the buffer; an empty buffer ends it.
TakeBatch(t, buf) ==
  LET n == IF Len(buf) < BatchDocs THEN Len(buf) ELSE BatchDocs
  IN /\ beBuffer' = SubSeq(buf, n + 1, Len(buf))
     /\ beBatch' = [beBatch EXCEPT ![t] = ToSet(SubSeq(buf, 1, n))]
     /\ beAt' = [beAt EXCEPT ![t] = IF n = 0 THEN "idle" ELSE "send"]
     /\ beTry' = [beTry EXCEPT ![t] = 0]

\* write(): the document is buffered, and a full batch is delivered by its writer.
BeWrite(t, d) ==
  /\ beUp = "up" /\ beAt[t] = "idle" /\ d \notin beTaken /\ beTaken' = beTaken \cup {d}
  /\ LET buf == Append(beBuffer, d)
     IN IF Len(buf) >= BatchDocs THEN TakeBatch(t, buf)
        ELSE beBuffer' = buf /\ UNCHANGED <<beAt, beBatch, beTry>>
  /\ UNCHANGED <<beUp, index, docsIndexed, docsDropped, vanished, dropped, badReplies, beFaults>>

\* _timer_loop: the sleep is over and there are documents.
BeTimerFires ==
  /\ beUp = "up" /\ beAt[BeTimer] = "idle" /\ beBuffer # <<>> /\ TakeBatch(BeTimer, beBuffer)
  /\ UNCHANGED <<beUp, index, docsIndexed, docsDropped, beTaken, vanished, dropped, badReplies, beFaults>>

Back(t) == /\ beAt' = [beAt EXCEPT ![t] = "idle"] /\ beBatch' = [beBatch EXCEPT ![t] = {}]
           /\ beTry' = [beTry EXCEPT ![t] = 0]

\* A 2xx reply: the whole batch counts as indexed, also the documents the reply
\* names as rejected, which are only logged.
Sent(t, rejected) ==
  /\ beAt[t] = "send" /\ rejected \subseteq beBatch[t]
  /\ index' = index \cup (beBatch[t] \ rejected)
  /\ docsIndexed' = docsIndexed + Cardinality(beBatch[t])
  /\ dropped' = dropped \cup rejected /\ beFaults' = beFaults + (IF rejected = {} THEN 0 ELSE 1)
  /\ Back(t) /\ UNCHANGED <<beUp, beBuffer, docsDropped, beTaken, vanished, badReplies>>

\* A transport error (the request may have arrived), 429 or 5xx: deliver_with_retry
\* tries max_retries times more, then the batch is dropped and counted.
Retry(t, landed) ==
  /\ beAt[t] = "send" /\ index' = IF landed THEN index \cup beBatch[t] ELSE index
  /\ IF beTry[t] < BeMaxRetries
     THEN /\ beTry' = [beTry EXCEPT ![t] = @ + 1]
          /\ UNCHANGED <<beAt, beBatch, docsDropped, dropped, beFaults>>
     ELSE /\ docsDropped' = docsDropped + Cardinality(beBatch[t])
          /\ dropped' = dropped \cup beBatch[t] /\ beFaults' = beFaults + 1 /\ Back(t)
  /\ UNCHANGED <<beUp, beBuffer, docsIndexed, beTaken, vanished, badReplies>>

\* Any other status: dropped at once.
Refused(t) ==
  /\ beAt[t] = "send" /\ docsDropped' = docsDropped + Cardinality(beBatch[t])
  /\ dropped' = dropped \cup beBatch[t] /\ beFaults' = beFaults + 1 /\ Back(t)
  /\ UNCHANGED <<beUp, beBuffer, index, docsIndexed, beTaken, vanished, badReplies>>

\* response.json() raises on a 2xx reply: not a delivery error, so it leaves
\* _drain_once uncounted; a writer reports it, the timer is over.
BadReply(t) ==
  /\ beAt[t] = "send" /\ t # BeCloser /\ badReplies < MaxBadReplies /\ badReplies' = badReplies + 1
  /\ index' = index \cup beBatch[t] /\ vanished' = vanished \cup beBatch[t]
  /\ beAt' = [beAt EXCEPT ![t] = IF t = BeTimer THEN "dead" ELSE "idle"]
  /\ beBatch' = [beBatch EXCEPT ![t] = {}] /\ beTry' = [beTry EXCEPT ![t] = 0] /\ beFaults' = beFaults + 1
  /\ UNCHANGED <<beUp, beBuffer, docsIndexed, docsDropped, beTaken, dropped>>

\* Mutant: close() disables the sink before it flushes, so flush() does nothing.
BeCloseDisablesFirst(landed) ==
  /\ beUp = "up" /\ WritersDone /\ beAt[BeTimer] # "dead" /\ beUp' = "closing"
  /\ index' = IF landed THEN index \cup beBatch[BeTimer] ELSE index
  /\ vanished' = vanished \cup beBatch[BeTimer] \cup ToSet(beBuffer) /\ beBuffer' = <<>>
  /\ beFaults' = beFaults + 1 /\ Back(BeTimer)
  /\ UNCHANGED <<docsIndexed, docsDropped, beTaken, dropped, badReplies>>

\* close() with the writers gone: the timer is cancelled, with it the batch it was
\* sending, and the buffer is flushed batch by batch.
BeClose(landed) ==
  /\ beUp = "up" /\ WritersDone /\ beAt[BeTimer] # "dead" /\ beUp' = "closing"
  /\ index' = IF landed THEN index \cup beBatch[BeTimer] ELSE index
  /\ vanished' = vanished \cup beBatch[BeTimer]
  /\ beFaults' = beFaults + (IF beBatch[BeTimer] = {} THEN 0 ELSE 1) /\ Back(BeTimer)
  /\ UNCHANGED <<beBuffer, docsIndexed, docsDropped, beTaken, dropped, badReplies>>

FlushNextBatch ==
  /\ beUp = "closing" /\ beAt[BeCloser] = "idle" /\ beBuffer # <<>> /\ TakeBatch(BeCloser, beBuffer)
  /\ UNCHANGED <<beUp, index, docsIndexed, docsDropped, beTaken, vanished, dropped, badReplies, beFaults>>

BeClosed ==
  /\ \/ beUp = "closing" /\ beAt[BeCloser] = "idle" /\ beBuffer = <<>>
     \/ beUp = "off"
  /\ beUp' = "closed"
  /\ UNCHANGED <<beBuffer, beAt, beBatch, beTry, index, docsIndexed, docsDropped, beTaken, vanished, dropped, badReplies, beFaults>>

\* A timer that died raises in close(), and a bad reply in its flush does: the rest of
\* the buffer goes with it.
CloseCutShort ==
  /\ \/ beUp = "up" /\ WritersDone /\ beAt[BeTimer] = "dead" /\ UNCHANGED <<index, badReplies>>
     \/ /\ beUp = "closing" /\ beAt[BeCloser] = "send" /\ badReplies < MaxBadReplies
        /\ badReplies' = badReplies + 1 /\ index' = index \cup beBatch[BeCloser]
  /\ beUp' = "closed" /\ beBuffer' = <<>> /\ Back(BeCloser)
  /\ vanished' = vanished \cup ToSet(beBuffer) \cup beBatch[BeCloser] /\ beFaults' = beFaults + 1
  /\ UNCHANGED <<docsIndexed, docsDropped, beTaken, dropped>>

Answer(t) == Refused(t) \/ (\E l \in BOOLEAN : Retry(t, l)) \/ \E rej \in SUBSET beBatch[t] : Sent(t, rej)
BestEffortNext ==
  \/ \E healthy \in BOOLEAN : BeStart(healthy)
  \/ \E t \in BeWriters, d \in Docs : BeWrite(t, d)
  \/ \E t \in BeTasks : Answer(t) \/ BadReply(t)
  \/ \E landed \in BOOLEAN : BeClose(landed)
  \/ BeTimerFires \/ FlushNextBatch \/ BeClosed \/ CloseCutShort

\* Every request ends in some answer or in httpx's timeout, and the loop runs every task.
BeProgress == BeTimerFires \/ FlushNextBatch \/ BeClosed \/ \E t \in BeTasks : Answer(t)
-----------------------------------------------------------------------------
BestEffortPromise == INSTANCE BufferedDelivery WITH Rows <- Docs,
                       held <- ToSet(beBuffer) \cup InFlight, sent <- index,
                       discarded <- dropped \cup vanished, faults <- beFaults
\* The sink keeps the promise of BufferedDelivery when a dropped, a cancelled and a
\* rejected batch, and an exception, count as faults: nothing else loses a document.
BestEffortDelivers == BestEffortPromise!Spec

\* The counters balance whatever writers, timer and close() do at once: a document is
\* buffered, being sent, counted exactly once, or gone in one of the ways above.
CountersBalance ==
  Cardinality(beTaken) = docsIndexed + docsDropped + Len(beBuffer) + Cardinality(InFlight) + Cardinality(vanished)

\* Without a reply that is not JSON, all that goes uncounted is the batch the timer was
\* sending when close() cancelled it, and that is never a full one: those the writers send.
OnlyAPartialBatchVanishes == badReplies = 0 => Cardinality(vanished) < BatchDocs

\* "one flaky external service can never back up or stall the pipeline": whatever the
\* server answers, and for ever, a write() returns and a close() ends.
NeverStalls == /\ \A t \in BeWriters : beAt[t] = "send" ~> beAt[t] = "idle"
               /\ beUp = "closing" ~> beUp = "closed"

\* What best effort costs: the counters account for every document but a partial batch, and
\* no writer and no shutdown waits for ever.
BestEffortIsBounded == [](CountersBalance /\ OnlyAPartialBatchVanishes) /\ NeverStalls
=============================================================================
