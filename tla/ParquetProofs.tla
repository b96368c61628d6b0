----------------------------- MODULE ParquetProofs -----------------------------
(***************************************************************************)
(* Proofs about the silver sink, whose threads share one buffer without a  *)
(* lock: where a row can be lost or doubled, and that it cannot be         *)
(* anywhere else, for any number of events, workers, partitions and        *)
(* failing file writes.  Then the compactor, which rewrites the sink's     *)
(* files: no row is ever out of reach, and how often it can be there.      *)
(***************************************************************************)
EXTENDS ParquetSink, Compaction, SequenceTheorems, FiniteSetTheorems, TLAPS

ParquetSpec == ParquetInit /\ [][ParquetNext]_pqVars

Places == {"idle", "open", "flush", "file", "done", "raised"}
Keys == {PartitionOf[e] : e \in PqEvents}

PqTypeOK ==
  /\ pqAt \in [PqThreads -> Places]
  /\ pqEvent \in [PqThreads -> PqEvents \cup {CHOOSE e \in PqEvents : TRUE}]
  /\ \A t \in PqWorkers : pqAt[t] # "idle" => pqEvent[t] \in PqEvents
  /\ listOf \in [PqThreads -> Nat]
  /\ \A t \in PqWorkers : pqAt[t] = "open" => listOf[t] \in 1..Len(lists)
  /\ lists \in Seq(SUBSET PqEvents)
  /\ pqBuffer \in Seq([key : Keys, list : Nat])
  /\ \A i \in 1..Len(pqBuffer) : pqBuffer[i].list \in 1..Len(lists)
  /\ flushPos \in [PqThreads -> Nat] /\ sizeAt \in [PqThreads -> Nat]
  /\ chunk \in [PqThreads -> SUBSET PqEvents]
  /\ silver \in [PqEvents -> Nat]
  /\ passedOn \cup deadLettered \subseteq PqEvents

\* The rows in the list of the i-th key of the buffer.
RowsAt(i) == lists[pqBuffer[i].list]

\* The row of the event has been appended to a list.
Appended(e) == \/ e \in passedOn \cup deadLettered
               \/ \E t \in PqWorkers : pqAt[t] \notin {"idle", "open"} /\ pqEvent[t] = e

\* One thread writes an event, once, into one list, and each list is in the buffer once.
\* Without it a second append or a second key could put a row into two files.
WrittenOnce ==
  /\ \A t \in PqWorkers : pqAt[t] # "idle" => pqEvent[t] \notin passedOn \cup deadLettered
  /\ \A t, u \in PqWorkers : pqAt[t] # "idle" /\ pqAt[u] # "idle" /\ pqEvent[t] = pqEvent[u] => t = u
  /\ \A j \in 1..Len(lists) : \A e \in lists[j] : Appended(e)
  /\ \A t \in PqThreads : \A e \in chunk[t] : Appended(e)
  /\ \A e \in PqEvents : silver[e] > 0 => Appended(e)
  /\ \A j, k \in 1..Len(lists) : \A e : e \in lists[j] /\ e \in lists[k] => j = k
  /\ \A i, k \in 1..Len(pqBuffer) : pqBuffer[i].list = pqBuffer[k].list => i = k

\* close() runs when the workers have ended, and alone.
ClosesLast ==
  /\ pqAt[PqCloser] # "open"
  /\ pqAt[PqCloser] # "idle" => \A t \in PqWorkers : pqAt[t] = "idle"
  /\ pqAt[PqCloser] = "done" => pqBuffer = <<>>

\* Of what a flush has passed it has written or holds every row but those that came meanwhile;
\* this also holds of a buffer that another thread cleared and that grew again.
Saved(t) ==
  \A i \in 1..Len(pqBuffer) : i <= flushPos[t] =>
     \A e \in RowsAt(i) : e \in overlapped \/ silver[e] > 0 \/ (pqAt[t] = "file" /\ e \in chunk[t])

\* A write that met no flush has its list in the buffer, and its row there or on disk.
RowsSafe ==
  /\ \A t \in PqWorkers : pqAt[t] = "open" /\ pqEvent[t] \notin overlapped =>
       /\ \A u \in PqThreads : ~Flushing(u)
       /\ \E i \in 1..Len(pqBuffer) : pqBuffer[i].list = listOf[t]
  /\ \A e \in PqEvents : e \notin overlapped /\ Appended(e) => Kept(e)
  /\ \A t \in PqThreads : Flushing(t) => Saved(t)

\* The flush has written the i-th list of the buffer.
Past(t, i) == Flushing(t) /\ (i < flushPos[t] \/ (i = flushPos[t] /\ pqAt[t] = "flush"))

\* Until something went wrong one flush runs at a time, and what is on disk and still in the
\* buffer is behind its position.
Orderly ==
  /\ \A t, u \in PqThreads : Flushing(t) /\ Flushing(u) => t = u
  /\ \A e \in PqEvents : silver[e] <= 1
  /\ \A i \in 1..Len(pqBuffer) : \A e \in RowsAt(i) :
       silver[e] > 0 => \E t \in PqThreads : Past(t, i)
  /\ \A t \in PqThreads : pqAt[t] = "file" =>
       flushPos[t] \in 1..Len(pqBuffer) /\ chunk[t] \subseteq RowsAt(flushPos[t])

PqInv == PqTypeOK /\ WrittenOnce /\ ClosesLast /\ RowsSafe /\ (incidents = {} => Orderly)
-----------------------------------------------------------------------------
LEMMA InBuffer ==
  PqTypeOK => \A e : e \in Buffered <=> \E i \in 1..Len(pqBuffer) : e \in RowsAt(i)
<1> SUFFICES ASSUME PqTypeOK
             PROVE  \A e : e \in Buffered <=> \E i \in 1..Len(pqBuffer) : e \in RowsAt(i)
  OBVIOUS
<1>1. DOMAIN pqBuffer = 1..Len(pqBuffer)
  BY DEF PqTypeOK
<1> QED BY <1>1 DEF Buffered, RowsAt

LEMMA InBufferNext ==
  PqTypeOK' => \A e : (e \in Buffered)' <=> \E i \in 1..Len(pqBuffer') : e \in RowsAt(i)'
<1>1. (PqTypeOK => \A e : e \in Buffered <=> \E i \in 1..Len(pqBuffer) : e \in RowsAt(i))'
  BY InBuffer, PTL
<1> QED BY <1>1

LEMMA AppendFacts ==
  ASSUME NEW T, NEW s \in Seq(T), NEW x \in T
  PROVE  /\ Append(s, x) \in Seq(T) /\ Len(s) \in Nat /\ Len(Append(s, x)) = Len(s) + 1
         /\ \A j \in 1..Len(s) : Append(s, x)[j] = s[j]
         /\ Append(s, x)[Len(s) + 1] = x
OBVIOUS

LEMMA PqInitInv ==
  ASSUME ParquetInit
  PROVE  PqInv
<1>1. PqTypeOK
  <2>1. \A x : pqEvent \in [PqThreads -> {x}] => pqEvent \in [PqThreads -> PqEvents \cup {x}]
    OBVIOUS
  <2>2. pqEvent \in [PqThreads -> PqEvents \cup {CHOOSE e \in PqEvents : TRUE}]
    BY <2>1 DEF ParquetInit
  <2>3. lists \in Seq(SUBSET PqEvents) /\ pqBuffer \in Seq([key : Keys, list : Nat])
    BY DEF ParquetInit
  <2>4. \A t \in PqWorkers : pqAt[t] = "idle"
    BY DEF ParquetInit, PqThreads
  <2>5. pqAt \in [PqThreads -> Places] /\ pqBuffer = <<>>
    BY DEF ParquetInit, Places
  <2>6. /\ listOf \in [PqThreads -> Nat] /\ flushPos \in [PqThreads -> Nat] /\ sizeAt \in [PqThreads -> Nat]
        /\ chunk \in [PqThreads -> SUBSET PqEvents] /\ silver \in [PqEvents -> Nat]
        /\ passedOn \cup deadLettered \subseteq PqEvents
    BY DEF ParquetInit
  <2> QED BY <2>2, <2>3, <2>4, <2>5, <2>6 DEF PqTypeOK
<1>2. WrittenOnce /\ ClosesLast /\ RowsSafe /\ Orderly
  BY DEF ParquetInit, WrittenOnce, ClosesLast, RowsSafe, Orderly, Appended, Flushing, PqThreads
<1> QED BY <1>1, <1>2 DEF PqInv

\* What WriteOpen does: the list of a key of the buffer, or a new one at its end.
LEMMA OpenShape ==
  ASSUME PqTypeOK, NEW t \in PqWorkers, NEW e \in PqEvents, WriteOpen(t, e)
  PROVE  \/ /\ lists' = lists /\ pqBuffer' = pqBuffer
            /\ \E i \in 1..Len(pqBuffer) : listOf' = [listOf EXCEPT ![t] = pqBuffer[i].list]
         \/ /\ lists' = Append(lists, {}) /\ listOf' = [listOf EXCEPT ![t] = Len(lists) + 1]
            /\ pqBuffer' = Append(pqBuffer, [key |-> PartitionOf[e], list |-> Len(lists) + 1])
<1> DEFINE at == {i \in DOMAIN pqBuffer : pqBuffer[i].key = PartitionOf[e]}
<1>1. CASE at # {}
  <2>1. PICK i \in at : i = CHOOSE j \in at : TRUE
    BY <1>1
  <2>2. i \in 1..Len(pqBuffer)
    BY <2>1 DEF PqTypeOK
  <2> QED BY <1>1, <2>1, <2>2 DEF WriteOpen
<1>2. CASE at = {}
  <2>1. lists' = Append(lists, {}) /\ listOf' = [listOf EXCEPT ![t] = Len(lists')]
        /\ pqBuffer' = Append(pqBuffer, [key |-> PartitionOf[e], list |-> Len(lists')])
    BY <1>2 DEF WriteOpen
  <2>2. Len(lists') = Len(lists) + 1
    BY <2>1 DEF PqTypeOK
  <2> QED BY <2>1, <2>2
<1> QED BY <1>1, <1>2

\* What WriteAppend does to the lists.
LEMMA AppendShape ==
  ASSUME PqTypeOK, NEW t \in PqWorkers, NEW due \in BOOLEAN, WriteAppend(t, due)
  PROVE  /\ listOf[t] \in 1..Len(lists) /\ pqEvent[t] \in PqEvents /\ t \in PqThreads
         /\ lists' \in Seq(SUBSET PqEvents) /\ Len(lists') = Len(lists)
         /\ \A j \in 1..Len(lists) :
              lists'[j] = IF j = listOf[t] THEN lists[j] \cup {pqEvent[t]} ELSE lists[j]
<1>1. listOf[t] \in 1..Len(lists) /\ pqEvent[t] \in PqEvents /\ t \in PqThreads
  BY DEF PqTypeOK, WriteAppend, PqThreads
<1>2. lists' = [lists EXCEPT ![listOf[t]] = lists[listOf[t]] \cup {pqEvent[t]}]
  BY DEF WriteAppend
<1>3. lists[listOf[t]] \cup {pqEvent[t]} \in SUBSET PqEvents
  BY <1>1 DEF PqTypeOK
<1>4. lists \in Seq(SUBSET PqEvents)
  BY DEF PqTypeOK
<1>5. \A T : \A s \in Seq(T) : \A j \in 1..Len(s) : \A x \in T :
        /\ [s EXCEPT ![j] = x] \in Seq(T) /\ Len([s EXCEPT ![j] = x]) = Len(s)
        /\ \A k \in 1..Len(s) : [s EXCEPT ![j] = x][k] = IF k = j THEN x ELSE s[k]
  OBVIOUS
<1>6. /\ lists' \in Seq(SUBSET PqEvents) /\ Len(lists') = Len(lists)
      /\ \A k \in 1..Len(lists) :
           lists'[k] = IF k = listOf[t] THEN lists[listOf[t]] \cup {pqEvent[t]} ELSE lists[k]
  BY <1>1, <1>2, <1>3, <1>4, <1>5
<1> QED BY <1>1, <1>6

LEMMA OpenStep ==
  ASSUME PqInv, NEW t \in PqWorkers, NEW e \in PqEvents, WriteOpen(t, e)
  PROVE  PqInv'
<1>0. PqTypeOK /\ WrittenOnce /\ ClosesLast /\ RowsSafe /\ (incidents = {} => Orderly)
  BY DEF PqInv
<1>a. \/ /\ lists' = lists /\ pqBuffer' = pqBuffer
         /\ \E i \in 1..Len(pqBuffer) : listOf' = [listOf EXCEPT ![t] = pqBuffer[i].list]
      \/ /\ lists' = Append(lists, {}) /\ listOf' = [listOf EXCEPT ![t] = Len(lists) + 1]
         /\ pqBuffer' = Append(pqBuffer, [key |-> PartitionOf[e], list |-> Len(lists) + 1])
  BY <1>0, OpenShape
<1>1. /\ t \in PqThreads /\ pqAt[t] = "idle" /\ pqAt[PqCloser] = "idle" /\ t # PqCloser
      /\ pqAt' = [pqAt EXCEPT ![t] = "open"] /\ pqEvent' = [pqEvent EXCEPT ![t] = e]
      /\ e \notin passedOn \cup deadLettered
      /\ \A u \in PqWorkers : pqAt[u] = "idle" \/ pqEvent[u] # e
      /\ overlapped' = IF \E u \in PqThreads : Flushing(u) THEN overlapped \cup {e} ELSE overlapped
      /\ UNCHANGED <<flushPos, sizeAt, chunk, silver, passedOn, deadLettered, incidents>>
  BY PqAssumption DEF WriteOpen, PqThreads
<1>b. lists \in Seq(SUBSET PqEvents) /\ pqBuffer \in Seq([key : Keys, list : Nat]) /\ Len(lists) \in Nat /\ Len(pqBuffer) \in Nat
  BY <1>0 DEF PqTypeOK
<1>2. /\ lists' \in Seq(SUBSET PqEvents) /\ Len(lists') \in Nat /\ Len(lists') >= Len(lists)
      /\ \A j \in 1..Len(lists) : lists'[j] = lists[j]
      /\ \A j \in 1..Len(lists') : j > Len(lists) => lists'[j] = {}
  <2>1. CASE lists' = lists
    BY <1>b, <2>1
  <2>2. CASE lists' = Append(lists, {})
    <3>1. {} \in SUBSET PqEvents
      OBVIOUS
    <3>2. /\ lists' \in Seq(SUBSET PqEvents) /\ Len(lists') = Len(lists) + 1
          /\ \A j \in 1..Len(lists) : lists'[j] = lists[j]
          /\ lists'[Len(lists) + 1] = {}
      BY <1>b, <2>2, <3>1, AppendFacts
    <3> QED BY <1>b, <3>2
  <2> QED BY <1>a, <2>1, <2>2
<1>3. /\ pqBuffer' \in Seq([key : Keys, list : Nat]) /\ Len(pqBuffer') \in Nat /\ Len(pqBuffer') >= Len(pqBuffer)
      /\ \A i \in 1..Len(pqBuffer) : pqBuffer'[i] = pqBuffer[i]
      /\ \A i \in 1..Len(pqBuffer') : i > Len(pqBuffer) =>
           i = Len(pqBuffer) + 1 /\ pqBuffer'[i].list = Len(lists) + 1 /\ Len(lists') = Len(lists) + 1
      /\ listOf' \in [PqThreads -> Nat]
      /\ \E i \in 1..Len(pqBuffer') : pqBuffer'[i].list = listOf'[t]
      /\ \A u \in PqThreads : u # t => listOf'[u] = listOf[u]
  <2>1. CASE /\ lists' = lists /\ pqBuffer' = pqBuffer
             /\ \E i \in 1..Len(pqBuffer) : listOf' = [listOf EXCEPT ![t] = pqBuffer[i].list]
    BY <1>0, <1>1, <1>b, <2>1 DEF PqTypeOK
  <2>2. CASE /\ lists' = Append(lists, {}) /\ listOf' = [listOf EXCEPT ![t] = Len(lists) + 1]
             /\ pqBuffer' = Append(pqBuffer, [key |-> PartitionOf[e], list |-> Len(lists) + 1])
    <3>1. [key |-> PartitionOf[e], list |-> Len(lists) + 1] \in [key : Keys, list : Nat]
      BY <1>b DEF Keys
    <3>2. {} \in SUBSET PqEvents
      OBVIOUS
    <3>3. Len(lists') = Len(lists) + 1
      BY <1>b, <2>2, <3>2, AppendFacts
    <3>4. /\ pqBuffer' \in Seq([key : Keys, list : Nat]) /\ Len(pqBuffer') = Len(pqBuffer) + 1
          /\ \A i \in 1..Len(pqBuffer) : pqBuffer'[i] = pqBuffer[i]
          /\ pqBuffer'[Len(pqBuffer) + 1] = [key |-> PartitionOf[e], list |-> Len(lists) + 1]
      BY <1>b, <2>2, <3>1, AppendFacts
    <3>5. pqBuffer'[Len(pqBuffer) + 1].list = Len(lists) + 1 /\ Len(pqBuffer) + 1 \in 1..Len(pqBuffer')
      BY <1>b, <3>4
    <3>6. listOf' \in [PqThreads -> Nat] /\ listOf'[t] = Len(lists) + 1 /\ \A u \in PqThreads : u # t => listOf'[u] = listOf[u]
      BY <1>0, <1>1, <1>b, <2>2 DEF PqTypeOK
    <3>7. \A i \in 1..Len(pqBuffer') : i > Len(pqBuffer) => i = Len(pqBuffer) + 1
      BY <1>b, <3>4
    <3>8. \A i \in 1..Len(pqBuffer') : i > Len(pqBuffer) => pqBuffer'[i].list = Len(lists) + 1
      BY <3>5, <3>7
    <3>9. \E i \in 1..Len(pqBuffer') : pqBuffer'[i].list = listOf'[t]
      BY <3>5, <3>6
    <3>10. Len(pqBuffer') \in Nat /\ Len(pqBuffer') >= Len(pqBuffer)
      BY <1>b, <3>4
    <3> QED BY <3>3, <3>4, <3>6, <3>7, <3>8, <3>9, <3>10
  <2> QED BY <1>a, <2>1, <2>2
<1>4. \A i \in 1..Len(pqBuffer') : pqBuffer'[i].list \in 1..Len(lists')
  <2>1. \A i \in 1..Len(pqBuffer) : pqBuffer[i].list \in 1..Len(lists)
    BY <1>0 DEF PqTypeOK
  <2>2. ASSUME NEW i \in 1..Len(pqBuffer') PROVE pqBuffer'[i].list \in 1..Len(lists')
    <3>1. CASE i > Len(pqBuffer)
      <4>1. pqBuffer'[i].list = Len(lists) + 1 /\ Len(lists') = Len(lists) + 1
        BY <1>3, <3>1
      <4> QED BY <1>b, <4>1
    <3>2. CASE ~(i > Len(pqBuffer))
      <4>1. i \in 1..Len(pqBuffer)
        BY <1>b, <1>3, <3>2
      <4>2. pqBuffer'[i].list \in 1..Len(lists)
        BY <1>3, <2>1, <4>1
      <4> QED BY <1>b, <1>2, <4>2
    <3> QED BY <3>1, <3>2
  <2> QED BY <2>2
<1>c. /\ \A i \in 1..Len(pqBuffer) : i \in 1..Len(pqBuffer')
      /\ \A i \in 1..Len(pqBuffer') : i \in 1..Len(pqBuffer) \/ i > Len(pqBuffer)
      /\ \A j \in 1..Len(lists') : j \in 1..Len(lists) \/ j > Len(lists)
  BY <1>b, <1>2, <1>3
<1>5. PqTypeOK'
  <2>1. pqAt' \in [PqThreads -> Places] /\ pqEvent' \in [PqThreads -> PqEvents \cup {CHOOSE x \in PqEvents : TRUE}]
    BY <1>0, <1>1 DEF PqTypeOK, Places
  <2>2. \A u \in PqWorkers : pqAt'[u] # "idle" => pqEvent'[u] \in PqEvents
    BY <1>0, <1>1 DEF PqTypeOK, PqThreads
  <2>3. \A u \in PqWorkers : pqAt'[u] = "open" => listOf'[u] \in 1..Len(lists')
    <3>1. ASSUME NEW u \in PqWorkers, u # t, pqAt'[u] = "open" PROVE listOf'[u] \in 1..Len(lists')
      <4>1. u \in PqThreads /\ listOf[u] \in 1..Len(lists)
        BY <1>0, <1>1, <3>1 DEF PqTypeOK, PqThreads
      <4>2. listOf'[u] = listOf[u]
        BY <1>3, <3>1, <4>1
      <4> QED BY <1>b, <1>2, <4>1, <4>2
    <3>2. listOf'[t] \in 1..Len(lists')
      BY <1>3, <1>4
    <3> QED BY <3>1, <3>2
  <2> QED BY <1>0, <1>1, <1>2, <1>3, <1>4, <2>1, <2>2, <2>3 DEF PqTypeOK
<1>6. \A x : Appended(x)' <=> Appended(x)
  BY <1>0, <1>1 DEF Appended, PqTypeOK, PqThreads
<1>7. \A i \in 1..Len(pqBuffer) : RowsAt(i)' = RowsAt(i)
  BY <1>0, <1>2, <1>3 DEF RowsAt, PqTypeOK
<1>8. \A i \in 1..Len(pqBuffer') : i > Len(pqBuffer) => RowsAt(i)' = {}
  <2>1. ASSUME NEW i \in 1..Len(pqBuffer'), i > Len(pqBuffer) PROVE RowsAt(i)' = {}
    <3>1. pqBuffer'[i].list = Len(lists) + 1 /\ Len(lists') = Len(lists) + 1
      BY <1>3, <2>1
    <3>2. lists'[Len(lists) + 1] = {}
      BY <1>b, <1>2, <3>1
    <3> QED BY <3>1, <3>2 DEF RowsAt
  <2> QED BY <2>1
<1>9. \A u \in PqThreads : Flushing(u)' <=> Flushing(u)
  BY <1>0, <1>1 DEF Flushing, PqTypeOK
<1>10. WrittenOnce'
  <2>1. \A j \in 1..Len(lists') : \A x \in lists'[j] : j \in 1..Len(lists) /\ x \in lists[j]
    BY <1>2, <1>c
  <2>2. \A i, k \in 1..Len(pqBuffer') : pqBuffer'[i].list = pqBuffer'[k].list => i = k
    <3>1. \A i \in 1..Len(pqBuffer) : pqBuffer[i].list \in 1..Len(lists)
      BY <1>0 DEF PqTypeOK
    <3>2. \A i, k \in 1..Len(pqBuffer) : pqBuffer[i].list = pqBuffer[k].list => i = k
      BY <1>0 DEF WrittenOnce
    <3>3. \A i \in 1..Len(pqBuffer) : pqBuffer'[i].list = pqBuffer[i].list /\ pqBuffer[i].list # Len(lists) + 1
      <4>1. \A i \in 1..Len(pqBuffer) : pqBuffer'[i] = pqBuffer[i]
        BY <1>3
      <4>2. ASSUME NEW i \in 1..Len(pqBuffer)
            PROVE  pqBuffer'[i].list = pqBuffer[i].list /\ pqBuffer[i].list # Len(lists) + 1
        <5>1. pqBuffer'[i] = pqBuffer[i] /\ pqBuffer[i].list \in 1..Len(lists)
          BY <3>1, <4>1
        <5>2. Len(lists) \in Nat
          BY <1>b
        <5> QED BY <5>1, <5>2
      <4> QED BY <4>2
    <3> QED BY <1>b, <1>3, <1>c, <3>2, <3>3
  <2>3. \A u \in PqWorkers : pqAt'[u] # "idle" => pqEvent'[u] \notin passedOn' \cup deadLettered'
    BY <1>0, <1>1 DEF WrittenOnce, PqTypeOK, PqThreads
  <2>4. \A u, v \in PqWorkers : pqAt'[u] # "idle" /\ pqAt'[v] # "idle" /\ pqEvent'[u] = pqEvent'[v] => u = v
    BY <1>0, <1>1 DEF WrittenOnce, PqTypeOK, PqThreads
  <2> QED BY <1>0, <1>1, <1>6, <2>1, <2>2, <2>3, <2>4 DEF WrittenOnce
<1>11. ClosesLast'
  BY <1>0, <1>1 DEF ClosesLast, PqTypeOK, PqThreads
<1>12. RowsSafe'
  <2>1. ASSUME NEW u \in PqWorkers, pqAt'[u] = "open", pqEvent'[u] \notin overlapped'
        PROVE  /\ \A v \in PqThreads : ~Flushing(v)'
               /\ \E i \in 1..Len(pqBuffer') : pqBuffer'[i].list = listOf'[u]
    <3>1. CASE u = t
      BY <1>0, <1>1, <1>3, <1>9, <2>1, <3>1 DEF PqTypeOK
    <3>2. CASE u # t
      <4>1. u \in PqThreads /\ pqAt[u] = "open" /\ pqEvent[u] \notin overlapped
        BY <1>0, <1>1, <2>1, <3>2 DEF PqTypeOK, PqThreads
      <4>2. PICK i \in 1..Len(pqBuffer) : pqBuffer[i].list = listOf[u]
        BY <1>0, <4>1 DEF RowsSafe
      <4>3. i \in 1..Len(pqBuffer') /\ pqBuffer'[i].list = listOf'[u]
        BY <1>3, <1>c, <3>2, <4>1, <4>2
      <4> QED BY <1>0, <1>9, <4>1, <4>3 DEF RowsSafe
    <3> QED BY <1>0, <3>1, <3>2
  <2>2. ASSUME NEW x \in PqEvents, x \notin overlapped', Appended(x)'
        PROVE  Kept(x)'
    <3>1. x \notin overlapped /\ Appended(x)
      BY <1>0, <1>1, <1>6, <2>2
    <3>2. CASE silver[x] > 0
      BY <1>0, <1>1, <3>2 DEF Kept
    <3>3. CASE x \in Buffered
      <4>1. PICK i \in 1..Len(pqBuffer) : x \in RowsAt(i)
        BY <1>0, <3>3, InBuffer
      <4>2. i \in 1..Len(pqBuffer') /\ x \in RowsAt(i)'
        BY <1>0, <1>3, <1>7, <4>1 DEF PqTypeOK
      <4> QED BY <1>5, <4>2, InBufferNext DEF Kept
    <3> QED BY <1>0, <3>1, <3>2, <3>3 DEF RowsSafe, Kept
  <2>3. ASSUME NEW u \in PqThreads, Flushing(u)'
        PROVE  Saved(u)'
    <3>1. Saved(u) /\ pqAt'[u] = pqAt[u]
      BY <1>0, <1>1, <1>9, <2>3 DEF RowsSafe, Flushing, PqTypeOK
    <3> QED BY <1>1, <1>7, <1>8, <1>c, <3>1 DEF Saved
  <2> QED BY <1>0, <2>1, <2>2, <2>3 DEF RowsSafe
<1>13. ASSUME incidents' = {} PROVE Orderly'
  <2>1. Orderly
    BY <1>0, <1>1, <1>13
  <2>2. \A u \in PqThreads : pqAt'[u] \in {"flush", "file"} \/ pqAt[u] \in {"flush", "file"} => pqAt'[u] = pqAt[u]
    BY <1>0, <1>1 DEF PqTypeOK
  <2>3. \A u \in PqThreads : \A i \in Nat : Past(u, i) => Past(u, i)'
    BY <1>0, <1>1, <1>9, <2>2 DEF Past, Flushing
  <2>4. \A i \in 1..Len(pqBuffer') : \A x \in RowsAt(i)' : silver'[x] > 0 => \E u \in PqThreads : Past(u, i)'
    <3>1. \A i \in 1..Len(pqBuffer') : \A x \in RowsAt(i)' : i \in 1..Len(pqBuffer) /\ x \in RowsAt(i)
      BY <1>7, <1>8, <1>c
    <3> QED BY <1>0, <1>1, <2>1, <2>3, <3>1 DEF Orderly
  <2>5. \A u \in PqThreads : pqAt'[u] = "file" =>
           flushPos'[u] \in 1..Len(pqBuffer') /\ chunk'[u] \subseteq RowsAt(flushPos[u])'
    BY <1>1, <1>7, <1>c, <2>1, <2>2 DEF Orderly
  <2> QED BY <1>0, <1>1, <1>9, <2>1, <2>4, <2>5 DEF Orderly, RowsAt
<1> QED BY <1>5, <1>10, <1>11, <1>12, <1>13 DEF PqInv

\* What every step of a running flush keeps, and that no write is open undisturbed beside it.
LEMMA FlushMoves ==
  ASSUME PqInv, NEW t \in PqThreads, NEW s \in {"flush", "file", "done", "raised"}, Flushing(t),
         pqAt' = [pqAt EXCEPT ![t] = s],
         UNCHANGED <<pqEvent, listOf, lists, passedOn, deadLettered, overlapped>>,
         pqBuffer' \in {pqBuffer, <<>>}, s = "done" => pqBuffer' = <<>>,
         flushPos' \in [PqThreads -> Nat], sizeAt' = sizeAt,
         chunk' \in [PqThreads -> SUBSET PqEvents], silver' \in [PqEvents -> Nat],
         \A u \in PqThreads : \A e \in chunk'[u] : Appended(e),
         \A e \in PqEvents : silver'[e] > 0 => Appended(e)
  PROVE  /\ PqTypeOK' /\ WrittenOnce' /\ ClosesLast'
         /\ \A x : Appended(x)' <=> Appended(x)
         /\ \A u \in PqWorkers : pqAt'[u] = "open" => pqEvent'[u] \in overlapped'
<1>0. PqTypeOK /\ WrittenOnce /\ ClosesLast /\ RowsSafe
  BY DEF PqInv
<1>1. /\ pqAt[t] \in {"flush", "file"} /\ pqAt'[t] = s /\ pqAt' \in [PqThreads -> Places]
      /\ \A u \in PqThreads : u # t => pqAt'[u] = pqAt[u]
  BY <1>0 DEF PqTypeOK, Flushing, Places
<1>2. \A u \in PqWorkers : u \in PqThreads
  BY DEF PqThreads
<1>3. \A u \in PqWorkers : (pqAt'[u] = "idle" <=> pqAt[u] = "idle") /\ (pqAt'[u] = "open" <=> pqAt[u] = "open")
  BY <1>1, <1>2
<1>4. \A i \in 1..Len(pqBuffer') : pqBuffer' = pqBuffer
  OBVIOUS
<1>5. PqTypeOK'
  <2>1. pqBuffer' \in Seq([key : Keys, list : Nat])
    <3>1. \A T : <<>> \in Seq(T)
      OBVIOUS
    <3>2. pqBuffer \in Seq([key : Keys, list : Nat])
      BY <1>0 DEF PqTypeOK
    <3> QED BY <3>1, <3>2
  <2>2. \A i \in 1..Len(pqBuffer') : pqBuffer'[i].list \in 1..Len(lists')
    BY <1>0, <1>4 DEF PqTypeOK
  <2>3. /\ \A u \in PqWorkers : pqAt'[u] # "idle" => pqEvent'[u] \in PqEvents
        /\ \A u \in PqWorkers : pqAt'[u] = "open" => listOf'[u] \in 1..Len(lists')
    BY <1>0, <1>3 DEF PqTypeOK
  <2> QED BY <1>0, <1>1, <2>1, <2>2, <2>3 DEF PqTypeOK
<1>6. \A x : Appended(x)' <=> Appended(x)
  BY <1>3 DEF Appended
<1>7. WrittenOnce'
  <2>1. /\ \A u \in PqWorkers : pqAt'[u] # "idle" => pqEvent'[u] \notin passedOn' \cup deadLettered'
        /\ \A u, v \in PqWorkers : pqAt'[u] # "idle" /\ pqAt'[v] # "idle" /\ pqEvent'[u] = pqEvent'[v] => u = v
    BY <1>0, <1>3 DEF WrittenOnce
  <2>2. /\ \A j \in 1..Len(lists') : \A e \in lists'[j] : Appended(e)'
        /\ \A j, k \in 1..Len(lists') : \A e : e \in lists'[j] /\ e \in lists'[k] => j = k
        /\ \A i, k \in 1..Len(pqBuffer') : pqBuffer'[i].list = pqBuffer'[k].list => i = k
    BY <1>0, <1>4, <1>6 DEF WrittenOnce
  <2> QED BY <1>6, <2>1, <2>2 DEF WrittenOnce
<1>8. ClosesLast'
  <2>1. PqCloser \in PqThreads
    BY DEF PqThreads
  <2>2. pqAt'[PqCloser] # "open"
    BY <1>0, <1>1, <2>1 DEF ClosesLast
  <2>3. pqAt'[PqCloser] # "idle" => pqAt[PqCloser] # "idle"
    BY <1>1, <2>1
  <2>4. pqAt'[PqCloser] = "done" => pqBuffer' = <<>>
    BY <1>0, <1>1, <2>1 DEF ClosesLast
  <2> QED BY <1>0, <1>3, <2>2, <2>3, <2>4 DEF ClosesLast
<1>9. \A u \in PqWorkers : pqAt'[u] = "open" => pqEvent'[u] \in overlapped'
  BY <1>0, <1>3 DEF RowsSafe
<1> QED BY <1>5, <1>6, <1>7, <1>8, <1>9

\* An event that is on disk or in an unchanged buffer stays accounted for.
LEMMA KeptStays ==
  ASSUME PqInv, UNCHANGED <<lists, pqBuffer, overlapped>>, \A x : Appended(x)' <=> Appended(x),
         \A e \in PqEvents : silver[e] > 0 => silver'[e] > 0
  PROVE  \A e \in PqEvents : e \notin overlapped' /\ Appended(e)' => Kept(e)'
BY DEF PqInv, RowsSafe, Kept, Buffered

LEMMA NextStep ==
  ASSUME PqInv, NEW t \in PqThreads, FlushNext(t)
  PROVE  PqInv'
<1>0. PqTypeOK /\ WrittenOnce /\ ClosesLast /\ RowsSafe /\ (incidents = {} => Orderly)
  BY DEF PqInv
<1> DEFINE k == flushPos[t] + 1
           rows == RowsAt(k)
           s == IF rows = {} THEN "flush" ELSE "file"
<1>1. /\ pqAt[t] = "flush" /\ Flushing(t) /\ k \in 1..Len(pqBuffer) /\ k \in Nat
      /\ chunk' = [chunk EXCEPT ![t] = rows] /\ pqAt' = [pqAt EXCEPT ![t] = s]
      /\ flushPos' = [flushPos EXCEPT ![t] = k]
      /\ UNCHANGED <<pqEvent, listOf, lists, pqBuffer, sizeAt, silver, passedOn, deadLettered, overlapped, incidents>>
  BY <1>0 DEF FlushNext, RowsAt, Flushing, PqTypeOK
<1>2. rows \in SUBSET PqEvents /\ \A e \in rows : Appended(e)
  BY <1>0, <1>1 DEF PqTypeOK, WrittenOnce, RowsAt
<1>3. /\ pqAt'[t] = s /\ chunk'[t] = rows /\ flushPos'[t] = k
      /\ \A u \in PqThreads : u # t => pqAt'[u] = pqAt[u] /\ chunk'[u] = chunk[u] /\ flushPos'[u] = flushPos[u]
      /\ flushPos' \in [PqThreads -> Nat] /\ chunk' \in [PqThreads -> SUBSET PqEvents]
  BY <1>0, <1>1, <1>2 DEF PqTypeOK
<1> HIDE DEF rows
<1>4. s \in {"flush", "file", "done", "raised"}
  OBVIOUS
<1>5. \A u \in PqThreads : \A e \in chunk'[u] : Appended(e)
  BY <1>0, <1>2, <1>3 DEF WrittenOnce
<1>6. s # "done" /\ \A e \in PqEvents : silver'[e] > 0 => Appended(e)
  BY <1>0, <1>1 DEF WrittenOnce
<1>7. silver' \in [PqEvents -> Nat]
  BY <1>0, <1>1 DEF PqTypeOK
<1> HIDE DEF s
<1>8. /\ PqTypeOK' /\ WrittenOnce' /\ ClosesLast'
      /\ \A x : Appended(x)' <=> Appended(x)
      /\ \A u \in PqWorkers : pqAt'[u] = "open" => pqEvent'[u] \in overlapped'
  BY <1>1, <1>3, <1>4, <1>5, <1>6, <1>7, FlushMoves
<1>9. \A i : RowsAt(i)' = RowsAt(i)
  BY <1>1 DEF RowsAt
<1>10. RowsSafe'
  <2>1. \A e \in PqEvents : e \notin overlapped' /\ Appended(e)' => Kept(e)'
    BY <1>1, <1>8, KeptStays
  <2>2. ASSUME NEW u \in PqThreads, Flushing(u)' PROVE Saved(u)'
    <3>1. CASE u # t
      BY <1>0, <1>1, <1>3, <1>9, <2>2, <3>1 DEF RowsSafe, Saved, Flushing
    <3>2. CASE u = t
      <4>1. ASSUME NEW i \in 1..Len(pqBuffer), i <= k, NEW e \in RowsAt(i)
            PROVE  e \in overlapped \/ silver[e] > 0 \/ (pqAt'[t] = "file" /\ e \in chunk'[t])
        <5>1. CASE i = k
          BY <1>3, <4>1, <5>1 DEF s, rows
        <5>2. CASE i # k
          <6>1. i <= flushPos[t]
            BY <1>0, <4>1, <5>2 DEF PqTypeOK
          <6> QED BY <1>0, <1>1, <4>1, <6>1 DEF RowsSafe, Saved
        <5> QED BY <5>1, <5>2
      <4> QED BY <1>1, <1>3, <1>9, <3>2, <4>1 DEF Saved
    <3> QED BY <3>1, <3>2
  <2> QED BY <1>8, <2>1, <2>2 DEF RowsSafe
<1>11. ASSUME incidents' = {} PROVE Orderly'
  <2>1. Orderly
    BY <1>0, <1>1, <1>11
  <2>2. \A u \in PqThreads : Flushing(u)' <=> Flushing(u)
    BY <1>1, <1>3 DEF Flushing, s
  <2>3. ASSUME NEW u \in PqThreads, NEW i \in Nat, Past(u, i) PROVE Past(u, i)'
    <3>1. CASE u = t
      BY <1>0, <1>1, <1>3, <2>2, <2>3, <3>1 DEF Past, PqTypeOK
    <3>2. CASE u # t
      BY <1>3, <2>2, <2>3, <3>2 DEF Past
    <3> QED BY <3>1, <3>2
  <2>4. \A i \in 1..Len(pqBuffer) : i \in Nat
    OBVIOUS
  <2>5. \A i \in 1..Len(pqBuffer') : \A x \in RowsAt(i)' : silver'[x] > 0 => \E u \in PqThreads : Past(u, i)'
    BY <1>1, <1>9, <2>1, <2>3, <2>4 DEF Orderly
  <2>6. \A u \in PqThreads : pqAt'[u] = "file" =>
           flushPos'[u] \in 1..Len(pqBuffer') /\ chunk'[u] \subseteq RowsAt(flushPos'[u])
    <3>1. chunk'[t] = RowsAt(flushPos'[t]) /\ flushPos'[t] \in 1..Len(pqBuffer')
      BY <1>1, <1>3 DEF rows
    <3>2. \A u \in PqThreads : u # t /\ pqAt[u] = "file" => flushPos[u] \in 1..Len(pqBuffer) /\ chunk[u] \subseteq RowsAt(flushPos[u])
      BY <2>1 DEF Orderly
    <3> QED BY <1>1, <1>3, <3>1, <3>2
  <2> QED BY <1>1, <1>9, <2>1, <2>2, <2>5, <2>6 DEF Orderly, RowsAt
<1> QED BY <1>8, <1>10, <1>11 DEF PqInv

\* A flush that raises leaves the buffer as it is, and the incident on record.
LEMMA RaiseStep ==
  ASSUME PqInv, NEW t \in PqThreads, FlushResized(t) \/ FlushFileFails(t)
  PROVE  PqInv'
<1>0. PqTypeOK /\ WrittenOnce /\ RowsSafe
  BY DEF PqInv
<1>1. /\ Flushing(t) /\ pqAt' = [pqAt EXCEPT ![t] = "raised"] /\ incidents' # {}
      /\ chunk' \in {chunk, [chunk EXCEPT ![t] = {}]}
      /\ UNCHANGED <<pqEvent, listOf, lists, pqBuffer, flushPos, sizeAt, silver, passedOn, deadLettered, overlapped>>
  BY DEF FlushResized, FlushFileFails, Flushing
<1>2. /\ \A u \in PqThreads : u # t => pqAt'[u] = pqAt[u] /\ chunk'[u] = chunk[u]
      /\ chunk' \in [PqThreads -> SUBSET PqEvents] /\ chunk'[t] \in SUBSET chunk[t]
      /\ pqAt'[t] = "raised"
  BY <1>0, <1>1 DEF PqTypeOK
<1>3. /\ \A u \in PqThreads : \A e \in chunk'[u] : Appended(e)
      /\ \A e \in PqEvents : silver'[e] > 0 => Appended(e)
  BY <1>0, <1>1, <1>2 DEF WrittenOnce
<1>4. flushPos' \in [PqThreads -> Nat] /\ silver' \in [PqEvents -> Nat]
  BY <1>0, <1>1 DEF PqTypeOK
<1>5. /\ PqTypeOK' /\ WrittenOnce' /\ ClosesLast'
      /\ \A x : Appended(x)' <=> Appended(x)
      /\ \A u \in PqWorkers : pqAt'[u] = "open" => pqEvent'[u] \in overlapped'
  BY <1>1, <1>2, <1>3, <1>4, FlushMoves
<1>6. RowsSafe'
  <2>1. \A e \in PqEvents : e \notin overlapped' /\ Appended(e)' => Kept(e)'
    BY <1>1, <1>5, KeptStays
  <2>2. ASSUME NEW u \in PqThreads, Flushing(u)' PROVE Saved(u)'
    <3>1. u # t
      BY <1>2, <2>2 DEF Flushing
    <3> QED BY <1>0, <1>1, <1>2, <2>2, <3>1 DEF RowsSafe, Saved, Flushing, RowsAt
  <2> QED BY <1>5, <2>1, <2>2 DEF RowsSafe
<1> QED BY <1>1, <1>5, <1>6 DEF PqInv

LEMMA FileStep ==
  ASSUME PqInv, NEW t \in PqThreads, FlushFile(t)
  PROVE  PqInv'
<1>0. PqTypeOK /\ WrittenOnce /\ ClosesLast /\ RowsSafe /\ (incidents = {} => Orderly)
  BY DEF PqInv
<1>1. /\ Flushing(t) /\ pqAt[t] = "file" /\ pqAt' = [pqAt EXCEPT ![t] = "flush"]
      /\ chunk' = [chunk EXCEPT ![t] = {}]
      /\ silver' = [e \in PqEvents |-> silver[e] + IF e \in chunk[t] THEN 1 ELSE 0]
      /\ UNCHANGED <<pqEvent, listOf, lists, pqBuffer, flushPos, sizeAt, passedOn, deadLettered, overlapped, incidents>>
  BY DEF FlushFile, Flushing
<1>2. /\ pqAt'[t] = "flush" /\ chunk'[t] = {} /\ chunk' \in [PqThreads -> SUBSET PqEvents]
      /\ \A u \in PqThreads : u # t => pqAt'[u] = pqAt[u] /\ chunk'[u] = chunk[u]
  BY <1>0, <1>1 DEF PqTypeOK
<1>3. /\ silver' \in [PqEvents -> Nat]
      /\ \A e \in PqEvents : silver'[e] = IF e \in chunk[t] THEN silver[e] + 1 ELSE silver[e]
  BY <1>0, <1>1 DEF PqTypeOK
<1>4. /\ \A u \in PqThreads : \A e \in chunk'[u] : Appended(e)
      /\ \A e \in PqEvents : silver'[e] > 0 => Appended(e)
  BY <1>0, <1>2, <1>3 DEF WrittenOnce
<1>5. flushPos' \in [PqThreads -> Nat]
  BY <1>0, <1>1 DEF PqTypeOK
<1>6. /\ PqTypeOK' /\ WrittenOnce' /\ ClosesLast'
      /\ \A x : Appended(x)' <=> Appended(x)
      /\ \A u \in PqWorkers : pqAt'[u] = "open" => pqEvent'[u] \in overlapped'
  BY <1>1, <1>2, <1>3, <1>4, <1>5, FlushMoves
<1>7. \A e \in PqEvents : (silver[e] > 0 \/ e \in chunk[t]) => silver'[e] > 0
  BY <1>0, <1>3 DEF PqTypeOK
<1>8. \A i : RowsAt(i)' = RowsAt(i)
  BY <1>1 DEF RowsAt
<1>9. \A i \in 1..Len(pqBuffer) : RowsAt(i) \subseteq PqEvents
  BY <1>0 DEF PqTypeOK, RowsAt
<1>10. RowsSafe'
  <2>1. \A e \in PqEvents : e \notin overlapped' /\ Appended(e)' => Kept(e)'
    BY <1>1, <1>6, <1>7, KeptStays
  <2>2. ASSUME NEW u \in PqThreads, Flushing(u)' PROVE Saved(u)'
    <3>1. Saved(u)
      BY <1>0, <1>1, <1>2, <2>2 DEF RowsSafe, Flushing
    <3> QED BY <1>1, <1>2, <1>7, <1>8, <1>9, <3>1 DEF Saved
  <2> QED BY <1>6, <2>1, <2>2 DEF RowsSafe
<1>11. ASSUME incidents' = {} PROVE Orderly'
  <2>1. Orderly
    BY <1>0, <1>1, <1>11
  <2>2. \A u \in PqThreads : Flushing(u)' <=> Flushing(u)
    BY <1>1, <1>2 DEF Flushing
  <2> DEFINE k == flushPos[t]
  <2>3. k \in 1..Len(pqBuffer) /\ chunk[t] \subseteq RowsAt(k)
    BY <1>1, <2>1 DEF Orderly
  <2>4. \A u \in PqThreads : Flushing(u) => u = t
    BY <1>1, <2>1 DEF Orderly
  <2>5. ASSUME NEW e \in chunk[t] PROVE silver[e] = 0 /\ e \in PqEvents
    <3>1. e \in PqEvents
      BY <1>0 DEF PqTypeOK
    <3>2. ~ (\E u \in PqThreads : Past(u, k))
      BY <1>0, <1>1, <2>4 DEF Past, PqTypeOK
    <3>3. ~ (silver[e] > 0)
      BY <2>1, <2>3, <3>2 DEF Orderly
    <3>4. silver[e] \in Nat
      BY <1>0, <3>1 DEF PqTypeOK
    <3> QED BY <3>1, <3>3, <3>4
  <2>6. \A e \in PqEvents : silver'[e] <= 1
    <3>1. \A e \in PqEvents : silver[e] <= 1
      BY <2>1 DEF Orderly
    <3> QED BY <1>3, <2>5, <3>1
  <2>7. ASSUME NEW i \in 1..Len(pqBuffer), NEW e \in RowsAt(i), silver'[e] > 0
        PROVE  \E u \in PqThreads : Past(u, i)'
    <3>1. CASE e \in chunk[t]
      <4>1. i = k
        <5>1. pqBuffer[i].list \in 1..Len(lists) /\ pqBuffer[k].list \in 1..Len(lists)
          BY <1>0, <2>3 DEF PqTypeOK
        <5>2. pqBuffer[i].list = pqBuffer[k].list
          BY <1>0, <2>3, <2>7, <3>1, <5>1 DEF WrittenOnce, RowsAt
        <5> QED BY <1>0, <2>3, <5>2 DEF WrittenOnce
      <4> QED BY <1>1, <1>2, <2>2, <4>1 DEF Past
    <3>2. CASE e \notin chunk[t]
      <4>1. silver[e] > 0
        BY <1>3, <1>9, <2>7, <3>2
      <4>2. PICK u \in PqThreads : Past(u, i)
        BY <2>1, <2>7, <4>1 DEF Orderly
      <4>3. u = t /\ i < flushPos[t]
        BY <1>1, <2>4, <4>2 DEF Past
      <4> QED BY <1>1, <2>2, <4>3 DEF Past
    <3> QED BY <3>1, <3>2
  <2>8. \A u \in PqThreads : pqAt'[u] # "file"
    BY <1>2, <2>2, <2>4 DEF Flushing
  <2> QED BY <1>1, <1>8, <2>2, <2>4, <2>6, <2>7, <2>8 DEF Orderly
<1> QED BY <1>6, <1>10, <1>11 DEF PqInv

\* The clearing of the whole buffer, the step that can lose rows.
LEMMA EndStep ==
  ASSUME PqInv, NEW t \in PqThreads, FlushEnd(t)
  PROVE  PqInv'
<1>0. PqTypeOK /\ WrittenOnce /\ ClosesLast /\ RowsSafe /\ (incidents = {} => Orderly)
  BY DEF PqInv
<1>1. /\ Flushing(t) /\ pqAt[t] = "flush" /\ pqAt' = [pqAt EXCEPT ![t] = "done"] /\ pqBuffer' = <<>>
      /\ Len(pqBuffer) <= flushPos[t]
      /\ UNCHANGED <<pqEvent, listOf, lists, flushPos, sizeAt, chunk, silver, passedOn, deadLettered, overlapped, incidents>>
  BY <1>0 DEF FlushEnd, Flushing, PqTypeOK
<1>2. pqAt'[t] = "done" /\ \A u \in PqThreads : u # t => pqAt'[u] = pqAt[u]
  BY <1>0, <1>1 DEF PqTypeOK
<1>3. /\ \A u \in PqThreads : \A e \in chunk'[u] : Appended(e)
      /\ \A e \in PqEvents : silver'[e] > 0 => Appended(e)
  BY <1>0, <1>1 DEF WrittenOnce
<1>4. flushPos' \in [PqThreads -> Nat] /\ silver' \in [PqEvents -> Nat] /\ chunk' \in [PqThreads -> SUBSET PqEvents]
  BY <1>0, <1>1 DEF PqTypeOK
<1>5. /\ PqTypeOK' /\ WrittenOnce' /\ ClosesLast'
      /\ \A x : Appended(x)' <=> Appended(x)
      /\ \A u \in PqWorkers : pqAt'[u] = "open" => pqEvent'[u] \in overlapped'
  BY <1>1, <1>3, <1>4, FlushMoves
<1>6. RowsSafe'
  <2>1. ASSUME NEW e \in PqEvents, e \notin overlapped', Appended(e)' PROVE Kept(e)'
    <3>1. Kept(e) /\ e \notin overlapped
      BY <1>0, <1>1, <1>5, <2>1 DEF RowsSafe
    <3>2. ASSUME e \in Buffered PROVE silver[e] > 0
      <4>1. PICK i \in 1..Len(pqBuffer) : e \in RowsAt(i)
        BY <1>0, <3>2, InBuffer
      <4>2. i <= flushPos[t]
        BY <1>0, <1>1 DEF PqTypeOK
      <4> QED BY <1>0, <1>1, <3>1, <4>1, <4>2 DEF RowsSafe, Saved
    <3> QED BY <1>1, <3>1, <3>2 DEF Kept
  <2>2. \A u \in PqThreads : Saved(u)'
    BY <1>1 DEF Saved
  <2> QED BY <1>5, <2>1, <2>2 DEF RowsSafe
<1>7. ASSUME incidents' = {} PROVE Orderly'
  <2>1. Orderly
    BY <1>0, <1>1, <1>7
  <2>2. \A u \in PqThreads : ~Flushing(u)'
    BY <1>1, <1>2, <2>1 DEF Orderly, Flushing
  <2> QED BY <1>1, <2>1, <2>2 DEF Orderly, Flushing
<1> QED BY <1>5, <1>6, <1>7 DEF PqInv

LEMMA SettleStep ==
  ASSUME PqInv, NEW t \in PqWorkers, Settle(t)
  PROVE  PqInv'
<1>0. PqTypeOK /\ WrittenOnce /\ ClosesLast /\ RowsSafe /\ (incidents = {} => Orderly)
  BY DEF PqInv
<1>1. /\ t \in PqThreads /\ pqAt[t] \in {"done", "raised"} /\ pqAt' = [pqAt EXCEPT ![t] = "idle"]
      /\ passedOn' \cup deadLettered' = passedOn \cup deadLettered \cup {pqEvent[t]}
      /\ UNCHANGED <<pqEvent, listOf, lists, pqBuffer, flushPos, sizeAt, chunk, silver, overlapped, incidents>>
  BY DEF Settle, PqThreads
<1>2. pqAt'[t] = "idle" /\ \A u \in PqThreads : u # t => pqAt'[u] = pqAt[u]
  BY <1>0, <1>1 DEF PqTypeOK
<1>3. \A u \in PqWorkers : u \in PqThreads
  BY DEF PqThreads
<1>4. PqTypeOK'
  <2>1. pqAt' \in [PqThreads -> Places]
    BY <1>0, <1>1 DEF PqTypeOK, Places
  <2>2. passedOn' \cup deadLettered' \subseteq PqEvents
    BY <1>0, <1>1 DEF PqTypeOK
  <2> QED BY <1>0, <1>1, <1>2, <1>3, <2>1, <2>2 DEF PqTypeOK
<1>5. \A x : Appended(x)' <=> Appended(x)
  <2>1. \A x : Appended(x) => Appended(x)'
    BY <1>1, <1>2, <1>3 DEF Appended
  <2>2. \A x : Appended(x)' => Appended(x)
    BY <1>1, <1>2, <1>3 DEF Appended
  <2> QED BY <2>1, <2>2
<1>6. WrittenOnce'
  <2>1. \A u \in PqWorkers : pqAt'[u] # "idle" => pqEvent'[u] \notin passedOn' \cup deadLettered'
    <3>1. ASSUME NEW u \in PqWorkers, pqAt'[u] # "idle" PROVE pqEvent[u] \notin passedOn \cup deadLettered \cup {pqEvent[t]}
      <4>1. u # t /\ pqAt[u] # "idle" /\ pqAt[t] # "idle"
        BY <1>1, <1>2, <1>3, <3>1
      <4> QED BY <1>0, <3>1, <4>1 DEF WrittenOnce
    <3> QED BY <1>1, <3>1
  <2>2. \A u, v \in PqWorkers : pqAt'[u] # "idle" /\ pqAt'[v] # "idle" /\ pqEvent'[u] = pqEvent'[v] => u = v
    BY <1>0, <1>1, <1>2, <1>3 DEF WrittenOnce
  <2> QED BY <1>0, <1>1, <1>5, <2>1, <2>2 DEF WrittenOnce
<1>7. ClosesLast'
  <2>1. PqCloser \in PqThreads /\ PqCloser # t
    BY PqAssumption DEF PqThreads
  <2> QED BY <1>0, <1>1, <1>2, <1>3, <2>1 DEF ClosesLast
<1>8. \A u \in PqThreads : (Flushing(u)' <=> Flushing(u)) /\ (pqAt'[u] \in {"open", "flush", "file"} => pqAt'[u] = pqAt[u])
  BY <1>1, <1>2 DEF Flushing
<1>9. RowsSafe'
  <2>1. \A e \in PqEvents : e \notin overlapped' /\ Appended(e)' => Kept(e)'
    BY <1>1, <1>5, KeptStays
  <2>2. \A u \in PqThreads : Flushing(u)' => Saved(u)'
    BY <1>0, <1>1, <1>8 DEF RowsSafe, Saved, Flushing, RowsAt
  <2>3. \A u \in PqWorkers : pqAt'[u] = "open" /\ pqEvent'[u] \notin overlapped' =>
          /\ \A v \in PqThreads : ~Flushing(v)'
          /\ \E i \in 1..Len(pqBuffer') : pqBuffer'[i].list = listOf'[u]
    BY <1>0, <1>1, <1>3, <1>8 DEF RowsSafe
  <2> QED BY <2>1, <2>2, <2>3 DEF RowsSafe
<1>10. ASSUME incidents' = {} PROVE Orderly'
  <2>1. Orderly
    BY <1>0, <1>1, <1>10
  <2>2. \A u \in PqThreads : \A i : Past(u, i) => Past(u, i)'
    BY <1>1, <1>2, <1>8 DEF Past
  <2>3. \A i : RowsAt(i)' = RowsAt(i)
    BY <1>1 DEF RowsAt
  <2>4. \A i \in 1..Len(pqBuffer') : \A x \in RowsAt(i)' : silver'[x] > 0 => \E u \in PqThreads : Past(u, i)'
    BY <1>1, <2>1, <2>2, <2>3 DEF Orderly
  <2>5. \A u \in PqThreads : pqAt'[u] = "file" =>
           flushPos'[u] \in 1..Len(pqBuffer') /\ chunk'[u] \subseteq RowsAt(flushPos'[u])
    BY <1>1, <1>8, <2>1 DEF Orderly
  <2> QED BY <1>1, <1>8, <2>1, <2>3, <2>4, <2>5 DEF Orderly, RowsAt
<1> QED BY <1>4, <1>6, <1>7, <1>9, <1>10 DEF PqInv

LEMMA CloseStep ==
  ASSUME PqInv, ParquetClose
  PROVE  PqInv'
<1>0. PqTypeOK /\ WrittenOnce /\ ClosesLast /\ RowsSafe /\ (incidents = {} => Orderly)
  BY DEF PqInv
<1>1. /\ PqCloser \in PqThreads /\ \A u \in PqThreads : pqAt[u] = "idle"
      /\ pqAt' = [pqAt EXCEPT ![PqCloser] = "flush"]
      /\ flushPos' = [flushPos EXCEPT ![PqCloser] = 0]
      /\ sizeAt' = [sizeAt EXCEPT ![PqCloser] = Len(pqBuffer)]
      /\ UNCHANGED <<pqEvent, listOf, lists, pqBuffer, chunk, silver, passedOn, deadLettered, overlapped, incidents>>
  BY DEF ParquetClose, PqThreads
<1>2. /\ pqAt'[PqCloser] = "flush" /\ flushPos'[PqCloser] = 0
      /\ \A u \in PqThreads : u # PqCloser => pqAt'[u] = "idle"
  BY <1>0, <1>1 DEF PqTypeOK
<1>3. \A u \in PqWorkers : u \in PqThreads /\ u # PqCloser
  BY PqAssumption DEF PqThreads
<1>4. \A u \in PqWorkers : pqAt'[u] = "idle" /\ pqAt[u] = "idle"
  BY <1>1, <1>2, <1>3
<1>5. PqTypeOK'
  <2>1. pqAt' \in [PqThreads -> Places]
    BY <1>0, <1>1 DEF PqTypeOK, Places
  <2>2. flushPos' \in [PqThreads -> Nat] /\ sizeAt' \in [PqThreads -> Nat]
    BY <1>0, <1>1 DEF PqTypeOK
  <2> QED BY <1>0, <1>1, <1>4, <2>1, <2>2 DEF PqTypeOK
<1>6. \A x : Appended(x)' <=> Appended(x)
  BY <1>1, <1>4 DEF Appended
<1>7. WrittenOnce'
  BY <1>0, <1>1, <1>4, <1>6 DEF WrittenOnce
<1>8. ClosesLast'
  BY <1>1, <1>2, <1>4 DEF ClosesLast
<1>9. RowsSafe'
  <2>1. \A e \in PqEvents : e \notin overlapped' /\ Appended(e)' => Kept(e)'
    BY <1>1, <1>6, KeptStays
  <2>2. ASSUME NEW u \in PqThreads, Flushing(u)' PROVE Saved(u)'
    <3>1. flushPos'[u] = 0
      BY <1>2, <2>2 DEF Flushing
    <3> QED BY <3>1 DEF Saved
  <2> QED BY <1>4, <2>1, <2>2 DEF RowsSafe
<1>10. ASSUME incidents' = {} PROVE Orderly'
  <2>1. Orderly
    BY <1>0, <1>1, <1>10
  <2>2. \A u \in PqThreads : (Flushing(u)' => u = PqCloser) /\ ~Flushing(u) /\ pqAt'[u] # "file"
    BY <1>1, <1>2 DEF Flushing
  <2>3. \A i \in 1..Len(pqBuffer) : \A e \in RowsAt(i) : ~(silver[e] > 0)
    BY <2>1, <2>2 DEF Orderly, Past
  <2> QED BY <1>1, <2>1, <2>2, <2>3 DEF Orderly, RowsAt
<1> QED BY <1>5, <1>7, <1>8, <1>9, <1>10 DEF PqInv

LEMMA AppendStep ==
  ASSUME PqInv, NEW t \in PqWorkers, NEW due \in BOOLEAN, WriteAppend(t, due)
  PROVE  PqInv'
<1>0. PqTypeOK /\ WrittenOnce /\ ClosesLast /\ RowsSafe /\ (incidents = {} => Orderly)
  BY DEF PqInv
<1> DEFINE E == pqEvent[t]
<1>1. /\ t \in PqThreads /\ pqAt[t] = "open" /\ E \in PqEvents /\ listOf[t] \in 1..Len(lists)
      /\ lists' \in Seq(SUBSET PqEvents) /\ Len(lists') = Len(lists)
      /\ \A j \in 1..Len(lists) : lists'[j] = IF j = listOf[t] THEN lists[j] \cup {E} ELSE lists[j]
      /\ UNCHANGED <<pqEvent, listOf, pqBuffer, chunk, silver, passedOn, deadLettered>>
  BY <1>0, AppendShape DEF WriteAppend
<1>2. /\ pqAt'[t] \in {"flush", "done"} /\ flushPos'[t] = 0 /\ pqAt' \in [PqThreads -> Places]
      /\ \A u \in PqThreads : u # t => pqAt'[u] = pqAt[u] /\ flushPos'[u] = flushPos[u]
      /\ flushPos' \in [PqThreads -> Nat] /\ sizeAt' \in [PqThreads -> Nat]
  <2>1. /\ \E x \in {"flush", "done"} : pqAt' = [pqAt EXCEPT ![t] = x]
        /\ flushPos' = [flushPos EXCEPT ![t] = 0] /\ sizeAt' = [sizeAt EXCEPT ![t] = Len(pqBuffer)]
    BY DEF WriteAppend
  <2>2. Len(pqBuffer) \in Nat
    BY <1>0 DEF PqTypeOK
  <2> QED BY <1>0, <1>1, <2>1, <2>2 DEF PqTypeOK, Places
<1>3. /\ overlapped \subseteq overlapped'
      /\ (\E u \in PqThreads : Flushing(u)) => E \in overlapped'
      /\ pqAt'[t] = "flush" => \A v \in PqWorkers : v # t /\ pqAt[v] = "open" => pqEvent[v] \in overlapped'
      /\ incidents' = {} => incidents = {} /\ (pqAt'[t] = "flush" => \A u \in PqThreads : ~Flushing(u))
  <2> DEFINE flush == due \/ buffered' >= MaxRows
  <2>1. /\ pqAt' = [pqAt EXCEPT ![t] = IF flush THEN "flush" ELSE "done"]
        /\ overlapped' = overlapped
             \cup (IF \E u \in PqThreads : Flushing(u) THEN {E} ELSE {})
             \cup (IF flush THEN {pqEvent[u] : u \in {v \in PqWorkers \ {t} : pqAt[v] = "open"}} ELSE {})
        /\ incidents' = IF flush /\ \E u \in PqThreads : Flushing(u) THEN incidents \cup {"two"} ELSE incidents
    BY DEF WriteAppend
  <2> HIDE DEF flush
  <2>2. pqAt'[t] = "flush" => flush
    BY <1>0, <1>1, <2>1 DEF PqTypeOK
  <2> QED BY <2>1, <2>2
<1>4. \A u \in PqWorkers : u \in PqThreads
  BY DEF PqThreads
<1>5. PqTypeOK'
  <2>1. \A u \in PqWorkers : (pqAt'[u] # "idle" => pqAt[u] # "idle") /\ (pqAt'[u] = "open" => pqAt[u] = "open")
    BY <1>1, <1>2, <1>4
  <2>2. /\ \A u \in PqWorkers : pqAt'[u] # "idle" => pqEvent'[u] \in PqEvents
        /\ \A u \in PqWorkers : pqAt'[u] = "open" => listOf'[u] \in 1..Len(lists')
        /\ \A i \in 1..Len(pqBuffer') : pqBuffer'[i].list \in 1..Len(lists')
    BY <1>0, <1>1, <2>1 DEF PqTypeOK
  <2> QED BY <1>0, <1>1, <1>2, <2>2 DEF PqTypeOK
<1>6. ~Appended(E)
  BY <1>0, <1>1 DEF Appended, WrittenOnce
<1>7. \A x : Appended(x)' <=> (Appended(x) \/ x = E)
  <2>1. \A u \in PqWorkers : pqAt'[u] \notin {"idle", "open"} <=> (pqAt[u] \notin {"idle", "open"} \/ u = t)
    BY <1>1, <1>2, <1>4
  <2> QED BY <1>1, <2>1 DEF Appended
<1>8. \A i \in 1..Len(pqBuffer) :
         RowsAt(i)' = IF pqBuffer[i].list = listOf[t] THEN RowsAt(i) \cup {E} ELSE RowsAt(i)
  BY <1>0, <1>1 DEF RowsAt, PqTypeOK
<1>9. WrittenOnce'
  <2>1. /\ \A u \in PqWorkers : pqAt'[u] # "idle" => pqEvent'[u] \notin passedOn' \cup deadLettered'
        /\ \A u, v \in PqWorkers : pqAt'[u] # "idle" /\ pqAt'[v] # "idle" /\ pqEvent'[u] = pqEvent'[v] => u = v
    <3>1. \A u \in PqWorkers : pqAt'[u] # "idle" => pqAt[u] # "idle"
      BY <1>1, <1>2, <1>4
    <3> QED BY <1>0, <1>1, <3>1 DEF WrittenOnce
  <2>2. \A j \in 1..Len(lists) : E \notin lists[j]
    BY <1>0, <1>6 DEF WrittenOnce
  <2>3. \A j \in 1..Len(lists') : \A x \in lists'[j] : Appended(x)'
    <3>1. \A j \in 1..Len(lists) : \A x \in lists'[j] : x \in lists[j] \/ x = E
      BY <1>1
    <3> QED BY <1>0, <1>1, <1>7, <3>1 DEF WrittenOnce
  <2>4. \A j, k \in 1..Len(lists') : \A x : x \in lists'[j] /\ x \in lists'[k] => j = k
    <3>1. \A j, k \in 1..Len(lists) : \A x : x \in lists[j] /\ x \in lists[k] => j = k
      BY <1>0 DEF WrittenOnce
    <3>2. \A j \in 1..Len(lists) : \A x \in lists'[j] : x \in lists[j] \/ (x = E /\ j = listOf[t])
      BY <1>1
    <3> QED BY <1>1, <2>2, <3>1, <3>2
  <2> QED BY <1>0, <1>1, <1>7, <2>1, <2>3, <2>4 DEF WrittenOnce
<1>10. ClosesLast'
  <2>1. PqCloser \in PqThreads /\ PqCloser # t
    BY PqAssumption DEF PqThreads
  <2> QED BY <1>0, <1>1, <1>2, <1>4, <2>1 DEF ClosesLast
<1>11. RowsSafe'
  <2>1. ASSUME NEW u \in PqWorkers, pqAt'[u] = "open", pqEvent'[u] \notin overlapped'
        PROVE  /\ \A v \in PqThreads : ~Flushing(v)'
               /\ \E i \in 1..Len(pqBuffer') : pqBuffer'[i].list = listOf'[u]
    <3>1. u # t /\ pqAt[u] = "open" /\ pqEvent[u] \notin overlapped /\ pqEvent[u] \notin overlapped'
      BY <1>1, <1>2, <1>3, <1>4, <2>1
    <3>2. /\ \A v \in PqThreads : ~Flushing(v)
          /\ \E i \in 1..Len(pqBuffer) : pqBuffer[i].list = listOf[u]
      BY <1>0, <3>1 DEF RowsSafe
    <3>3. pqAt'[t] # "flush"
      BY <1>3, <3>1
    <3> QED BY <1>1, <1>2, <3>2, <3>3 DEF Flushing
  <2>2. ASSUME NEW x \in PqEvents, x \notin overlapped', Appended(x)'
        PROVE  Kept(x)'
    <3>1. CASE x = E
      <4>1. x \notin overlapped
        BY <1>3, <2>2
      <4>2. PICK i \in 1..Len(pqBuffer) : pqBuffer[i].list = listOf[t]
        BY <1>0, <1>1, <3>1, <4>1 DEF RowsSafe
      <4>3. i \in 1..Len(pqBuffer') /\ x \in RowsAt(i)'
        BY <1>1, <1>8, <3>1, <4>2
      <4> QED BY <1>5, <4>3, InBufferNext DEF Kept
    <3>2. CASE x # E
      <4>1. Kept(x)
        BY <1>0, <1>3, <1>7, <2>2, <3>2 DEF RowsSafe
      <4>2. CASE silver[x] > 0
        BY <1>1, <4>2 DEF Kept
      <4>3. CASE x \in Buffered
        <5>1. PICK i \in 1..Len(pqBuffer) : x \in RowsAt(i)
          BY <1>0, <4>3, InBuffer
        <5>2. i \in 1..Len(pqBuffer') /\ x \in RowsAt(i)'
          BY <1>1, <1>8, <5>1
        <5> QED BY <1>5, <5>2, InBufferNext DEF Kept
      <4> QED BY <4>1, <4>2, <4>3 DEF Kept
    <3> QED BY <3>1, <3>2
  <2>3. ASSUME NEW u \in PqThreads, Flushing(u)' PROVE Saved(u)'
    <3>1. CASE u = t
      BY <1>2, <3>1 DEF Saved
    <3>2. CASE u # t
      <4>1. Flushing(u) /\ Saved(u) /\ pqAt'[u] = pqAt[u] /\ flushPos'[u] = flushPos[u]
        BY <1>0, <1>2, <2>3, <3>2 DEF RowsSafe, Flushing
      <4>2. E \in overlapped'
        BY <1>3, <4>1
      <4>3. \A i \in 1..Len(pqBuffer) : \A x \in RowsAt(i)' : x = E \/ x \in RowsAt(i)
        BY <1>8
      <4> QED BY <1>1, <1>3, <4>1, <4>2, <4>3 DEF Saved
    <3> QED BY <3>1, <3>2
  <2> QED BY <2>1, <2>2, <2>3 DEF RowsSafe
<1>12. ASSUME incidents' = {} PROVE Orderly'
  <2>1. Orderly
    BY <1>0, <1>3, <1>12
  <2>2. ASSUME NEW u \in PqThreads, NEW v \in PqThreads, Flushing(u)', Flushing(v)' PROVE u = v
    <3>1. \A w \in PqThreads : w # t => (Flushing(w)' <=> Flushing(w))
      BY <1>2 DEF Flushing
    <3>2. Flushing(t)' => \A w \in PqThreads : ~Flushing(w)
      BY <1>2, <1>3, <1>12 DEF Flushing
    <3> QED BY <2>1, <2>2, <3>1, <3>2 DEF Orderly
  <2>3. ASSUME NEW i \in 1..Len(pqBuffer), NEW x, x \in RowsAt(i)', silver[x] > 0
        PROVE  \E u \in PqThreads : Past(u, i)'
    <3>1. E \in PqEvents /\ silver[E] > 0 => Appended(E)
      BY <1>0, <1>1 DEF WrittenOnce
    <3>2. x \in RowsAt(i)
      BY <1>1, <1>6, <1>8, <2>3, <3>1
    <3>3. PICK u \in PqThreads : Past(u, i)
      BY <2>1, <2>3, <3>2 DEF Orderly
    <3>4. u # t
      BY <1>1, <3>3 DEF Past, Flushing
    <3> QED BY <1>2, <3>3, <3>4 DEF Past, Flushing
  <2>4. ASSUME NEW u \in PqThreads, pqAt'[u] = "file"
        PROVE  flushPos'[u] \in 1..Len(pqBuffer') /\ chunk'[u] \subseteq lists'[pqBuffer'[flushPos'[u]].list]
    <3>1. u # t /\ pqAt[u] = "file" /\ flushPos'[u] = flushPos[u]
      BY <1>2, <2>4
    <3>2. flushPos[u] \in 1..Len(pqBuffer) /\ chunk[u] \subseteq RowsAt(flushPos[u])
      BY <2>1, <3>1 DEF Orderly
    <3>3. RowsAt(flushPos[u]) \subseteq lists'[pqBuffer'[flushPos[u]].list]
      BY <1>0, <1>1, <3>2 DEF RowsAt, PqTypeOK
    <3> QED BY <1>1, <3>1, <3>2, <3>3
  <2>5. \A x \in PqEvents : silver'[x] <= 1
    BY <1>1, <2>1 DEF Orderly
  <2>6. \A i \in 1..Len(pqBuffer') : \A x \in RowsAt(i)' : silver'[x] > 0 => \E u \in PqThreads : Past(u, i)'
    BY <1>1, <2>3
  <2> QED BY <2>2, <2>4, <2>5, <2>6 DEF Orderly, RowsAt
<1> QED BY <1>5, <1>9, <1>10, <1>11, <1>12 DEF PqInv

LEMMA PqStep == PqInv /\ [ParquetNext]_pqVars => PqInv'
<1> SUFFICES ASSUME PqInv, [ParquetNext]_pqVars PROVE PqInv'
  OBVIOUS
<1>1. ASSUME NEW t \in PqWorkers, NEW e \in PqEvents, WriteOpen(t, e) PROVE PqInv'
  BY <1>1, OpenStep
<1>2. ASSUME NEW t \in PqWorkers, NEW due \in BOOLEAN, WriteAppend(t, due) PROVE PqInv'
  BY <1>2, AppendStep
<1>3. ASSUME NEW t \in PqThreads,
             FlushNext(t) \/ FlushResized(t) \/ FlushFile(t) \/ FlushFileFails(t) \/ FlushEnd(t)
      PROVE  PqInv'
  BY <1>3, NextStep, RaiseStep, FileStep, EndStep
<1>4. ASSUME NEW t \in PqWorkers, Settle(t) PROVE PqInv'
  BY <1>4, SettleStep
<1>5. CASE ParquetClose
  BY <1>5, CloseStep
<1>6. CASE UNCHANGED pqVars
  <2>1. PqTypeOK'
    BY <1>6 DEF PqInv, PqTypeOK, pqVars
  <2>2. WrittenOnce'
    BY <1>6 DEF PqInv, WrittenOnce, Appended, pqVars
  <2>3. ClosesLast'
    BY <1>6 DEF PqInv, ClosesLast, pqVars
  <2>4. RowsSafe'
    BY <1>6 DEF PqInv, RowsSafe, Appended, Kept, Buffered, Saved, RowsAt, Flushing, pqVars
  <2>5. incidents' = {} => Orderly'
    BY <1>6 DEF PqInv, Orderly, Past, RowsAt, Flushing, pqVars
  <2> QED BY <2>1, <2>2, <2>3, <2>4, <2>5 DEF PqInv
<1> QED BY <1>1, <1>2, <1>3, <1>4, <1>5, <1>6 DEF ParquetNext

LEMMA PqInvImplies == PqInv => RowsAccounted
<1> SUFFICES ASSUME PqInv PROVE RowsAccounted
  OBVIOUS
<1>0. PqTypeOK /\ WrittenOnce /\ ClosesLast /\ RowsSafe /\ (incidents = {} => Orderly)
  BY DEF PqInv
<1>1. LossNeedsOverlap
  BY <1>0 DEF LossNeedsOverlap, RowsSafe, Appended, PqTypeOK
<1>2. DuplicatesAreExplained
  <2>1. ASSUME incidents = {} PROVE \A e \in PqEvents : ~(silver[e] > 1)
    BY <1>0, <2>1 DEF Orderly, PqTypeOK
  <2> QED BY <2>1 DEF DuplicatesAreExplained
<1>3. CloseWritesAll
  <2>1. ASSUME pqAt[PqCloser] = "done", NEW e \in passedOn \ overlapped PROVE pqBuffer = <<>> /\ silver[e] > 0
    <3>1. pqBuffer = <<>>
      BY <1>0, <2>1 DEF ClosesLast
    <3>2. Buffered = {}
      BY <3>1 DEF Buffered
    <3> QED BY <1>1, <3>1, <3>2 DEF LossNeedsOverlap, Kept
  <2>2. pqAt[PqCloser] = "done" => pqBuffer = <<>>
    BY <1>0 DEF ClosesLast
  <2> QED BY <2>1, <2>2 DEF CloseWritesAll
<1> QED BY <1>1, <1>2, <1>3 DEF RowsAccounted

\* The silver sink, its threads sharing the buffer without a lock: a row is lost only when its
\* write met another thread's flush, doubled only after a flush raised or two ran at once, and
\* on disk once close() went through.
THEOREM ParquetAccounts == ParquetSpec => []RowsAccounted
  BY PqInitInv, PqStep, PqInvImplies, PTL DEF ParquetSpec

-----------------------------------------------------------------------------
\* The copies of row r in the files S, and in a sequence of rows.
Count(ps, S, r) == Cardinality(Occurrences(ps, S, r))
CountIn(r, seq) == Cardinality(At(r, seq))
FilesOK(ps, S) == IsFiniteSet(S) /\ \A p \in S : ps[p].rows \in Seq(SilverRows)

CompTypeOK ==
  /\ IsFiniteSet(DOMAIN parts) /\ DOMAIN parts \subseteq Nat
  /\ parts \in [DOMAIN parts -> [rows : Seq(SilverRows), whole : BOOLEAN]]
  /\ landed \subseteq SilverRows /\ mergedRows \in Seq(SilverRows)
  /\ mostCopies \in Nat \ {0} /\ cpAt \in {"idle", "read", "write", "unlink"}

\* Only rows that landed can be read; a part that is still being written holds one row,
\* which is in no other file.
OnlyLanded ==
  /\ \A p \in Whole : Range(parts[p].rows) \subseteq landed
  /\ Range(mergedRows) \subseteq landed
  /\ \A p \in DOMAIN parts \ Whole : \E r \in SilverRows \ landed : parts[p].rows = <<r>>
  /\ \A p, q \in DOMAIN parts \ Whole : parts[p].rows = parts[q].rows => p = q

\* What the pass knows of its inputs.
InputsKnown ==
  /\ inputs \subseteq DOMAIN parts /\ unread \subseteq inputs /\ inputs \ unread \subseteq Whole
  /\ cpAt = "idle" => inputs = {}
  /\ cpAt \in {"idle", "write", "unlink"} => unread = {}
  /\ cpAt \in {"idle", "unlink"} => mergedRows = <<>>

\* The copies of a landed row, in each phase of a pass.
Tally(r) ==
  /\ cpAt \in {"idle", "read"} => Count(parts, Whole, r) \in 1..mostCopies
  /\ cpAt = "read" => Count(parts, inputs \ unread, r) = CountIn(r, mergedRows)
  /\ cpAt \in {"write", "unlink"} =>
       /\ Count(parts, Whole, r) >= 1
       /\ Count(parts, inputs, r) <= mostCopies
       /\ Count(parts, Whole \ inputs, r) + CountIn(r, mergedRows) \in 1..mostCopies

CompInv == CompTypeOK /\ OnlyLanded /\ InputsKnown /\ \A r \in landed : Tally(r)

\* A row is in a sequence finitely often.
LEMMA AtFinite ==
  ASSUME NEW r, NEW s \in Seq(SilverRows)
  PROVE  IsFiniteSet(At(r, s)) /\ CountIn(r, s) \in Nat
<1>1. At(r, s) \subseteq 1..Len(s)
  BY DEF At
<1>2. IsFiniteSet(1..Len(s))
  BY FS_Interval
<1>3. IsFiniteSet(At(r, s))
  BY <1>1, <1>2, FS_Subset
<1> QED
  BY <1>3, FS_CardinalityType DEF CountIn

\* A bijection keeps the number of elements.
LEMMA SameSize ==
  ASSUME NEW S, NEW T, IsFiniteSet(S), NEW f \in Bijection(S, T)
  PROVE  IsFiniteSet(T) /\ Cardinality(T) = Cardinality(S)
<1>1. ExistsBijection(S, T)
  BY DEF ExistsBijection
<1> QED
  BY <1>1, FS_Bijection

\* The places of r in t, after s.
Shifted(r, s, t) == {Len(s) + i : i \in At(r, t)}

\* Merging adds the copies up (merge_tables).
LEMMA CountInConcat ==
  ASSUME NEW r, NEW s \in Seq(SilverRows), NEW t \in Seq(SilverRows)
  PROVE  CountIn(r, s \o t) = CountIn(r, s) + CountIn(r, t)
<1>1. At(r, s \o t) = At(r, s) \cup Shifted(r, s, t)
  <2>1. ASSUME NEW i \in At(r, s \o t), i > Len(s)  PROVE i \in Shifted(r, s, t)
    <3>1. i - Len(s) \in At(r, t) /\ i = Len(s) + (i - Len(s))
      BY <2>1 DEF At
    <3> QED
      BY <3>1 DEF Shifted
  <2>2. ASSUME NEW i \in At(r, s \o t), ~(i > Len(s))  PROVE i \in At(r, s)
    BY <2>2 DEF At
  <2>3. At(r, s) \subseteq At(r, s \o t)
    BY DEF At
  <2>4. Shifted(r, s, t) \subseteq At(r, s \o t)
    BY DEF At, Shifted
  <2> QED
    BY <2>1, <2>2, <2>3, <2>4
<1>2. At(r, s) \cap Shifted(r, s, t) = {}
  BY DEF At, Shifted
<1>3. IsFiniteSet(Shifted(r, s, t)) /\ Cardinality(Shifted(r, s, t)) = CountIn(r, t)
  <2> DEFINE f == [i \in At(r, t) |-> Len(s) + i]
  <2>1. f \in Bijection(At(r, t), Shifted(r, s, t))
    <3>1. f \in [At(r, t) -> Shifted(r, s, t)]
      BY DEF Shifted
    <3>2. \A i, j \in At(r, t) : f[i] = f[j] => i = j
      BY DEF At
    <3>3. \A x \in Shifted(r, s, t) : \E i \in At(r, t) : f[i] = x
      BY DEF Shifted
    <3> QED
      BY <3>1, <3>2, <3>3 DEF Bijection, Injection, Surjection, IsInjective
  <2> HIDE DEF f
  <2> QED
    BY <2>1, AtFinite, SameSize DEF CountIn
<1>4. IsFiniteSet(At(r, s)) /\ CountIn(r, s) \in Nat /\ CountIn(r, t) \in Nat
  BY AtFinite
<1>5. Cardinality(At(r, s) \cup Shifted(r, s, t)) = CountIn(r, s) + CountIn(r, t) - Cardinality(At(r, s) \cap Shifted(r, s, t))
  BY <1>3, <1>4, FS_Union DEF CountIn
<1>6. Cardinality(At(r, s) \cap Shifted(r, s, t)) = 0
  BY <1>2, FS_EmptySet
<1>7. CountIn(r, s \o t) = Cardinality(At(r, s) \cup Shifted(r, s, t))
  BY <1>1 DEF CountIn
<1> QED
  BY <1>4, <1>5, <1>6, <1>7

\* Slicing keeps every copy, in one slice or the other (_write_slices).
LEMMA CountInSplit ==
  ASSUME NEW r, NEW s \in Seq(SilverRows), NEW n \in 0..Len(s)
  PROVE  /\ SubSeq(s, 1, n) \in Seq(SilverRows)
         /\ SubSeq(s, n + 1, Len(s)) \in Seq(SilverRows)
         /\ CountIn(r, s) = CountIn(r, SubSeq(s, 1, n)) + CountIn(r, SubSeq(s, n + 1, Len(s)))
<1>1. SubSeq(s, 1, n) \in Seq(SilverRows)
  BY SubSeqProperties
<1>2. SubSeq(s, n + 1, Len(s)) \in Seq(SilverRows)
  BY SubSeqProperties
<1>3. SubSeq(s, 1, n) \o SubSeq(s, n + 1, Len(s)) = SubSeq(s, 1, Len(s))
  <2>1. 1 \in 1..Len(s) + 1 /\ n \in (1 - 1)..Len(s) /\ Len(s) \in n..Len(s)
    OBVIOUS
  <2> QED
    BY <2>1, ConcatAdjacentSubSeq
<1>4. SubSeq(s, 1, Len(s)) = s
  BY SubSeqFull
<1> QED
  BY <1>1, <1>2, <1>3, <1>4, CountInConcat

\* No rows, no copies.
LEMMA CountInEmpty == \A r : CountIn(r, <<>>) = 0
<1>1. \A r : At(r, <<>>) = {}
  BY DEF At
<1> QED
  BY <1>1, FS_EmptySet DEF CountIn

\* A row that is not in the sequence has no copy in it.
LEMMA CountInAbsent ==
  ASSUME NEW r, NEW s \in Seq(SilverRows), r \notin Range(s)
  PROVE  CountIn(r, s) = 0
<1>1. At(r, s) = {}
  BY DEF At, Range
<1> QED
  BY <1>1, FS_EmptySet DEF CountIn

\* A file of one row has one copy of it.
LEMMA CountInOne == \A r : CountIn(r, <<r>>) = 1
<1>1. \A r : At(r, <<r>>) = {1}
  BY DEF At
<1> QED
  BY <1>1, FS_Singleton DEF CountIn

\* What it is to be an occurrence of a row in some files.
LEMMA OccMember ==
  ASSUME NEW ps, NEW S, NEW r, NEW x
  PROVE  x \in Occurrences(ps, S, r) <=> \E p \in S : \E i \in At(r, ps[p].rows) : x = <<p, i>>
BY DEF Occurrences

\* The occurrences of r in one file.
InFile(ps, p, r) == {<<p, i>> : i \in At(r, ps[p].rows)}

\* The occurrences in one file are as many as the places in its sequence.
LEMMA InFileSize ==
  ASSUME NEW ps, NEW p, NEW r, ps[p].rows \in Seq(SilverRows)
  PROVE  IsFiniteSet(InFile(ps, p, r)) /\ Cardinality(InFile(ps, p, r)) = CountIn(r, ps[p].rows)
<1> DEFINE A == At(r, ps[p].rows)
           f == [i \in A |-> <<p, i>>]
<1>1. f \in Bijection(A, InFile(ps, p, r))
  <2>1. f \in [A -> InFile(ps, p, r)]
    BY DEF InFile
  <2>2. \A i, j \in A : f[i] = f[j] => i = j
    OBVIOUS
  <2>3. \A x \in InFile(ps, p, r) : \E i \in A : f[i] = x
    BY DEF InFile
  <2> QED
    BY <2>1, <2>2, <2>3 DEF Bijection, Injection, Surjection, IsInjective
<1>2. IsFiniteSet(A) /\ CountIn(r, ps[p].rows) = Cardinality(A)
  BY AtFinite DEF CountIn
<1> HIDE DEF A, f
<1> QED
  BY <1>1, <1>2, SameSize

\* Finitely many files hold a row finitely often.
LEMMA OccFinite ==
  ASSUME NEW ps, NEW S, NEW r, FilesOK(ps, S)
  PROVE  IsFiniteSet(Occurrences(ps, S, r)) /\ Count(ps, S, r) \in Nat
<1> DEFINE Fs == {InFile(ps, p, r) : p \in S}
           f == [p \in S |-> InFile(ps, p, r)]
<1>1. IsFiniteSet(Fs)
  <2>1. f \in Surjection(S, Fs)
    BY DEF Surjection
  <2> HIDE DEF f, Fs
  <2> QED
    BY <2>1, FS_Surjection DEF FilesOK
<1>2. \A T \in Fs : IsFiniteSet(T)
  BY InFileSize DEF FilesOK
<1>3. Occurrences(ps, S, r) = UNION Fs
  BY DEF Occurrences, InFile
<1> HIDE DEF Fs
<1>4. IsFiniteSet(UNION Fs)
  BY <1>1, <1>2, FS_UNION
<1> QED
  BY <1>3, <1>4, FS_CardinalityType DEF Count

\* The copies in one file.
LEMMA CountOne ==
  ASSUME NEW ps, NEW p, NEW r
  PROVE  ps[p].rows \in Seq(SilverRows) => Count(ps, {p}, r) = CountIn(r, ps[p].rows)
<1>1. Occurrences(ps, {p}, r) = InFile(ps, p, r)
  BY DEF Occurrences, InFile
<1> QED
  BY <1>1, InFileSize DEF Count

\* The copies in two separate sets of files add up.
LEMMA CountSplit ==
  ASSUME NEW ps, NEW S, NEW T, NEW r, FilesOK(ps, S), FilesOK(ps, T), S \cap T = {}
  PROVE  Count(ps, S \cup T, r) = Count(ps, S, r) + Count(ps, T, r)
<1>1. Occurrences(ps, S \cup T, r) = Occurrences(ps, S, r) \cup Occurrences(ps, T, r)
  BY DEF Occurrences
<1>2. Occurrences(ps, S, r) \cap Occurrences(ps, T, r) = {}
  BY OccMember
<1>3. /\ IsFiniteSet(Occurrences(ps, S, r)) /\ Count(ps, S, r) \in Nat
      /\ IsFiniteSet(Occurrences(ps, T, r)) /\ Count(ps, T, r) \in Nat
  BY OccFinite
<1>4. Cardinality(Occurrences(ps, S, r) \cup Occurrences(ps, T, r)) =
        Count(ps, S, r) + Count(ps, T, r) - Cardinality(Occurrences(ps, S, r) \cap Occurrences(ps, T, r))
  BY <1>3, FS_Union DEF Count
<1>5. Cardinality(Occurrences(ps, S, r) \cap Occurrences(ps, T, r)) = 0
  BY <1>2, FS_EmptySet
<1>6. Count(ps, S \cup T, r) = Cardinality(Occurrences(ps, S, r) \cup Occurrences(ps, T, r))
  BY <1>1 DEF Count
<1> QED
  BY <1>3, <1>4, <1>5, <1>6

\* The copies after one more file.
LEMMA CountAdd ==
  ASSUME NEW ps, NEW S, NEW p, NEW r, FilesOK(ps, S), p \notin S, ps[p].rows \in Seq(SilverRows)
  PROVE  Count(ps, S \cup {p}, r) = Count(ps, S, r) + CountIn(r, ps[p].rows)
<1> DEFINE T == {p}
<1>1. FilesOK(ps, T) /\ S \cap T = {}
  BY FS_Singleton DEF FilesOK
<1>2. Count(ps, T, r) = CountIn(r, ps[p].rows)
  BY CountOne
<1> HIDE DEF T
<1>3. Count(ps, S \cup T, r) = Count(ps, S, r) + Count(ps, T, r)
  BY <1>1, CountSplit
<1> QED
  BY <1>2, <1>3 DEF T

\* Copies depend on the rows of the files only.
LEMMA CountSame ==
  ASSUME NEW ps, NEW qs, NEW S, NEW r, \A p \in S : ps[p].rows = qs[p].rows
  PROVE  Count(ps, S, r) = Count(qs, S, r)
<1>1. \A x : x \in Occurrences(ps, S, r) <=> x \in Occurrences(qs, S, r)
  BY OccMember
<1>2. Occurrences(ps, S, r) = Occurrences(qs, S, r)
  BY <1>1
<1> QED
  BY <1>2 DEF Count

\* Files without a row have no copy of it.
LEMMA CountNone ==
  ASSUME NEW ps, NEW S, NEW r, FilesOK(ps, S), \A p \in S : r \notin Range(ps[p].rows)
  PROVE  Count(ps, S, r) = 0
<1>1. \A p \in S : At(r, ps[p].rows) = {}
  BY DEF At, Range, FilesOK
<1>2. Occurrences(ps, S, r) = {}
  BY <1>1, OccMember
<1> QED
  BY <1>2, FS_EmptySet DEF Count

\* Some of the files are files.
LEMMA SubFiles ==
  ASSUME NEW ps, NEW S, FilesOK(ps, S), NEW T, T \subseteq S
  PROVE  FilesOK(ps, T)
BY FS_Subset DEF FilesOK

\* A part of the files, and the rest of them.
LEMMA CountPart ==
  ASSUME NEW ps, NEW S, NEW r, FilesOK(ps, S), NEW T, T \subseteq S
  PROVE  /\ Count(ps, S, r) = Count(ps, T, r) + Count(ps, S \ T, r)
         /\ Count(ps, S, r) \in Nat /\ Count(ps, T, r) \in Nat /\ Count(ps, S \ T, r) \in Nat
<1>1. FilesOK(ps, T) /\ FilesOK(ps, S \ T)
  BY SubFiles
<1>2. T \cup (S \ T) = S /\ T \cap (S \ T) = {}
  OBVIOUS
<1>3. Count(ps, T \cup (S \ T), r) = Count(ps, T, r) + Count(ps, S \ T, r)
  BY <1>1, <1>2, CountSplit
<1> QED
  BY <1>1, <1>2, <1>3, OccFinite

\* The parts of the partition are files of rows.
LEMMA PartsOK ==
  ASSUME CompTypeOK, NEW S, S \subseteq DOMAIN parts
  PROVE  FilesOK(parts, S)
<1>1. IsFiniteSet(S)
  BY FS_Subset DEF CompTypeOK
<1>2. \A p \in S : parts[p].rows \in Seq(SilverRows)
  BY DEF CompTypeOK
<1> QED
  BY <1>1, <1>2 DEF FilesOK

\* A new part gets a name that is not in use.
LEMMA FreshIsNew ==
  ASSUME CompTypeOK
  PROVE  FreshPart \in Nat /\ FreshPart \notin DOMAIN parts
<1> DEFINE k == Cardinality(DOMAIN parts)
<1>1. k \in Nat
  BY FS_CardinalityType DEF CompTypeOK
<1> HIDE DEF k
<1>2. IsFiniteSet(1..k + 1) /\ Cardinality(1..k + 1) = k + 1
  BY <1>1, FS_Interval
<1>3. ~(1..k + 1 \subseteq DOMAIN parts)
  <2>1. ASSUME 1..k + 1 \subseteq DOMAIN parts  PROVE FALSE
    <3>1. Cardinality(1..k + 1) <= k
      BY <2>1, FS_Subset DEF CompTypeOK, k
    <3> QED
      BY <1>1, <1>2, <3>1
  <2> QED
    BY <2>1
<1>4. FreshPart \in 1..k + 1 /\ FreshPart \notin DOMAIN parts
  BY <1>3 DEF FreshPart, k
<1> QED
  BY <1>1, <1>4

\* A new file joins the others, which stay as they are.
LEMMA AddedPart ==
  ASSUME CompTypeOK, NEW rows \in Seq(SilverRows), NEW w \in BOOLEAN, parts' = AddPart(rows, w)
  PROVE  /\ DOMAIN parts' = DOMAIN parts \cup {FreshPart}
         /\ parts'[FreshPart].rows = rows /\ parts'[FreshPart].whole = w
         /\ \A q \in DOMAIN parts : parts'[q] = parts[q]
         /\ Whole' = IF w THEN Whole \cup {FreshPart} ELSE Whole
         /\ IsFiniteSet(DOMAIN parts') /\ DOMAIN parts' \subseteq Nat
         /\ parts' \in [DOMAIN parts' -> [rows : Seq(SilverRows), whole : BOOLEAN]]
<1>1. FreshPart \in Nat /\ FreshPart \notin DOMAIN parts
  BY FreshIsNew
<1>2. /\ DOMAIN parts' = DOMAIN parts \cup {FreshPart}
      /\ parts'[FreshPart] = [rows |-> rows, whole |-> w]
      /\ \A q \in DOMAIN parts : parts'[q] = parts[q]
  BY <1>1 DEF AddPart
<1>3. Whole' = IF w THEN Whole \cup {FreshPart} ELSE Whole
  BY <1>1, <1>2 DEF Whole
<1>4. IsFiniteSet(DOMAIN parts') /\ DOMAIN parts' \subseteq Nat
  BY <1>1, <1>2, FS_AddElement DEF CompTypeOK
<1>5. parts' \in [DOMAIN parts' -> [rows : Seq(SilverRows), whole : BOOLEAN]]
  <2>1. \A q \in DOMAIN parts' : parts'[q] \in [rows : Seq(SilverRows), whole : BOOLEAN]
    BY <1>2 DEF CompTypeOK
  <2>2. parts' = [q \in DOMAIN parts' |-> parts'[q]]
    BY <1>2 DEF AddPart
  <2> QED
    BY <2>1, <2>2
<1> QED
  BY <1>2, <1>3, <1>4, <1>5

\* A row that has not landed is in no whole file and not among the merged rows.
LEMMA NotLanded ==
  ASSUME CompTypeOK, OnlyLanded, NEW r \in SilverRows \ landed, NEW S, S \subseteq Whole
  PROVE  Count(parts, S, r) = 0 /\ CountIn(r, mergedRows) = 0
<1>1. FilesOK(parts, S)
  BY PartsOK DEF Whole
<1>2. \A p \in S : r \notin Range(parts[p].rows)
  BY DEF OnlyLanded
<1>3. Count(parts, S, r) = 0
  BY <1>1, <1>2, CountNone
<1>4. r \notin Range(mergedRows) /\ mergedRows \in Seq(SilverRows)
  BY DEF OnlyLanded, CompTypeOK
<1> QED
  BY <1>3, <1>4, CountInAbsent

\* The sink starts a part: nothing that can be read changes.
LEMMA SinkOpensKeeps ==
  ASSUME CompInv, NEW r0 \in SilverRows, SinkOpens(r0)
  PROVE  CompInv'
<1> USE DEF CompInv
<1>1. <<r0>> \in Seq(SilverRows) /\ parts' = AddPart(<<r0>>, FALSE)
  BY DEF SinkOpens
<1>2. /\ DOMAIN parts' = DOMAIN parts \cup {FreshPart}
      /\ parts'[FreshPart].rows = <<r0>> /\ parts'[FreshPart].whole = FALSE
      /\ \A q \in DOMAIN parts : parts'[q] = parts[q]
      /\ Whole' = Whole
      /\ IsFiniteSet(DOMAIN parts') /\ DOMAIN parts' \subseteq Nat
      /\ parts' \in [DOMAIN parts' -> [rows : Seq(SilverRows), whole : BOOLEAN]]
  BY <1>1, AddedPart
<1>3. UNCHANGED <<landed, cpAt, inputs, unread, mergedRows, mostCopies>>
  BY DEF SinkOpens
<1>4. CompTypeOK'
  BY <1>2, <1>3 DEF CompTypeOK
<1>5. OnlyLanded'
  <2>1. \A p \in Whole' : Range(parts'[p].rows) \subseteq landed'
    BY <1>2, <1>3 DEF OnlyLanded, Whole
  <2>2. \A p \in DOMAIN parts' \ Whole' : \E r \in SilverRows \ landed' : parts'[p].rows = <<r>>
    <3>1. r0 \in SilverRows \ landed'
      BY <1>3 DEF SinkOpens
    <3>2. ASSUME NEW p \in DOMAIN parts \ Whole
          PROVE  \E r \in SilverRows \ landed' : parts'[p].rows = <<r>>
      BY <1>2, <1>3 DEF OnlyLanded
    <3> QED
      BY <1>2, <3>1, <3>2
  <2>3. \A q \in DOMAIN parts : parts[q].rows # <<r0>>
    BY DEF SinkOpens, Range
  <2>4. \A p, q \in DOMAIN parts' \ Whole' : parts'[p].rows = parts'[q].rows => p = q
    BY <1>2, <2>3 DEF OnlyLanded
  <2> QED
    BY <1>3, <2>1, <2>2, <2>4 DEF OnlyLanded
<1>6. InputsKnown'
  BY <1>2, <1>3 DEF InputsKnown
<1>7. ASSUME NEW r \in landed  PROVE Tally(r)'
  <2>1. ASSUME NEW S, S \subseteq DOMAIN parts  PROVE Count(parts', S, r) = Count(parts, S, r)
    BY <1>2, <2>1, CountSame
  <2>2. Whole \subseteq DOMAIN parts /\ inputs \subseteq DOMAIN parts
    BY DEF Whole, InputsKnown
  <2>3. /\ Count(parts', Whole, r) = Count(parts, Whole, r)
        /\ Count(parts', inputs, r) = Count(parts, inputs, r)
        /\ Count(parts', inputs \ unread, r) = Count(parts, inputs \ unread, r)
        /\ Count(parts', Whole \ inputs, r) = Count(parts, Whole \ inputs, r)
    BY <2>1, <2>2
  <2> QED
    BY <1>2, <1>3, <2>3 DEF Tally
<1> QED
  BY <1>3, <1>4, <1>5, <1>6, <1>7

\* The sink completes a part: its row is there once, also when a pass is under way.
LEMMA SinkClosesKeeps ==
  ASSUME CompInv, NEW p0 \in DOMAIN parts, SinkCloses(p0)
  PROVE  CompInv'
<1> USE DEF CompInv
<1>1. /\ DOMAIN parts' = DOMAIN parts
      /\ \A q \in DOMAIN parts : parts'[q].rows = parts[q].rows
      /\ \A q \in DOMAIN parts \ {p0} : parts'[q].whole = parts[q].whole
      /\ parts'[p0].whole = TRUE
      /\ parts' \in [DOMAIN parts' -> [rows : Seq(SilverRows), whole : BOOLEAN]]
  BY DEF SinkCloses, CompTypeOK
<1>2. p0 \notin Whole /\ Whole' = Whole \cup {p0} /\ Whole \subseteq DOMAIN parts
  BY <1>1 DEF Whole, SinkCloses
<1>3. UNCHANGED <<cpAt, inputs, unread, mergedRows, mostCopies>>
  BY DEF SinkCloses
<1>4. PICK r0 \in SilverRows \ landed : parts[p0].rows = <<r0>>
  BY <1>2 DEF OnlyLanded
<1>5. Range(<<r0>>) = {r0}
  BY DEF Range
<1>6. landed' = landed \cup {r0}
  BY <1>4, <1>5 DEF SinkCloses
<1>7. CompTypeOK'
  BY <1>1, <1>3, <1>6 DEF CompTypeOK
<1>8. OnlyLanded'
  <2>1. \A p \in Whole' : Range(parts'[p].rows) \subseteq landed'
    BY <1>1, <1>2, <1>4, <1>5, <1>6 DEF OnlyLanded
  <2>2. Range(mergedRows') \subseteq landed'
    BY <1>3, <1>6 DEF OnlyLanded
  <2>3. ASSUME NEW p \in DOMAIN parts' \ Whole'
        PROVE  \E r \in SilverRows \ landed' : parts'[p].rows = <<r>>
    <3>1. p \in DOMAIN parts \ Whole /\ p # p0
      BY <1>1, <1>2
    <3>2. PICK r \in SilverRows \ landed : parts[p].rows = <<r>>
      BY <3>1 DEF OnlyLanded
    <3>3. r # r0
      BY <1>2, <1>4, <3>1, <3>2 DEF OnlyLanded
    <3> QED
      BY <1>1, <1>6, <3>1, <3>2, <3>3
  <2>4. \A p, q \in DOMAIN parts' \ Whole' : parts'[p].rows = parts'[q].rows => p = q
    BY <1>1, <1>2 DEF OnlyLanded
  <2> QED
    BY <2>1, <2>2, <2>3, <2>4 DEF OnlyLanded
<1>9. InputsKnown'
  BY <1>1, <1>2, <1>3 DEF InputsKnown
<1>10. ASSUME NEW r \in landed'  PROVE Tally(r)'
  <2>1. ASSUME NEW S, S \subseteq DOMAIN parts  PROVE Count(parts', S, r) = Count(parts, S, r)
    BY <1>1, <2>1, CountSame
  <2>2. inputs \subseteq DOMAIN parts /\ Whole \cup {p0} \subseteq DOMAIN parts
    BY <1>2 DEF InputsKnown
  <2>3. /\ Count(parts', Whole \cup {p0}, r) = Count(parts, Whole \cup {p0}, r)
        /\ Count(parts', inputs, r) = Count(parts, inputs, r)
        /\ Count(parts', inputs \ unread, r) = Count(parts, inputs \ unread, r)
        /\ Count(parts', (Whole \ inputs) \cup {p0}, r) = Count(parts, (Whole \ inputs) \cup {p0}, r)
    BY <2>1, <2>2
  <2>4. FilesOK(parts, Whole) /\ FilesOK(parts, Whole \ inputs)
    BY <1>2, PartsOK
  <2>5. parts[p0].rows \in Seq(SilverRows)
    BY DEF CompTypeOK
  <2>6. /\ Count(parts, Whole \cup {p0}, r) = Count(parts, Whole, r) + CountIn(r, <<r0>>)
        /\ Count(parts, (Whole \ inputs) \cup {p0}, r) = Count(parts, Whole \ inputs, r) + CountIn(r, <<r0>>)
    <3>1. p0 \notin Whole /\ p0 \notin Whole \ inputs
      BY <1>2
    <3>2. Count(parts, Whole \cup {p0}, r) = Count(parts, Whole, r) + CountIn(r, parts[p0].rows)
      BY <2>4, <2>5, <3>1, CountAdd
    <3>3. Count(parts, (Whole \ inputs) \cup {p0}, r) = Count(parts, Whole \ inputs, r) + CountIn(r, parts[p0].rows)
      BY <2>4, <2>5, <3>1, CountAdd
    <3> QED
      BY <1>4, <3>2, <3>3
  <2>7. /\ Count(parts, Whole, r) \in Nat /\ Count(parts, Whole \ inputs, r) \in Nat
        /\ CountIn(r, mergedRows) \in Nat /\ mostCopies \in Nat \ {0}
    BY <2>4, OccFinite, AtFinite DEF CompTypeOK
  <2>8. cpAt \in {"write", "unlink"} => inputs \subseteq Whole /\ Whole' \ inputs' = (Whole \ inputs) \cup {p0}
    BY <1>2, <1>3 DEF InputsKnown
  <2>9. CASE r = r0
    <3>1. CountIn(r, <<r0>>) = 1
      BY <2>9, CountInOne
    <3>2. Count(parts, Whole, r) = 0 /\ CountIn(r, mergedRows) = 0
      BY <2>9, NotLanded
    <3>3. Count(parts, inputs \ unread, r) = 0
      BY <2>9, NotLanded DEF InputsKnown
    <3>4. Count(parts, Whole \ inputs, r) = 0
      BY <2>9, NotLanded
    <3>5. inputs \subseteq Whole => Count(parts, inputs, r) = 0
      BY <2>9, NotLanded
    <3>6. /\ Count(parts', Whole', r) = 1
          /\ Count(parts', inputs' \ unread', r) = CountIn(r, mergedRows')
      BY <1>2, <1>3, <2>3, <2>6, <3>1, <3>2, <3>3
    <3>7. cpAt \in {"write", "unlink"} =>
            /\ Count(parts', inputs', r) = 0
            /\ Count(parts', Whole' \ inputs', r) + CountIn(r, mergedRows') = 1
      BY <1>2, <1>3, <2>3, <2>6, <2>8, <3>1, <3>2, <3>4, <3>5
    <3> QED
      BY <1>3, <2>7, <3>6, <3>7 DEF Tally
  <2>10. CASE r # r0
    <3>1. r \in landed
      BY <1>6, <2>10
    <3>2. CountIn(r, <<r0>>) = 0
      <4>1. r \notin Range(<<r0>>) /\ <<r0>> \in Seq(SilverRows)
        BY <1>5, <2>10
      <4> QED
        BY <4>1, CountInAbsent
    <3>3. Tally(r)
      BY <3>1
    <3> QED
      BY <1>2, <1>3, <2>3, <2>6, <2>7, <2>8, <3>2, <3>3 DEF Tally
  <2> QED
    BY <2>9, <2>10
<1> QED
  BY <1>7, <1>8, <1>9, <1>10

\* A pass begins, with nothing read.
LEMMA GlobKeeps ==
  ASSUME CompInv, Glob
  PROVE  CompInv'
<1> USE DEF CompInv
<1>1. /\ UNCHANGED <<parts, landed, mergedRows, mostCopies>> /\ cpAt = "idle" /\ cpAt' = "read"
      /\ inputs' = DOMAIN parts /\ unread' = DOMAIN parts /\ Whole' = Whole
  BY DEF Glob, Whole
<1>2. CompTypeOK' /\ OnlyLanded'
  BY <1>1 DEF CompTypeOK, OnlyLanded
<1>3. InputsKnown'
  BY <1>1 DEF InputsKnown
<1>4. ASSUME NEW r \in landed  PROVE Tally(r)'
  <2>1. mergedRows = <<>>
    BY <1>1 DEF InputsKnown
  <2>2. inputs' \ unread' = {}
    BY <1>1
  <2>3. Count(parts, {}, r) = 0
    BY PartsOK, CountNone
  <2>4. CountIn(r, <<>>) = 0
    BY CountInEmpty
  <2>5. Tally(r)
    BY <1>4
  <2> QED
    BY <1>1, <2>1, <2>2, <2>3, <2>4, <2>5 DEF Tally
<1> QED
  BY <1>1, <1>2, <1>3, <1>4

\* An input is read; with the last one, what is outside the inputs and what was merged together hold
\* every row, as often as the partition does.
LEMMA ReadPartKeeps ==
  ASSUME CompInv, NEW p \in DOMAIN parts, ReadPart(p)
  PROVE  CompInv'
<1> USE DEF CompInv
<1>1. /\ UNCHANGED <<parts, landed, inputs, mostCopies>> /\ cpAt = "read"
      /\ mergedRows' = mergedRows \o parts[p].rows
      /\ unread' = unread \ {p} /\ p \in unread /\ p \in Whole /\ Whole' = Whole
      /\ cpAt' = IF unread' = {} THEN "write" ELSE "read"
  BY DEF ReadPart, Whole
<1>2. parts[p].rows \in Seq(SilverRows) /\ mergedRows \in Seq(SilverRows)
  BY DEF CompTypeOK
<1>3. CompTypeOK'
  BY <1>1, <1>2 DEF CompTypeOK
<1>4. OnlyLanded'
  <2>1. Range(mergedRows \o parts[p].rows) \subseteq Range(mergedRows) \cup Range(parts[p].rows)
    BY <1>2 DEF Range
  <2> QED
    BY <1>1, <2>1 DEF OnlyLanded
<1>5. InputsKnown'
  BY <1>1 DEF InputsKnown
<1>6. ASSUME NEW r \in landed  PROVE Tally(r)'
  <2>1. inputs \ unread' = (inputs \ unread) \cup {p} /\ p \notin inputs \ unread
    BY <1>1 DEF InputsKnown
  <2>2. FilesOK(parts, inputs \ unread) /\ FilesOK(parts, Whole)
    BY PartsOK DEF InputsKnown, Whole
  <2>3. Count(parts, inputs \ unread', r) = Count(parts, inputs \ unread, r) + CountIn(r, parts[p].rows)
    <3>1. Count(parts, (inputs \ unread) \cup {p}, r) = Count(parts, inputs \ unread, r) + CountIn(r, parts[p].rows)
      BY <1>2, <2>1, <2>2, CountAdd
    <3> QED
      BY <2>1, <3>1
  <2>4. CountIn(r, mergedRows') = CountIn(r, mergedRows) + CountIn(r, parts[p].rows)
    BY <1>1, <1>2, CountInConcat
  <2>5. Tally(r)
    BY <1>6
  <2>6. Count(parts, inputs \ unread', r) = CountIn(r, mergedRows')
    BY <1>1, <2>3, <2>4, <2>5 DEF Tally
  <2>7. CASE unread' # {}
    BY <1>1, <2>5, <2>6, <2>7 DEF Tally
  <2>8. CASE unread' = {}
    <3>1. inputs \ unread' = inputs
      BY <2>8
    <3>2. inputs \subseteq Whole
      BY <1>1, <2>8 DEF InputsKnown
    <3>3. /\ Count(parts, Whole, r) = Count(parts, inputs, r) + Count(parts, Whole \ inputs, r)
          /\ Count(parts, inputs, r) \in Nat /\ Count(parts, Whole \ inputs, r) \in Nat
      BY <2>2, <3>2, CountPart
    <3>4. Count(parts, Whole, r) \in 1..mostCopies /\ mostCopies \in Nat
      BY <1>1, <2>5 DEF Tally, CompTypeOK
    <3>5. CountIn(r, mergedRows') = Count(parts, inputs, r)
      BY <2>6, <3>1
    <3>6. /\ Count(parts, Whole, r) >= 1
          /\ Count(parts, inputs, r) <= mostCopies
          /\ Count(parts, Whole \ inputs, r) + CountIn(r, mergedRows') \in 1..mostCopies
      BY <3>3, <3>4, <3>5
    <3> QED
      BY <1>1, <2>8, <3>6 DEF Tally
  <2> QED
    BY <2>7, <2>8
<1> QED
  BY <1>1, <1>3, <1>4, <1>5, <1>6

\* A pass that ends early leaves at most what was there and what it wrote.
LEMMA CopiesOnEnd ==
  ASSUME CompInv, NEW r \in landed
  PROVE  /\ Count(parts, Whole, r) \in 1..2 * mostCopies
         /\ cpAt \in {"idle", "read"} => Count(parts, Whole, r) \in 1..mostCopies
<1> USE DEF CompInv
<1>1. Tally(r) /\ mostCopies \in Nat /\ FilesOK(parts, Whole)
  BY PartsOK DEF CompTypeOK, Whole
<1>2. CASE cpAt \in {"idle", "read"}
  BY <1>1, <1>2 DEF Tally
<1>3. CASE cpAt \in {"write", "unlink"}
  <2>1. inputs \subseteq Whole
    BY <1>3 DEF InputsKnown
  <2>2. /\ Count(parts, Whole, r) = Count(parts, inputs, r) + Count(parts, Whole \ inputs, r)
        /\ Count(parts, inputs, r) \in Nat /\ Count(parts, Whole \ inputs, r) \in Nat
    BY <1>1, <2>1, CountPart
  <2>3. CountIn(r, mergedRows) \in Nat
    BY AtFinite DEF CompTypeOK
  <2>4. /\ Count(parts, Whole, r) >= 1
        /\ Count(parts, inputs, r) <= mostCopies
        /\ Count(parts, Whole \ inputs, r) + CountIn(r, mergedRows) \in 1..mostCopies
    BY <1>1, <1>3 DEF Tally
  <2> QED
    BY <1>1, <1>3, <2>2, <2>3, <2>4
<1> QED
  BY <1>2, <1>3 DEF CompTypeOK

\* A pass ends early, by an unreadable input or by a cut.
LEMMA EndKeeps ==
  ASSUME CompInv, ReadFails \/ CutShort
  PROVE  CompInv'
<1> USE DEF CompInv
<1>1. /\ UNCHANGED <<parts, landed>> /\ cpAt' = "idle" /\ inputs' = {} /\ unread' = {}
      /\ mergedRows' = <<>> /\ Whole' = Whole
      /\ \/ cpAt = "read" /\ mostCopies' = mostCopies
         \/ mostCopies' = 2 * mostCopies
  BY DEF ReadFails, CutShort, Whole
<1>2. CompTypeOK'
  BY <1>1 DEF CompTypeOK
<1>3. OnlyLanded'
  BY <1>1 DEF OnlyLanded, Range
<1>4. InputsKnown'
  BY <1>1 DEF InputsKnown
<1>5. ASSUME NEW r \in landed  PROVE Tally(r)'
  <2>1. Count(parts, Whole, r) \in 1..mostCopies'
    BY <1>1, CopiesOnEnd
  <2> QED
    BY <1>1, <2>1 DEF Tally
<1> QED
  BY <1>1, <1>2, <1>3, <1>4, <1>5

\* A slice moves from the merged rows into a file outside the inputs.
LEMMA WriteSliceKeeps ==
  ASSUME CompInv, WriteSlice
  PROVE  CompInv'
<1> USE DEF CompInv
<1> DEFINE n == IF RowsPerFile < Len(mergedRows) THEN RowsPerFile ELSE Len(mergedRows)
           out == SubSeq(mergedRows, 1, n)
           left == SubSeq(mergedRows, n + 1, Len(mergedRows))
<1>1. /\ UNCHANGED <<landed, inputs, unread, mostCopies>> /\ cpAt = "write"
      /\ parts' = AddPart(out, TRUE) /\ mergedRows' = left
      /\ cpAt' = IF mergedRows' = <<>> THEN "unlink" ELSE "write"
  BY DEF WriteSlice
<1>2. mergedRows \in Seq(SilverRows) /\ n \in 0..Len(mergedRows)
  BY CompactionAssumption DEF CompTypeOK
<1>3. \A i \in DOMAIN out : out[i] \in Range(mergedRows)
  BY <1>2 DEF Range
<1>4. \A i \in DOMAIN left : left[i] \in Range(mergedRows)
  BY <1>2 DEF Range
<1> HIDE DEF n
<1>5. /\ out \in Seq(SilverRows) /\ left \in Seq(SilverRows)
      /\ \A r : CountIn(r, mergedRows) = CountIn(r, out) + CountIn(r, left)
  BY <1>2, CountInSplit
<1> HIDE DEF out, left
<1>6. Range(out) \subseteq landed /\ Range(left) \subseteq landed
  BY <1>3, <1>4 DEF OnlyLanded, Range
<1>7. /\ DOMAIN parts' = DOMAIN parts \cup {FreshPart}
      /\ parts'[FreshPart].rows = out /\ parts'[FreshPart].whole = TRUE
      /\ \A q \in DOMAIN parts : parts'[q] = parts[q]
      /\ Whole' = Whole \cup {FreshPart}
      /\ IsFiniteSet(DOMAIN parts') /\ DOMAIN parts' \subseteq Nat
      /\ parts' \in [DOMAIN parts' -> [rows : Seq(SilverRows), whole : BOOLEAN]]
  BY <1>1, <1>5, AddedPart
<1>8. FreshPart \notin DOMAIN parts /\ Whole \subseteq DOMAIN parts
  BY FreshIsNew DEF Whole
<1>9. CompTypeOK'
  BY <1>1, <1>5, <1>7 DEF CompTypeOK
<1>10. OnlyLanded'
  <2>1. \A p \in Whole' : Range(parts'[p].rows) \subseteq landed'
    BY <1>1, <1>6, <1>7, <1>8 DEF OnlyLanded
  <2>2. DOMAIN parts' \ Whole' = DOMAIN parts \ Whole
    BY <1>7, <1>8
  <2>3. Range(mergedRows') \subseteq landed'
    BY <1>1, <1>6
  <2>4. \A p \in DOMAIN parts' \ Whole' : \E r \in SilverRows \ landed' : parts'[p].rows = <<r>>
    <3>1. landed' = landed
      BY <1>1
    <3>2. \A p \in DOMAIN parts \ Whole : parts'[p].rows = parts[p].rows
      BY <1>7
    <3>3. \A p \in DOMAIN parts \ Whole : \E r \in SilverRows \ landed : parts[p].rows = <<r>>
      BY DEF OnlyLanded
    <3> QED
      BY <2>2, <3>1, <3>2, <3>3
  <2>5. \A p, q \in DOMAIN parts' \ Whole' : parts'[p].rows = parts'[q].rows => p = q
    BY <1>7, <2>2 DEF OnlyLanded
  <2> QED
    BY <2>1, <2>3, <2>4, <2>5 DEF OnlyLanded
<1>11. InputsKnown'
  BY <1>1, <1>7 DEF InputsKnown
<1>12. ASSUME NEW r \in landed  PROVE Tally(r)'
  <2>1. inputs \subseteq Whole
    BY <1>1 DEF InputsKnown
  <2>2. ASSUME NEW S, S \subseteq DOMAIN parts
        PROVE  Count(parts', S, r) = Count(parts, S, r) /\ FilesOK(parts', S)
    <3>1. FilesOK(parts, S)
      BY <2>2, PartsOK
    <3> QED
      BY <1>7, <2>2, <3>1, CountSame DEF FilesOK
  <2>3. /\ Count(parts', Whole, r) = Count(parts, Whole, r) /\ FilesOK(parts', Whole)
        /\ Count(parts', inputs, r) = Count(parts, inputs, r)
        /\ Count(parts', Whole \ inputs, r) = Count(parts, Whole \ inputs, r)
        /\ FilesOK(parts', Whole \ inputs)
    BY <1>8, <2>1, <2>2
  <2>4. Whole' \ inputs = (Whole \ inputs) \cup {FreshPart}
    BY <1>7, <1>8, <2>1
  <2>5. /\ Count(parts', Whole', r) = Count(parts, Whole, r) + CountIn(r, out)
        /\ Count(parts', Whole' \ inputs, r) = Count(parts, Whole \ inputs, r) + CountIn(r, out)
    <3>1. FreshPart \notin Whole /\ FreshPart \notin Whole \ inputs
      BY <1>8
    <3>2. parts'[FreshPart].rows \in Seq(SilverRows)
      BY <1>5, <1>7
    <3>3. Count(parts', Whole \cup {FreshPart}, r) = Count(parts', Whole, r) + CountIn(r, parts'[FreshPart].rows)
      BY <2>3, <3>1, <3>2, CountAdd
    <3>4. Count(parts', (Whole \ inputs) \cup {FreshPart}, r) = Count(parts', Whole \ inputs, r) + CountIn(r, parts'[FreshPart].rows)
      BY <2>3, <3>1, <3>2, CountAdd
    <3> QED
      BY <1>7, <2>3, <2>4, <3>3, <3>4
  <2>6. /\ CountIn(r, out) \in Nat /\ CountIn(r, left) \in Nat
        /\ Count(parts, Whole, r) \in Nat /\ Count(parts, Whole \ inputs, r) \in Nat
    BY <1>5, <1>8, AtFinite, PartsOK, OccFinite
  <2>7. CountIn(r, mergedRows) = CountIn(r, out) + CountIn(r, left)
    BY <1>5
  <2>8. /\ Count(parts, Whole, r) >= 1
        /\ Count(parts, inputs, r) <= mostCopies
        /\ Count(parts, Whole \ inputs, r) + CountIn(r, mergedRows) \in 1..mostCopies
    BY <1>1, <1>12 DEF Tally
  <2>9. /\ Count(parts', Whole', r) >= 1
        /\ Count(parts', inputs', r) <= mostCopies
        /\ Count(parts', Whole' \ inputs', r) + CountIn(r, mergedRows') \in 1..mostCopies
    <3>1. Count(parts', Whole', r) >= 1
      BY <2>5, <2>6, <2>8
    <3>2. Count(parts', inputs', r) <= mostCopies
      BY <1>1, <2>3, <2>8
    <3>3. Count(parts', Whole' \ inputs', r) + CountIn(r, mergedRows') = Count(parts, Whole \ inputs, r) + CountIn(r, mergedRows)
      <4>1. Whole' \ inputs' = Whole' \ inputs /\ mergedRows' = left
        BY <1>1
      <4>2. Count(parts', Whole' \ inputs', r) = Count(parts, Whole \ inputs, r) + CountIn(r, out)
        BY <2>5, <4>1
      <4>3. CountIn(r, mergedRows') = CountIn(r, left)
        BY <4>1
      <4> QED
        BY <2>6, <2>7, <4>2, <4>3
    <3> QED
      BY <2>8, <3>1, <3>2, <3>3
  <2> QED
    BY <1>1, <2>9 DEF Tally
<1> QED
  BY <1>1, <1>9, <1>10, <1>11, <1>12

\* An input is unlinked: the copies outside the inputs are not touched.
LEMMA UnlinkKeeps ==
  ASSUME CompInv, NEW p \in DOMAIN parts, Unlink(p)
  PROVE  CompInv'
<1> USE DEF CompInv
<1>1. /\ UNCHANGED <<landed, unread, mergedRows, mostCopies>> /\ cpAt = "unlink" /\ p \in inputs
      /\ inputs' = inputs \ {p} /\ cpAt' = IF inputs' = {} THEN "idle" ELSE "unlink"
      /\ DOMAIN parts' = DOMAIN parts \ {p} /\ \A q \in DOMAIN parts' : parts'[q] = parts[q]
      /\ parts' = [q \in DOMAIN parts \ {p} |-> parts[q]]
  BY DEF Unlink, RemovePart
<1>2. Whole' = Whole \ {p} /\ Whole \subseteq DOMAIN parts
  BY <1>1 DEF Whole
<1>3. inputs \subseteq Whole /\ mergedRows = <<>>
  BY <1>1 DEF InputsKnown
<1>4. CompTypeOK'
  <2>1. IsFiniteSet(DOMAIN parts')
    BY <1>1, FS_Subset DEF CompTypeOK
  <2>2. parts' \in [DOMAIN parts' -> [rows : Seq(SilverRows), whole : BOOLEAN]]
    BY <1>1 DEF CompTypeOK
  <2> QED
    BY <1>1, <2>1, <2>2 DEF CompTypeOK
<1>5. OnlyLanded'
  BY <1>1, <1>2, <1>3 DEF OnlyLanded
<1>6. InputsKnown'
  BY <1>1, <1>2, <1>3 DEF InputsKnown
<1>7. ASSUME NEW r \in landed  PROVE Tally(r)'
  <2>1. Whole' \ inputs' = Whole \ inputs /\ inputs' \subseteq inputs
    BY <1>1, <1>2
  <2>2. ASSUME NEW S, S \subseteq DOMAIN parts'  PROVE Count(parts', S, r) = Count(parts, S, r)
    BY <1>1, <2>2, CountSame
  <2>3. /\ Count(parts', Whole \ inputs, r) = Count(parts, Whole \ inputs, r)
        /\ Count(parts', inputs', r) = Count(parts, inputs', r)
        /\ Count(parts', Whole', r) = Count(parts, Whole', r)
    BY <1>1, <1>2, <1>3, <2>2
  <2>4. /\ Count(parts, inputs, r) = Count(parts, inputs', r) + Count(parts, inputs \ inputs', r)
        /\ Count(parts, inputs', r) \in Nat /\ Count(parts, inputs \ inputs', r) \in Nat
        /\ Count(parts, inputs, r) \in Nat
    BY <1>2, <1>3, <2>1, PartsOK, CountPart
  <2>5. FilesOK(parts, Whole') /\ Whole \ inputs \subseteq Whole' /\ Whole' \ (Whole \ inputs) \subseteq Whole'
    BY <1>1, <1>2, PartsOK
  <2>6. /\ Count(parts, Whole', r) = Count(parts, Whole \ inputs, r) + Count(parts, Whole' \ (Whole \ inputs), r)
        /\ Count(parts, Whole', r) \in Nat /\ Count(parts, Whole \ inputs, r) \in Nat
        /\ Count(parts, Whole' \ (Whole \ inputs), r) \in Nat
    BY <2>5, CountPart
  <2>7. CountIn(r, mergedRows) = 0 /\ mostCopies \in Nat
    BY <1>3, CountInEmpty DEF CompTypeOK
  <2>8. /\ Count(parts, inputs, r) <= mostCopies
        /\ Count(parts, Whole \ inputs, r) + CountIn(r, mergedRows) \in 1..mostCopies
    BY <1>1, <1>7 DEF Tally
  <2>9. Count(parts, inputs', r) <= mostCopies /\ Count(parts, Whole', r) >= 1
    BY <2>4, <2>6, <2>7, <2>8
  <2>10. CASE inputs' = {}
    <3>1. Whole' = Whole \ inputs
      BY <2>1, <2>10
    <3>2. Count(parts', Whole', r) \in 1..mostCopies'
      BY <1>1, <2>3, <2>6, <2>7, <2>8, <3>1
    <3> QED
      BY <1>1, <2>10, <3>2 DEF Tally
  <2>11. CASE inputs' # {}
    <3>1. /\ Count(parts', Whole', r) >= 1
          /\ Count(parts', inputs', r) <= mostCopies'
          /\ Count(parts', Whole' \ inputs', r) + CountIn(r, mergedRows') \in 1..mostCopies'
      BY <1>1, <2>1, <2>3, <2>8, <2>9
    <3> QED
      BY <1>1, <2>11, <3>1 DEF Tally
  <2> QED
    BY <2>10, <2>11
<1> QED
  BY <1>1, <1>4, <1>5, <1>6, <1>7

\* Compaction never takes a row out of reach, however its passes interleave with the sink's
\* writes and wherever they are cut short; and between passes a row is there at most twice as
\* often per pass that was cut short.
THEOREM CompactionKeepsRows == CompactionSpec => []RowsKept
<1>1. CompactionInit => CompInv
  <2> SUFFICES ASSUME CompactionInit  PROVE CompInv
    OBVIOUS
  <2>1. DOMAIN parts = {} /\ Whole = {}
    BY DEF CompactionInit, Whole
  <2>2. CompTypeOK
    BY <2>1, FS_EmptySet DEF CompactionInit, CompTypeOK
  <2>3. OnlyLanded /\ InputsKnown /\ landed = {}
    BY <2>1 DEF CompactionInit, OnlyLanded, InputsKnown, Range
  <2> QED
    BY <2>2, <2>3 DEF CompInv
<1>2. CompInv /\ [CompactionNext]_cpVars => CompInv'
  <2> SUFFICES ASSUME CompInv, [CompactionNext]_cpVars  PROVE CompInv'
    OBVIOUS
  <2>1. CASE UNCHANGED cpVars
    BY <2>1 DEF cpVars, CompInv, CompTypeOK, OnlyLanded, InputsKnown, Tally, Whole
  <2>2. CASE \E r \in SilverRows : SinkOpens(r)
    BY <2>2, SinkOpensKeeps
  <2>3. CASE \E p \in DOMAIN parts : SinkCloses(p) \/ ReadPart(p) \/ Unlink(p)
    BY <2>3, SinkClosesKeeps, ReadPartKeeps, UnlinkKeeps
  <2>4. CASE Glob \/ ReadFails \/ WriteSlice \/ CutShort
    BY <2>4, GlobKeeps, EndKeeps, WriteSliceKeeps
  <2> QED
    BY <2>1, <2>2, <2>3, <2>4 DEF CompactionNext
<1>3. CompInv => RowsKept
  <2> SUFFICES ASSUME CompInv, NEW r \in landed
               PROVE  Copies(r) >= 1 /\ (cpAt = "idle" => Copies(r) <= mostCopies)
    BY DEF RowsKept, RowsPreserved, CopiesBounded
  <2>1. mostCopies \in Nat
    BY DEF CompInv, CompTypeOK
  <2> QED
    BY <2>1, CopiesOnEnd DEF Copies, Count
<1> QED
  BY <1>1, <1>2, <1>3, PTL DEF CompactionSpec
=============================================================================
