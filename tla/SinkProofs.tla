------------------------------- MODULE SinkProofs -------------------------------
(***************************************************************************)
(* Proofs about the batching sinks: the ClickHouse sink and the two        *)
(* best-effort sinks keep the promise of BufferedDelivery, for every       *)
(* number of rows, writers, retries and starts; the ClickHouse buffer      *)
(* stays within its bound and close() leaves nothing behind; the counters  *)
(* of the best-effort sinks account for every document.                    *)
(***************************************************************************)
EXTENDS ClickHouseSink, BestEffortSink, FiniteSetTheorems, SequenceTheorems, TLAPS

(***************************************************************************)
(* The rows of a buffer.                                                   *)
(***************************************************************************)
LEMMA ToSetType ==
  ASSUME NEW T, NEW s \in Seq(T)
  PROVE  ToSet(s) \in SUBSET T
BY DEF ToSet

LEMMA ToSetMember ==
  ASSUME NEW T, NEW s \in Seq(T)
  PROVE  \A x : x \in ToSet(s) <=> \E i \in 1..Len(s) : s[i] = x
BY DEF ToSet

LEMMA ToSetEmpty == ToSet(<<>>) = {}
BY DEF ToSet

LEMMA ToSetAppend ==
  ASSUME NEW T, NEW s \in Seq(T), NEW x \in T
  PROVE  ToSet(Append(s, x)) = ToSet(s) \cup {x}
<1> DEFINE a == Append(s, x)
<1>1. /\ a \in Seq(T) /\ Len(a) = Len(s) + 1 /\ Len(s) \in Nat
      /\ a[Len(s) + 1] = x /\ \A i \in 1..Len(s) : a[i] = s[i]
  BY DEF a
<1> HIDE DEF a
<1>2. \A y : y \in ToSet(a) <=> \E i \in 1..Len(a) : a[i] = y
  BY <1>1, ToSetMember
<1>3. \A y : y \in ToSet(s) <=> \E i \in 1..Len(s) : s[i] = y
  BY ToSetMember
<1>4. 1..Len(a) = 1..Len(s) \cup {Len(s) + 1}
  BY <1>1
<1>5. ToSet(a) = ToSet(s) \cup {x}
  BY <1>1, <1>2, <1>3, <1>4
<1> QED BY <1>5 DEF a

\* Cutting a buffer in two loses no row.
LEMMA ToSetCut ==
  ASSUME NEW T, NEW s \in Seq(T), NEW n \in 0..Len(s)
  PROVE  /\ SubSeq(s, n + 1, Len(s)) \in Seq(T)
         /\ Len(SubSeq(s, n + 1, Len(s))) = Len(s) - n
         /\ SubSeq(s, 1, n) \in Seq(T)
         /\ Len(SubSeq(s, 1, n)) = n
         /\ ToSet(s) = ToSet(SubSeq(s, 1, n)) \cup ToSet(SubSeq(s, n + 1, Len(s)))
<1> DEFINE a == SubSeq(s, 1, n)  b == SubSeq(s, n + 1, Len(s))
<1>1. /\ a \in Seq(T) /\ Len(a) = n /\ \A i \in 1..n : a[i] = s[i]
  BY DEF a
<1>2. /\ b \in Seq(T) /\ Len(b) = Len(s) - n /\ \A i \in 1..(Len(s) - n) : b[i] = s[n + i]
  BY DEF b
<1>3. ASSUME NEW x \in ToSet(s) PROVE x \in ToSet(a) \cup ToSet(b)
  <2>1. PICK i \in 1..Len(s) : s[i] = x
    BY ToSetMember
  <2>2. CASE i <= n
    <3>1. i \in 1..Len(a) /\ a[i] = x BY <1>1, <2>1, <2>2
    <3> QED BY <3>1, <1>1, ToSetMember
  <2>3. CASE i > n
    <3>1. (i - n) \in 1..Len(b) /\ b[i - n] = x BY <1>2, <2>1, <2>3
    <3> QED BY <3>1, <1>2, ToSetMember
  <2> QED BY <2>1, <2>2, <2>3
<1>4. ASSUME NEW x \in ToSet(a) PROVE x \in ToSet(s)
  <2>1. PICK i \in 1..Len(a) : a[i] = x
    BY <1>1, ToSetMember
  <2> QED BY <1>1, <2>1, ToSetMember
<1>5. ASSUME NEW x \in ToSet(b) PROVE x \in ToSet(s)
  <2>1. PICK i \in 1..Len(b) : b[i] = x
    BY <1>2, ToSetMember
  <2>2. n + i \in 1..Len(s) /\ s[n + i] = x
    BY <1>2, <2>1
  <2> QED BY <2>2, ToSetMember
<1> QED BY <1>1, <1>2, <1>3, <1>4, <1>5 DEF a, b

LEMMA ToSetFinite ==
  ASSUME NEW T, NEW s \in Seq(T)
  PROVE  IsFiniteSet(ToSet(s)) /\ Cardinality(ToSet(s)) <= Len(s)
<1>a. \A x : x \in ToSet(s) <=> \E i \in 1..Len(s) : s[i] = x
  BY ToSetMember
<1>b. s \in [1..Len(s) -> T]
  OBVIOUS
<1>c. \A D, U, V : \A f \in [D -> U] : (\A i \in D : f[i] \in V) => f \in [D -> V]
  OBVIOUS
<1>d. \A i \in 1..Len(s) : s[i] \in ToSet(s)
  BY <1>a
<1>0. s \in [1..Len(s) -> ToSet(s)]
  BY <1>b, <1>c, <1>d
<1>1. s \in Surjection(1..Len(s), ToSet(s))
  BY <1>a, <1>0 DEF Surjection
<1>2. Len(s) \in Nat /\ 1 \in Int /\ Len(s) \in Int
  OBVIOUS
<1>3. /\ IsFiniteSet(1..Len(s))
      /\ Cardinality(1..Len(s)) = IF 1 > Len(s) THEN 0 ELSE Len(s) - 1 + 1
  BY <1>2, FS_Interval
<1>4. Cardinality(1..Len(s)) = Len(s)
  BY <1>2, <1>3
<1> QED BY <1>1, <1>3, <1>4, FS_Surjection

\* Reading the spool files back: every spooled row once, in some order.
LEMMA SetToSeqIsSet ==
  ASSUME NEW S, IsFiniteSet(S)
  PROVE  /\ SetToSeq(S) \in Seq(S)
         /\ ToSet(SetToSeq(S)) = S
         /\ Len(SetToSeq(S)) = Cardinality(S)
<1> DEFINE n == Cardinality(S)
<1>1. n \in Nat /\ ExistsBijection(1..n, S)
  BY FS_CardinalityType
<1>2. PICK g : g \in Bijection(1..n, S)
  BY <1>1 DEF ExistsBijection
<1>3. g \in [1..n -> S] /\ IsInjective(g)
  BY <1>2 DEF Bijection, Injection, IsInjective
<1>4. SetToSeq(S) \in [1..n -> S] /\ IsInjective(SetToSeq(S))
  BY <1>3 DEF SetToSeq
<1> DEFINE f == SetToSeq(S)
<1>5. f \in Injection(1..n, S)
  BY <1>4 DEF Injection, IsInjective
<1>6. IsFiniteSet(1..n) /\ Cardinality(1..n) = n
  BY <1>1, FS_Interval
<1>7. f \in Surjection(1..n, S)
  BY <1>5, <1>6, FS_Injection
<1> HIDE DEF f, n
<1>8. f \in Seq(S) /\ Len(f) = n
  BY <1>1, <1>4 DEF f
<1>9. ToSet(f) = S
  BY <1>7, <1>8, <1>1 DEF ToSet, Surjection
<1> QED BY <1>8, <1>9 DEF f, n

-----------------------------------------------------------------------------
(***************************************************************************)
(* The ClickHouse sink.                                                    *)
(***************************************************************************)
ClickHouseSpec == ClickHouseInit /\ [][ClickHouseNext]_chVars

ChStates == {"idle", "drain", "post", "finish", "dead"}

ChTypeOK ==
  /\ chUp \in {"down", "up", "closing"} /\ chBuffer \in Seq(ChRows)
  /\ spool \in SUBSET ChRows /\ table \in SUBSET ChRows /\ chTaken \in SUBSET ChRows /\ chLost \in SUBSET ChRows
  /\ IsFiniteSet(spool)
  /\ chAt \in [ChTasks -> ChStates] /\ chLock \in ChTasks \cup {ChNobody}
  /\ chTake \in 0..Len(chBuffer) /\ rounds \in Nat /\ reloaded \in Nat /\ spoolErrors \in Nat

\* Every accepted row is somewhere, and nothing else is anywhere.
ChAccounted == ToSet(chBuffer) \cup spool \cup table \cup chLost = chTaken

\* Which tasks there are in a phase, and what they may be doing.
ChPhases ==
  /\ chUp = "down" => chBuffer = <<>> /\ \A t \in ChTasks : chAt[t] = "idle"
  /\ chUp = "up" => chAt[ChCloser] = "idle"
  /\ chUp = "closing" => \A t \in ChTasks : t # ChCloser => chAt[t] = "idle"
  /\ \A t \in ChTasks : chAt[t] = "finish" => t = ChCloser

\* A batch is being delivered exactly by the holder of the flush lock.
ChLocked ==
  /\ \A t \in ChTasks : chAt[t] = "post" <=> chLock = t
  /\ chLock = ChNobody => chTake = 0

ChInv == ChTypeOK /\ ChAccounted /\ ChPhases /\ ChLocked

\* Which step of BufferedDelivery a step of the sink is.
ChStep == (\E r \in ChRows : Promise!Accept(r)) \/ Promise!Land \/ Promise!GiveUp

ChHeld == ToSet(chBuffer) \cup spool

LEMMA ChInit == ClickHouseInit => ChInv
<1> SUFFICES ASSUME ClickHouseInit PROVE ChInv
  OBVIOUS
<1>1. ToSet(chBuffer) = {} /\ Len(chBuffer) = 0 /\ chBuffer \in Seq(ChRows)
  BY ToSetEmpty DEF ClickHouseInit
<1>2. ChTypeOK
  BY <1>1, FS_EmptySet DEF ClickHouseInit, ChTypeOK, ChQuiet, ChStates
<1>3. ChAccounted
  BY <1>1 DEF ClickHouseInit, ChAccounted
<1>4. ChPhases
  BY ChAssumption DEF ClickHouseInit, ChPhases, ChQuiet, ChTasks
<1>5. ChLocked
  BY ChAssumption DEF ClickHouseInit, ChLocked, ChQuiet, ChTasks, ChNobody
<1> QED BY <1>2, <1>3, <1>4, <1>5 DEF ChInv

LEMMA ChInitRefines == ClickHouseInit => Promise!Init
BY ToSetEmpty DEF ClickHouseInit, Promise!Init

LEMMA AfterDrainType ==
  ASSUME NEW t \in ChTasks, NEW buf
  PROVE  /\ AfterDrain(t, buf) \in {"idle", "drain", "finish"}
         /\ AfterDrain(t, buf) = "finish" => t = ChCloser
         /\ t # ChCloser /\ t \notin ChWriters => AfterDrain(t, buf) = "idle"
BY ChAssumption DEF AfterDrain, ChTasks

\* The batch and the rest of the buffer.
LEMMA ChCut ==
  ASSUME ChTypeOK
  PROVE  /\ ChRest \in Seq(ChRows) /\ Len(ChRest) = Len(chBuffer) - chTake
         /\ ChBatch \cup ToSet(ChRest) = ToSet(chBuffer)
         /\ ChBatch \in SUBSET ChRows /\ IsFiniteSet(ChBatch)
<1>1. chBuffer \in Seq(ChRows) /\ chTake \in 0..Len(chBuffer)
  BY DEF ChTypeOK
<1>2. SubSeq(chBuffer, 1, chTake) \in Seq(ChRows)
  BY <1>1, ToSetCut
<1>3. ChBatch \in SUBSET ChRows /\ IsFiniteSet(ChBatch)
  BY <1>2, ToSetType, ToSetFinite DEF ChBatch
<1> QED BY <1>1, <1>3, ToSetCut DEF ChBatch, ChRest

\* A step that changes no row's place is a (stuttering) Land.
LEMMA ChQuietStep ==
  ASSUME ToSet(chBuffer)' \cup spool' = ToSet(chBuffer) \cup spool,
         table \subseteq table', table' \subseteq table \cup ToSet(chBuffer),
         UNCHANGED <<chLost, chCrashes>>
  PROVE  ChStep
BY DEF ChStep, Promise!Land, Promise!Reach

LEMMA ChStartStep == ASSUME ChInv, ChStart PROVE ChInv' /\ ChStep
<1> USE DEF ChInv
<1>1. chBuffer = <<>> /\ ToSet(chBuffer) = {} /\ IsFiniteSet(spool) /\ spool \in SUBSET ChRows
  BY ToSetEmpty DEF ChStart, ChPhases, ChTypeOK
<1>2. chBuffer' \in Seq(spool) /\ ToSet(chBuffer)' = spool /\ Len(chBuffer') = Cardinality(spool)
  BY <1>1, SetToSeqIsSet DEF ChStart
<1>3. chBuffer' \in Seq(ChRows) /\ Cardinality(spool) \in Nat
  BY <1>1, <1>2, FS_CardinalityType
<1>4. chTake = 0 /\ Len(chBuffer') \in Nat
  BY <1>1, <1>3 DEF ChTypeOK
<1>5. ChTypeOK'
  BY <1>3, <1>4, FS_EmptySet DEF ChTypeOK, ChStart
<1>6. ChAccounted'
  BY <1>1, <1>2 DEF ChAccounted, ChStart
<1>7. ChPhases' /\ ChLocked'
  BY ChAssumption DEF ChPhases, ChLocked, ChStart, ChTasks
<1>8. ChStep
  BY <1>1, <1>2, ChQuietStep DEF ChStart
<1> QED BY <1>5, <1>6, <1>7, <1>8

LEMMA ChWriteStep ==
  ASSUME ChInv, NEW t \in ChWriters, NEW r \in ChRows, ChWrite(t, r)
  PROVE  ChInv' /\ ChStep
<1> USE DEF ChInv
<1>1. chBuffer \in Seq(ChRows) /\ chBuffer' = Append(chBuffer, r)
  BY DEF ChTypeOK, ChWrite
<1>2. ToSet(chBuffer)' = ToSet(chBuffer) \cup {r} /\ chBuffer' \in Seq(ChRows) /\ Len(chBuffer') = Len(chBuffer) + 1
  BY <1>1, ToSetAppend
<1>3. t \in ChTasks /\ t # ChCloser /\ t # ChNobody /\ chAt[t] = "idle"
  BY ChAssumption DEF ChTasks, ChNobody, ChWrite
<1>4. PICK a \in {"drain", "idle"} : chAt' = [chAt EXCEPT ![t] = a]
  BY DEF ChWrite
<1>a. /\ chTaken' = chTaken \cup {r}
      /\ UNCHANGED <<chUp, spool, table, chLock, chTake, rounds, reloaded, chLost, spoolErrors>>
  BY DEF ChWrite, chCounts
<1>b. chAt' \in [ChTasks -> ChStates]
  BY <1>4 DEF ChTypeOK, ChStates
<1>c. chTake' \in 0..Len(chBuffer')
  BY <1>a, <1>1, <1>2 DEF ChTypeOK
<1>5. ChTypeOK'
  BY <1>a, <1>b, <1>c, <1>2 DEF ChTypeOK
<1>6. ChAccounted'
  BY <1>2 DEF ChAccounted, ChWrite
<1>7. ChPhases'
  BY <1>3, <1>4, ChAssumption DEF ChPhases, ChWrite, ChTypeOK, ChTasks
<1>8. ChLocked'
  BY <1>3, <1>4, ChAssumption DEF ChLocked, ChWrite, ChTypeOK, ChTasks
<1>9. Promise!Accept(r)
  BY <1>2 DEF Promise!Accept, ChWrite, ChAccounted, chCounts
<1> QED BY <1>5, <1>6, <1>7, <1>8, <1>9 DEF ChStep

\* What a task that leaves _drain_once, or goes to wait, does to phases and lock.
LEMMA ChReleaseKeeps ==
  ASSUME ChInv, NEW t \in ChTasks, chAt[t] = "post", NEW a \in ChStates, a # "post",
         a = "finish" => t = ChCloser,
         chAt' = [chAt EXCEPT ![t] = a], chLock' = ChNobody, chTake' = 0, chUp' = chUp
  PROVE  ChPhases' /\ ChLocked' /\ chAt' \in [ChTasks -> ChStates]
<1>1. chUp # "down" /\ (chUp = "up" => t # ChCloser) /\ (chUp = "closing" => t = ChCloser)
  BY DEF ChInv, ChPhases
<1>2. chAt' \in [ChTasks -> ChStates]
  BY DEF ChInv, ChTypeOK
<1>3. \A u \in ChTasks : chAt'[u] = IF u = t THEN a ELSE chAt[u]
  BY DEF ChInv, ChTypeOK
<1>4. ChCloser \in ChTasks /\ ChNobody \notin ChTasks
  BY ChAssumption DEF ChTasks, ChNobody
<1>5. ChPhases'
  BY <1>1, <1>3, <1>4 DEF ChInv, ChPhases
<1>6. ChLocked'
  BY <1>3, <1>4 DEF ChInv, ChLocked
<1> QED BY <1>2, <1>5, <1>6

LEMMA ChAcquireStep ==
  ASSUME ChInv, NEW t \in ChTasks, ChAcquire(t)
  PROVE  ChInv' /\ ChStep
<1> USE DEF ChInv
<1>0. /\ chAt[t] = "drain" /\ chLock = ChNobody /\ rounds' \in Nat
      /\ UNCHANGED <<chUp, chBuffer, spool, table, reloaded, chTaken, chLost, chCrashes, spoolErrors>>
  BY DEF ChAcquire, ChTypeOK, chCounts
<1>1. /\ chUp # "down" /\ (chUp = "up" => t # ChCloser) /\ (chUp = "closing" => t = ChCloser)
      /\ ChCloser \in ChTasks /\ ChNobody \notin ChTasks
  BY <1>0, ChAssumption DEF ChPhases, ChTasks, ChNobody
<1>2. ChStep
  BY <1>0, ChQuietStep
<1>3. ChAccounted'
  BY <1>0 DEF ChAccounted
<1>4. CASE chBuffer = <<>>
  <2>1. PICK a \in {"idle", "drain", "finish"} :
          chAt' = [chAt EXCEPT ![t] = a] /\ (a = "finish" => t = ChCloser)
    BY <1>4, AfterDrainType DEF ChAcquire
  <2>2. \A u \in ChTasks : chAt'[u] = IF u = t THEN a ELSE chAt[u]
    BY <2>1 DEF ChTypeOK
  <2>3. chLock' = chLock /\ chTake' = chTake
    BY <1>4 DEF ChAcquire
  <2>4. ChTypeOK'
    BY <1>0, <2>1, <2>3 DEF ChTypeOK, ChStates
  <2>5. ChPhases'
    BY <1>0, <1>1, <2>1, <2>2 DEF ChPhases
  <2>6. ChLocked'
    BY <1>0, <1>1, <2>1, <2>2, <2>3 DEF ChLocked
  <2> QED BY <1>2, <1>3, <2>4, <2>5, <2>6
<1>5. CASE chBuffer # <<>>
  <2>1. chAt' = [chAt EXCEPT ![t] = "post"] /\ chLock' = t
    BY <1>5 DEF ChAcquire
  <2>2. \A u \in ChTasks : chAt'[u] = IF u = t THEN "post" ELSE chAt[u]
    BY <2>1 DEF ChTypeOK
  <2>3. chTake' \in 0..Len(chBuffer)
    BY <1>5, ChAssumption DEF ChAcquire, ChTypeOK
  <2>4. ChTypeOK'
    BY <1>0, <2>1, <2>3 DEF ChTypeOK, ChStates
  <2>5. ChPhases'
    BY <1>0, <1>1, <2>2 DEF ChPhases
  <2>6. ChLocked'
    BY <1>0, <1>1, <2>1, <2>2 DEF ChLocked
  <2> QED BY <1>2, <1>3, <2>4, <2>5, <2>6
<1> QED BY <1>4, <1>5

LEMMA DeliveredStep ==
  ASSUME ChInv, NEW t \in ChTasks, Delivered(t)
  PROVE  ChInv' /\ ChStep
<1> USE DEF ChInv
<1>1. /\ chAt[t] = "post" /\ table' = table \cup ChBatch /\ chBuffer' = ChRest
      /\ UNCHANGED <<chUp, spool, rounds, reloaded, chTaken, chLost, chCrashes, spoolErrors>>
      /\ chLock' = ChNobody /\ chTake' = 0 /\ chAt' = [chAt EXCEPT ![t] = AfterDrain(t, ChRest)]
  BY DEF Delivered, ChRelease, chCounts
<1>2. /\ ChRest \in Seq(ChRows) /\ Len(ChRest) \in Nat /\ ChBatch \in SUBSET ChRows
      /\ ChBatch \cup ToSet(ChRest) = ToSet(chBuffer)
  BY ChCut
<1>3. ChPhases' /\ ChLocked' /\ chAt' \in [ChTasks -> ChStates]
  BY <1>1, AfterDrainType, ChReleaseKeeps DEF ChStates
<1>4. ChTypeOK'
  BY <1>1, <1>2, <1>3 DEF ChTypeOK
<1>5. ChAccounted'
  BY <1>1, <1>2 DEF ChAccounted
<1>6. ChStep
  BY <1>1, <1>2 DEF ChStep, Promise!Land, Promise!Reach
<1> QED BY <1>3, <1>4, <1>5, <1>6

LEMMA RetryableStep ==
  ASSUME ChInv, NEW t \in ChTasks, NEW landed \in BOOLEAN, Retryable(t, landed)
  PROVE  ChInv' /\ ChStep
<1> USE DEF ChInv
<1>1. /\ chAt[t] = "post" /\ (table' = table \cup ChBatch \/ table' = table)
      /\ UNCHANGED <<chUp, chBuffer, spool, rounds, reloaded, chTaken, chLost, chCrashes, spoolErrors>>
  BY DEF Retryable
<1>2. ChBatch \in SUBSET ChRows /\ ChBatch \subseteq ToSet(chBuffer)
  BY ChCut
<1>3. ChStep
  BY <1>1, <1>2, ChQuietStep
<1>4. ChAccounted'
  BY <1>1, <1>2 DEF ChAccounted
<1>5. CASE chAttempt >= ChMaxRetries
  <2>1. chLock' = ChNobody /\ chTake' = 0 /\ chAt' = [chAt EXCEPT ![t] = AfterDrain(t, chBuffer)]
    BY <1>5 DEF Retryable, ChRelease
  <2>2. ChPhases' /\ ChLocked' /\ chAt' \in [ChTasks -> ChStates]
    BY <1>1, <2>1, AfterDrainType, ChReleaseKeeps DEF ChStates
  <2>3. ChTypeOK'
    BY <1>1, <1>2, <2>1, <2>2 DEF ChTypeOK
  <2> QED BY <1>3, <1>4, <2>2, <2>3
<1>6. CASE ~(chAttempt >= ChMaxRetries)
  <2>1. UNCHANGED <<chAt, chLock, chTake>>
    BY <1>6 DEF Retryable
  <2>2. ChTypeOK' /\ ChPhases' /\ ChLocked'
    BY <1>1, <1>2, <2>1 DEF ChTypeOK, ChPhases, ChLocked
  <2> QED BY <1>3, <1>4, <2>2
<1> QED BY <1>5, <1>6

LEMMA FatalStep ==
  ASSUME ChInv, NEW t \in ChTasks, Fatal(t)
  PROVE  ChInv' /\ ChStep
<1> USE DEF ChInv
<1>1. /\ chAt[t] = "post" /\ spool' = spool \cup ChBatch /\ chBuffer' = ChRest
      /\ UNCHANGED <<chUp, table, rounds, reloaded, chTaken, chLost, chCrashes, spoolErrors>>
      /\ chLock' = ChNobody /\ chTake' = 0 /\ chAt' = [chAt EXCEPT ![t] = AfterDrain(t, ChRest)]
  BY DEF Fatal, ChRelease
<1>2. /\ ChRest \in Seq(ChRows) /\ Len(ChRest) \in Nat /\ ChBatch \in SUBSET ChRows
      /\ ChBatch \cup ToSet(ChRest) = ToSet(chBuffer) /\ IsFiniteSet(ChBatch)
  BY ChCut
<1>3. ChPhases' /\ ChLocked' /\ chAt' \in [ChTasks -> ChStates]
  BY <1>1, AfterDrainType, ChReleaseKeeps DEF ChStates
<1>4. IsFiniteSet(spool')
  BY <1>1, <1>2, FS_Union DEF ChTypeOK
<1>5. ChTypeOK'
  BY <1>1, <1>2, <1>3, <1>4 DEF ChTypeOK
<1>6. ChAccounted'
  BY <1>1, <1>2 DEF ChAccounted
<1>7. ChStep
  BY <1>1, <1>2, ChQuietStep
<1> QED BY <1>3, <1>5, <1>6, <1>7

LEMMA SpoolRaisesStep ==
  ASSUME ChInv, NEW t \in ChTasks, SpoolRaises(t)
  PROVE  ChInv' /\ ChStep
<1> USE DEF ChInv
<1>1. /\ chAt[t] = "post" /\ chLock' = ChNobody /\ chTake' = 0 /\ spoolErrors' = spoolErrors + 1
      /\ UNCHANGED <<chUp, chBuffer, spool, table, rounds, reloaded, chTaken, chLost, chCrashes>>
  BY DEF SpoolRaises
<1>2. PICK a \in {"dead", "idle"} : chAt' = [chAt EXCEPT ![t] = a]
  BY DEF SpoolRaises
<1>3. ChPhases' /\ ChLocked' /\ chAt' \in [ChTasks -> ChStates]
  BY <1>1, <1>2, ChReleaseKeeps DEF ChStates
<1>4. ChTypeOK' /\ ChAccounted'
  BY <1>1, <1>3 DEF ChTypeOK, ChAccounted
<1>5. ChStep
  BY <1>1, ChQuietStep
<1> QED BY <1>3, <1>4, <1>5

LEMMA VanishStep ==
  ASSUME ChInv, Vanish, UNCHANGED <<spool, table, reloaded, chTaken>>, spoolErrors' \in Nat
  PROVE  ChInv' /\ ChStep
<1> USE DEF ChInv
<1>1. chBuffer' = <<>> /\ ToSet(chBuffer)' = {} /\ Len(chBuffer') = 0 /\ chBuffer' \in Seq(ChRows)
  BY ToSetEmpty DEF Vanish
<1>2. ToSet(chBuffer) \in SUBSET ChRows
  BY ToSetType DEF ChTypeOK
<1>3. ChTypeOK'
  BY <1>1, <1>2 DEF ChTypeOK, Vanish, ChQuiet, ChStates
<1>4. ChAccounted'
  BY <1>1 DEF ChAccounted, Vanish
<1>5. ChPhases' /\ ChLocked'
  BY <1>1, ChAssumption DEF ChPhases, ChLocked, Vanish, ChQuiet, ChTasks, ChNobody
<1>6. ChStep
  BY <1>1 DEF ChStep, Promise!GiveUp, Promise!Reach, Vanish
<1> QED BY <1>3, <1>4, <1>5, <1>6

LEMMA CloseBeginStep ==
  ASSUME ChInv, NEW landed \in BOOLEAN, CloseBegin(landed)
  PROVE  ChInv' /\ ChStep
<1> USE DEF ChInv
<1>1. /\ chUp = "up" /\ chUp' = "closing" /\ (table' = table \cup ChBatch \/ table' = table)
      /\ UNCHANGED <<chBuffer, spool, rounds, reloaded, chTaken, chLost, chCrashes, spoolErrors>>
      /\ chLock' = ChNobody /\ chTake' = 0 /\ \A t \in ChWriters : chAt[t] = "idle"
  BY DEF CloseBegin, chCounts
<1>2. ChBatch \in SUBSET ChRows /\ ChBatch \subseteq ToSet(chBuffer)
  BY ChCut
<1>3. PICK a \in {"drain", "finish"} : chAt' = [chAt EXCEPT ![ChTimer] = "idle", ![ChCloser] = a]
  BY DEF CloseBegin
<1>4. ChTimer \in ChTasks /\ ChCloser \in ChTasks /\ ChTimer # ChCloser /\ ChNobody \notin ChTasks
  BY ChAssumption DEF ChTasks, ChNobody
<1>5. chAt' \in [ChTasks -> ChStates]
  BY <1>3, <1>4 DEF ChTypeOK, ChStates
<1>6. \A t \in ChTasks : chAt'[t] = IF t = ChCloser THEN a ELSE "idle"
  BY <1>1, <1>3, <1>4 DEF ChTypeOK, ChTasks
<1>7. ChTypeOK' /\ ChAccounted'
  BY <1>1, <1>2, <1>5 DEF ChTypeOK, ChAccounted
<1>8. ChPhases'
  BY <1>1, <1>4, <1>6 DEF ChPhases
<1>9. ChLocked'
  BY <1>1, <1>4, <1>6 DEF ChLocked
<1>10. ChStep
  BY <1>1, <1>2, ChQuietStep
<1> QED BY <1>7, <1>8, <1>9, <1>10

LEMMA CloseEndStep == ASSUME ChInv, CloseEnd PROVE ChInv' /\ ChStep
<1> USE DEF ChInv
<1>1. /\ chAt[ChCloser] = "finish" /\ chUp' = "down" /\ spool' = spool \cup ToSet(chBuffer) /\ chBuffer' = <<>>
      /\ chAt' = ChQuiet /\ rounds' = 0
      /\ UNCHANGED <<table, chLock, chTake, reloaded, chTaken, chLost, chCrashes, spoolErrors>>
  BY DEF CloseEnd, chCounts
<1>2. ChCloser \in ChTasks /\ ChNobody \notin ChTasks
  BY ChAssumption DEF ChTasks, ChNobody
<1>3. chUp = "closing"
  BY <1>1, <1>2 DEF ChPhases, ChTypeOK
<1>4. \A t \in ChTasks : chAt[t] # "post"
  BY <1>1, <1>3 DEF ChPhases
<1>5. chLock = ChNobody /\ chTake = 0
  BY <1>4 DEF ChLocked, ChTypeOK
<1>6. ToSet(chBuffer)' = {} /\ Len(chBuffer') = 0 /\ chBuffer' \in Seq(ChRows)
  BY <1>1, ToSetEmpty
<1>7. ToSet(chBuffer) \in SUBSET ChRows /\ IsFiniteSet(ToSet(chBuffer))
  BY ToSetType, ToSetFinite DEF ChTypeOK
<1>8. IsFiniteSet(spool')
  BY <1>1, <1>7, FS_Union DEF ChTypeOK
<1>9. ChTypeOK'
  BY <1>1, <1>5, <1>6, <1>7, <1>8 DEF ChTypeOK, ChQuiet, ChStates
<1>10. ChAccounted'
  BY <1>1, <1>6 DEF ChAccounted
<1>11. ChPhases' /\ ChLocked'
  BY <1>1, <1>2, <1>5 DEF ChPhases, ChLocked, ChQuiet
<1>12. ChStep
  BY <1>1, <1>6, ChQuietStep
<1> QED BY <1>9, <1>10, <1>11, <1>12

\* Every step keeps the invariant and is a step of BufferedDelivery.
LEMMA ChNextStep == ASSUME ChInv, ClickHouseNext PROVE ChInv' /\ ChStep
<1>1. CASE ChStart
  BY <1>1, ChStartStep
<1>2. CASE TimerFires
  <2>1. /\ chUp = "up" /\ chAt[ChTimer] = "idle" /\ chAt' = [chAt EXCEPT ![ChTimer] = "drain"]
        /\ UNCHANGED <<chUp, chBuffer, spool, table, chLock, chTake, rounds, reloaded, chTaken, chLost, chCrashes, spoolErrors>>
    BY <1>2 DEF TimerFires, chCounts
  <2>2. ChTimer \in ChTasks /\ ChCloser \in ChTasks /\ ChTimer # ChCloser /\ ChNobody \notin ChTasks
    BY ChAssumption DEF ChTasks, ChNobody
  <2>3. \A t \in ChTasks : chAt'[t] = IF t = ChTimer THEN "drain" ELSE chAt[t]
    BY <2>1, <2>2 DEF ChInv, ChTypeOK
  <2>4. ChTypeOK' /\ ChAccounted'
    BY <2>1, <2>2 DEF ChInv, ChTypeOK, ChAccounted, ChStates
  <2>5. ChPhases' /\ ChLocked'
    BY <2>1, <2>2, <2>3 DEF ChInv, ChPhases, ChLocked
  <2>6. ChStep
    BY <2>1, ChQuietStep
  <2> QED BY <2>4, <2>5, <2>6 DEF ChInv
<1>3. CASE \E l \in BOOLEAN : CloseBegin(l)
  BY <1>3, CloseBeginStep
<1>4. CASE CloseRaises
  <2>1. Vanish /\ UNCHANGED <<spool, table, reloaded, chTaken>> /\ spoolErrors' \in Nat
    BY <1>4 DEF CloseRaises, ChInv, ChTypeOK
  <2> QED BY <2>1, VanishStep
<1>5. CASE CloseEnd
  BY <1>5, CloseEndStep
<1>6. CASE ClickHouseCrash
  <2>1. Vanish /\ UNCHANGED <<spool, table, reloaded, chTaken>> /\ spoolErrors' \in Nat
    BY <1>6 DEF ClickHouseCrash, ChInv, ChTypeOK
  <2> QED BY <2>1, VanishStep
<1>7. CASE \E t \in ChWriters, r \in ChRows : ChWrite(t, r)
  BY <1>7, ChWriteStep
<1>8. ASSUME NEW t \in ChTasks, ChDrain(t) PROVE ChInv' /\ ChStep
  BY <1>8, ChAcquireStep, DeliveredStep, RetryableStep, FatalStep, SpoolRaisesStep DEF ChDrain
<1> QED BY <1>1, <1>2, <1>3, <1>4, <1>5, <1>6, <1>7, <1>8 DEF ClickHouseNext

LEMMA ChInductive == ChInv /\ [ClickHouseNext]_chVars => ChInv'
<1>1. CASE ClickHouseNext
  BY <1>1, ChNextStep
<1>2. CASE UNCHANGED chVars
  BY <1>2 DEF chVars, chCounts, ChInv, ChTypeOK, ChAccounted, ChPhases, ChLocked
<1> QED BY <1>1, <1>2

\* The ClickHouse sink implements BufferedDelivery: whatever the order of writers, timer,
\* retries, 4xx answers, restarts and close(), a row write() accepted is in the buffer or
\* a spool file until the table has it, and only a step that ends a process without a
\* clean close() gives rows up.
THEOREM ClickHouseRefines == ClickHouseSpec => DeliversOrHolds
<1>1. ClickHouseInit => ChInv /\ Promise!Init
  BY ChInit, ChInitRefines
<1>2. ChInv /\ [ClickHouseNext]_chVars => ChInv'
  BY ChInductive
<1>3. ChInv /\ [ClickHouseNext]_chVars
        => [Promise!Next]_<<ToSet(chBuffer) \cup spool, table, chLost, chCrashes>>
  <2>1. CASE ClickHouseNext
    BY <2>1, ChNextStep DEF ChStep, Promise!Next
  <2>2. CASE UNCHANGED chVars
    BY <2>2 DEF chVars, chCounts
  <2> QED BY <2>1, <2>2
<1> QED BY <1>1, <1>2, <1>3, PTL DEF ClickHouseSpec, DeliversOrHolds, Promise!Spec

(***************************************************************************)
(* The memory bound.  Only a writer that is idle adds a row, and a writer  *)
(* that leaves the buffer at its limit or above it stays busy draining:    *)
(* beyond MaxBuffer - 1 there is one row for each busy writer, besides     *)
(* those read back at the start and those of the writers that a spool      *)
(* error made leave early.                                                 *)
(***************************************************************************)
ChBusy == {t \in ChWriters : chAt[t] \in {"drain", "post"}}

ChBound == Len(chBuffer) <= MaxBuffer - 1 + Cardinality(ChBusy) + reloaded + spoolErrors

LEMMA ChBusyType == IsFiniteSet(ChBusy) /\ Cardinality(ChBusy) \in Nat /\ Cardinality(ChBusy) <= Cardinality(ChWriters)
<1>1. IsFiniteSet(ChWriters) /\ ChBusy \in SUBSET ChWriters
  BY ChAssumption DEF ChBusy
<1> QED BY <1>1, FS_Subset, FS_CardinalityType

LEMMA ChBusyTypeNext == (IsFiniteSet(ChBusy) /\ Cardinality(ChBusy) \in Nat)'
BY ChBusyType, PTL

LEMMA ChLens == ASSUME ChInv PROVE Len(chBuffer) \in Nat /\ reloaded \in Nat /\ spoolErrors \in Nat
BY DEF ChInv, ChTypeOK

\* A buffer below its limit is within the bound.
LEMMA ChBelow ==
  ASSUME Len(chBuffer') \in Nat, reloaded' \in Nat, spoolErrors' \in Nat, Len(chBuffer') < MaxBuffer
  PROVE  ChBound'
BY ChBusyTypeNext, ChAssumption DEF ChBound

\* A task other than a writer, or one that stays busy, while the buffer does not grow.
LEMMA ChSameBusy ==
  ASSUME ChInv, ChBound, ChBusy' = ChBusy, Len(chBuffer') \in Nat, Len(chBuffer') <= Len(chBuffer),
         reloaded' = reloaded, spoolErrors' \in Nat, spoolErrors' >= spoolErrors
  PROVE  ChBound'
<1>1. Cardinality(ChBusy) \in Nat /\ Cardinality(ChBusy') = Cardinality(ChBusy)
  BY ChBusyType
<1> QED BY <1>1, ChLens, ChAssumption DEF ChBound

\* A task leaves _drain_once in the regular way.
LEMMA ChAfterBound ==
  ASSUME ChInv, ChBound, NEW t \in ChTasks, chAt[t] \in {"drain", "post"},
         chBuffer' \in Seq(ChRows), Len(chBuffer') <= Len(chBuffer),
         chAt' = [chAt EXCEPT ![t] = AfterDrain(t, chBuffer')],
         reloaded' = reloaded, spoolErrors' = spoolErrors
  PROVE  ChBound'
<1>1. Len(chBuffer') \in Nat /\ Len(chBuffer) \in Nat /\ reloaded \in Nat /\ spoolErrors \in Nat
  BY ChLens
<1>2. CASE Len(chBuffer') < MaxBuffer
  BY <1>1, <1>2, ChBelow
<1>3. CASE Len(chBuffer') >= MaxBuffer
  <2>1. t \in ChWriters => chAt' = [chAt EXCEPT ![t] = "drain"]
    BY <1>3, ChAssumption DEF AfterDrain
  <2>2. ChBusy' = ChBusy
    BY <2>1 DEF ChBusy, ChInv, ChTypeOK, ChTasks
  <2> QED BY <1>1, <2>2, ChSameBusy
<1> QED BY <1>1, <1>2, <1>3, ChAssumption

LEMMA ChWriteBound ==
  ASSUME ChInv, ChBound, NEW t \in ChWriters, NEW r \in ChRows, ChWrite(t, r)
  PROVE  ChBound'
<1>1. /\ chBuffer' \in Seq(ChRows) /\ Len(chBuffer') = Len(chBuffer) + 1
      /\ chAt[t] = "idle" /\ reloaded' = reloaded /\ spoolErrors' = spoolErrors
  BY DEF ChWrite, chCounts, ChInv, ChTypeOK
<1>2. Len(chBuffer') \in Nat /\ Len(chBuffer) \in Nat /\ reloaded \in Nat /\ spoolErrors \in Nat
  BY <1>1, ChLens
<1>3. CASE Len(chBuffer') < MaxBuffer
  BY <1>1, <1>2, <1>3, ChBelow
<1>4. CASE Len(chBuffer') >= MaxBuffer
  <2>1. chAt' = [chAt EXCEPT ![t] = "drain"]
    BY <1>4 DEF ChWrite
  <2>2. ChBusy' = ChBusy \cup {t} /\ t \notin ChBusy
    BY <1>1, <2>1 DEF ChBusy, ChInv, ChTypeOK, ChTasks
  <2>3. Cardinality(ChBusy') = Cardinality(ChBusy) + 1 /\ Cardinality(ChBusy) \in Nat
    BY <2>2, ChBusyType, FS_AddElement
  <2> QED BY <1>1, <1>2, <2>3, ChAssumption DEF ChBound
<1> QED BY <1>2, <1>3, <1>4, ChAssumption

LEMMA SpoolRaisesBound ==
  ASSUME ChInv, ChBound, NEW t \in ChTasks, SpoolRaises(t)
  PROVE  ChBound'
<1>1. /\ chBuffer' = chBuffer /\ reloaded' = reloaded /\ spoolErrors' = spoolErrors + 1
      /\ Len(chBuffer) \in Nat /\ reloaded \in Nat /\ spoolErrors \in Nat
  BY ChLens DEF SpoolRaises
<1>2. PICK a \in {"dead", "idle"} : chAt' = [chAt EXCEPT ![t] = a]
  BY DEF SpoolRaises
<1>3. ChBusy' = ChBusy \ {t}
  BY <1>2 DEF ChBusy, ChInv, ChTypeOK, ChTasks
<1>4. /\ Cardinality(ChBusy') \in Nat /\ Cardinality(ChBusy) \in Nat
      /\ Cardinality(ChBusy') = IF t \in ChBusy THEN Cardinality(ChBusy) - 1 ELSE Cardinality(ChBusy)
  BY <1>3, ChBusyType, ChBusyTypeNext, FS_RemoveElement
<1>5. Len(chBuffer) <= MaxBuffer - 1 + Cardinality(ChBusy) + reloaded + spoolErrors /\ MaxBuffer \in Nat
  BY ChAssumption DEF ChBound
<1>6. Cardinality(ChBusy') >= Cardinality(ChBusy) - 1
  BY <1>4
<1>7. Len(chBuffer) <= MaxBuffer - 1 + Cardinality(ChBusy') + reloaded + (spoolErrors + 1)
  BY <1>1, <1>4, <1>5, <1>6
<1> QED BY <1>1, <1>7 DEF ChBound

LEMMA ChNextBound == ASSUME ChInv, ChBound, ClickHouseNext PROVE ChBound'
<1>0. ChInv'
  BY ChNextStep
<1>1. /\ Len(chBuffer) \in Nat /\ reloaded \in Nat /\ spoolErrors \in Nat
      /\ Len(chBuffer') \in Nat /\ reloaded' \in Nat /\ spoolErrors' \in Nat /\ chBuffer' \in Seq(ChRows)
  BY <1>0 DEF ChInv, ChTypeOK
<1>2. CASE ChStart
  <2>1. IsFiniteSet(spool)
    BY DEF ChInv, ChTypeOK
  <2>2. Len(chBuffer') = reloaded'
    BY <1>2, <2>1, SetToSeqIsSet DEF ChStart
  <2> QED BY <1>1, <2>2, ChBusyTypeNext, ChAssumption DEF ChBound
<1>3. CASE TimerFires
  <2>1. ChBusy' = ChBusy
    BY <1>3, ChAssumption DEF TimerFires, ChBusy, ChInv, ChTypeOK, ChTasks
  <2>2. UNCHANGED <<chBuffer, reloaded, spoolErrors>>
    BY <1>3 DEF TimerFires, chCounts
  <2> QED BY <1>1, <2>1, <2>2, ChSameBusy
<1>4. CASE \E l \in BOOLEAN : CloseBegin(l)
  <2>1. UNCHANGED <<chBuffer, reloaded, spoolErrors>>
    BY <1>4 DEF CloseBegin, chCounts
  <2>2. \A t \in ChWriters : chAt'[t] = chAt[t]
    BY <1>4, ChAssumption DEF CloseBegin, ChInv, ChTypeOK, ChTasks
  <2>3. ChBusy' = ChBusy
    BY <2>2 DEF ChBusy
  <2> QED BY <1>1, <2>1, <2>3, ChSameBusy
<1>5. CASE CloseRaises \/ CloseEnd \/ ClickHouseCrash
  <2>1. chBuffer' = <<>>
    BY <1>5 DEF CloseRaises, CloseEnd, ClickHouseCrash, Vanish
  <2>2. Len(chBuffer') < MaxBuffer
    BY <2>1, ChAssumption
  <2> QED BY <1>1, <2>2, ChBelow
<1>6. CASE \E t \in ChWriters, r \in ChRows : ChWrite(t, r)
  BY <1>6, ChWriteBound
<1>7. ASSUME NEW t \in ChTasks, ChDrain(t) PROVE ChBound'
  <2>1. CASE ChAcquire(t)
    <3>1. UNCHANGED <<chBuffer, reloaded, spoolErrors>> /\ chAt[t] = "drain"
      BY <2>1 DEF ChAcquire, chCounts
    <3>2. CASE chBuffer = <<>>
      <4>1. Len(chBuffer') < MaxBuffer
        BY <3>1, <3>2, ChAssumption
      <4> QED BY <1>1, <4>1, ChBelow
    <3>3. CASE chBuffer # <<>>
      <4>1. chAt' = [chAt EXCEPT ![t] = "post"]
        BY <2>1, <3>3 DEF ChAcquire
      <4>2. ChBusy' = ChBusy
        BY <3>1, <4>1 DEF ChBusy, ChInv, ChTypeOK, ChTasks
      <4> QED BY <1>1, <3>1, <4>2, ChSameBusy
    <3> QED BY <3>2, <3>3
  <2>2. CASE Delivered(t) \/ Fatal(t)
    <3>1. /\ chAt[t] = "post" /\ chBuffer' = ChRest /\ reloaded' = reloaded /\ spoolErrors' = spoolErrors
          /\ chAt' = [chAt EXCEPT ![t] = AfterDrain(t, ChRest)]
      BY <2>2 DEF Delivered, Fatal, ChRelease, chCounts
    <3>2. Len(chBuffer') <= Len(chBuffer)
      BY <1>1, <3>1, ChCut DEF ChInv, ChTypeOK
    <3> QED BY <1>1, <3>1, <3>2, ChAfterBound
  <2>3. CASE \E l \in BOOLEAN : Retryable(t, l)
    <3>1. chAt[t] = "post" /\ chBuffer' = chBuffer /\ reloaded' = reloaded /\ spoolErrors' = spoolErrors
      BY <2>3 DEF Retryable
    <3>2. CASE chAttempt >= ChMaxRetries
      <4>1. chAt' = [chAt EXCEPT ![t] = AfterDrain(t, chBuffer')]
        BY <2>3, <3>1, <3>2 DEF Retryable, ChRelease
      <4>2. Len(chBuffer') <= Len(chBuffer)
        BY <1>1, <3>1
      <4> QED BY <1>1, <3>1, <4>1, <4>2, ChAfterBound
    <3>3. CASE ~(chAttempt >= ChMaxRetries)
      <4>1. ChBusy' = ChBusy
        BY <2>3, <3>3 DEF Retryable, ChBusy
      <4> QED BY <1>1, <3>1, <4>1, ChSameBusy
    <3> QED BY <3>2, <3>3
  <2>4. CASE SpoolRaises(t)
    BY <2>4, SpoolRaisesBound
  <2> QED BY <1>7, <2>1, <2>2, <2>3, <2>4 DEF ChDrain
<1> QED BY <1>2, <1>3, <1>4, <1>5, <1>6, <1>7 DEF ClickHouseNext

\* The ClickHouse sink's buffer stays within max_buffer_rows, a row per writer, the rows read
\* back at the start and one for each failed spool write; after close() every row ever
\* accepted is in the table or a spool file, or went with a process that did not close().
THEOREM ClickHouseBounded == ClickHouseSpec => [](ClosedMeansLanded /\ BufferBounded)
<1>1. ClickHouseInit => ChInv /\ ChBound
  <2>1. ASSUME ClickHouseInit PROVE ChBound
    <3>1. Len(chBuffer) = 0 /\ reloaded = 0 /\ spoolErrors = 0
      BY <2>1 DEF ClickHouseInit
    <3> QED BY <3>1, ChBusyType, ChAssumption DEF ChBound
  <2> QED BY <2>1, ChInit
<1>2. ChInv /\ ChBound /\ [ClickHouseNext]_chVars => ChInv' /\ ChBound'
  <2>1. ASSUME ChInv, ChBound, UNCHANGED chVars PROVE ChBound'
    BY <2>1 DEF chVars, chCounts, ChBound, ChBusy
  <2> QED BY <2>1, ChInductive, ChNextBound
<1>3. ChInv /\ ChBound => ClosedMeansLanded /\ BufferBounded
  <2> SUFFICES ASSUME ChInv, ChBound PROVE ClosedMeansLanded /\ BufferBounded
    OBVIOUS
  <2>1. ClosedMeansLanded
    BY ToSetEmpty DEF ClosedMeansLanded, ChInv, ChAccounted, ChPhases
  <2>2. Cardinality(ChWriters) \in Nat
    BY FS_CardinalityType, ChAssumption
  <2>3. BufferBounded
    BY <2>2, ChBusyType, ChLens, ChAssumption DEF ChBound, BufferBounded
  <2> QED BY <2>1, <2>3
<1> QED BY <1>1, <1>2, <1>3, PTL DEF ClickHouseSpec

-----------------------------------------------------------------------------
(***************************************************************************)
(* The best-effort sinks (OpenSearch, Splunk HEC).                         *)
(***************************************************************************)
BestEffortSpec == BestEffortInit /\ [][BestEffortNext]_beVars

Distinct(s) == \A i, j \in 1..Len(s) : s[i] = s[j] => i = j

BeTypeOK ==
  /\ beUp \in {"down", "up", "off", "closing", "closed"} /\ beBuffer \in Seq(Docs)
  /\ beAt \in [BeTasks -> {"idle", "send", "dead"}] /\ beBatch \in [BeTasks -> SUBSET Docs]
  /\ beTaken \in SUBSET Docs /\ IsFiniteSet(beTaken)
  /\ docsIndexed \in Nat /\ docsDropped \in Nat /\ badReplies \in Nat /\ beFaults \in Nat

\* Documents are where write() put them; only a task that is sending has a batch.
BePlaces ==
  /\ ToSet(beBuffer) \subseteq beTaken /\ InFlight \subseteq beTaken
  /\ index \subseteq beTaken /\ dropped \subseteq beTaken /\ vanished \subseteq beTaken
  /\ \A t \in BeTasks : beAt[t] # "send" => beBatch[t] = {}

\* No document is in two places that still count: buffer, a task's batch, vanished.
BeDistinct ==
  /\ Distinct(beBuffer)
  /\ \A t, u \in BeTasks : t # u => beBatch[t] \cap beBatch[u] = {}
  /\ ToSet(beBuffer) \cap InFlight = {} /\ vanished \cap ToSet(beBuffer) = {} /\ vanished \cap InFlight = {}

\* What makes a batch that vanishes a partial one.
BePartial ==
  /\ Len(beBuffer) < BatchDocs /\ Cardinality(beBatch[BeTimer]) < BatchDocs
  /\ beAt[BeTimer] = "dead" => badReplies > 0
  /\ badReplies = 0 /\ beUp \in {"down", "up", "off"} => vanished = {}

BeInv == BeTypeOK /\ BePlaces /\ BeDistinct /\ CountersBalance /\ BePartial /\ OnlyAPartialBatchVanishes

BeStep == (\E r \in Docs : BestEffortPromise!Accept(r)) \/ BestEffortPromise!Land \/ BestEffortPromise!GiveUp

\* A sequence without repetitions has as many elements as it is long.
LEMMA DistinctCardinality ==
  ASSUME NEW T, NEW s \in Seq(T), Distinct(s)
  PROVE  IsFiniteSet(ToSet(s)) /\ Cardinality(ToSet(s)) = Len(s)
<1>1. \A x : x \in ToSet(s) <=> \E i \in 1..Len(s) : s[i] = x
  BY ToSetMember
<1>2. s \in [1..Len(s) -> T] /\ Len(s) \in Nat
  OBVIOUS
<1>3. \A D, U, V : \A f \in [D -> U] : (\A i \in D : f[i] \in V) => f \in [D -> V]
  OBVIOUS
<1>4. \A i \in 1..Len(s) : s[i] \in ToSet(s)
  BY <1>1
<1>5. s \in [1..Len(s) -> ToSet(s)]
  BY <1>2, <1>3, <1>4
<1>6. s \in Surjection(1..Len(s), ToSet(s))
  BY <1>1, <1>5 DEF Surjection
<1>7. s \in Injection(1..Len(s), ToSet(s))
  BY <1>5 DEF Injection, IsInjective, Distinct
<1>8. /\ IsFiniteSet(1..Len(s))
      /\ Cardinality(1..Len(s)) = IF 1 > Len(s) THEN 0 ELSE Len(s) - 1 + 1
  BY <1>2, FS_Interval
<1>9. Cardinality(1..Len(s)) = Len(s)
  BY <1>2, <1>8
<1> QED BY <1>6, <1>7, <1>8, <1>9, FS_Surjection

\* Its two parts have no element in common.
LEMMA DistinctCut ==
  ASSUME NEW T, NEW s \in Seq(T), Distinct(s), NEW n \in 0..Len(s)
  PROVE  /\ Distinct(SubSeq(s, 1, n)) /\ Distinct(SubSeq(s, n + 1, Len(s)))
         /\ ToSet(SubSeq(s, 1, n)) \cap ToSet(SubSeq(s, n + 1, Len(s))) = {}
<1> DEFINE a == SubSeq(s, 1, n)  b == SubSeq(s, n + 1, Len(s))
<1>1. /\ a \in Seq(T) /\ Len(a) = n /\ \A i \in 1..n : a[i] = s[i]
  BY DEF a
<1>2. /\ b \in Seq(T) /\ Len(b) = Len(s) - n /\ \A i \in 1..(Len(s) - n) : b[i] = s[n + i]
  BY DEF b
<1>3. Len(s) \in Nat /\ n \in Nat /\ n <= Len(s)
  OBVIOUS
<1> HIDE DEF a, b
<1>4. Distinct(a)
  BY <1>1, <1>3 DEF Distinct
<1>5. ASSUME NEW i \in 1..Len(b), NEW j \in 1..Len(b), b[i] = b[j] PROVE i = j
  <2>1. n + i \in 1..Len(s) /\ n + j \in 1..Len(s) /\ s[n + i] = s[n + j]
    BY <1>2, <1>3, <1>5
  <2>2. n + i = n + j
    BY <2>1 DEF Distinct
  <2> QED BY <1>3, <2>2
<1>6. ASSUME NEW x \in ToSet(a), x \in ToSet(b) PROVE FALSE
  <2>1. PICK i \in 1..Len(a) : a[i] = x
    BY <1>1, ToSetMember
  <2>2. PICK j \in 1..Len(b) : b[j] = x
    BY <1>2, <1>6, ToSetMember
  <2>3. i \in 1..Len(s) /\ n + j \in 1..Len(s) /\ s[i] = s[n + j]
    BY <1>1, <1>2, <1>3, <2>1, <2>2
  <2>4. i = n + j
    BY <2>3 DEF Distinct
  <2> QED BY <1>1, <1>3, <2>1, <2>4
<1> QED BY <1>4, <1>5, <1>6 DEF a, b, Distinct

LEMMA DistinctAppend ==
  ASSUME NEW T, NEW s \in Seq(T), Distinct(s), NEW x \in T, x \notin ToSet(s)
  PROVE  Distinct(Append(s, x))
<1> DEFINE a == Append(s, x)
<1>1. /\ a \in Seq(T) /\ Len(a) = Len(s) + 1 /\ Len(s) \in Nat
      /\ a[Len(s) + 1] = x /\ \A i \in 1..Len(s) : a[i] = s[i]
  BY DEF a
<1>2. \A i \in 1..Len(s) : s[i] # x
  BY ToSetMember
<1> HIDE DEF a
<1>3. Distinct(a)
  BY <1>1, <1>2 DEF Distinct
<1> QED BY <1>3 DEF a

LEMMA InFlightMember == \A x : x \in InFlight <=> \E t \in BeTasks : x \in beBatch[t]
BY DEF InFlight

LEMMA InFlightMemberNext == (\A x : x \in InFlight <=> \E t \in BeTasks : x \in beBatch[t])'
BY InFlightMember, PTL

\* Cardinalities add up over disjoint finite sets.
LEMMA DisjointUnion ==
  ASSUME NEW A, NEW B, IsFiniteSet(A), IsFiniteSet(B), A \cap B = {}
  PROVE  /\ Cardinality(A \cup B) = Cardinality(A) + Cardinality(B)
         /\ Cardinality(A) \in Nat /\ Cardinality(B) \in Nat
<1>1. Cardinality(A \cup B) = Cardinality(A) + Cardinality(B) - Cardinality(A \cap B)
  BY FS_Union
<1>2. Cardinality(A \cap B) = 0
  BY FS_EmptySet
<1>3. Cardinality(A) \in Nat /\ Cardinality(B) \in Nat
  BY FS_CardinalityType
<1> QED BY <1>1, <1>2, <1>3

\* The two ways the balance of the counters is kept.
LEMMA SumMoves ==
  \A i, d, l, f, v, m, g \in Nat : m + g = l + f => i + d + l + f + v = i + d + m + g + v
OBVIOUS

LEMMA SumCounted ==
  \A i, d, l, f, v, b, j, e \in Nat : \A g :
    g = f - b /\ j + e = i + d + b => i + d + l + f + v = j + e + l + g + v
OBVIOUS

\* The sets of the invariant are finite.
LEMMA BeFinite ==
  ASSUME BeInv
  PROVE  /\ IsFiniteSet(InFlight) /\ IsFiniteSet(vanished) /\ IsFiniteSet(ToSet(beBuffer))
         /\ \A t \in BeTasks : IsFiniteSet(beBatch[t]) /\ Cardinality(beBatch[t]) \in Nat /\ beBatch[t] \subseteq InFlight
         /\ Cardinality(InFlight) \in Nat /\ Cardinality(vanished) \in Nat /\ Cardinality(beTaken) \in Nat
         /\ Len(beBuffer) \in Nat
<1>1. /\ InFlight \in SUBSET beTaken /\ vanished \in SUBSET beTaken /\ ToSet(beBuffer) \in SUBSET beTaken
      /\ IsFiniteSet(beTaken) /\ Len(beBuffer) \in Nat
  BY DEF BeInv, BePlaces, BeTypeOK
<1>2. IsFiniteSet(InFlight) /\ IsFiniteSet(vanished) /\ IsFiniteSet(ToSet(beBuffer))
  BY <1>1, FS_Subset
<1>3. ASSUME NEW t \in BeTasks
      PROVE IsFiniteSet(beBatch[t]) /\ Cardinality(beBatch[t]) \in Nat /\ beBatch[t] \subseteq InFlight
  <2>1. beBatch[t] \in SUBSET InFlight
    BY InFlightMember
  <2> QED BY <2>1, <1>2, FS_Subset, FS_CardinalityType
<1> QED BY <1>1, <1>2, <1>3, FS_CardinalityType

LEMMA BeInit == BestEffortInit => BeInv /\ BestEffortPromise!Init
<1> SUFFICES ASSUME BestEffortInit PROVE BeInv /\ BestEffortPromise!Init
  OBVIOUS
<1>1. /\ beBuffer = <<>> /\ beBuffer \in Seq(Docs) /\ Len(beBuffer) = 0 /\ ToSet(beBuffer) = {}
      /\ \A t \in BeTasks : beBatch[t] = {} /\ beAt[t] = "idle"
  BY ToSetEmpty DEF BestEffortInit
<1>2. InFlight = {}
  BY <1>1 DEF InFlight
<1>3. BeTimer \in BeTasks
  BY DEF BeTasks
<1>4. Cardinality({}) = 0 /\ IsFiniteSet({})
  BY FS_EmptySet
<1>5. BeTypeOK
  BY <1>1, <1>4 DEF BestEffortInit, BeTypeOK
<1>6. BePlaces /\ BeDistinct
  BY <1>1, <1>2 DEF BestEffortInit, BePlaces, BeDistinct, Distinct
<1>7. CountersBalance /\ OnlyAPartialBatchVanishes /\ BePartial
  BY <1>1, <1>2, <1>3, <1>4, BeAssumption
     DEF BestEffortInit, CountersBalance, OnlyAPartialBatchVanishes, BePartial
<1>8. BestEffortPromise!Init
  BY <1>1, <1>2 DEF BestEffortInit, BestEffortPromise!Init
<1> QED BY <1>5, <1>6, <1>7, <1>8 DEF BeInv

\* What TakeBatch does: the documents it takes out of the buffer are in flight after it.
LEMMA BeTake ==
  ASSUME BeInv, NEW t \in BeTasks, beBatch[t] = {}, NEW buf \in Seq(Docs), Distinct(buf),
         ToSet(buf) \cap InFlight = {}, TakeBatch(t, buf)
  PROVE  /\ beBuffer' \in Seq(Docs) /\ Distinct(beBuffer)' /\ Len(beBuffer') <= Len(buf)
         /\ Len(buf) <= BatchDocs => Len(beBuffer') = 0
         /\ beAt' \in [BeTasks -> {"idle", "send", "dead"}] /\ beBatch' \in [BeTasks -> SUBSET Docs]
         /\ \A u \in BeTasks : beAt'[u] # "send" => beBatch'[u] = {}
         /\ \A u \in BeTasks : u # t => beBatch'[u] = beBatch[u] /\ beAt'[u] = beAt[u]
         /\ beAt'[t] # "dead" /\ Cardinality(beBatch'[t]) <= Len(buf)
         /\ ToSet(beBuffer)' \cup InFlight' = ToSet(buf) \cup InFlight
         /\ ToSet(beBuffer)' \cap InFlight' = {}
         /\ \A u, v \in BeTasks : u # v => beBatch'[u] \cap beBatch'[v] = {}
         /\ Len(beBuffer') + Cardinality(InFlight') = Len(buf) + Cardinality(InFlight)
<1> DEFINE n == IF Len(buf) < BatchDocs THEN Len(buf) ELSE BatchDocs
           out == SubSeq(buf, 1, n)
           in == SubSeq(buf, n + 1, Len(buf))
<1>1. n \in 0..Len(buf) /\ Len(buf) \in Nat /\ (n = 0 => Len(buf) = 0)
  BY BeAssumption
<1>2. /\ beBuffer' = in /\ beBatch' = [beBatch EXCEPT ![t] = ToSet(out)]
      /\ beAt' = [beAt EXCEPT ![t] = IF n = 0 THEN "idle" ELSE "send"]
  BY DEF TakeBatch
<1>n. Len(buf) <= BatchDocs => n = Len(buf)
  BY <1>1, BeAssumption
<1> HIDE DEF n
<1>3. /\ in \in Seq(Docs) /\ Len(in) = Len(buf) - n /\ out \in Seq(Docs) /\ Len(out) = n
      /\ ToSet(buf) = ToSet(out) \cup ToSet(in)
  BY <1>1, ToSetCut DEF in, out
<1>4. Distinct(out) /\ Distinct(in) /\ ToSet(out) \cap ToSet(in) = {}
  BY <1>1, DistinctCut DEF in, out
<1> HIDE DEF in, out
<1>5. IsFiniteSet(ToSet(out)) /\ Cardinality(ToSet(out)) = n
  BY <1>3, <1>4, DistinctCardinality
<1>6. ToSet(out) \in SUBSET Docs
  BY <1>3, ToSetType
<1>7. \A u \in BeTasks : beBatch'[u] = IF u = t THEN ToSet(out) ELSE beBatch[u]
  BY <1>2 DEF BeInv, BeTypeOK
<1>8. \A u \in BeTasks : beAt'[u] = IF u = t THEN (IF n = 0 THEN "idle" ELSE "send") ELSE beAt[u]
  BY <1>2 DEF BeInv, BeTypeOK
<1>9. InFlight' = InFlight \cup ToSet(out)
  BY <1>7, InFlightMember, InFlightMemberNext
<1>10. InFlight \cap ToSet(out) = {}
  BY <1>3
<1>11. Cardinality(InFlight') = Cardinality(InFlight) + n /\ Cardinality(InFlight) \in Nat
  BY <1>5, <1>9, <1>10, BeFinite, DisjointUnion
<1>12. /\ beAt' \in [BeTasks -> {"idle", "send", "dead"}] /\ beBatch' \in [BeTasks -> SUBSET Docs]
  BY <1>2, <1>6 DEF BeInv, BeTypeOK
<1>13. n = 0 => ToSet(out) = {}
  BY <1>5, FS_EmptySet
<1>14. \A u \in BeTasks : beAt'[u] # "send" => beBatch'[u] = {}
  BY <1>7, <1>8, <1>13 DEF BeInv, BePlaces
<1>15. \A u, v \in BeTasks : u # v => beBatch'[u] \cap beBatch'[v] = {}
  BY <1>7, <1>10, InFlightMember DEF BeInv, BeDistinct
<1>16. ToSet(beBuffer)' \cup InFlight' = ToSet(buf) \cup InFlight /\ ToSet(beBuffer)' \cap InFlight' = {}
  BY <1>2, <1>3, <1>4, <1>9
<1>17. /\ Len(beBuffer') + Cardinality(InFlight') = Len(buf) + Cardinality(InFlight)
       /\ Len(beBuffer') <= Len(buf) /\ (Len(buf) <= BatchDocs => Len(beBuffer') = 0)
  BY <1>1, <1>2, <1>3, <1>11, <1>n
<1>18. Cardinality(beBatch'[t]) <= Len(buf)
  BY <1>1, <1>5, <1>7
<1>19. beBuffer' \in Seq(Docs) /\ Distinct(beBuffer)'
  BY <1>2, <1>3, <1>4
<1> QED BY <1>7, <1>8, <1>12, <1>14, <1>15, <1>16, <1>17, <1>18, <1>19

\* What the end of a batch does, delivered or not: it is no longer in flight.
LEMMA BeDrop ==
  ASSUME BeInv, NEW t \in BeTasks, NEW a \in {"idle", "dead"},
         beBatch' = [beBatch EXCEPT ![t] = {}], beAt' = [beAt EXCEPT ![t] = a]
  PROVE  /\ beAt' \in [BeTasks -> {"idle", "send", "dead"}] /\ beBatch' \in [BeTasks -> SUBSET Docs]
         /\ \A u \in BeTasks : beAt'[u] # "send" => beBatch'[u] = {}
         /\ \A u \in BeTasks : u # t => beBatch'[u] = beBatch[u] /\ beAt'[u] = beAt[u]
         /\ beBatch'[t] = {} /\ beAt'[t] = a
         /\ InFlight' = InFlight \ beBatch[t]
         /\ \A u, v \in BeTasks : u # v => beBatch'[u] \cap beBatch'[v] = {}
         /\ Cardinality(InFlight') = Cardinality(InFlight) - Cardinality(beBatch[t])
         /\ Cardinality(beBatch'[BeTimer]) < BatchDocs
<1>1. \A u \in BeTasks : beBatch'[u] = IF u = t THEN {} ELSE beBatch[u]
  BY DEF BeInv, BeTypeOK
<1>2. \A u \in BeTasks : beAt'[u] = IF u = t THEN a ELSE beAt[u]
  BY DEF BeInv, BeTypeOK
<1>3. /\ beAt' \in [BeTasks -> {"idle", "send", "dead"}] /\ beBatch' \in [BeTasks -> SUBSET Docs]
  BY DEF BeInv, BeTypeOK
<1>4. \A u \in BeTasks : u # t => beBatch[u] \cap beBatch[t] = {}
  BY DEF BeInv, BeDistinct
<1>5. InFlight' = InFlight \ beBatch[t]
  BY <1>1, <1>4, InFlightMember, InFlightMemberNext
<1>6. Cardinality(InFlight \ beBatch[t]) = Cardinality(InFlight) - Cardinality(InFlight \cap beBatch[t])
  BY BeFinite, FS_Difference
<1>7. InFlight \cap beBatch[t] = beBatch[t]
  BY BeFinite
<1>8. \A u, v \in BeTasks : u # v => beBatch'[u] \cap beBatch'[v] = {}
  BY <1>1 DEF BeInv, BeDistinct
<1>9. \A u \in BeTasks : beAt'[u] # "send" => beBatch'[u] = {}
  BY <1>1, <1>2 DEF BeInv, BePlaces
<1>10. Cardinality(beBatch'[BeTimer]) < BatchDocs
  <2>1. BeTimer \in BeTasks
    BY DEF BeTasks
  <2>2. Cardinality({}) = 0
    BY FS_EmptySet
  <2> QED BY <1>1, <2>1, <2>2, BeAssumption DEF BeInv, BePartial
<1> QED BY <1>1, <1>2, <1>3, <1>5, <1>6, <1>7, <1>8, <1>9, <1>10

\* A take from the buffer as it is (the timer's, or close()'s flush).
LEMMA BeTakeStep ==
  ASSUME BeInv, NEW t \in BeTasks, beAt[t] = "idle", TakeBatch(t, beBuffer),
         UNCHANGED <<beUp, index, docsIndexed, docsDropped, beTaken, vanished, dropped, badReplies, beFaults>>
  PROVE  BeInv' /\ BeStep
<1>1. beBatch[t] = {} /\ beBuffer \in Seq(Docs) /\ Distinct(beBuffer) /\ ToSet(beBuffer) \cap InFlight = {}
  BY DEF BeInv, BePlaces, BeDistinct, BeTypeOK
<1> DEFINE Taken ==
         /\ beBuffer' \in Seq(Docs) /\ Distinct(beBuffer)' /\ Len(beBuffer') <= Len(beBuffer)
         /\ beAt' \in [BeTasks -> {"idle", "send", "dead"}] /\ beBatch' \in [BeTasks -> SUBSET Docs]
         /\ \A u \in BeTasks : beAt'[u] # "send" => beBatch'[u] = {}
         /\ \A u \in BeTasks : u # t => beBatch'[u] = beBatch[u] /\ beAt'[u] = beAt[u]
         /\ beAt'[t] # "dead" /\ Cardinality(beBatch'[t]) <= Len(beBuffer)
         /\ ToSet(beBuffer)' \cup InFlight' = ToSet(beBuffer) \cup InFlight
         /\ ToSet(beBuffer)' \cap InFlight' = {}
         /\ \A u, v \in BeTasks : u # v => beBatch'[u] \cap beBatch'[v] = {}
         /\ Len(beBuffer') + Cardinality(InFlight') = Len(beBuffer) + Cardinality(InFlight)
<1>2. Taken
  BY <1>1, BeTake
<1>3. BeTypeOK'
  BY <1>2 DEF BeInv, BeTypeOK
<1>4. BePlaces'
  BY <1>2 DEF BeInv, BePlaces
<1>5. BeDistinct'
  BY <1>2 DEF BeInv, BeDistinct
<1>6. Cardinality(InFlight') \in Nat /\ Len(beBuffer') \in Nat
  <2>1. InFlight' \in SUBSET beTaken /\ IsFiniteSet(beTaken)
    BY <1>4 DEF BePlaces, BeInv, BeTypeOK
  <2> QED BY <1>2, <2>1, FS_Subset, FS_CardinalityType
<1>7. CountersBalance'
  <2>1. Len(beBuffer') + Cardinality(InFlight') = Len(beBuffer) + Cardinality(InFlight)
    BY <1>2
  <2>2. /\ Cardinality(InFlight) \in Nat /\ Len(beBuffer) \in Nat /\ docsIndexed \in Nat /\ docsDropped \in Nat
        /\ Cardinality(vanished) \in Nat
    BY BeFinite DEF BeInv, BeTypeOK
  <2>3. Cardinality(beTaken) = docsIndexed + docsDropped + Len(beBuffer) + Cardinality(InFlight) + Cardinality(vanished)
    BY DEF BeInv, CountersBalance
  <2> QED BY <1>6, <2>1, <2>2, <2>3, SumMoves DEF CountersBalance
<1>8. BePartial'
  <2>1. BeTimer \in BeTasks /\ BatchDocs \in Nat
    BY BeAssumption DEF BeTasks
  <2>2. Len(beBuffer) \in Nat /\ Len(beBuffer) < BatchDocs /\ Cardinality(beBatch[BeTimer]) < BatchDocs
    BY BeFinite DEF BeInv, BePartial
  <2>3. Len(beBuffer') < BatchDocs
    BY <1>2, <1>6, <2>1, <2>2
  <2>4. Cardinality(beBatch'[BeTimer]) < BatchDocs
    <3>1. CASE t = BeTimer
      <4>1. beBatch'[t] \in SUBSET InFlight'
        BY InFlightMemberNext
      <4>2. InFlight' \in SUBSET beTaken /\ IsFiniteSet(beTaken)
        BY <1>4 DEF BePlaces, BeInv, BeTypeOK
      <4>3. Cardinality(beBatch'[t]) \in Nat
        BY <4>1, <4>2, FS_Subset, FS_CardinalityType
      <4>4. Cardinality(beBatch'[t]) <= Len(beBuffer)
        BY <1>2
      <4> HIDE DEF Taken
      <4>5. Cardinality(beBatch'[t]) < BatchDocs
        BY <2>1, <2>2, <4>3, <4>4
      <4> QED BY <3>1, <4>5
    <3>2. CASE t # BeTimer
      BY <1>2, <2>1, <2>2, <3>2
    <3> QED BY <3>1, <3>2
  <2>5. beAt'[BeTimer] = "dead" => badReplies' > 0
    BY <1>2, <2>1 DEF BeInv, BePartial
  <2> QED BY <2>3, <2>4, <2>5 DEF BeInv, BePartial
<1>9. OnlyAPartialBatchVanishes'
  BY DEF BeInv, OnlyAPartialBatchVanishes
<1>10. BeStep
  BY <1>2 DEF BeStep, BestEffortPromise!Land, BestEffortPromise!Reach
<1> QED BY <1>3, <1>4, <1>5, <1>7, <1>8, <1>9, <1>10 DEF BeInv

LEMMA BeWriteStep ==
  ASSUME BeInv, NEW t \in BeWriters, NEW d \in Docs, BeWrite(t, d)
  PROVE  BeInv' /\ BeStep
<1> DEFINE buf == Append(beBuffer, d)
<1>1. /\ beUp = "up" /\ beAt[t] = "idle" /\ d \notin beTaken /\ beTaken' = beTaken \cup {d}
      /\ UNCHANGED <<beUp, index, docsIndexed, docsDropped, vanished, dropped, badReplies, beFaults>>
  BY DEF BeWrite
<1>2. t \in BeTasks /\ t # BeTimer /\ BeTimer \in BeTasks /\ BatchDocs \in Nat \ {0} /\ beBatch[t] = {}
  BY <1>1, BeAssumption DEF BeTasks, BeInv, BePlaces
<1>3. /\ beBuffer \in Seq(Docs) /\ Distinct(beBuffer) /\ Len(beBuffer) \in Nat /\ Len(beBuffer) < BatchDocs
      /\ d \notin ToSet(beBuffer) /\ d \notin InFlight /\ d \notin vanished
  BY <1>1 DEF BeInv, BeTypeOK, BePlaces, BeDistinct, BePartial
<1>4. buf \in Seq(Docs) /\ Len(buf) = Len(beBuffer) + 1 /\ ToSet(buf) = ToSet(beBuffer) \cup {d} /\ Distinct(buf)
  BY <1>3, ToSetAppend, DistinctAppend
<1>5. ToSet(buf) \cap InFlight = {} /\ ToSet(buf) \cap vanished = {}
  BY <1>3, <1>4 DEF BeInv, BeDistinct
<1>6. /\ Len(buf) >= BatchDocs => TakeBatch(t, buf)
      /\ Len(buf) < BatchDocs => beBuffer' = buf /\ UNCHANGED <<beAt, beBatch>>
  BY <1>2, <1>3, <1>4 DEF BeWrite
<1> HIDE DEF buf
<1> DEFINE Taken ==
         /\ beBuffer' \in Seq(Docs) /\ Distinct(beBuffer)' /\ Len(beBuffer') < BatchDocs
         /\ beAt' \in [BeTasks -> {"idle", "send", "dead"}] /\ beBatch' \in [BeTasks -> SUBSET Docs]
         /\ \A u \in BeTasks : beAt'[u] # "send" => beBatch'[u] = {}
         /\ \A u \in BeTasks : u # t => beBatch'[u] = beBatch[u] /\ beAt'[u] = beAt[u]
         /\ ToSet(beBuffer)' \cup InFlight' = ToSet(buf) \cup InFlight
         /\ ToSet(beBuffer)' \cap InFlight' = {}
         /\ \A u, v \in BeTasks : u # v => beBatch'[u] \cap beBatch'[v] = {}
         /\ Len(beBuffer') + Cardinality(InFlight') = Len(buf) + Cardinality(InFlight)
<1>7. Taken
  <2>1. CASE Len(buf) >= BatchDocs
    <3>0. Len(buf) <= BatchDocs
      BY <1>2, <1>3, <1>4
    <3>a. TakeBatch(t, buf)
      BY <1>6, <2>1
    <3>1. /\ beBuffer' \in Seq(Docs) /\ Distinct(beBuffer)' /\ Len(beBuffer') = 0
          /\ beAt' \in [BeTasks -> {"idle", "send", "dead"}] /\ beBatch' \in [BeTasks -> SUBSET Docs]
          /\ \A u \in BeTasks : beAt'[u] # "send" => beBatch'[u] = {}
          /\ \A u \in BeTasks : u # t => beBatch'[u] = beBatch[u] /\ beAt'[u] = beAt[u]
          /\ ToSet(beBuffer)' \cup InFlight' = ToSet(buf) \cup InFlight
          /\ ToSet(beBuffer)' \cap InFlight' = {}
          /\ \A u, v \in BeTasks : u # v => beBatch'[u] \cap beBatch'[v] = {}
          /\ Len(beBuffer') + Cardinality(InFlight') = Len(buf) + Cardinality(InFlight)
      BY <1>2, <1>4, <1>5, <3>0, <3>a, BeTake
    <3>2. Len(beBuffer') < BatchDocs
      BY <1>2, <3>1
    <3> QED BY <3>1, <3>2
  <2>2. CASE Len(buf) < BatchDocs
    <3>1. beBuffer' = buf /\ UNCHANGED <<beAt, beBatch>>
      BY <1>6, <2>2
    <3>2. InFlight' = InFlight
      BY <3>1 DEF InFlight
    <3> QED BY <1>4, <1>5, <2>2, <3>1, <3>2 DEF BeInv, BeTypeOK, BePlaces, BeDistinct
  <2> QED BY <1>2, <1>3, <1>4, <2>1, <2>2
<1>8. BeTypeOK'
  <2>1. IsFiniteSet(beTaken')
    BY <1>1, FS_AddElement DEF BeInv, BeTypeOK
  <2> QED BY <1>1, <1>7, <2>1 DEF BeInv, BeTypeOK
<1>9. BePlaces'
  BY <1>1, <1>4, <1>7 DEF BeInv, BePlaces
<1>10. BeDistinct'
  BY <1>1, <1>3, <1>5, <1>7 DEF BeInv, BeDistinct
<1>11. CountersBalance'
  <2>1. Cardinality(beTaken') = Cardinality(beTaken) + 1 /\ Cardinality(beTaken) \in Nat
    BY <1>1, BeFinite, FS_AddElement DEF BeInv, BeTypeOK
  <2>2. InFlight' \in SUBSET beTaken' /\ IsFiniteSet(beTaken')
    BY <1>8, <1>9 DEF BePlaces, BeTypeOK
  <2>3. Cardinality(InFlight') \in Nat /\ Len(beBuffer') \in Nat
    BY <1>7, <2>2, FS_Subset, FS_CardinalityType
  <2>4. Len(beBuffer') + Cardinality(InFlight') = Len(beBuffer) + 1 + Cardinality(InFlight)
    BY <1>4, <1>7
  <2>5. /\ Cardinality(InFlight) \in Nat /\ Len(beBuffer) \in Nat /\ docsIndexed \in Nat /\ docsDropped \in Nat
        /\ Cardinality(vanished) \in Nat
    BY BeFinite DEF BeInv, BeTypeOK
  <2>6. Cardinality(beTaken) = docsIndexed + docsDropped + Len(beBuffer) + Cardinality(InFlight) + Cardinality(vanished)
    BY DEF BeInv, CountersBalance
  <2>7. docsIndexed' = docsIndexed /\ docsDropped' = docsDropped /\ vanished' = vanished
    BY <1>1
  <2>8. Cardinality(beTaken') = docsIndexed + docsDropped + Len(beBuffer') + Cardinality(InFlight') + Cardinality(vanished)
    <3> DEFINE settled == docsIndexed + docsDropped
               held    == Len(beBuffer) + Cardinality(InFlight)
               held2   == Len(beBuffer') + Cardinality(InFlight')
               gone    == Cardinality(vanished)
    <3>1. settled \in Nat /\ held \in Nat /\ gone \in Nat
      BY <2>5
    <3>2. held2 = held + 1
      BY <2>4, <2>5
    <3>3. Cardinality(beTaken) = settled + held + gone
      BY <2>5, <2>6
    <3>4. Cardinality(beTaken') = settled + held2 + gone
      <4> HIDE DEF settled, held, held2, gone
      <4> QED BY <2>1, <3>1, <3>2, <3>3
    <3> QED BY <2>3, <2>5, <3>4
  <2> QED BY <2>7, <2>8 DEF CountersBalance
<1>12. BePartial'
  BY <1>1, <1>2, <1>7 DEF BeInv, BePartial
<1>13. OnlyAPartialBatchVanishes'
  BY <1>1 DEF BeInv, OnlyAPartialBatchVanishes
<1>14. BestEffortPromise!Accept(d)
  <2>1. d \notin index /\ d \notin dropped
    BY <1>1 DEF BeInv, BePlaces
  <2>2. ToSet(beBuffer)' \cup InFlight' = ToSet(beBuffer) \cup InFlight \cup {d}
    BY <1>4, <1>7
  <2> QED BY <1>1, <1>3, <2>1, <2>2 DEF BestEffortPromise!Accept
<1> QED BY <1>8, <1>9, <1>10, <1>11, <1>12, <1>13, <1>14 DEF BeInv, BeStep

\* A batch is over: its documents are counted once, or they have vanished.
LEMMA BeEnd ==
  ASSUME BeInv, NEW t \in BeTasks, NEW a \in {"idle", "dead"},
         beBatch' = [beBatch EXCEPT ![t] = {}], beAt' = [beAt EXCEPT ![t] = a],
         beUp' \in {"down", "up", "off", "closing", "closed"}, UNCHANGED <<beBuffer, beTaken>>,
         index' \subseteq index \cup beBatch[t], dropped' \subseteq dropped \cup beBatch[t],
         docsIndexed' \in Nat, docsDropped' \in Nat, badReplies' \in Nat, beFaults' \in Nat,
         \/ /\ vanished' = vanished
            /\ docsIndexed' + docsDropped' = docsIndexed + docsDropped + Cardinality(beBatch[t])
         \/ vanished' = vanished \cup beBatch[t] /\ UNCHANGED <<docsIndexed, docsDropped>>
  PROVE  /\ BeTypeOK' /\ BePlaces' /\ BeDistinct' /\ CountersBalance'
         /\ Len(beBuffer') < BatchDocs /\ Cardinality(beBatch'[BeTimer]) < BatchDocs
         /\ InFlight' = InFlight \ beBatch[t]
         /\ \A u \in BeTasks : u # t => beAt'[u] = beAt[u]
         /\ beAt'[t] = a
<1> DEFINE Dropped ==
         /\ beAt' \in [BeTasks -> {"idle", "send", "dead"}] /\ beBatch' \in [BeTasks -> SUBSET Docs]
         /\ \A u \in BeTasks : beAt'[u] # "send" => beBatch'[u] = {}
         /\ \A u \in BeTasks : u # t => beBatch'[u] = beBatch[u] /\ beAt'[u] = beAt[u]
         /\ beBatch'[t] = {} /\ beAt'[t] = a
         /\ InFlight' = InFlight \ beBatch[t]
         /\ \A u, v \in BeTasks : u # v => beBatch'[u] \cap beBatch'[v] = {}
         /\ Cardinality(InFlight') = Cardinality(InFlight) - Cardinality(beBatch[t])
         /\ Cardinality(beBatch'[BeTimer]) < BatchDocs
<1>1. Dropped
  BY BeDrop
<1>2. beBatch[t] \subseteq InFlight /\ InFlight \subseteq beTaken
  BY BeFinite DEF BeInv, BePlaces
<1>3. BeTypeOK'
  BY <1>1 DEF BeInv, BeTypeOK
<1>4. BePlaces'
  BY <1>1, <1>2 DEF BeInv, BePlaces
<1>5. BeDistinct'
  BY <1>1, <1>2 DEF BeInv, BeDistinct
<1>6. CountersBalance'
  <2>1. /\ Cardinality(InFlight) \in Nat /\ Len(beBuffer) \in Nat /\ docsIndexed \in Nat /\ docsDropped \in Nat
        /\ Cardinality(vanished) \in Nat /\ Cardinality(beBatch[t]) \in Nat /\ Cardinality(beTaken) \in Nat
        /\ IsFiniteSet(vanished) /\ IsFiniteSet(beBatch[t]) /\ IsFiniteSet(InFlight)
    BY BeFinite DEF BeInv, BeTypeOK
  <2>2. Cardinality(InFlight') = Cardinality(InFlight) - Cardinality(beBatch[t])
    BY <1>1
  <2>5. Cardinality(beTaken) = docsIndexed + docsDropped + Len(beBuffer) + Cardinality(InFlight) + Cardinality(vanished)
    BY DEF BeInv, CountersBalance
  <2>3. CASE /\ vanished' = vanished
             /\ docsIndexed' + docsDropped' = docsIndexed + docsDropped + Cardinality(beBatch[t])
    <3> DEFINE i == docsIndexed  d == docsDropped  j == docsIndexed'  e == docsDropped'  l == Len(beBuffer)
               f == Cardinality(InFlight)  b == Cardinality(beBatch[t])  g == Cardinality(InFlight')
               v == Cardinality(vanished)
    <3>2. i \in Nat /\ d \in Nat /\ j \in Nat /\ e \in Nat /\ l \in Nat /\ f \in Nat /\ b \in Nat /\ v \in Nat
      BY <2>1
    <3>3. g = f - b /\ j + e = i + d + b
      BY <2>2, <2>3
    <3> HIDE DEF i, d, j, e, l, f, b, g, v
    <3>4. i + d + l + f + v = j + e + l + g + v
      BY <3>2, <3>3, SumCounted
    <3>1. Cardinality(beTaken) = docsIndexed' + docsDropped' + Len(beBuffer) + Cardinality(InFlight') + Cardinality(vanished)
      BY <2>5, <3>4 DEF i, d, j, e, l, f, b, g, v
    <3> QED BY <2>3, <3>1 DEF CountersBalance
  <2>4. CASE vanished' = vanished \cup beBatch[t] /\ UNCHANGED <<docsIndexed, docsDropped>>
    <3>1. vanished \cap beBatch[t] = {}
      BY <1>2 DEF BeInv, BeDistinct
    <3>2. Cardinality(vanished') = Cardinality(vanished) + Cardinality(beBatch[t])
      BY <2>1, <2>4, <3>1, DisjointUnion
    <3> QED BY <2>1, <2>2, <2>4, <3>2 DEF BeInv, CountersBalance
  <2> QED BY <2>3, <2>4
<1> QED BY <1>1, <1>3, <1>4, <1>5, <1>6 DEF BeInv, BePartial

\* What the server has answered, or not, lets the documents of the batch land or be given up.
LEMMA BeEndRefines ==
  ASSUME NEW B, B \subseteq InFlight, InFlight' = InFlight \ B, beBuffer' = beBuffer,
         index \subseteq index', index' \subseteq index \cup B,
         dropped \subseteq dropped', dropped' \subseteq dropped \cup B,
         vanished \subseteq vanished', vanished' \subseteq vanished \cup B,
         \/ B \subseteq index' /\ UNCHANGED <<dropped, vanished, beFaults>>
         \/ B \subseteq index' \cup dropped' \cup vanished' /\ beFaults' = beFaults + 1
  PROVE  BeStep
BY DEF BeStep, BestEffortPromise!Land, BestEffortPromise!GiveUp, BestEffortPromise!Reach

LEMMA BeAnswered ==
  ASSUME BeInv, NEW t \in BeTasks, Back(t), UNCHANGED <<beUp, beBuffer, beTaken, vanished, badReplies>>,
         index \subseteq index', index' \subseteq index \cup beBatch[t],
         dropped \subseteq dropped', dropped' \subseteq dropped \cup beBatch[t],
         docsIndexed' \in Nat, docsDropped' \in Nat,
         docsIndexed' + docsDropped' = docsIndexed + docsDropped + Cardinality(beBatch[t]),
         \/ beBatch[t] \subseteq index' /\ UNCHANGED <<dropped, beFaults>>
         \/ beBatch[t] \subseteq index' \cup dropped' /\ beFaults' = beFaults + 1
  PROVE  BeInv' /\ BeStep
<1>1. /\ beBatch' = [beBatch EXCEPT ![t] = {}] /\ beAt' = [beAt EXCEPT ![t] = "idle"]
      /\ beUp' \in {"down", "up", "off", "closing", "closed"} /\ badReplies' \in Nat /\ beFaults' \in Nat
  BY DEF Back, BeInv, BeTypeOK
<1>2. /\ BeTypeOK' /\ BePlaces' /\ BeDistinct' /\ CountersBalance'
      /\ Len(beBuffer') < BatchDocs /\ Cardinality(beBatch'[BeTimer]) < BatchDocs
      /\ InFlight' = InFlight \ beBatch[t]
      /\ \A u \in BeTasks : u # t => beAt'[u] = beAt[u]
      /\ beAt'[t] = "idle"
  BY <1>1, BeEnd
<1>3. BeTimer \in BeTasks
  BY DEF BeTasks
<1>4. BePartial' /\ OnlyAPartialBatchVanishes'
  BY <1>2, <1>3 DEF BeInv, BePartial, OnlyAPartialBatchVanishes
<1>5. beBatch[t] \subseteq InFlight
  BY BeFinite
<1>6. BeStep
  BY <1>2, <1>5, BeEndRefines
<1> QED BY <1>2, <1>4, <1>6 DEF BeInv

LEMMA SentStep ==
  ASSUME BeInv, NEW t \in BeTasks, NEW rej \in SUBSET beBatch[t], Sent(t, rej)
  PROVE  BeInv' /\ BeStep
<1>1. /\ index' = index \cup (beBatch[t] \ rej) /\ dropped' = dropped \cup rej
      /\ docsIndexed' = docsIndexed + Cardinality(beBatch[t]) /\ docsDropped' = docsDropped
      /\ beFaults' = beFaults + (IF rej = {} THEN 0 ELSE 1)
      /\ Back(t) /\ UNCHANGED <<beUp, beBuffer, beTaken, vanished, badReplies>>
  BY DEF Sent
<1>2. Cardinality(beBatch[t]) \in Nat /\ docsIndexed \in Nat /\ docsDropped \in Nat
  BY BeFinite DEF BeInv, BeTypeOK
<1>3. /\ docsIndexed' \in Nat /\ docsDropped' \in Nat
      /\ docsIndexed' + docsDropped' = docsIndexed + docsDropped + Cardinality(beBatch[t])
  BY <1>1, <1>2
<1>4. \/ beBatch[t] \subseteq index' /\ UNCHANGED <<dropped, beFaults>>
      \/ beBatch[t] \subseteq index' \cup dropped' /\ beFaults' = beFaults + 1
  <2>1. CASE rej = {}
    <3>1. beBatch[t] \subseteq index' /\ dropped' = dropped
      BY <1>1, <2>1
    <3>2. beFaults' = beFaults
      BY <1>1, <2>1 DEF BeInv, BeTypeOK
    <3> QED BY <3>1, <3>2
  <2>2. CASE rej # {}
    BY <1>1, <2>2
  <2> QED BY <2>1, <2>2
<1> QED BY <1>1, <1>3, <1>4, BeAnswered

LEMMA RefusedStep ==
  ASSUME BeInv, NEW t \in BeTasks, docsDropped' = docsDropped + Cardinality(beBatch[t]),
         dropped' = dropped \cup beBatch[t], beFaults' = beFaults + 1, Back(t),
         index' = index \/ index' = index \cup beBatch[t],
         UNCHANGED <<beUp, beBuffer, docsIndexed, beTaken, vanished, badReplies>>
  PROVE  BeInv' /\ BeStep
<1>1. Cardinality(beBatch[t]) \in Nat /\ docsIndexed \in Nat /\ docsDropped \in Nat
  BY BeFinite DEF BeInv, BeTypeOK
<1>2. /\ docsIndexed' \in Nat /\ docsDropped' \in Nat
      /\ docsIndexed' + docsDropped' = docsIndexed + docsDropped + Cardinality(beBatch[t])
  BY <1>1
<1>3. /\ index \subseteq index' /\ index' \subseteq index \cup beBatch[t]
      /\ dropped \subseteq dropped' /\ dropped' \subseteq dropped \cup beBatch[t]
      /\ beBatch[t] \subseteq index' \cup dropped'
  OBVIOUS
<1> QED BY <1>2, <1>3, BeAnswered

LEMMA RetryStep ==
  ASSUME BeInv, NEW t \in BeTasks, NEW landed \in BOOLEAN, Retry(t, landed)
  PROVE  BeInv' /\ BeStep
<1>1. /\ index' = index \/ index' = index \cup beBatch[t]
      /\ UNCHANGED <<beUp, beBuffer, docsIndexed, beTaken, vanished, badReplies>>
  BY DEF Retry
<1>2. CASE beTry[t] < BeMaxRetries
  <2>1. UNCHANGED <<beAt, beBatch, docsDropped, dropped, beFaults>>
    BY <1>2 DEF Retry
  <2>2. InFlight' = InFlight
    BY <2>1 DEF InFlight
  <2>3. beBatch[t] \subseteq InFlight /\ InFlight \subseteq beTaken
    BY BeFinite DEF BeInv, BePlaces
  <2>4. BeTypeOK'
    BY <1>1, <2>1 DEF BeInv, BeTypeOK
  <2>5. BePlaces'
    BY <1>1, <2>1, <2>2, <2>3 DEF BeInv, BePlaces
  <2>6. BeDistinct'
    BY <1>1, <2>1, <2>2 DEF BeInv, BeDistinct
  <2>7. CountersBalance' /\ BePartial' /\ OnlyAPartialBatchVanishes'
    BY <1>1, <2>1, <2>2 DEF BeInv, CountersBalance, BePartial, OnlyAPartialBatchVanishes
  <2>8. BeStep
    BY <1>1, <2>1, <2>2, <2>3 DEF BeStep, BestEffortPromise!Land, BestEffortPromise!Reach
  <2> QED BY <2>4, <2>5, <2>6, <2>7, <2>8 DEF BeInv
<1>3. CASE ~(beTry[t] < BeMaxRetries)
  <2>1. /\ docsDropped' = docsDropped + Cardinality(beBatch[t])
        /\ dropped' = dropped \cup beBatch[t] /\ beFaults' = beFaults + 1 /\ Back(t)
    BY <1>3 DEF Retry
  <2> QED BY <1>1, <2>1, RefusedStep
<1> QED BY <1>2, <1>3

LEMMA BadReplyStep ==
  ASSUME BeInv, NEW t \in BeTasks, BadReply(t)
  PROVE  BeInv' /\ BeStep
<1>1. /\ badReplies' = badReplies + 1 /\ beFaults' = beFaults + 1
      /\ index' = index \cup beBatch[t] /\ vanished' = vanished \cup beBatch[t]
      /\ beBatch' = [beBatch EXCEPT ![t] = {}]
      /\ UNCHANGED <<beUp, beBuffer, docsIndexed, docsDropped, beTaken, dropped>>
  BY DEF BadReply
<1>2. PICK a \in {"idle", "dead"} : beAt' = [beAt EXCEPT ![t] = a]
  BY DEF BadReply
<1>3. /\ badReplies' \in Nat /\ badReplies' > 0 /\ beFaults' \in Nat /\ docsIndexed' \in Nat /\ docsDropped' \in Nat
      /\ beUp' \in {"down", "up", "off", "closing", "closed"}
  BY <1>1 DEF BeInv, BeTypeOK
<1>4. /\ index' \subseteq index \cup beBatch[t] /\ dropped' \subseteq dropped \cup beBatch[t]
  BY <1>1
<1>5. /\ BeTypeOK' /\ BePlaces' /\ BeDistinct' /\ CountersBalance'
      /\ Len(beBuffer') < BatchDocs /\ Cardinality(beBatch'[BeTimer]) < BatchDocs
      /\ InFlight' = InFlight \ beBatch[t]
  BY <1>1, <1>2, <1>3, <1>4, BeEnd
<1>6. BePartial' /\ OnlyAPartialBatchVanishes'
  BY <1>3, <1>5 DEF BePartial, OnlyAPartialBatchVanishes
<1>7. beBatch[t] \subseteq InFlight
  BY BeFinite
<1>8. BeStep
  BY <1>1, <1>5, <1>7, BeEndRefines
<1> QED BY <1>5, <1>6, <1>8 DEF BeInv

LEMMA BeCloseStep ==
  ASSUME BeInv, NEW landed \in BOOLEAN, BeClose(landed)
  PROVE  BeInv' /\ BeStep
<1> DEFINE t == BeTimer
<1>0. t \in BeTasks
  BY DEF BeTasks
<1>1. /\ beUp = "up" /\ beAt[t] # "dead" /\ beUp' = "closing"
      /\ (index' = index \/ index' = index \cup beBatch[t]) /\ vanished' = vanished \cup beBatch[t]
      /\ beFaults' = beFaults + (IF beBatch[t] = {} THEN 0 ELSE 1)
      /\ beBatch' = [beBatch EXCEPT ![t] = {}] /\ beAt' = [beAt EXCEPT ![t] = "idle"]
      /\ UNCHANGED <<beBuffer, docsIndexed, docsDropped, beTaken, dropped, badReplies>>
  BY DEF BeClose, Back
<1>2. /\ badReplies' \in Nat /\ beFaults' \in Nat /\ docsIndexed' \in Nat /\ docsDropped' \in Nat
      /\ (beBatch[t] = {} => beFaults' = beFaults) /\ (beBatch[t] # {} => beFaults' = beFaults + 1)
  BY <1>1 DEF BeInv, BeTypeOK
<1>3. /\ index' \subseteq index \cup beBatch[t] /\ index \subseteq index' /\ dropped' \subseteq dropped \cup beBatch[t]
  BY <1>1
<1> HIDE DEF t
<1>4. /\ BeTypeOK' /\ BePlaces' /\ BeDistinct' /\ CountersBalance'
      /\ Len(beBuffer') < BatchDocs /\ Cardinality(beBatch'[BeTimer]) < BatchDocs
      /\ InFlight' = InFlight \ beBatch[t] /\ beAt'[t] = "idle"
  BY <1>0, <1>1, <1>2, <1>3, BeEnd
<1>5. BePartial'
  BY <1>1, <1>4 DEF BePartial, t
<1>6. OnlyAPartialBatchVanishes'
  <2>1. badReplies = 0 => vanished' = beBatch[t]
    BY <1>1 DEF BeInv, BePartial
  <2> QED BY <1>1, <2>1 DEF BeInv, BePartial, OnlyAPartialBatchVanishes, t
<1>7. beBatch[t] \subseteq InFlight
  BY <1>0, BeFinite
<1>8. BeStep
  <2>1. CASE beBatch[t] = {}
    <3>1. vanished' = vanished /\ beFaults' = beFaults /\ beBatch[t] \subseteq index'
      BY <1>1, <1>2, <2>1
    <3> QED BY <1>1, <1>3, <1>4, <1>7, <3>1, BeEndRefines
  <2>2. CASE beBatch[t] # {}
    BY <1>1, <1>2, <1>3, <1>4, <1>7, <2>2, BeEndRefines
  <2> QED BY <2>1, <2>2
<1> QED BY <1>4, <1>5, <1>6, <1>8 DEF BeInv

LEMMA CloseCutShortStep == ASSUME BeInv, CloseCutShort PROVE BeInv' /\ BeStep
<1> DEFINE t == BeCloser
<1>0. t \in BeTasks /\ BeTimer \in BeTasks /\ BatchDocs \in Nat \ {0} /\ t # BeTimer
  BY BeAssumption DEF BeTasks
<1>1. /\ beUp' = "closed" /\ beBuffer' = <<>>
      /\ vanished' = vanished \cup ToSet(beBuffer) \cup beBatch[t] /\ beFaults' = beFaults + 1
      /\ beBatch' = [beBatch EXCEPT ![t] = {}] /\ beAt' = [beAt EXCEPT ![t] = "idle"]
      /\ (index' = index \/ index' = index \cup beBatch[t])
      /\ UNCHANGED <<docsIndexed, docsDropped, beTaken, dropped>>
  BY DEF CloseCutShort, Back
<1>2. badReplies' \in Nat /\ badReplies' > 0
  BY DEF CloseCutShort, BeInv, BeTypeOK, BePartial
<1> HIDE DEF t
<1> DEFINE Dropped ==
         /\ beAt' \in [BeTasks -> {"idle", "send", "dead"}] /\ beBatch' \in [BeTasks -> SUBSET Docs]
         /\ \A u \in BeTasks : beAt'[u] # "send" => beBatch'[u] = {}
         /\ InFlight' = InFlight \ beBatch[t]
         /\ \A u, v \in BeTasks : u # v => beBatch'[u] \cap beBatch'[v] = {}
         /\ Cardinality(InFlight') = Cardinality(InFlight) - Cardinality(beBatch[t])
         /\ Cardinality(beBatch'[BeTimer]) < BatchDocs
<1>3. Dropped
  BY <1>0, <1>1, BeDrop
<1>4. ToSet(beBuffer)' = {} /\ beBuffer' \in Seq(Docs) /\ Len(beBuffer') = 0 /\ Distinct(beBuffer)'
  BY <1>1, ToSetEmpty DEF Distinct
<1>5. beBatch[t] \subseteq InFlight /\ InFlight \subseteq beTaken
  BY <1>0, BeFinite DEF BeInv, BePlaces
<1>6. BeTypeOK'
  BY <1>1, <1>2, <1>3, <1>4 DEF BeInv, BeTypeOK
<1>7. BePlaces'
  BY <1>1, <1>3, <1>4, <1>5 DEF BeInv, BePlaces
<1>8. BeDistinct'
  BY <1>1, <1>3, <1>4, <1>5 DEF BeInv, BeDistinct
<1>9. CountersBalance'
  <2>1. /\ IsFiniteSet(vanished) /\ IsFiniteSet(ToSet(beBuffer)) /\ IsFiniteSet(beBatch[t])
        /\ Cardinality(InFlight) \in Nat /\ Len(beBuffer) \in Nat /\ docsIndexed \in Nat /\ docsDropped \in Nat
    BY <1>0, BeFinite DEF BeInv, BeTypeOK
  <2>2. Cardinality(ToSet(beBuffer)) = Len(beBuffer)
    BY DistinctCardinality DEF BeInv, BeTypeOK, BeDistinct
  <2>3. vanished \cap ToSet(beBuffer) = {} /\ (vanished \cup ToSet(beBuffer)) \cap beBatch[t] = {}
    BY <1>5 DEF BeInv, BeDistinct
  <2>4. IsFiniteSet(vanished \cup ToSet(beBuffer))
    BY <2>1, FS_Union
  <2>5. /\ Cardinality(vanished \cup ToSet(beBuffer)) = Cardinality(vanished) + Cardinality(ToSet(beBuffer))
        /\ Cardinality(vanished) \in Nat
    BY <2>1, <2>3, DisjointUnion
  <2>6. /\ Cardinality((vanished \cup ToSet(beBuffer)) \cup beBatch[t])
             = Cardinality(vanished \cup ToSet(beBuffer)) + Cardinality(beBatch[t])
        /\ Cardinality(beBatch[t]) \in Nat
    BY <2>1, <2>3, <2>4, DisjointUnion
  <2> DEFINE w == Cardinality(vanished')  b == Cardinality(beBatch[t])  l == Len(beBuffer)  v == Cardinality(vanished)
             f == Cardinality(InFlight)  g == Cardinality(InFlight')  T == Cardinality(beTaken)
             i == docsIndexed  d == docsDropped
  <2>7. w = v + l + b /\ g = f - b
    BY <1>1, <1>3, <2>2, <2>5, <2>6
  <2>8. T = i + d + l + f + v
    BY DEF BeInv, CountersBalance
  <2>9. w \in Nat /\ b \in Nat /\ l \in Nat /\ v \in Nat /\ f \in Nat /\ i \in Nat /\ d \in Nat
    BY <2>1, <2>5, <2>6, <2>7
  <2> HIDE DEF w, b, l, v, f, g, T, i, d
  <2>a. \A ii, dd, ll, ff, vv, bb \in Nat : ii + dd + ll + ff + vv = ii + dd + 0 + (ff - bb) + (vv + ll + bb)
    OBVIOUS
  <2>10. T = i + d + 0 + g + w
    BY <2>7, <2>8, <2>9, <2>a
  <2> QED BY <1>1, <1>4, <2>10 DEF CountersBalance, w, b, l, v, f, g, T, i, d
<1>10. BePartial' /\ OnlyAPartialBatchVanishes'
  BY <1>0, <1>1, <1>2, <1>3, <1>4 DEF BePartial, OnlyAPartialBatchVanishes
<1>11. BestEffortPromise!GiveUp
  BY <1>1, <1>3, <1>4, <1>5 DEF BestEffortPromise!GiveUp, BestEffortPromise!Reach
<1> QED BY <1>6, <1>7, <1>8, <1>9, <1>10, <1>11 DEF BeInv, BeStep

\* start() and the end of close() touch no document.
LEMMA BeQuietStep ==
  ASSUME BeInv, beUp' \in {"up", "off", "closed"}, beUp' # "closed" => beUp = "down",
         UNCHANGED <<beBuffer, beAt, beBatch, index, docsIndexed, docsDropped, beTaken, vanished, dropped, badReplies, beFaults>>
  PROVE  BeInv' /\ BeStep
<1>1. InFlight' = InFlight
  BY DEF InFlight
<1>2. BeTypeOK' /\ BePlaces' /\ BeDistinct'
  BY <1>1 DEF BeInv, BeTypeOK, BePlaces, BeDistinct
<1>3. CountersBalance' /\ OnlyAPartialBatchVanishes'
  BY <1>1 DEF BeInv, CountersBalance, OnlyAPartialBatchVanishes
<1>4. BePartial'
  BY DEF BeInv, BePartial
<1>5. BeStep
  BY <1>1 DEF BeStep, BestEffortPromise!Land, BestEffortPromise!Reach
<1> QED BY <1>2, <1>3, <1>4, <1>5 DEF BeInv

LEMMA BeNextStep == ASSUME BeInv, BestEffortNext PROVE BeInv' /\ BeStep
<1>0. BeTimer \in BeTasks /\ BeCloser \in BeTasks
  BY DEF BeTasks
<1>1. CASE \E healthy \in BOOLEAN : BeStart(healthy)
  <2>1. /\ beUp = "down" /\ beUp' \in {"up", "off", "closed"}
        /\ UNCHANGED <<beBuffer, beAt, beBatch, index, docsIndexed, docsDropped, beTaken, vanished, dropped, badReplies, beFaults>>
    BY <1>1 DEF BeStart
  <2> QED BY <2>1, BeQuietStep
<1>2. CASE \E t \in BeWriters, d \in Docs : BeWrite(t, d)
  BY <1>2, BeWriteStep
<1>3. ASSUME NEW t \in BeTasks, Answer(t) \/ BadReply(t) PROVE BeInv' /\ BeStep
  <2>1. CASE Refused(t)
    BY <2>1, RefusedStep DEF Refused
  <2>2. CASE \E l \in BOOLEAN : Retry(t, l)
    BY <2>2, RetryStep
  <2>3. CASE \E rej \in SUBSET beBatch[t] : Sent(t, rej)
    BY <2>3, SentStep
  <2>4. CASE BadReply(t)
    BY <2>4, BadReplyStep
  <2> QED BY <1>3, <2>1, <2>2, <2>3, <2>4 DEF Answer
<1>4. CASE \E landed \in BOOLEAN : BeClose(landed)
  BY <1>4, BeCloseStep
<1>5. CASE BeTimerFires
  BY <1>0, <1>5, BeTakeStep DEF BeTimerFires
<1>6. CASE FlushNextBatch
  BY <1>0, <1>6, BeTakeStep DEF FlushNextBatch
<1>7. CASE BeClosed
  <2>1. /\ beUp' = "closed"
        /\ UNCHANGED <<beBuffer, beAt, beBatch, index, docsIndexed, docsDropped, beTaken, vanished, dropped, badReplies, beFaults>>
    BY <1>7 DEF BeClosed
  <2> QED BY <2>1, BeQuietStep
<1>8. CASE CloseCutShort
  BY <1>8, CloseCutShortStep
<1> QED BY <1>1, <1>2, <1>3, <1>4, <1>5, <1>6, <1>7, <1>8 DEF BestEffortNext

LEMMA BeInductive == BeInv /\ [BestEffortNext]_beVars => BeInv'
<1>1. CASE BestEffortNext
  BY <1>1, BeNextStep
<1>2. ASSUME BeInv, UNCHANGED beVars PROVE BeInv'
  <2>1. InFlight' = InFlight /\ UNCHANGED beVars
    BY <1>2 DEF InFlight, beVars
  <2> QED BY <1>2, <2>1 DEF beVars, BeInv, BeTypeOK, BePlaces, BeDistinct, CountersBalance, BePartial, OnlyAPartialBatchVanishes
<1> QED BY <1>1, <1>2

\* The OpenSearch and Splunk sinks implement BufferedDelivery: however their lock-free
\* writers, timer and close() interleave, a document write() accepted is buffered or in
\* some task's batch until the server has it or a counted fault gives it up.
THEOREM BestEffortRefines == BestEffortSpec => BestEffortDelivers
<1>1. BestEffortInit => BeInv /\ BestEffortPromise!Init
  BY BeInit
<1>2. BeInv /\ [BestEffortNext]_beVars => BeInv'
  BY BeInductive
<1>3. BeInv /\ [BestEffortNext]_beVars
        => [BestEffortPromise!Next]_<<ToSet(beBuffer) \cup InFlight, index, dropped \cup vanished, beFaults>>
  <2>1. ASSUME BeInv, BestEffortNext PROVE BestEffortPromise!Next
    BY <2>1, BeNextStep DEF BeStep, BestEffortPromise!Next
  <2>2. ASSUME UNCHANGED beVars PROVE UNCHANGED <<ToSet(beBuffer) \cup InFlight, index, dropped \cup vanished, beFaults>>
    BY <2>2 DEF beVars, InFlight
  <2> QED BY <2>1, <2>2
<1> QED BY <1>1, <1>2, <1>3, PTL DEF BestEffortSpec, BestEffortDelivers, BestEffortPromise!Spec

\* The safety half of BestEffortIsBounded: the sink's counters account for every document it
\* took, and unless a 2xx reply was not JSON all that goes uncounted is less than a batch.
THEOREM BestEffortCounts == BestEffortSpec => [](CountersBalance /\ OnlyAPartialBatchVanishes)
<1>1. BestEffortInit => BeInv
  BY BeInit
<1>2. BeInv => CountersBalance /\ OnlyAPartialBatchVanishes
  BY DEF BeInv
<1> QED BY <1>1, <1>2, BeInductive, PTL DEF BestEffortSpec
=============================================================================
