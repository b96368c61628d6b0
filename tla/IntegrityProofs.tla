-------------------------- MODULE IntegrityProofs --------------------------
(***************************************************************************)
(* Theorems about Integrity, for any events, batch size and buffer size    *)
(* and any number of crashes, torn lines, failing seals and restarts, and  *)
(* about Verification, for any history of ingestion, sealing and damage.   *)
(***************************************************************************)
EXTENDS Integrity, Verification, SequenceTheorems, FiniteSetTheorems, WellFoundedInduction, TLAPS

USE IntegrityAssumption

Roots == Seq(Events)

\* The part of the type invariant the ledger argument needs.
LedgerType ==
    /\ lfile \in Seq(Lines)
    /\ pending \in Roots /\ batch \in Roots
    /\ nextSeq \in Nat /\ prevRoot \in Seq(Roots)
    /\ tornTail \in BOOLEAN

\* While a process runs on a fully readable ledger whose last line is complete,
\* the tail it has cached is the tail on disk.
AllReadable == \A i \in 1..Len(lfile) : Readable(lfile[i])

TailCached ==
    /\ tornTail => Len(lfile) > 0
    /\ phase # "down" /\ AllReadable /\ ~tornTail =>
         /\ nextSeq = Len(lfile)
         /\ prevRoot = IF lfile = <<>> THEN <<>> ELSE lfile[Len(lfile)].chained
    /\ pc # "idle" => phase # "down"

LInv == LedgerType /\ TailCached /\ ChainIntact

-----------------------------------------------------------------------------
LEMMA BadUnreadable == Bad \in Lines /\ ~Readable(Bad)
  BY EmptySeq DEF Bad, Lines, Readable

LEMMA EntryType ==
    ASSUME LedgerType
    PROVE  /\ Entry(batch) \in Lines /\ Readable(Entry(batch))
           /\ chain_roots(prevRoot, batch) \in Seq(Roots)
  <1>1. chain_roots(prevRoot, batch) \in Seq(Roots)
    BY AppendProperties DEF chain_roots, LedgerType
  <1> QED BY <1>1 DEF LedgerType, Entry, Lines, Readable, Roots

\* What writing a line does to the file: a torn last line becomes unreadable,
\* else the file grows by that line.
LEMMA AppendLineFacts ==
    ASSUME LedgerType, TailCached, NEW l \in Lines, lfile' = AppendLine(l)
    PROVE  /\ lfile' \in Seq(Lines)
           /\ tornTail => /\ Len(lfile') = Len(lfile) /\ Len(lfile) > 0
                          /\ \A i \in 1..(Len(lfile) - 1) : lfile'[i] = lfile[i]
                          /\ lfile'[Len(lfile)] = Bad
           /\ ~tornTail => /\ Len(lfile') = Len(lfile) + 1
                           /\ \A i \in 1..Len(lfile) : lfile'[i] = lfile[i]
                           /\ lfile'[Len(lfile) + 1] = l
  <1>0. Len(lfile) \in Nat
    BY LenProperties DEF LedgerType
  <1>1. Len(lfile) \in Nat /\ DOMAIN lfile = 1..Len(lfile) /\ lfile \in Seq(Lines)
    BY LenProperties DEF LedgerType
  <1>2. CASE tornTail
    <2>1. Len(lfile) > 0 /\ Len(lfile) \in 1..Len(lfile)
      BY <1>1, <1>2 DEF TailCached
    <2>2. lfile' = [lfile EXCEPT ![Len(lfile)] = Bad]
      BY <1>2 DEF AppendLine
    <2>3. lfile' \in Seq(Lines) /\ Len(lfile') = Len(lfile)
      BY <1>1, <2>1, <2>2, BadUnreadable, ExceptSeq
    <2>4. \A j \in 1..Len(lfile) : lfile'[j] = IF j = Len(lfile) THEN Bad ELSE lfile[j]
      BY <1>1, <2>1, <2>2, BadUnreadable, ExceptSeq
    <2>5. ASSUME NEW i \in 1..(Len(lfile) - 1) PROVE lfile'[i] = lfile[i]
      <3>1. i \in 1..Len(lfile) /\ i # Len(lfile)
        BY <1>0
      <3> QED BY <2>4, <3>1
    <2>6. lfile'[Len(lfile)] = Bad
      BY <2>1, <2>4
    <2> QED BY <1>2, <2>1, <2>3, <2>5, <2>6
  <1>3. CASE ~tornTail
    <2>1. lfile' = Append(lfile, l)
      BY <1>3 DEF AppendLine
    <2>2. lfile' \in Seq(Lines) /\ Len(lfile') = Len(lfile) + 1
      BY <1>1, <2>1, AppendProperties
    <2>3. /\ \A i \in 1..Len(lfile) : lfile'[i] = lfile[i]
          /\ lfile'[Len(lfile) + 1] = l
      BY <1>1, <2>1, AppendProperties
    <2> QED BY <1>3, <2>2, <2>3
  <1> QED BY <1>2, <1>3

LEMMA LInvInit == Init => LInv
  <1> SUFFICES ASSUME Init PROVE LInv
    OBVIOUS
  <1>1. LedgerType
    BY EmptySeq DEF Init, LedgerType, Roots
  <1>2. TailCached
    BY DEF Init, TailCached
  <1>3. ChainIntact
    BY EmptySeq DEF Init, ChainIntact
  <1> QED BY <1>1, <1>2, <1>3 DEF LInv

\* A step that leaves the file and the cached tail alone.
LEMMA SameLedger ==
    ASSUME LInv, UNCHANGED <<lfile, tornTail, nextSeq, prevRoot>>,
           pending' \in Roots, batch' \in Roots,
           phase' # "down" => phase # "down",
           pc' # "idle" => phase' # "down"
    PROVE  LInv'
  <1>1. LedgerType'
    BY DEF LInv, LedgerType
  <1>2. TailCached'
    BY DEF LInv, TailCached, AllReadable, Readable
  <1>3. ChainIntact'
    BY DEF LInv, ChainIntact, LineSound, Readable, chain_roots
  <1> QED BY <1>1, <1>2, <1>3 DEF LInv

\* A write of the batch's line, whole or cut short, continues the chain.
LEMMA WriteKeepsChain ==
    ASSUME LInv, phase # "down", NEW l \in {Bad, Entry(batch)}, lfile' = AppendLine(l)
    PROVE  lfile' \in Seq(Lines) /\ Len(lfile') > 0 /\ ChainIntact'
  <1>0. Len(lfile) \in Nat /\ LedgerType /\ (lfile = <<>> <=> Len(lfile) = 0)
    BY LenProperties, EmptySeq DEF LInv, LedgerType
  <1>l. l \in Lines
    BY <1>0, EntryType, BadUnreadable
  <1>1. /\ lfile' \in Seq(Lines)
        /\ tornTail => /\ Len(lfile') = Len(lfile) /\ Len(lfile) > 0
                       /\ \A i \in 1..(Len(lfile) - 1) : lfile'[i] = lfile[i]
                       /\ lfile'[Len(lfile)] = Bad
        /\ ~tornTail => /\ Len(lfile') = Len(lfile) + 1
                        /\ \A i \in 1..Len(lfile) : lfile'[i] = lfile[i]
                        /\ lfile'[Len(lfile) + 1] = l
    BY <1>l, AppendLineFacts DEF LInv
  <1>2. Len(lfile') > 0 /\ Len(lfile') \in Nat
    BY <1>0, <1>1
  <1>3. \A i \in 1..(Len(lfile') - 1) : i \in 1..Len(lfile) /\ lfile'[i] = lfile[i]
    BY <1>0, <1>1
  <1>4. ASSUME NEW i \in 1..Len(lfile'), \A j \in 1..i : Readable(lfile'[j])
        PROVE  LineSound(lfile', i)
    <2>1. CASE i # Len(lfile')
      <3>1. i \in 1..Len(lfile) /\ \A j \in 1..i : lfile'[j] = lfile[j]
        BY <1>2, <1>3, <2>1
      <3>2. LineSound(lfile, i)
        BY <1>4, <3>1 DEF LInv, ChainIntact
      <3>3. lfile'[i] = lfile[i] /\ (i # 1 => lfile'[i - 1] = lfile[i - 1])
        BY <1>0, <3>1
      <3>4. CASE i = 1
        BY <3>2, <3>3, <3>4 DEF LineSound
      <3>5. CASE i # 1
        BY <3>2, <3>3, <3>5 DEF LineSound
      <3> QED BY <3>4, <3>5
    <2>2. CASE i = Len(lfile')
      <3>1. Readable(lfile'[i])
        BY <1>2, <1>4, <2>2
      <3>2. ~tornTail /\ l = Entry(batch)
        BY <1>1, <2>2, <3>1, BadUnreadable
      <3>3. AllReadable
        BY <1>0, <1>1, <1>4, <2>2, <3>2 DEF AllReadable
      <3>4. nextSeq = i - 1 /\ prevRoot = IF lfile = <<>> THEN <<>> ELSE lfile[Len(lfile)].chained
        BY <1>0, <1>1, <2>2, <3>2, <3>3 DEF LInv, TailCached
      <3>5. lfile'[i] = Entry(batch) /\ (i # 1 => lfile'[i - 1] = lfile[Len(lfile)])
        BY <1>0, <1>1, <2>2, <3>2
      <3>6. prevRoot = IF i = 1 THEN <<>> ELSE lfile'[i - 1].chained
        BY <1>0, <1>1, <2>2, <3>2, <3>4, <3>5
      <3>7. LET m == lfile'[i] IN
              /\ m.seq = nextSeq /\ m.prev = prevRoot /\ m.root = batch
              /\ m.chained = chain_roots(prevRoot, batch)
        BY <3>5 DEF Entry
      <3> HIDE DEF Entry
      <3> QED BY <3>1, <3>4, <3>6, <3>7 DEF LineSound
    <2> QED BY <2>1, <2>2
  <1> QED BY <1>1, <1>2, <1>4 DEF ChainIntact

\* A write cut short.
LEMMA TornStep ==
    ASSUME LInv, phase # "down", TornWrite, UNCHANGED <<nextSeq, prevRoot>>,
           pending' \in Roots, batch' \in Roots, pc' = "idle"
    PROVE  LInv'
  <1>1. lfile' \in Seq(Lines) /\ Len(lfile') > 0 /\ ChainIntact' /\ tornTail' = TRUE
    BY WriteKeepsChain DEF TornWrite
  <1>2. LedgerType'
    BY <1>1 DEF LInv, LedgerType
  <1>3. TailCached'
    BY <1>1 DEF TailCached
  <1> QED BY <1>1, <1>2, <1>3 DEF LInv

\* A complete write: the cached tail moves on with it.
LEMMA AppendStep ==
    ASSUME LInv, SealAppend
    PROVE  LInv'
  <1>0. Len(lfile) \in Nat /\ LedgerType /\ phase # "down" /\ phase' = phase
    BY LenProperties DEF LInv, LedgerType, TailCached, SealAppend
  <1>1. lfile' = AppendLine(Entry(batch)) /\ Entry(batch) \in Lines
    BY <1>0, EntryType DEF SealAppend
  <1>2. lfile' \in Seq(Lines) /\ ChainIntact'
    BY <1>0, <1>1, WriteKeepsChain
  <1>3. /\ tornTail => /\ Len(lfile') = Len(lfile) /\ Len(lfile) > 0
                       /\ lfile'[Len(lfile)] = Bad
        /\ ~tornTail => /\ Len(lfile') = Len(lfile) + 1
                        /\ \A i \in 1..Len(lfile) : lfile'[i] = lfile[i]
                        /\ lfile'[Len(lfile) + 1] = Entry(batch)
    BY <1>1, AppendLineFacts DEF LInv
  <1>4. LedgerType'
    <2>1. nextSeq' \in Nat /\ prevRoot' \in Seq(Roots)
      BY <1>0, EntryType DEF SealAppend, LedgerType
    <2>2. pending' = pending /\ batch' = batch /\ tornTail' = FALSE
      BY DEF SealAppend
    <2> QED BY <1>0, <1>2, <2>1, <2>2 DEF LedgerType
  <1>5. AllReadable' => AllReadable /\ ~tornTail
    <2>1. CASE tornTail
      <3>1. Len(lfile') \in 1..Len(lfile') /\ lfile'[Len(lfile')] = Bad
        BY <1>0, <1>3, <2>1
      <3> QED BY <3>1, BadUnreadable DEF AllReadable
    <2>2. CASE ~tornTail
      BY <1>0, <1>3, <2>2 DEF AllReadable
    <2> QED BY <2>1, <2>2
  <1>6. TailCached'
    <2>1. AllReadable' => nextSeq' = Len(lfile')
      BY <1>0, <1>3, <1>5 DEF LInv, TailCached, SealAppend
    <2>2. ASSUME AllReadable'
          PROVE  lfile' # <<>> /\ prevRoot' = lfile'[Len(lfile')].chained
      <3>1. Len(lfile') = Len(lfile) + 1 /\ lfile'[Len(lfile')] = Entry(batch)
        BY <1>0, <1>3, <1>5, <2>2
      <3>2. lfile' # <<>>
        BY <1>0, <3>1, EmptySeq
      <3>3. Entry(batch).chained = chain_roots(prevRoot, batch)
        BY DEF Entry
      <3> QED BY <3>1, <3>2, <3>3 DEF SealAppend
    <2>3. tornTail' = FALSE
      BY DEF SealAppend
    <2> QED BY <1>0, <2>1, <2>2, <2>3 DEF TailCached
  <1> QED BY <1>2, <1>4, <1>6 DEF LInv

LEMMA StartStep ==
    ASSUME LInv, Start
    PROVE  LInv'
  <1>0. Len(lfile) \in Nat /\ (lfile = <<>> <=> Len(lfile) = 0) /\ LedgerType
    BY LenProperties, EmptySeq DEF LInv, LedgerType
  <1>1. PICK n \in 0..Len(lfile) :
           /\ GoodPrefix(n)
           /\ nextSeq'  = IF n = 0 THEN 0 ELSE lfile[n].seq + 1
           /\ prevRoot' = IF n = 0 THEN <<>> ELSE lfile[n].chained
    BY DEF Start
  <1>2. UNCHANGED <<lfile, tornTail>> /\ batch' = batch /\ pc' = pc /\ phase' = "up" /\ pending' = <<>>
    BY DEF Start, disk, sealing
  <1>3. n # 0 => lfile[n] \in Lines
    BY <1>0, ElementOfSeq DEF LedgerType
  <1>4. LedgerType'
    <2>1. nextSeq' \in Nat
      BY <1>1, <1>3 DEF Lines
    <2>2. prevRoot' \in Seq(Roots)
      BY <1>1, <1>3, EmptySeq DEF Lines, Roots
    <2> QED BY <1>0, <1>2, <2>1, <2>2, EmptySeq DEF LedgerType, Roots
  <1>5. TailCached'
    <2>1. ASSUME AllReadable
          PROVE  nextSeq' = Len(lfile) /\ prevRoot' = IF lfile = <<>> THEN <<>> ELSE lfile[Len(lfile)].chained
      <3>1. n = Len(lfile)
        BY <1>0, <1>1, <2>1 DEF AllReadable, GoodPrefix
      <3>2. CASE n = 0
        BY <1>0, <1>1, <3>1, <3>2
      <3>3. CASE n # 0
        <4>1. LineSound(lfile, n)
          BY <1>0, <2>1, <3>1, <3>3 DEF LInv, ChainIntact, AllReadable
        <4> QED BY <1>0, <1>1, <3>1, <3>3, <4>1 DEF LineSound
      <3> QED BY <3>2, <3>3
    <2> QED BY <1>2, <2>1 DEF LInv, TailCached, AllReadable, Readable
  <1>6. ChainIntact'
    BY <1>2 DEF LInv, ChainIntact, LineSound, Readable, chain_roots
  <1> QED BY <1>4, <1>5, <1>6 DEF LInv

LEMMA LInvStep == LInv /\ [Next]_vars => LInv'
  <1> SUFFICES ASSUME LInv, [Next]_vars PROVE LInv'
    OBVIOUS
  <1> USE DEF disk, sealing, tail, history, counters
  <1>0. pending \in Roots /\ batch \in Roots /\ <<>> \in Roots /\ (pc # "idle" => phase # "down")
    BY EmptySeq DEF LInv, LedgerType, TailCached, Roots
  <1>1. CASE Start
    BY <1>1, StartStep
  <1>2. ASSUME NEW e \in Events, Process(e) PROVE LInv'
    <2>1. Append(pending, e) \in Roots
      BY <1>0, AppendProperties DEF Roots
    <2>2. pending' \in Roots /\ batch' \in Roots
      BY <1>0, <1>2, <2>1 DEF Process, Accumulate
    <2> QED BY <1>2, <2>2, SameLedger DEF Process
  <1>3. ASSUME NEW e \in Events, ProcessRawFails(e) PROVE LInv'
    BY <1>0, <1>3, SameLedger DEF ProcessRawFails
  <1>4. CASE WatchTimeout
    BY <1>0, <1>4, SameLedger DEF WatchTimeout
  <1>5. CASE SealAppend
    BY <1>5, AppendStep
  <1>6. CASE SealIndex
    BY <1>0, <1>6, SameLedger DEF SealIndex, AfterSeal
  <1>7. CASE SealRaises
    <2>1. CASE UNCHANGED <<lfile, tornTail, tears>>
      BY <1>0, <1>7, <2>1, SameLedger DEF SealRaises
    <2>2. CASE TornWrite
      BY <1>0, <1>7, <2>2, TornStep DEF SealRaises
    <2> QED BY <1>7, <2>1, <2>2 DEF SealRaises
  <1>8. CASE Shutdown
    <2>1. pending' \in Roots /\ batch' \in Roots
      BY <1>0, <1>8 DEF Shutdown
    <2> QED BY <1>8, <2>1, SameLedger DEF Shutdown
  <1>9. CASE ShutdownDeadWatcher
    BY <1>0, <1>9, SameLedger DEF ShutdownDeadWatcher
  <1>10. CASE ShutdownRawFails
    BY <1>0, <1>10, SameLedger DEF ShutdownRawFails
  <1>11. CASE Crash
    BY <1>0, <1>11, SameLedger DEF Crash
  <1>12. CASE CrashTorn
    BY <1>0, <1>12, TornStep DEF CrashTorn
  <1>13. CASE UNCHANGED vars
    BY <1>0, <1>13, SameLedger DEF vars
  <1> QED BY <1>1, <1>2, <1>3, <1>4, <1>5, <1>6, <1>7, <1>8, <1>9, <1>10, <1>11, <1>12, <1>13
          DEF Next

LEMMA LInvHolds == Spec => []LInv
  BY LInvInit, LInvStep, PTL DEF Spec

-----------------------------------------------------------------------------
(* The results.                                                            *)

\* Through every crash, torn line, failed seal and restart, the ledger entries
\* before the first unreadable line verify: numbered, linked and hashed.
THEOREM ChainAlwaysIntact == Spec => []ChainIntact
  <1>1. LInv => ChainIntact
    BY DEF LInv
  <1> QED BY <1>1, LInvHolds, PTL

\* No step of the program removes a ledger line, or changes a complete, readable one.
THEOREM LedgerOnlyGrows == Spec => LedgerAppendOnly
  <1> DEFINE Grows == \A i \in 1..Len(lfile) :
                        i <= Len(lfile') /\ (Complete(i) => lfile'[i] = lfile[i])
  <1>1. LInv /\ [Next]_vars => [Grows]_vars
    <2> SUFFICES ASSUME LInv, Next PROVE Grows
      OBVIOUS
    <2>0. Len(lfile) \in Nat
      BY LenProperties DEF LInv, LedgerType
    <2>1. CASE UNCHANGED lfile
      BY <2>0, <2>1
    <2>2. ASSUME NEW l \in Lines, lfile' = AppendLine(l) PROVE Grows
      <3>1. /\ tornTail => /\ Len(lfile') = Len(lfile)
                           /\ \A i \in 1..(Len(lfile) - 1) : lfile'[i] = lfile[i]
            /\ ~tornTail => /\ Len(lfile') = Len(lfile) + 1
                            /\ \A i \in 1..Len(lfile) : lfile'[i] = lfile[i]
        BY <2>2, AppendLineFacts DEF LInv
      <3> QED BY <2>0, <3>1 DEF Complete
    <2>3. Entry(batch) \in Lines /\ Bad \in Lines
      BY EntryType, BadUnreadable DEF LInv
    <2>4. CASE SealAppend
      BY <2>2, <2>3, <2>4 DEF SealAppend
    <2>5. CASE SealRaises
      BY <2>1, <2>2, <2>3, <2>5 DEF SealRaises, TornWrite
    <2>6. CASE CrashTorn
      BY <2>2, <2>3, <2>6 DEF CrashTorn, TornWrite
    <2> QED
      BY <2>1, <2>4, <2>5, <2>6 DEF Next, Start, Process, ProcessRawFails, WatchTimeout,
         SealIndex, Shutdown, ShutdownDeadWatcher, ShutdownRawFails, Crash, disk
  <1> QED BY <1>1, LInvHolds, PTL DEF Spec, LedgerAppendOnly
-----------------------------------------------------------------------------
(* The seal: no leaf is sealed twice, the index gives back every batch as  *)
(* it was sealed, and a graceful shutdown leaves every hashed event stored,*)
(* sealed, indexed and provable.                                           *)


(***************************************************************************)
(* Sequences and their elements.                                           *)
(***************************************************************************)
LEMMA RangeMember ==
  ASSUME NEW T, NEW s \in Seq(T)
  PROVE  /\ \A x : x \in Range(s) <=> \E i \in 1..Len(s) : s[i] = x
         /\ Range(s) \in SUBSET T /\ DOMAIN s = 1..Len(s) /\ Len(s) \in Nat
BY DEF Range

LEMMA RangeEmpty == Range(<<>>) = {} /\ <<>> \in Seq(Events) /\ DOMAIN <<>> = {} /\ Len(<<>>) = 0
BY DEF Range

LEMMA RangeAppend ==
  ASSUME NEW T, NEW s \in Seq(T), NEW x \in T
  PROVE  /\ Append(s, x) \in Seq(T) /\ Range(Append(s, x)) = Range(s) \cup {x}
         /\ Len(Append(s, x)) = Len(s) + 1 /\ Append(s, x)[Len(s) + 1] = x
         /\ \A i \in 1..Len(s) : Append(s, x)[i] = s[i]
<1> DEFINE a == Append(s, x)
<1>1. /\ a \in Seq(T) /\ Len(a) = Len(s) + 1 /\ Len(s) \in Nat
      /\ a[Len(s) + 1] = x /\ \A i \in 1..Len(s) : a[i] = s[i]
  BY DEF a
<1> HIDE DEF a
<1>2. \A y : y \in Range(a) <=> \E i \in 1..Len(a) : a[i] = y
  BY <1>1, RangeMember
<1>3. \A y : y \in Range(s) <=> \E i \in 1..Len(s) : s[i] = y
  BY RangeMember
<1>4. 1..Len(a) = 1..Len(s) \cup {Len(s) + 1}
  BY <1>1
<1>5. Range(a) = Range(s) \cup {x}
  <2>1. ASSUME NEW y \in Range(a) PROVE y \in Range(s) \cup {x}
    BY <1>1, <1>2, <1>3, <1>4
  <2>2. ASSUME NEW y \in Range(s) PROVE y \in Range(a)
    BY <1>1, <1>2, <1>3, <1>4
  <2>3. x \in Range(a)
    BY <1>1, <1>2, <1>4
  <2> QED BY <2>1, <2>2, <2>3
<1> QED BY <1>1, <1>5 DEF a

LEMMA RangePrefix ==
  ASSUME NEW T, NEW s \in Seq(T), NEW n \in 0..Len(s)
  PROVE  Range(SubSeq(s, 1, n)) \in SUBSET T
<1>1. SubSeq(s, 1, n) \in Seq(T)
  OBVIOUS
<1> QED BY <1>1, RangeMember

(***************************************************************************)
(* Types, and where a batch is.                                            *)
(***************************************************************************)

\* A batch leaves pending for the whole of its seal; while a process runs its end
\* is open, and it is closing as long as flush() seals.
Batching ==
    /\ pc = "idle" => batch = <<>>
    /\ pc # "idle" => pending = <<>> /\ phase # "down"
    /\ pc = "index" => nextSeq > 0
    /\ phase # "down" => outcome = "none"
    /\ phase = "closing" <=> pc # "idle" /\ trigger = "shutdown"

TInv == TypeOK /\ LInv /\ Batching

LEMMA TInvInit == Init => TInv
<1> SUFFICES ASSUME Init PROVE TInv
  OBVIOUS
<1>1. LInv
  BY LInvInit
<1>2. TypeOK
  BY <1>1, EmptySeq DEF Init, TypeOK, LInv, LedgerType, Roots
<1>3. Batching
  BY DEF Init, Batching
<1> QED BY <1>1, <1>2, <1>3 DEF TInv

\* The rows of a batch are rows.
LEMMA RowsType ==
  ASSUME NEW s \in Nat, NEW leaves \in Seq(Events)
  PROVE  Rows(s, leaves) \in SUBSET [uid : Events, seq : Nat, leaf : Nat]
<1>1. DOMAIN leaves = 1..Len(leaves) /\ \A i \in 1..Len(leaves) : leaves[i] \in Events /\ i - 1 \in Nat
  OBVIOUS
<1> QED BY <1>1 DEF Rows

\* A counter below its bound may be increased.
LEMMA CountUp ==
  ASSUME NEW m \in Nat, NEW n \in 0..m, n < m
  PROVE  n + 1 \in 0..m
OBVIOUS

LEMMA RawType ==
  ASSUME TypeOK, NEW buf \in Seq(Events), RawFlushFails(buf)
  PROVE  bronze' \subseteq Events /\ rawbuf' \in Seq(Events) /\ rawFailures' \in 0..MaxRawFailures
<1>1. PICK n \in 0..Len(buf) : bronze' = bronze \cup Range(SubSeq(buf, 1, n))
  BY DEF RawFlushFails
<1>2. Range(SubSeq(buf, 1, n)) \in SUBSET Events
  BY RangePrefix
<1>3. bronze \subseteq Events /\ rawbuf' = buf
  BY DEF TypeOK, RawFlushFails
<1>4. /\ MaxRawFailures \in Nat /\ rawFailures \in 0..MaxRawFailures /\ rawFailures < MaxRawFailures
      /\ rawFailures' = rawFailures + 1
  BY IntegrityAssumption DEF TypeOK, RawFlushFails
<1>5. rawFailures' \in 0..MaxRawFailures
  BY <1>4, CountUp
<1> QED BY <1>1, <1>2, <1>3, <1>5

LEMMA TypeStep == ASSUME TInv, LInv', Next PROVE TypeOK'
<1> USE DEF disk, sealing, tail, history, counters
<1>0. /\ TypeOK /\ rawbuf \in Seq(Events) /\ pending \in Seq(Events) /\ batch \in Seq(Events) /\ <<>> \in Seq(Events)
      /\ Range(rawbuf) \in SUBSET Events
  BY EmptySeq, RangeMember DEF TInv, TypeOK
<1>l. /\ lfile' \in Seq(Lines) /\ tornTail' \in BOOLEAN /\ pending' \in Seq(Events) /\ batch' \in Seq(Events)
      /\ nextSeq' \in Nat /\ prevRoot' \in Seq(Seq(Events))
  BY DEF LInv, LedgerType, Roots
<1>1. CASE Start
  <2>1. starts' \in 0..MaxStarts
    BY <1>0, <1>1, IntegrityAssumption DEF Start, TypeOK
  <2> QED BY <1>0, <1>l, <1>1, <2>1 DEF Start, TypeOK
<1>d. ASSUME NEW e \in Events, deliveries[e] < MaxDeliveries[e], deliveries' = [deliveries EXCEPT ![e] = @ + 1]
      PROVE  deliveries' \in [Events -> Nat] /\ \A f \in Events : deliveries'[f] <= MaxDeliveries[f]
  <2>1. deliveries \in [Events -> Nat] /\ MaxDeliveries \in [Events -> Nat] /\ deliveries[e] \in Nat /\ MaxDeliveries[e] \in Nat
    BY <1>0, IntegrityAssumption DEF TypeOK
  <2>2. \A f \in Events : deliveries'[f] = IF f = e THEN deliveries[e] + 1 ELSE deliveries[f]
    BY <1>d, <2>1
  <2>3. deliveries' \in [Events -> Nat]
    BY <1>d, <2>1
  <2>4. \A f \in Events : deliveries[f] <= MaxDeliveries[f]
    BY <1>0 DEF TypeOK
  <2> QED BY <1>d, <2>1, <2>2, <2>3, <2>4
<1>2. ASSUME NEW e \in Events, Process(e) PROVE TypeOK'
  <2>1. deliveries' \in [Events -> Nat] /\ \A f \in Events : deliveries'[f] <= MaxDeliveries[f]
    BY <1>2, <1>d DEF Process
  <2>2. Append(rawbuf, e) \in Seq(Events) /\ Range(Append(rawbuf, e)) \in SUBSET Events
    BY <1>0, RangeAppend
  <2>3. rawbuf' \in Seq(Events) /\ bronze' \subseteq Events
    BY <1>0, <1>2, <2>2 DEF Process, RawWrite, TypeOK
  <2>4. /\ watcher' \in {"none", "on", "dead"} /\ hashed' \subseteq Events
        /\ pc' \in {"idle", "append", "index"} /\ trigger' \in {"size", "timeout", "shutdown"}
    BY <1>0, <1>2 DEF Process, Accumulate, TypeOK
  <2> QED BY <1>0, <1>l, <1>2, <2>1, <2>3, <2>4 DEF Process, TypeOK
<1>3. ASSUME NEW e \in Events, ProcessRawFails(e) PROVE TypeOK'
  <2>1. deliveries' \in [Events -> Nat] /\ \A f \in Events : deliveries'[f] <= MaxDeliveries[f]
    BY <1>3, <1>d DEF ProcessRawFails
  <2>2. Append(rawbuf, e) \in Seq(Events)
    BY <1>0, RangeAppend
  <2>3. rawbuf' \in Seq(Events) /\ bronze' \subseteq Events /\ rawFailures' \in 0..MaxRawFailures
    BY <1>0, <1>3, <2>2, RawType DEF ProcessRawFails
  <2> QED BY <1>0, <1>l, <1>3, <2>1, <2>3 DEF ProcessRawFails, TypeOK
<1>4. CASE WatchTimeout
  BY <1>0, <1>l, <1>4 DEF WatchTimeout, TypeOK
<1>5. CASE SealAppend
  BY <1>0, <1>l, <1>5 DEF SealAppend, TypeOK
<1>6. CASE SealIndex
  <2>1. nextSeq - 1 \in Nat
    BY <1>6 DEF TInv, TypeOK, Batching, SealIndex
  <2>2. index' \subseteq [uid : Events, seq : Nat, leaf : Nat]
    BY <1>0, <1>6, <2>1, RowsType DEF SealIndex, TypeOK
  <2> QED BY <1>0, <1>l, <1>6, <2>2 DEF SealIndex, AfterSeal, TypeOK
<1>7. CASE SealRaises
  <2>1. sealFailures' \in 0..MaxSealFailures /\ tears' \in 0..MaxTears
    <3>1. /\ MaxSealFailures \in Nat /\ sealFailures \in 0..MaxSealFailures
          /\ MaxTears \in Nat /\ tears \in 0..MaxTears
      BY <1>0, IntegrityAssumption DEF TypeOK
    <3>2. /\ sealFailures < MaxSealFailures /\ sealFailures' = sealFailures + 1
          /\ tears' = tears \/ (tears < MaxTears /\ tears' = tears + 1)
      BY <1>7 DEF SealRaises
    <3> QED BY <3>1, <3>2, CountUp
  <2>2. phase' \in {"down", "up", "closing"} /\ outcome' \in {"none", "clean", "unclean"} /\ watcher' \in {"none", "on", "dead"}
    BY <1>0, <1>7 DEF SealRaises, TypeOK
  <2> QED BY <1>0, <1>l, <1>7, <2>1, <2>2 DEF SealRaises, TypeOK
<1>8. CASE Shutdown
  <2>1. /\ phase' \in {"down", "up", "closing"} /\ outcome' \in {"none", "clean", "unclean"}
        /\ pc' \in {"idle", "append", "index"} /\ trigger' \in {"size", "timeout", "shutdown"}
    BY <1>0, <1>8 DEF Shutdown, TypeOK
  <2> QED BY <1>0, <1>l, <1>8, <2>1 DEF Shutdown, TypeOK
<1>9. CASE ShutdownDeadWatcher
  BY <1>0, <1>l, <1>9 DEF ShutdownDeadWatcher, TypeOK
<1>10. CASE ShutdownRawFails
  <2>1. rawbuf' \in Seq(Events) /\ bronze' \subseteq Events /\ rawFailures' \in 0..MaxRawFailures
    BY <1>0, <1>10, RawType DEF ShutdownRawFails
  <2> QED BY <1>0, <1>l, <1>10, <2>1 DEF ShutdownRawFails, TypeOK
<1>11. CASE Crash
  <2>1. crashes' \in 0..MaxCrashes
    BY <1>0, <1>11, IntegrityAssumption DEF Crash, TypeOK
  <2>2. /\ phase' \in {"down", "up", "closing"} /\ outcome' \in {"none", "clean", "unclean"}
        /\ pc' \in {"idle", "append", "index"} /\ watcher' \in {"none", "on", "dead"}
    BY <1>0, <1>11 DEF Crash, TypeOK
  <2> QED BY <1>0, <1>l, <1>11, <2>1, <2>2 DEF Crash, TypeOK
<1>12. CASE CrashTorn
  <2>1. crashes' \in 0..MaxCrashes /\ tears' \in 0..MaxTears
    <3>1. MaxCrashes \in Nat /\ crashes \in 0..MaxCrashes /\ MaxTears \in Nat /\ tears \in 0..MaxTears
      BY <1>0, IntegrityAssumption DEF TypeOK
    <3>2. /\ crashes < MaxCrashes /\ crashes' = crashes + 1
          /\ tears < MaxTears /\ tears' = tears + 1
      BY <1>12 DEF CrashTorn
    <3> QED BY <3>1, <3>2, CountUp
  <2> QED BY <1>0, <1>l, <1>12, <2>1 DEF CrashTorn, TypeOK
<1> QED BY <1>1, <1>2, <1>3, <1>4, <1>5, <1>6, <1>7, <1>8, <1>9, <1>10, <1>11, <1>12 DEF Next

LEMMA BatchingStep == ASSUME TInv, Next PROVE Batching'
<1> USE DEF disk, sealing, tail, history, counters, TInv
<1>1. CASE Start
  BY <1>1 DEF Start, Batching
<1>2. ASSUME NEW e \in Events, Process(e) PROVE Batching'
  BY <1>2 DEF Process, Accumulate, Batching
<1>3. ASSUME NEW e \in Events, ProcessRawFails(e) PROVE Batching'
  BY <1>3 DEF ProcessRawFails, Batching
<1>4. CASE WatchTimeout
  BY <1>4 DEF WatchTimeout, Batching
<1>5. CASE SealAppend
  <2>1. nextSeq' > 0
    BY <1>5 DEF SealAppend, TypeOK
  <2> QED BY <1>5, <2>1 DEF SealAppend, Batching
<1>6. CASE SealIndex
  BY <1>6 DEF SealIndex, AfterSeal, Batching, TypeOK
<1>7. CASE SealRaises
  BY <1>7 DEF SealRaises, Batching, TypeOK
<1>8. CASE Shutdown
  BY <1>8 DEF Shutdown, Batching
<1>9. CASE ShutdownDeadWatcher \/ ShutdownRawFails
  BY <1>9 DEF ShutdownDeadWatcher, ShutdownRawFails, Batching
<1>10. CASE Crash \/ CrashTorn
  BY <1>10 DEF Crash, CrashTorn, Batching
<1> QED BY <1>1, <1>2, <1>3, <1>4, <1>5, <1>6, <1>7, <1>8, <1>9, <1>10 DEF Next

LEMMA TInvStep == TInv /\ [Next]_vars => TInv'
<1> SUFFICES ASSUME TInv, [Next]_vars PROVE TInv'
  OBVIOUS
<1>1. LInv'
  BY LInvStep DEF TInv
<1>2. CASE Next
  BY <1>1, <1>2, TypeStep, BatchingStep DEF TInv
<1>3. CASE UNCHANGED vars
  BY <1>1, <1>3 DEF TInv, TypeOK, Batching, vars, disk, sealing, tail, history, counters
<1> QED BY <1>2, <1>3

\* The variables of the evidence path keep their types: buffers and batches hold events, the
\* ledger holds lines, the index rows, and no event arrives more often than it may.
THEOREM TypeCorrect == Spec => []TypeOK
<1>1. TInv => TypeOK
  BY DEF TInv
<1> QED BY <1>1, TInvInit, TInvStep, PTL DEF Spec

-----------------------------------------------------------------------------
(***************************************************************************)
(* Where the hash of an event may be: in pending, in the batch being       *)
(* sealed, or a leaf of the ledger.  An event that has not arrived is in   *)
(* none of them, one that arrived once in at most one place.               *)
(***************************************************************************)
Sealed(e) == \E i \in 1..Len(lfile) : e \in Range(lfile[i].root)

Fresh ==
    \A e \in Events : deliveries[e] = 0 =>
        e \notin Range(pending) /\ e \notin Range(batch) /\ ~Sealed(e)

Uniq(e, s) == \A k, l \in DOMAIN s : s[k] = e /\ s[l] = e => k = l

OnePlace(e) ==
    /\ \A i, j \in 1..Len(lfile) : \A k \in DOMAIN lfile[i].root, l \in DOMAIN lfile[j].root :
         lfile[i].root[k] = e /\ lfile[j].root[l] = e => i = j /\ k = l
    /\ Uniq(e, pending) /\ Uniq(e, batch)
    /\ e \in Range(pending) => ~Sealed(e)
    /\ pc = "append" /\ e \in Range(batch) => ~Sealed(e)

Single == \A e \in Events : deliveries[e] <= 1 => OnePlace(e)

Places == TInv /\ Fresh /\ Single

\* The leaves in the file after a line was written, whole or cut short: those that were
\* there, and the batch's in at most one new entry.
LEMMA WriteRoots ==
  ASSUME TInv, NEW l \in {Bad, Entry(batch)}, lfile' = AppendLine(l)
  PROVE  \A i \in 1..Len(lfile') : \/ i \in 1..Len(lfile) /\ lfile'[i].root = lfile[i].root
                                   \/ lfile'[i].root = <<>>
                                   \/ i = Len(lfile) + 1 /\ lfile'[i].root = batch
<1>1. LedgerType /\ TailCached /\ l \in Lines /\ Len(lfile) \in Nat
  BY EntryType, BadUnreadable, LenProperties DEF TInv, LInv, LedgerType
<1>2. /\ lfile' \in Seq(Lines)
      /\ tornTail => /\ Len(lfile') = Len(lfile) /\ Len(lfile) > 0
                     /\ \A i \in 1..(Len(lfile) - 1) : lfile'[i] = lfile[i]
                     /\ lfile'[Len(lfile)] = Bad
      /\ ~tornTail => /\ Len(lfile') = Len(lfile) + 1
                      /\ \A i \in 1..Len(lfile) : lfile'[i] = lfile[i]
                      /\ lfile'[Len(lfile) + 1] = l
  BY <1>1, AppendLineFacts
<1>3. Bad.root = <<>> /\ (l.root = <<>> \/ l.root = batch)
  BY DEF Bad, Entry
<1>4. CASE tornTail
  BY <1>1, <1>2, <1>3, <1>4
<1>5. CASE ~tornTail
  BY <1>1, <1>2, <1>3, <1>5
<1> QED BY <1>4, <1>5

LEMMA RootType ==
  ASSUME TInv, NEW i \in 1..Len(lfile)
  PROVE  lfile[i].root \in Seq(Events) /\ DOMAIN lfile[i].root = 1..Len(lfile[i].root)
<1>1. lfile[i] \in Lines
  BY ElementOfSeq DEF TInv, TypeOK
<1> QED BY <1>1 DEF Lines

LEMMA PlacesInit == Init => Places
<1> SUFFICES ASSUME Init PROVE Places
  OBVIOUS
<1>1. /\ Range(pending) = {} /\ Range(batch) = {} /\ 1..Len(lfile) = {}
      /\ DOMAIN pending = {} /\ DOMAIN batch = {}
  BY RangeEmpty DEF Init
<1>2. Fresh
  BY <1>1 DEF Fresh, Sealed
<1>3. Single
  BY <1>1 DEF Single, OnePlace, Sealed, Uniq
<1> QED BY <1>2, <1>3, TInvInit DEF Places

\* A step that writes nothing and takes no event: pending may become the batch, either may go.
LEMMA PlacesMove ==
  ASSUME Places, TInv', UNCHANGED <<lfile, deliveries>>,
         \/ pending' \in {pending, <<>>} /\ batch' \in {batch, <<>>} /\ (pc' = "append" => pc = "append")
         \/ pending' = <<>> /\ batch' = pending
  PROVE  Places'
<1>0. Range(<<>>) = {} /\ DOMAIN <<>> = {}
  BY RangeEmpty
<1>1. ASSUME NEW e \in Events PROVE Sealed(e)' <=> Sealed(e)
  BY DEF Sealed
<1>2. Fresh'
  BY <1>0, <1>1 DEF Places, Fresh
<1>3. ASSUME NEW e \in Events, OnePlace(e) PROVE OnePlace(e)'
  <2>1. Uniq(e, pending)' /\ Uniq(e, batch)'
    BY <1>0, <1>3 DEF OnePlace, Uniq
  <2>2. /\ e \in Range(pending') => ~Sealed(e)
        /\ pc' = "append" /\ e \in Range(batch') => ~Sealed(e)
    BY <1>0, <1>3 DEF OnePlace
  <2> QED BY <1>1, <1>3, <2>1, <2>2 DEF OnePlace
<1>4. Single'
  BY <1>3 DEF Places, Single
<1> QED BY <1>2, <1>4 DEF Places

\* The ledger gets the batch's line.
LEMMA PlacesWrite ==
  ASSUME Places, TInv', pc = "append", NEW l \in {Bad, Entry(batch)}, lfile' = AppendLine(l),
         UNCHANGED <<deliveries, pending>>, batch' \in {batch, <<>>}, pc' # "append"
  PROVE  Places'
<1>0. Range(<<>>) = {} /\ DOMAIN <<>> = {} /\ pending = <<>>
  BY RangeEmpty DEF Places, TInv, Batching
<1>1. \A i \in 1..Len(lfile') : \/ i \in 1..Len(lfile) /\ lfile'[i].root = lfile[i].root
                                \/ lfile'[i].root = <<>>
                                \/ i = Len(lfile) + 1 /\ lfile'[i].root = batch
  BY WriteRoots DEF Places
<1>2. ASSUME NEW e \in Events, Sealed(e)' PROVE Sealed(e) \/ e \in Range(batch)
  BY <1>0, <1>1, <1>2 DEF Sealed
<1>3. Fresh'
  BY <1>0, <1>2 DEF Places, Fresh
<1>4. ASSUME NEW e \in Events, OnePlace(e) PROVE OnePlace(e)'
  <2>1. ASSUME NEW i \in 1..Len(lfile'), NEW j \in 1..Len(lfile'),
               NEW k \in DOMAIN lfile'[i].root, NEW m \in DOMAIN lfile'[j].root,
               lfile'[i].root[k] = e, lfile'[j].root[m] = e
        PROVE  i = j /\ k = m
    <3>0. lfile'[i].root # <<>> /\ lfile'[j].root # <<>>
      BY <1>0
    <3>a. e \in Range(lfile'[i].root) /\ e \in Range(lfile'[j].root)
      BY <2>1 DEF Range
    <3>1. CASE (i \in 1..Len(lfile) /\ lfile'[i].root = lfile[i].root) /\ (j \in 1..Len(lfile) /\ lfile'[j].root = lfile[j].root)
      BY <1>4, <2>1, <3>1 DEF OnePlace
    <3>2. CASE (i \in 1..Len(lfile) /\ lfile'[i].root = lfile[i].root) /\ (j = Len(lfile) + 1 /\ lfile'[j].root = batch)
      BY <1>4, <3>a, <3>2 DEF OnePlace, Sealed
    <3>3. CASE (i = Len(lfile) + 1 /\ lfile'[i].root = batch) /\ (j \in 1..Len(lfile) /\ lfile'[j].root = lfile[j].root)
      BY <1>4, <3>a, <3>3 DEF OnePlace, Sealed
    <3>4. CASE (i = Len(lfile) + 1 /\ lfile'[i].root = batch) /\ (j = Len(lfile) + 1 /\ lfile'[j].root = batch)
      BY <1>4, <2>1, <3>4 DEF OnePlace, Uniq
    <3> QED BY <1>1, <3>0, <3>1, <3>2, <3>3, <3>4
  <2>2. Uniq(e, pending)' /\ Uniq(e, batch)'
    BY <1>0, <1>4 DEF OnePlace, Uniq
  <2>3. e \notin Range(pending')
    BY <1>0
  <2> QED BY <2>1, <2>2, <2>3 DEF OnePlace
<1>5. Single'
  BY <1>4 DEF Places, Single
<1> QED BY <1>3, <1>5 DEF Places

\* An event arrives, and is hashed or not.
LEMMA PlacesArrive ==
  ASSUME Places, TInv', NEW e \in Events, deliveries' = [deliveries EXCEPT ![e] = @ + 1],
         UNCHANGED lfile, pc = "idle",
         \/ UNCHANGED <<pending, batch, pc>>
         \/ pending' = Append(pending, e) /\ UNCHANGED <<batch, pc>>
         \/ pending' = <<>> /\ batch' = Append(pending, e)
  PROVE  Places'
<1> DEFINE more == Append(pending, e)
<1>0. Range(<<>>) = {} /\ DOMAIN <<>> = {} /\ batch = <<>>
  BY RangeEmpty DEF Places, TInv, Batching
<1>1. pending \in Seq(Events) /\ deliveries \in [Events -> Nat]
  BY DEF Places, TInv, TypeOK
<1>2. \A f \in Events : deliveries'[f] = IF f = e THEN deliveries[e] + 1 ELSE deliveries[f]
  BY <1>1
<1>3. /\ more \in Seq(Events) /\ Range(more) = Range(pending) \cup {e} /\ Len(more) = Len(pending) + 1
      /\ more[Len(pending) + 1] = e /\ \A i \in 1..Len(pending) : more[i] = pending[i]
      /\ DOMAIN more = 1..(Len(pending) + 1) /\ DOMAIN pending = 1..Len(pending) /\ Len(pending) \in Nat
  BY <1>1, RangeAppend, RangeMember
<1>4. \/ pending' = pending /\ batch' = <<>> /\ pc' = "idle"
      \/ pending' = more /\ batch' = <<>> /\ pc' = "idle"
      \/ pending' = <<>> /\ batch' = more
  BY <1>0
<1> HIDE DEF more
<1>5. ASSUME NEW f \in Events PROVE Sealed(f)' <=> Sealed(f)
  BY DEF Sealed
<1>6. Fresh'
  <2> SUFFICES ASSUME NEW f \in Events, deliveries'[f] = 0
               PROVE  f \notin Range(pending') /\ f \notin Range(batch') /\ ~Sealed(f)'
    BY DEF Fresh
  <2>1. f # e /\ deliveries[f] = 0
    BY <1>1, <1>2
  <2>2. f \notin Range(pending) /\ f \notin Range(more) /\ ~Sealed(f)
    BY <1>3, <2>1 DEF Places, Fresh
  <2> QED BY <1>0, <1>4, <1>5, <2>2
<1>7. Single'
  <2> SUFFICES ASSUME NEW f \in Events, deliveries'[f] <= 1 PROVE OnePlace(f)'
    BY DEF Single
  <2>1. deliveries[f] <= 1 /\ (f = e => deliveries[f] = 0)
    BY <1>1, <1>2
  <2>2. OnePlace(f)
    BY <2>1 DEF Places, Single
  <2>3. f = e => f \notin Range(pending) /\ ~Sealed(f)
    BY <2>1 DEF Places, Fresh
  <2>4. Uniq(f, more)
    <3>1. CASE f = e
      <4>1. \A i \in 1..Len(pending) : pending[i] # f
        BY <1>1, <2>3, <3>1, RangeMember
      <4>2. ASSUME NEW k \in DOMAIN more, more[k] = f PROVE k = Len(pending) + 1
        <5>1. k \in 1..Len(pending) \/ k = Len(pending) + 1
          BY <1>3
        <5>2. ASSUME k \in 1..Len(pending) PROVE FALSE
          BY <1>3, <4>1, <4>2, <5>2
        <5> QED BY <5>1, <5>2
      <4> QED BY <4>2 DEF Uniq
    <3>2. CASE f # e
      <4>1. \A k \in DOMAIN more : more[k] = f => k \in DOMAIN pending /\ pending[k] = f
        BY <1>3, <3>2
      <4> QED BY <2>2, <4>1 DEF Uniq, OnePlace
    <3> QED BY <3>1, <3>2
  <2>5. Uniq(f, pending)' /\ Uniq(f, batch)'
    BY <1>0, <1>4, <2>2, <2>4 DEF Uniq, OnePlace
  <2>6. f \in Range(more) => ~Sealed(f)
    BY <1>3, <2>2, <2>3 DEF OnePlace
  <2>7. /\ f \in Range(pending') => ~Sealed(f)
        /\ pc' = "append" /\ f \in Range(batch') => ~Sealed(f)
    BY <1>0, <1>4, <2>2, <2>6 DEF OnePlace
  <2> QED BY <1>5, <2>2, <2>5, <2>7 DEF OnePlace
<1> QED BY <1>6, <1>7 DEF Places

LEMMA PlacesStep == Places /\ [Next]_vars => Places'
<1> SUFFICES ASSUME Places, [Next]_vars PROVE Places'
  OBVIOUS
<1> USE DEF disk, sealing, tail, history, counters
<1>0. TInv' /\ TInv
  BY TInvStep DEF Places
<1>1. CASE Start
  BY <1>0, <1>1, PlacesMove DEF Start
<1>2. ASSUME NEW e \in Events, Process(e) PROVE Places'
  BY <1>0, <1>2, PlacesArrive DEF Process, Accumulate
<1>3. ASSUME NEW e \in Events, ProcessRawFails(e) PROVE Places'
  BY <1>0, <1>3, PlacesArrive DEF ProcessRawFails
<1>4. CASE WatchTimeout
  BY <1>0, <1>4, PlacesMove DEF WatchTimeout
<1>5. CASE SealAppend
  BY <1>0, <1>5, PlacesWrite DEF SealAppend
<1>6. CASE SealIndex
  BY <1>0, <1>6, PlacesMove DEF SealIndex, AfterSeal
<1>7. CASE SealRaises
  <2>1. CASE UNCHANGED <<lfile, tornTail, tears>>
    BY <1>0, <1>7, <2>1, PlacesMove DEF SealRaises
  <2>2. CASE pc = "append" /\ TornWrite
    BY <1>0, <1>7, <2>2, PlacesWrite DEF SealRaises, TornWrite
  <2> QED BY <1>7, <2>1, <2>2 DEF SealRaises
<1>8. CASE Shutdown
  BY <1>0, <1>8, PlacesMove DEF Shutdown
<1>9. CASE ShutdownDeadWatcher
  BY <1>0, <1>9, PlacesMove DEF ShutdownDeadWatcher
<1>10. CASE ShutdownRawFails
  BY <1>0, <1>10, PlacesMove DEF ShutdownRawFails
<1>11. CASE Crash
  BY <1>0, <1>11, PlacesMove DEF Crash
<1>12. CASE CrashTorn
  BY <1>0, <1>12, PlacesWrite DEF CrashTorn, TornWrite
<1>13. CASE UNCHANGED vars
  BY <1>0, <1>13, PlacesMove DEF vars
<1> QED BY <1>1, <1>2, <1>3, <1>4, <1>5, <1>6, <1>7, <1>8, <1>9, <1>10, <1>11, <1>12, <1>13
        DEF Next

\* However a seal fails, is interrupted by a crash or a torn write, and whatever a restart finds
\* on disk, the ledger commits to no event twice as long as no event_uid arrives twice.
THEOREM NeverSealedTwice == Spec => []SealedOnce
<1>1. Places => SealedOnce
  <2> SUFFICES ASSUME Places, \A e \in Events : deliveries[e] <= 1,
                      NEW i \in 1..Len(lfile), NEW j \in 1..Len(lfile),
                      NEW k \in DOMAIN lfile[i].root, NEW l \in DOMAIN lfile[j].root,
                      lfile[i].root[k] = lfile[j].root[l]
               PROVE  i = j /\ k = l
    BY DEF SealedOnce
  <2>1. lfile[i].root[k] \in Events
    BY RootType DEF Places
  <2> QED BY <2>1 DEF Places, Single, OnePlace
<1> QED BY <1>1, PlacesInit, PlacesStep, PTL DEF Spec

-----------------------------------------------------------------------------
(***************************************************************************)
(* The index.  As long as no line is torn, a batch none of whose events    *)
(* arrived again has either no row in the index or exactly its own: an     *)
(* INSERT OR REPLACE of a later batch takes none of them away.             *)
(***************************************************************************)
Untorn == tears = 0 => ~tornTail /\ AllReadable

Quiet(i) == \A k \in DOMAIN lfile[i].root : deliveries[lfile[i].root[k]] <= 1

Indexed ==
    tears = 0 =>
      /\ \A r \in index : r.seq < Len(lfile)
      /\ \A i \in 1..Len(lfile) : Quiet(i) => RowsOf(i - 1) = {} \/ RowsOf(i - 1) = Rows(i - 1, lfile[i].root)
      /\ pc = "index" => Len(lfile) > 0 /\ nextSeq = Len(lfile) /\ lfile[Len(lfile)].root = batch

IInv == Places /\ Untorn /\ Indexed

\* The first k leaves of a batch are the k rows with smaller numbers.
LEMMA RowsBelow ==
  ASSUME NEW s \in Nat, NEW leaves \in Seq(Events), NEW k \in 0..Len(leaves)
  PROVE  Cardinality({q \in Rows(s, leaves) : q.leaf < k}) = k
<1> DEFINE row(i) == [uid |-> leaves[i], seq |-> s, leaf |-> i - 1]
           B == {q \in Rows(s, leaves) : q.leaf < k}
           f == [i \in 1..k |-> row(i)]
<1>1. Len(leaves) \in Nat /\ k \in Nat /\ k <= Len(leaves) /\ DOMAIN leaves = 1..Len(leaves)
  OBVIOUS
<1>2. ASSUME NEW i \in 1..k PROVE row(i) \in B
  <2>1. i \in DOMAIN leaves /\ i - 1 < k
    BY <1>1
  <2>2. row(i) \in Rows(s, leaves)
    BY <2>1 DEF Rows
  <2>3. row(i).leaf < k
    BY <2>1
  <2> QED BY <2>2, <2>3
<1>3. ASSUME NEW q \in B PROVE \E i \in 1..k : row(i) = q
  <2>1. PICK i \in DOMAIN leaves : q = row(i)
    BY DEF Rows
  <2>2. i - 1 < k
    BY <2>1
  <2>3. i \in 1..k
    BY <1>1, <2>2
  <2> QED BY <2>1, <2>3
<1>4. \A i, j \in 1..k : row(i) = row(j) => i = j
  <2> SUFFICES ASSUME NEW i \in 1..k, NEW j \in 1..k, row(i) = row(j) PROVE i = j
    OBVIOUS
  <2>1. row(i).leaf = i - 1 /\ row(j).leaf = j - 1
    OBVIOUS
  <2>2. i - 1 = j - 1
    BY <2>1
  <2> QED BY <1>1, <2>2
<1> HIDE DEF row, B
<1>5. f \in [1..k -> B] /\ \A i \in 1..k : f[i] = row(i)
  BY <1>2
<1> HIDE DEF f
<1>6. f \in Bijection(1..k, B)
  BY <1>3, <1>4, <1>5 DEF Bijection, Injection, Surjection, IsInjective
<1>7. ExistsBijection(1..k, B)
  BY <1>6 DEF ExistsBijection
<1>8. Cardinality(B) = k
  BY <1>1, <1>7, FS_CountingElements
<1> QED BY <1>8 DEF B

\* event_uids_for_batch gives back the leaves whose rows are in the index.
LEMMA UidsAreLeaves ==
  ASSUME NEW s \in Nat, NEW leaves \in Seq(Events), RowsOf(s) = Rows(s, leaves)
  PROVE  event_uids_for_batch(s) = leaves
<1> DEFINE R == Rows(s, leaves)
           row(i) == [uid |-> leaves[i], seq |-> s, leaf |-> i - 1]
           Below(r) == Cardinality({q \in R : q.leaf < r.leaf})
<1>1. Len(leaves) \in Nat /\ DOMAIN leaves = 1..Len(leaves)
  OBVIOUS
<1>2. Cardinality(R) = Len(leaves)
  <2>1. ASSUME NEW q \in R PROVE q.leaf < Len(leaves)
    <3>1. PICK i \in DOMAIN leaves : q = row(i)
      BY DEF Rows
    <3>2. q.leaf = i - 1
      BY <3>1
    <3> QED BY <1>1, <3>1, <3>2
  <2>2. R = {q \in R : q.leaf < Len(leaves)}
    BY <2>1
  <2>3. Len(leaves) \in 0..Len(leaves)
    BY <1>1
  <2>4. Cardinality({q \in R : q.leaf < Len(leaves)}) = Len(leaves)
    BY <2>3, RowsBelow
  <2> QED BY <2>2, <2>4
<1>3. ASSUME NEW i \in 1..Len(leaves) PROVE row(i) \in R /\ Below(row(i)) = i - 1
  <2>1. i \in DOMAIN leaves /\ i - 1 \in 0..Len(leaves)
    BY <1>1
  <2>2. row(i) \in R
    BY <2>1 DEF Rows
  <2>3. row(i).leaf = i - 1
    OBVIOUS
  <2>4. Cardinality({q \in R : q.leaf < i - 1}) = i - 1
    BY <2>1, RowsBelow
  <2> QED BY <2>2, <2>3, <2>4
<1>4. ASSUME NEW n \in 1..Len(leaves)
      PROVE  (CHOOSE r \in R : Below(r) = n - 1).uid = leaves[n]
  <2>1. ASSUME NEW r \in R, Below(r) = n - 1 PROVE r = row(n)
    <3>1. PICK i \in DOMAIN leaves : r = row(i)
      BY DEF Rows
    <3>2. i \in 1..Len(leaves)
      BY <1>1
    <3>3. Below(r) = i - 1
      BY <1>3, <3>1, <3>2
    <3>4. i = n
      BY <1>1, <2>1, <3>2, <3>3
    <3> QED BY <3>1, <3>4
  <2>2. \E r \in R : Below(r) = n - 1
    BY <1>3
  <2> DEFINE c == CHOOSE r \in R : Below(r) = n - 1
  <2>3. c \in R /\ Below(c) = n - 1
    BY <2>2
  <2>4. c = row(n)
    BY <2>1, <2>3
  <2> HIDE DEF c
  <2>5. c.uid = leaves[n]
    BY <2>4
  <2> QED BY <2>5 DEF c
<1>5. event_uids_for_batch(s) = [n \in 1..Len(leaves) |-> (CHOOSE r \in R : Below(r) = n - 1).uid]
  BY <1>2 DEF event_uids_for_batch
<1>6. event_uids_for_batch(s) = [n \in 1..Len(leaves) |-> leaves[n]]
  BY <1>4, <1>5
<1> QED BY <1>1, <1>6

\* What an untorn ledger looks like.
LEMMA UntornFacts ==
  ASSUME IInv, tears = 0
  PROVE  /\ ~tornTail /\ AllReadable /\ Len(lfile) \in Nat
         /\ \A i \in 1..Len(lfile) : lfile[i].seq = i - 1 /\ Readable(lfile[i])
         /\ phase # "down" => nextSeq = Len(lfile)
<1>1. ~tornTail /\ AllReadable /\ Len(lfile) \in Nat
  BY LenProperties DEF IInv, Untorn, Places, TInv, TypeOK
<1>2. ASSUME NEW i \in 1..Len(lfile) PROVE lfile[i].seq = i - 1 /\ Readable(lfile[i])
  <2>1. \A j \in 1..i : Readable(lfile[j])
    BY <1>1 DEF AllReadable
  <2>2. LineSound(lfile, i)
    BY <2>1 DEF IInv, Places, TInv, LInv, ChainIntact
  <2> QED BY <2>2 DEF LineSound
<1>3. phase # "down" => nextSeq = Len(lfile)
  BY <1>1 DEF IInv, Places, TInv, LInv, TailCached
<1> QED BY <1>1, <1>2, <1>3

\* A step that writes neither ledger nor index.
LEMMA IndexSame ==
  ASSUME IInv, Places', UNCHANGED <<lfile, tornTail, index, tears>>,
         \A e \in Events : deliveries'[e] >= deliveries[e],
         pc' = "index" => pc = "index" /\ UNCHANGED <<nextSeq, batch>>
  PROVE  IInv'
<1>1. Untorn'
  BY DEF IInv, Untorn, AllReadable, Readable
<1>2. ASSUME NEW i \in 1..Len(lfile), Quiet(i)' PROVE Quiet(i)
  <2>1. lfile[i].root \in Seq(Events)
    BY RootType DEF IInv, Places
  <2>2. deliveries \in [Events -> Nat] /\ deliveries' \in [Events -> Nat]
    BY DEF IInv, Places, TInv, TypeOK
  <2>3. ASSUME NEW k \in DOMAIN lfile[i].root PROVE deliveries[lfile[i].root[k]] <= 1
    <3>1. lfile[i].root[k] \in Events
      BY <2>1
    <3>2. deliveries'[lfile[i].root[k]] <= 1
      BY <1>2 DEF Quiet
    <3> QED BY <2>2, <3>1, <3>2
  <2> QED BY <2>3 DEF Quiet
<1>3. Indexed'
  <2> SUFFICES ASSUME tears' = 0
               PROVE  /\ \A r \in index' : r.seq < Len(lfile')
                      /\ \A i \in 1..Len(lfile') : Quiet(i)' => RowsOf(i - 1)' = {} \/ RowsOf(i - 1)' = Rows(i - 1, lfile'[i].root)
                      /\ pc' = "index" => Len(lfile') > 0 /\ nextSeq' = Len(lfile') /\ lfile'[Len(lfile')].root = batch'
    BY DEF Indexed, Rows
  <2>1. \A i : RowsOf(i - 1)' = RowsOf(i - 1)
    BY DEF RowsOf
  <2> QED BY <1>2, <2>1 DEF IInv, Indexed
<1> QED BY <1>1, <1>3 DEF IInv

\* The entry is in the file, its rows are not in the index yet.
LEMMA IndexAppend == ASSUME IInv, Places', SealAppend PROVE IInv'
<1>0. /\ pc = "append" /\ lfile' = AppendLine(Entry(batch)) /\ tornTail' = FALSE /\ nextSeq' = nextSeq + 1
      /\ UNCHANGED <<index, deliveries, tears, batch>>
  BY DEF SealAppend, counters
<1>1. CASE tears # 0
  BY <1>0, <1>1 DEF IInv, Untorn, Indexed
<1>2. CASE tears = 0
  <2>1. /\ ~tornTail /\ AllReadable /\ Len(lfile) \in Nat /\ phase # "down" /\ nextSeq = Len(lfile)
    BY <1>0, <1>2, UntornFacts DEF IInv, Places, TInv, Batching
  <2>2. /\ Len(lfile') = Len(lfile) + 1 /\ \A i \in 1..Len(lfile) : lfile'[i] = lfile[i]
        /\ lfile'[Len(lfile) + 1] = Entry(batch)
    BY <1>0, <2>1, AppendLineFacts, EntryType DEF IInv, Places, TInv, LInv
  <2>3. Readable(Entry(batch)) /\ Entry(batch).root = batch
    BY EntryType DEF IInv, Places, TInv, LInv, Entry
  <2>4. \A i \in 1..Len(lfile') : i \in 1..Len(lfile) \/ i = Len(lfile) + 1
    BY <2>1, <2>2
  <2>5. Untorn'
    BY <1>0, <2>1, <2>2, <2>3, <2>4 DEF Untorn, AllReadable
  <2>6. \A r \in index : r.seq < Len(lfile) /\ r.seq \in Nat
    BY <1>2 DEF IInv, Indexed, Places, TInv, TypeOK
  <2>7. RowsOf(Len(lfile)) = {}
    BY <2>1, <2>6 DEF RowsOf
  <2>8. ASSUME NEW i \in 1..Len(lfile'), Quiet(i)'
        PROVE  RowsOf(i - 1)' = {} \/ RowsOf(i - 1)' = Rows(i - 1, lfile'[i].root)
    <3>0. RowsOf(i - 1)' = RowsOf(i - 1)
      BY <1>0 DEF RowsOf
    <3>1. CASE i \in 1..Len(lfile)
      <4>1. lfile'[i] = lfile[i]
        BY <2>2, <3>1
      <4>2. Quiet(i)
        BY <1>0, <2>8, <4>1 DEF Quiet
      <4>3. RowsOf(i - 1) = {} \/ RowsOf(i - 1) = Rows(i - 1, lfile[i].root)
        BY <1>2, <3>1, <4>2 DEF IInv, Indexed
      <4> QED BY <3>0, <4>1, <4>3
    <3>2. CASE i = Len(lfile) + 1
      <4>1. i - 1 = Len(lfile)
        BY <2>1, <3>2
      <4> QED BY <2>7, <3>0, <4>1
    <3> QED BY <2>4, <3>1, <3>2
  <2>9. \A r \in index' : r.seq < Len(lfile')
    BY <1>0, <2>1, <2>2, <2>6
  <2>10. Len(lfile') > 0 /\ nextSeq' = Len(lfile') /\ lfile'[Len(lfile')].root = batch'
    BY <1>0, <2>1, <2>2, <2>3
  <2>11. Indexed'
    BY <2>8, <2>9, <2>10 DEF Indexed, Rows
  <2> QED BY <2>5, <2>11 DEF IInv
<1> QED BY <1>1, <1>2

\* The rows of the batch replace those of its events.
LEMMA IndexCommit == ASSUME IInv, Places', SealIndex PROVE IInv'
<1>0. /\ pc = "index" /\ pc' = "idle"
      /\ index' = {r \in index : r.uid \notin Range(batch)} \cup Rows(nextSeq - 1, batch)
      /\ UNCHANGED <<lfile, tornTail, deliveries, tears>>
  BY DEF SealIndex, AfterSeal, counters
<1>u. Untorn'
  BY <1>0 DEF IInv, Untorn, AllReadable, Readable
<1>1. CASE tears # 0
  BY <1>0, <1>1, <1>u DEF IInv, Indexed
<1>2. CASE tears = 0
  <2>1. Len(lfile) > 0 /\ nextSeq = Len(lfile) /\ lfile[Len(lfile)].root = batch /\ Len(lfile) \in Nat
    BY <1>0, <1>2, UntornFacts DEF IInv, Indexed
  <2>s. PICK s \in Nat : s = nextSeq - 1
    BY <2>1
  <2>2. s \in Nat /\ s + 1 = Len(lfile) /\ s + 1 \in 1..Len(lfile) /\ lfile[s + 1].root = batch
    BY <2>1, <2>s
  <2>3. batch \in Seq(Events) /\ \A r \in index : r.uid \in Events /\ r.seq \in Nat
    BY DEF IInv, Places, TInv, TypeOK
  <2>4. \A r \in Rows(s, batch) : r.seq = s /\ r.uid \in Range(batch)
    BY DEF Rows, Range
  <2>5. index' = {r \in index : r.uid \notin Range(batch)} \cup Rows(s, batch)
    BY <1>0, <2>s
  <2>6. \A r \in index' : r.seq < Len(lfile')
    <3>1. \A r \in index : r.seq < Len(lfile)
      BY <1>2 DEF IInv, Indexed
    <3>2. s < Len(lfile)
      BY <2>1, <2>2
    <3> QED BY <1>0, <2>4, <2>5, <3>1, <3>2
  <2>7. ASSUME NEW i \in 1..Len(lfile), Quiet(i)
        PROVE  RowsOf(i - 1)' = {} \/ RowsOf(i - 1)' = Rows(i - 1, lfile[i].root)
    <3>0. RowsOf(i - 1) = {} \/ RowsOf(i - 1) = Rows(i - 1, lfile[i].root)
      BY <1>2, <2>7 DEF IInv, Indexed
    <3>1. CASE i = s + 1
      <4>1. i - 1 = s
        BY <2>2, <3>1
      <4>2. RowsOf(s) = {} \/ RowsOf(s) = Rows(s, batch)
        BY <2>2, <3>0, <3>1, <4>1
      <4>3. RowsOf(s)' = Rows(s, batch)
        BY <2>4, <2>5, <4>2 DEF RowsOf
      <4> QED BY <2>2, <3>1, <4>1, <4>3
    <3>2. CASE i # s + 1
      <4>1. i - 1 # s
        BY <2>2, <3>2
      <4>2. ASSUME NEW r \in RowsOf(i - 1) PROVE r.uid \notin Range(batch)
        <5>0. lfile[i].root \in Seq(Events) /\ DOMAIN lfile[i].root = 1..Len(lfile[i].root)
          BY RootType DEF IInv, Places
        <5>1. PICK k \in DOMAIN lfile[i].root : r = [uid |-> lfile[i].root[k], seq |-> i - 1, leaf |-> k - 1]
          BY <3>0, <4>2 DEF Rows
        <5>2. r.uid = lfile[i].root[k] /\ lfile[i].root[k] \in Events
          BY <5>0, <5>1
        <5>3. OnePlace(lfile[i].root[k])
          BY <2>7, <5>2 DEF Quiet, IInv, Places, Single
        <5>4. ASSUME NEW l \in DOMAIN batch, batch[l] = lfile[i].root[k] PROVE FALSE
          BY <2>2, <3>2, <5>3, <5>4 DEF OnePlace
        <5> QED BY <5>2, <5>4 DEF Range
      <4>3. RowsOf(i - 1)' = RowsOf(i - 1)
        <5>1. \A r \in index : r.seq = i - 1 => r.uid \notin Range(batch)
          BY <4>2 DEF RowsOf
        <5>2. \A r \in Rows(s, batch) : r.seq # i - 1
          BY <2>4, <4>1
        <5> QED BY <2>5, <5>1, <5>2 DEF RowsOf
      <4> QED BY <3>0, <4>3
    <3> QED BY <3>1, <3>2
  <2>8. \A i \in 1..Len(lfile) : Quiet(i)' => Quiet(i)
    BY <1>0 DEF Quiet
  <2>9. Indexed'
    BY <1>0, <2>6, <2>7, <2>8 DEF Indexed, Rows
  <2> QED BY <1>u, <2>9 DEF IInv
<1> QED BY <1>1, <1>2

LEMMA IInvInit == Init => IInv
<1> SUFFICES ASSUME Init PROVE IInv
  OBVIOUS
<1>1. Places
  BY PlacesInit
<1>2. 1..Len(lfile) = {} /\ tornTail = FALSE /\ index = {} /\ pc = "idle"
  BY DEF Init
<1>3. Untorn /\ Indexed
  BY <1>2 DEF Untorn, AllReadable, Indexed
<1> QED BY <1>1, <1>3 DEF IInv

\* A torn write is counted.
LEMMA IndexTorn ==
  ASSUME IInv, Places', tears' = tears + 1
  PROVE  IInv'
<1>1. tears \in Nat
  BY DEF IInv, Places, TInv, TypeOK
<1>2. tears' # 0
  BY <1>1
<1> QED BY <1>2 DEF IInv, Untorn, Indexed

LEMMA IInvStep == IInv /\ [Next]_vars => IInv'
<1> SUFFICES ASSUME IInv, [Next]_vars PROVE IInv'
  OBVIOUS
<1> USE DEF disk, sealing, tail, history, counters
<1>0. Places'
  BY PlacesStep DEF IInv
<1>t. deliveries \in [Events -> Nat]
  BY DEF IInv, Places, TInv, TypeOK
<1>m. deliveries' = deliveries => \A e \in Events : deliveries'[e] >= deliveries[e]
  BY <1>t
<1>a. ASSUME NEW e \in Events, deliveries' = [deliveries EXCEPT ![e] = @ + 1]
      PROVE  \A f \in Events : deliveries'[f] >= deliveries[f]
  BY <1>a, <1>t
<1>1. CASE Start
  <2>1. pc' = "index" => FALSE
    BY <1>1 DEF Start, IInv, Places, TInv, Batching
  <2> QED BY <1>0, <1>1, <1>m, <2>1, IndexSame DEF Start
<1>2. ASSUME NEW e \in Events, Process(e) PROVE IInv'
  <2>1. \A f \in Events : deliveries'[f] >= deliveries[f]
    BY <1>2, <1>a DEF Process
  <2>2. UNCHANGED <<lfile, tornTail, index, tears>> /\ (pc' = "index" => FALSE)
    BY <1>2 DEF Process, Accumulate
  <2> QED BY <1>0, <2>1, <2>2, IndexSame
<1>3. ASSUME NEW e \in Events, ProcessRawFails(e) PROVE IInv'
  <2>1. \A f \in Events : deliveries'[f] >= deliveries[f]
    BY <1>3, <1>a DEF ProcessRawFails
  <2>2. UNCHANGED <<lfile, tornTail, index, tears>> /\ (pc' = "index" => FALSE)
    BY <1>3 DEF ProcessRawFails
  <2> QED BY <1>0, <2>1, <2>2, IndexSame
<1>4. CASE WatchTimeout
  BY <1>0, <1>4, <1>m, IndexSame DEF WatchTimeout
<1>5. CASE SealAppend
  BY <1>0, <1>5, IndexAppend
<1>6. CASE SealIndex
  BY <1>0, <1>6, IndexCommit
<1>7. CASE SealRaises
  <2>1. CASE UNCHANGED <<lfile, tornTail, tears>>
    BY <1>0, <1>7, <1>m, <2>1, IndexSame DEF SealRaises
  <2>2. CASE tears' = tears + 1
    BY <1>0, <2>2, IndexTorn
  <2> QED BY <1>7, <2>1, <2>2 DEF SealRaises
<1>8. CASE Shutdown
  BY <1>0, <1>8, <1>m, IndexSame DEF Shutdown
<1>9. CASE ShutdownDeadWatcher
  BY <1>0, <1>9, <1>m, IndexSame DEF ShutdownDeadWatcher
<1>10. CASE ShutdownRawFails
  BY <1>0, <1>10, <1>m, IndexSame DEF ShutdownRawFails
<1>11. CASE Crash
  BY <1>0, <1>11, <1>m, IndexSame DEF Crash
<1>12. CASE CrashTorn
  BY <1>0, <1>12, IndexTorn DEF CrashTorn
<1>13. CASE UNCHANGED vars
  BY <1>0, <1>13, <1>m, IndexSame DEF vars
<1> QED BY <1>1, <1>2, <1>3, <1>4, <1>5, <1>6, <1>7, <1>8, <1>9, <1>10, <1>11, <1>12, <1>13
        DEF Next

\* The entry a row belongs to, when none of its events arrived again.
LEMMA RowOfQuietBatch ==
  ASSUME IInv, tears = 0, NEW r \in index, ~Disturbed(r.seq)
  PROVE  /\ r.seq + 1 \in 1..Len(lfile) /\ Quiet(r.seq + 1) /\ BatchRebuilt(r)
         /\ event_uids_for_batch(r.seq) = lfile[r.seq + 1].root
         /\ r.uid \in Range(lfile[r.seq + 1].root)
<1> DEFINE i == r.seq + 1
<1>1. r.seq \in Nat /\ r.seq < Len(lfile) /\ Len(lfile) \in Nat
  BY UntornFacts DEF IInv, Indexed, Places, TInv, TypeOK
<1>2. i \in 1..Len(lfile) /\ i - 1 = r.seq
  BY <1>1
<1> HIDE DEF i
<1>3. lfile[i].seq = r.seq /\ Readable(lfile[i])
  BY <1>2, UntornFacts
<1>4. lfile[i].root \in Seq(Events) /\ DOMAIN lfile[i].root = 1..Len(lfile[i].root)
  BY <1>2, RootType DEF IInv, Places
<1>5. ASSUME NEW k \in DOMAIN lfile[i].root PROVE deliveries[lfile[i].root[k]] <= 1
  <2>a. lfile[i].root[k] \in Range(lfile[i].root) /\ lfile[i].root[k] \in Events
    BY <1>4 DEF Range
  <2>b. i \in {j \in 1..Len(lfile) : lfile[j].seq = r.seq /\ Readable(lfile[j])}
    BY <1>2, <1>3
  <2>1. lfile[i].root[k] \in SealedIn(r.seq) /\ lfile[i].root[k] \in Events
    BY <2>a, <2>b DEF SealedIn
  <2>2. ~(deliveries[lfile[i].root[k]] > 1) /\ deliveries[lfile[i].root[k]] \in Nat
    BY <2>1 DEF Disturbed, IInv, Places, TInv, TypeOK
  <2> QED BY <2>2
<1>6. Quiet(i)
  BY <1>5 DEF Quiet
<1>7. r \in RowsOf(r.seq)
  BY DEF RowsOf
<1>8. RowsOf(r.seq) = Rows(r.seq, lfile[i].root)
  BY <1>2, <1>6, <1>7 DEF IInv, Indexed
<1>9. event_uids_for_batch(r.seq) = lfile[i].root
  BY <1>1, <1>4, <1>8, UidsAreLeaves
<1>10. PICK k \in DOMAIN lfile[i].root : r = [uid |-> lfile[i].root[k], seq |-> r.seq, leaf |-> k - 1]
  BY <1>7, <1>8 DEF Rows
<1>11. r.leaf = k - 1 /\ r.uid = lfile[i].root[k]
  BY <1>10
<1>12. r.leaf + 1 = k
  BY <1>4, <1>11
<1>13. BatchRebuilt(r)
  BY <1>2, <1>3, <1>9, <1>11, <1>12 DEF BatchRebuilt
<1>14. r.uid \in Range(lfile[i].root)
  BY <1>11 DEF Range
<1> QED BY <1>2, <1>6, <1>9, <1>13, <1>14 DEF i

\* Without torn lines, every row of the index leads to the ledger entry whose leaves are exactly
\* the uids event_uids_for_batch reads back, whatever seals failed halfway or processes died
\* between the append and the commit; only the batches of an event that arrived again do not.
THEOREM IndexAlwaysRebuilds == Spec => []IndexRebuildsBatch
<1>1. IInv => IndexRebuildsBatch
  BY RowOfQuietBatch DEF IndexRebuildsBatch
<1> QED BY <1>1, IInvInit, IInvStep, PTL DEF Spec

-----------------------------------------------------------------------------
(***************************************************************************)
(* The graceful shutdown.                                                  *)
(***************************************************************************)

\* A hashed event's record is on disk or still buffered; a process that closes has
\* flushed the buffer and emptied pending.
Stored ==
    /\ hashed \subseteq bronze \cup Range(rawbuf)
    /\ phase = "closing" \/ (phase = "down" /\ outcome = "clean") => rawbuf = <<>> /\ pending = <<>>

\* A hashed event is waiting, being sealed or indexed, unless a seal failed or the process died.
Carried ==
    /\ Range(pending) \subseteq hashed /\ Range(batch) \subseteq hashed
    /\ sealFailures = 0 /\ outcome # "unclean" =>
         \A e \in hashed : e \in Range(pending) \/ e \in Range(batch) \/ \E r \in index : r.uid = e

\* A batch is hashed by one process: its events are all of this one or none is.
Together ==
    tears = 0 =>
      \A i \in 1..Len(lfile) :
        Quiet(i) /\ (\E e \in Range(lfile[i].root) : e \in hashed) => Range(lfile[i].root) \subseteq hashed

KInv == IInv /\ Stored /\ Carried /\ Together

LEMMA KInvInit == Init => KInv
<1> SUFFICES ASSUME Init PROVE KInv
  OBVIOUS
<1>1. IInv
  BY IInvInit
<1>2. hashed = {} /\ Range(pending) = {} /\ Range(batch) = {} /\ rawbuf = <<>> /\ pending = <<>>
  BY RangeEmpty DEF Init
<1> QED BY <1>1, <1>2 DEF KInv, Stored, Carried, Together

\* A bronze flush that raises loses no record.
LEMMA RawFailsStored ==
  ASSUME NEW buf \in Seq(Events), RawFlushFails(buf), hashed \subseteq bronze \cup Range(buf), hashed' = hashed
  PROVE  hashed' \subseteq bronze' \cup Range(rawbuf')
<1>1. bronze \subseteq bronze' /\ rawbuf' = buf
  BY DEF RawFlushFails
<1> QED BY <1>1

LEMMA StoredStep == ASSUME KInv, Next PROVE Stored'
<1> USE DEF disk, sealing, tail, history, counters
<1>0. /\ rawbuf \in Seq(Events) /\ hashed \subseteq bronze \cup Range(rawbuf) /\ Range(<<>>) = {}
      /\ (phase = "closing" \/ (phase = "down" /\ outcome = "clean") => rawbuf = <<>> /\ pending = <<>>)
  BY RangeEmpty DEF KInv, IInv, Places, TInv, TypeOK, Stored
<1>b. /\ pc # "idle" => pending = <<>> /\ phase # "down"
      /\ phase # "down" => outcome = "none"
      /\ pc # "idle" /\ trigger = "shutdown" => phase = "closing"
  BY DEF KInv, IInv, Places, TInv, Batching
<1>1. CASE Start
  BY <1>1 DEF Start, Stored
<1>2. ASSUME NEW e \in Events, Process(e) PROVE Stored'
  <2>1. Range(Append(rawbuf, e)) = Range(rawbuf) \cup {e}
    BY <1>0, RangeAppend
  <2>2. hashed' = hashed \cup {e} /\ phase' = "up"
    BY <1>2 DEF Process, Accumulate
  <2>3. hashed' \subseteq bronze' \cup Range(rawbuf')
    BY <1>0, <1>2, <2>1, <2>2 DEF Process, RawWrite
  <2> QED BY <2>2, <2>3 DEF Stored
<1>3. ASSUME NEW e \in Events, ProcessRawFails(e) PROVE Stored'
  <2>1. Append(rawbuf, e) \in Seq(Events) /\ Range(Append(rawbuf, e)) = Range(rawbuf) \cup {e}
    BY <1>0, RangeAppend
  <2>2. RawFlushFails(Append(rawbuf, e)) /\ hashed' = hashed /\ phase' = "up"
    BY <1>3 DEF ProcessRawFails
  <2>3. hashed' \subseteq bronze' \cup Range(rawbuf')
    BY <1>0, <2>1, <2>2, RawFailsStored
  <2> QED BY <2>2, <2>3 DEF Stored
<1>4. CASE WatchTimeout
  BY <1>0, <1>4 DEF WatchTimeout, Stored
<1>5. CASE SealAppend
  BY <1>0, <1>b, <1>5 DEF SealAppend, Stored
<1>6. CASE SealIndex
  BY <1>0, <1>b, <1>6 DEF SealIndex, AfterSeal, Stored
<1>7. CASE SealRaises
  <2>1. UNCHANGED <<hashed, bronze, rawbuf, pending>>
    BY <1>7 DEF SealRaises
  <2>2. (phase' = "down" /\ outcome' = "unclean") \/ (phase' = phase /\ outcome' = outcome)
    BY <1>7 DEF SealRaises
  <2> QED BY <1>0, <2>1, <2>2 DEF Stored
<1>8. CASE Shutdown
  BY <1>0, <1>8 DEF Shutdown, Stored
<1>9. CASE ShutdownDeadWatcher
  BY <1>0, <1>9 DEF ShutdownDeadWatcher, Stored
<1>10. CASE ShutdownRawFails
  <2>1. hashed' \subseteq bronze' \cup Range(rawbuf')
    BY <1>0, <1>10, RawFailsStored DEF ShutdownRawFails
  <2> QED BY <1>10, <2>1 DEF ShutdownRawFails, Stored
<1>11. CASE Crash \/ CrashTorn
  BY <1>0, <1>11 DEF Crash, CrashTorn, Stored
<1> QED BY <1>1, <1>2, <1>3, <1>4, <1>5, <1>6, <1>7, <1>8, <1>9, <1>10, <1>11 DEF Next

LEMMA CarriedStep == ASSUME KInv, Next PROVE Carried'
<1> USE DEF disk, sealing, tail, history, counters
<1>0. /\ Range(pending) \subseteq hashed /\ Range(batch) \subseteq hashed /\ Range(<<>>) = {}
      /\ sealFailures = 0 /\ outcome # "unclean" =>
           \A e \in hashed : e \in Range(pending) \/ e \in Range(batch) \/ \E r \in index : r.uid = e
  BY RangeEmpty DEF KInv, Carried
<1>b. /\ pending \in Seq(Events) /\ batch \in Seq(Events) /\ sealFailures \in Nat
      /\ pc = "idle" => batch = <<>>
      /\ phase # "down" => outcome = "none"
      /\ pc # "idle" => phase # "down"
  BY DEF KInv, IInv, Places, TInv, TypeOK, Batching
<1>1. CASE Start
  <2>1. hashed' = {} /\ pending' = <<>> /\ batch' = batch
    BY <1>1 DEF Start
  <2>2. batch = <<>>
    BY <1>1, <1>b DEF Start
  <2> QED BY <1>0, <2>1, <2>2 DEF Carried
<1>2. ASSUME NEW e \in Events, Process(e) PROVE Carried'
  <2>1. Range(Append(pending, e)) = Range(pending) \cup {e}
    BY <1>b, RangeAppend
  <2>2. hashed' = hashed \cup {e} /\ UNCHANGED <<index, sealFailures, outcome>> /\ batch = <<>>
    BY <1>b, <1>2 DEF Process, Accumulate
  <2>3. \/ pending' = Append(pending, e) /\ batch' = <<>>
        \/ pending' = <<>> /\ batch' = Append(pending, e)
    BY <1>2, <2>2 DEF Process, Accumulate
  <2> QED BY <1>0, <2>1, <2>2, <2>3 DEF Carried
<1>3. ASSUME NEW e \in Events, ProcessRawFails(e) PROVE Carried'
  BY <1>0, <1>3 DEF ProcessRawFails, Carried
<1>4. CASE WatchTimeout
  <2>1. pending' = <<>> /\ batch' = pending /\ batch = <<>> /\ UNCHANGED <<hashed, index, sealFailures, outcome>>
    BY <1>b, <1>4 DEF WatchTimeout
  <2> QED BY <1>0, <2>1 DEF Carried
<1>5. CASE SealAppend
  BY <1>0, <1>5 DEF SealAppend, Carried
<1>6. CASE SealIndex
  <2>1. /\ index' = {r \in index : r.uid \notin Range(batch)} \cup Rows(nextSeq - 1, batch)
        /\ batch' = <<>> /\ UNCHANGED <<pending, hashed, sealFailures>>
        /\ outcome = "none"
    BY <1>6, <1>b DEF SealIndex, AfterSeal
  <2>2. ASSUME NEW e \in Range(batch) PROVE \E r \in index' : r.uid = e
    <3>1. PICK k \in DOMAIN batch : batch[k] = e
      BY DEF Range
    <3>2. [uid |-> batch[k], seq |-> nextSeq - 1, leaf |-> k - 1] \in index'
      BY <2>1 DEF Rows
    <3> QED BY <3>1, <3>2
  <2>3. ASSUME NEW r \in index PROVE \E q \in index' : q.uid = r.uid
    <3>1. CASE r.uid \in Range(batch)
      BY <2>2, <3>1
    <3>2. CASE r.uid \notin Range(batch)
      BY <2>1, <3>2
    <3> QED BY <3>1, <3>2
  <2>4. sealFailures' = 0 => \A e \in hashed' : e \in Range(pending') \/ \E r \in index' : r.uid = e
    BY <1>0, <2>1, <2>2, <2>3
  <2> QED BY <1>0, <2>1, <2>4 DEF Carried
<1>7. CASE SealRaises
  <2>1. sealFailures' # 0
    BY <1>7, <1>b DEF SealRaises
  <2> QED BY <1>0, <1>7, <2>1 DEF SealRaises, Carried
<1>8. CASE Shutdown
  <2>1. batch = <<>> /\ UNCHANGED <<hashed, index, sealFailures>> /\ outcome = "none"
    BY <1>b, <1>8 DEF Shutdown
  <2>2. (pending = <<>> /\ pending' = <<>> /\ batch' = <<>>) \/ (pending' = <<>> /\ batch' = pending)
    BY <1>8, <2>1 DEF Shutdown
  <2> QED BY <1>0, <2>1, <2>2 DEF Carried
<1>9. CASE ShutdownDeadWatcher \/ ShutdownRawFails
  BY <1>0, <1>9 DEF ShutdownDeadWatcher, ShutdownRawFails, Carried
<1>10. CASE Crash \/ CrashTorn
  BY <1>0, <1>10 DEF Crash, CrashTorn, Carried
<1> QED BY <1>1, <1>2, <1>3, <1>4, <1>5, <1>6, <1>7, <1>8, <1>9, <1>10 DEF Next

\* A step that leaves ledger and hashed events alone.
LEMMA TogetherSame ==
  ASSUME KInv, IInv', UNCHANGED <<lfile, hashed>>, tears' = 0 => tears = 0,
         \A e \in Events : deliveries'[e] >= deliveries[e]
  PROVE  Together'
<1> SUFFICES ASSUME tears' = 0, NEW i \in 1..Len(lfile), Quiet(i)', NEW e \in Range(lfile[i].root), e \in hashed
             PROVE  Range(lfile[i].root) \subseteq hashed
  BY DEF Together
<1>1. lfile[i].root \in Seq(Events)
  BY RootType DEF KInv, IInv, Places
<1>2. deliveries \in [Events -> Nat] /\ deliveries' \in [Events -> Nat]
  BY DEF KInv, IInv, Places, TInv, TypeOK
<1>3. ASSUME NEW k \in DOMAIN lfile[i].root PROVE deliveries[lfile[i].root[k]] <= 1
  <2>1. lfile[i].root[k] \in Events
    BY <1>1
  <2>2. deliveries'[lfile[i].root[k]] <= 1
    BY DEF Quiet
  <2> QED BY <1>2, <2>1, <2>2
<1>4. Quiet(i)
  BY <1>3 DEF Quiet
<1> QED BY <1>4 DEF KInv, Together

LEMMA TogetherStep == ASSUME KInv, IInv', Next PROVE Together'
<1> USE DEF disk, sealing, tail, history, counters
<1>t. deliveries \in [Events -> Nat] /\ tears \in Nat
  BY DEF KInv, IInv, Places, TInv, TypeOK
<1>m. deliveries' = deliveries => \A e \in Events : deliveries'[e] >= deliveries[e]
  BY <1>t
<1>1. CASE Start
  BY <1>1 DEF Start, Together
<1>2. ASSUME NEW e \in Events, Process(e) PROVE Together'
  <2> SUFFICES ASSUME tears' = 0, NEW i \in 1..Len(lfile), Quiet(i)', NEW f \in Range(lfile[i].root), f \in hashed'
               PROVE  Range(lfile[i].root) \subseteq hashed'
    BY <1>2 DEF Together, Process
  <2>1. /\ deliveries' = [deliveries EXCEPT ![e] = @ + 1] /\ hashed' = hashed \cup {e}
        /\ UNCHANGED <<lfile, tears>>
    BY <1>2 DEF Process, Accumulate
  <2>2. lfile[i].root \in Seq(Events)
    BY RootType DEF KInv, IInv, Places
  <2>3. \A g \in Events : deliveries'[g] = IF g = e THEN deliveries[e] + 1 ELSE deliveries[g]
    BY <1>t, <2>1
  <2>4. ASSUME NEW g \in Range(lfile[i].root) PROVE g \in Events /\ deliveries'[g] <= 1
    BY <2>1, <2>2 DEF Quiet, Range
  <2>5. \A g \in Range(lfile[i].root) : g # e
    <3> SUFFICES ASSUME e \in Range(lfile[i].root) PROVE FALSE
      OBVIOUS
    <3>1. deliveries[e] + 1 <= 1 /\ deliveries[e] \in Nat
      BY <1>t, <2>3, <2>4
    <3>2. deliveries[e] = 0
      BY <3>1
    <3> QED BY <3>2 DEF KInv, IInv, Places, Fresh, Sealed
  <2>6. f \in hashed
    BY <2>1, <2>5
  <2>7. \A g \in Range(lfile[i].root) : deliveries[g] <= 1
    BY <2>3, <2>4, <2>5
  <2>8. Quiet(i)
    BY <2>7 DEF Quiet, Range
  <2>9. Range(lfile[i].root) \subseteq hashed
    BY <2>1, <2>6, <2>8 DEF KInv, Together
  <2> QED BY <2>1, <2>9
<1>3. ASSUME NEW e \in Events, ProcessRawFails(e) PROVE Together'
  <2>1. deliveries' = [deliveries EXCEPT ![e] = @ + 1] /\ UNCHANGED <<lfile, hashed, tears>>
    BY <1>3 DEF ProcessRawFails
  <2>2. \A f \in Events : deliveries'[f] >= deliveries[f]
    BY <1>t, <2>1
  <2> QED BY <2>1, <2>2, TogetherSame
<1>4. CASE WatchTimeout
  BY <1>4, <1>m, TogetherSame DEF WatchTimeout
<1>5. CASE SealAppend
  <2>1. /\ pc = "append" /\ lfile' = AppendLine(Entry(batch)) /\ UNCHANGED <<deliveries, tears, hashed>>
    BY <1>5 DEF SealAppend
  <2> SUFFICES ASSUME tears' = 0, NEW i \in 1..Len(lfile'), Quiet(i)', NEW f \in Range(lfile'[i].root), f \in hashed
               PROVE  Range(lfile'[i].root) \subseteq hashed
    BY <2>1 DEF Together
  <2>2. CASE i \in 1..Len(lfile) /\ lfile'[i].root = lfile[i].root
    <3>1. Quiet(i)
      BY <2>1, <2>2 DEF Quiet
    <3> QED BY <2>1, <2>2, <3>1 DEF KInv, Together
  <2>3. CASE lfile'[i].root = <<>>
    BY <2>3, RangeEmpty
  <2>4. CASE lfile'[i].root = batch
    BY <2>4 DEF KInv, Carried
  <2> QED BY <2>1, <2>2, <2>3, <2>4, WriteRoots DEF KInv, IInv, Places
<1>6. CASE SealIndex
  BY <1>6, <1>m, TogetherSame DEF SealIndex
<1>7. CASE SealRaises
  <2>1. CASE UNCHANGED <<lfile, tornTail, tears>>
    BY <1>7, <1>m, <2>1, TogetherSame DEF SealRaises
  <2>2. CASE tears' = tears + 1
    BY <1>t, <2>2 DEF Together
  <2> QED BY <1>7, <2>1, <2>2 DEF SealRaises
<1>8. CASE Shutdown
  BY <1>8, <1>m, TogetherSame DEF Shutdown
<1>9. CASE ShutdownDeadWatcher
  BY <1>9, <1>m, TogetherSame DEF ShutdownDeadWatcher
<1>10. CASE ShutdownRawFails
  BY <1>10, <1>m, TogetherSame DEF ShutdownRawFails
<1>11. CASE Crash
  BY <1>11, <1>m, TogetherSame DEF Crash
<1>12. CASE CrashTorn
  <2>1. tears' # 0
    BY <1>t, <1>12 DEF CrashTorn
  <2> QED BY <2>1 DEF Together
<1> QED BY <1>1, <1>2, <1>3, <1>4, <1>5, <1>6, <1>7, <1>8, <1>9, <1>10, <1>11, <1>12 DEF Next

LEMMA KInvStep == KInv /\ [Next]_vars => KInv'
<1> SUFFICES ASSUME KInv, [Next]_vars PROVE KInv'
  OBVIOUS
<1>1. IInv'
  BY IInvStep DEF KInv
<1>2. CASE Next
  BY <1>1, <1>2, StoredStep, CarriedStep, TogetherStep DEF KInv
<1>3. CASE UNCHANGED vars
  <2>1. Stored' /\ Carried'
    BY <1>3 DEF KInv, Stored, Carried, vars, disk, sealing, tail, history, counters
  <2>2. Together'
    BY <1>3 DEF KInv, Together, Quiet, vars, disk, sealing, tail, history, counters
  <2> QED BY <1>1, <2>1, <2>2 DEF KInv
<1> QED BY <1>2, <1>3

\* If no seal failed and no line was torn, a graceful shutdown leaves every event hashed since the
\* start in bronze and indexed, and its inclusion proof is rebuilt from index and bronze and leads
\* to the signed root, but for the batches of an event that arrived again; crashes of earlier
\* processes, failing bronze flushes and timeouts included.
THEOREM ShutdownLeavesProof == Spec => []ShutdownSealsAll
<1>1. KInv => ShutdownSealsAll
  <2> SUFFICES ASSUME KInv, phase = "down", outcome = "clean", sealFailures = 0, tears = 0, NEW e \in hashed
               PROVE  e \in bronze /\ \E r \in index : r.uid = e /\ (RowProves(r) \/ Disturbed(r.seq))
    BY DEF ShutdownSealsAll
  <2>1. rawbuf = <<>> /\ pending = <<>> /\ batch = <<>>
    BY DEF KInv, Stored, IInv, Places, TInv, Batching
  <2>2. hashed \subseteq bronze
    BY <2>1, RangeEmpty DEF KInv, Stored
  <2>3. PICK r \in index : r.uid = e
    BY <2>1, RangeEmpty DEF KInv, Carried
  <2>4. ASSUME ~Disturbed(r.seq) PROVE RowProves(r)
    <3>1. /\ r.seq + 1 \in 1..Len(lfile) /\ Quiet(r.seq + 1) /\ BatchRebuilt(r)
          /\ event_uids_for_batch(r.seq) = lfile[r.seq + 1].root
          /\ r.uid \in Range(lfile[r.seq + 1].root)
      BY <2>4, RowOfQuietBatch DEF KInv
    <3>2. Range(lfile[r.seq + 1].root) \subseteq hashed
      BY <2>3, <3>1 DEF KInv, Together
    <3> QED BY <2>2, <3>1, <3>2 DEF RowProves
  <2> QED BY <2>2, <2>3, <2>4
<1> QED BY <1>1, KInvInit, KInvStep, PTL DEF Spec

(***************************************************************************)
(* Verification.  VerInv holds every line of the ledger against the        *)
(* batches that were sealed: a line is the one written, or what damage can *)
(* make of it, and no damage makes a damaged line sound again.  The index  *)
(* names a batch's events all or none of them; what a run failed it failed *)
(* for a reason that stays, and what it passed has its proof.              *)
(***************************************************************************)
HIDE IntegrityAssumption

\* The batches sealed, r, are the reference a line of the ledger is held against.
Batches == Seq(Nat) \ {<<>>}
RootsTo(r, n) == SubSeq(r, 1, n)
LineFields == {"seq", "prev", "batch", "chained", "signed", "reads"}
\* A line is the one that was written, or what damage can make of it.
LineOK(e, r) ==
  /\ DOMAIN e = LineFields /\ e.seq \in Nat /\ e.seq + 1 \in DOMAIN r
  /\ e.batch \in {r[e.seq + 1], <<>>} /\ e.signed \in {RootsTo(r, e.seq + 1), <<>>}
  /\ e.chained \in {RootsTo(r, e.seq + 1), <<r[e.seq + 1]>>, <<<<>>>>}
  /\ e.chained = <<<<>>>> => e.batch = <<>>
LinesOK(lines, r) ==
  /\ \E n \in Nat : DOMAIN lines = 1..n
  /\ \A i \in DOMAIN lines : LineOK(lines[i], r)
  /\ \A i, j \in DOMAIN lines : lines[i].seq = lines[j].seq => i = j
\* ... and this one proves what was sealed.
Sound(e, r) == e.batch = r[e.seq + 1] /\ e.signed = e.chained
IndexedIn(rows, s) == {u \in DOMAIN rows : rows[u][1] = s}

ServiceOK ==
  /\ arrived \in Nat /\ corruptions \in Nat
  /\ \A u \in DOMAIN unflushed \cup DOMAIN stored \cup Range(openBatch) : u \in Nat /\ u <= arrived
  /\ DOMAIN unflushed \cap DOMAIN stored = {}
  /\ \A u \in DOMAIN stored : DOMAIN stored[u] = {"date", "intact"}
  /\ corruptions = 0 => \A u \in DOMAIN stored : stored[u].intact
  /\ openBatch \in Seq(Nat) /\ sealedRoots \in Seq(Batches)
  /\ \A i \in DOMAIN sealedRoots : \A u \in Range(sealedRoots[i]) : u <= arrived /\ u \notin Range(openBatch)
  /\ \A i, j \in DOMAIN sealedRoots : i # j => Range(sealedRoots[i]) \cap Range(sealedRoots[j]) = {}
LedgerOK ==
  /\ LinesOK(ledgerLines, sealedRoots) /\ ledgerLines \in Seq(Range(ledgerLines))
  /\ corruptions = 0 => \A i \in DOMAIN ledgerLines : Sound(ledgerLines[i], sealedRoots)
IndexOK ==
  /\ \A u \in DOMAIN indexRows :
       LET s == indexRows[u][1] leaf == indexRows[u][2] IN
       /\ s \in Nat /\ s + 1 \in DOMAIN sealedRoots /\ leaf \in DOMAIN sealedRoots[s + 1] /\ sealedRoots[s + 1][leaf] = u
       /\ IndexedIn(indexRows, s) = Range(sealedRoots[s + 1])
  /\ unindexed # NoEntry =>
       /\ unindexed.seq \in Nat /\ unindexed.seq + 1 \in DOMAIN sealedRoots
       /\ unindexed.batch = sealedRoots[unindexed.seq + 1] /\ IndexedIn(indexRows, unindexed.seq) = {}

JobFields == {"at", "date", "present", "listed", "left", "entries", "passed", "failed", "unsealed", "damaged"}
Running == job.at \in {"listed", "proving", "reported"}
JobTyped ==
  /\ job = NoJob \/ (Running /\ DOMAIN job = JobFields)
  /\ Running =>
     /\ job.listed \subseteq DOMAIN stored /\ job.left \subseteq job.listed
     /\ job.passed \subseteq job.listed /\ job.failed \subseteq job.listed
     /\ job.damaged \in Nat /\ job.damaged <= corruptions
     /\ LinesOK(job.entries, sealedRoots)
     /\ job.at = "listed" => job.passed = {} /\ job.failed = {} /\ job.left = job.listed /\ job.entries = <<>>
     /\ job.at = "reported" => job.left = {}
\* The entries read are the ledger's lines; no line that was damaged is sound again.
EntriesOK ==
  Running =>
    /\ \A i \in DOMAIN job.entries, j \in DOMAIN ledgerLines :
         job.entries[i].seq = ledgerLines[j].seq /\ Sound(ledgerLines[j], sealedRoots) => Sound(job.entries[i], sealedRoots)
    /\ job.damaged = corruptions =>
         \A i \in DOMAIN job.entries : i \in DOMAIN ledgerLines /\ ledgerLines[i] = job.entries[i]
    /\ corruptions = 0 => \A i \in DOMAIN job.entries : Sound(job.entries[i], sealedRoots)
DamageSeen ==
  Running /\ job.damaged = corruptions => \A u \in job.listed \ job.left : ~stored[u].intact => u \in job.failed
FailedHasReason ==
  Running => \A u \in job.failed :
    \/ u \in job.unsealed \/ ~stored[u].intact
    \/ /\ u \in DOMAIN indexRows
       /\ \/ ~(IndexedIn(indexRows, indexRows[u][1]) \subseteq job.listed)
          \/ \E i \in DOMAIN job.entries : job.entries[i].seq = indexRows[u][1] /\ ~Sound(job.entries[i], sealedRoots)
PassedHasProof ==
  Running /\ job.present => \A u \in job.passed :
    /\ u \in DOMAIN indexRows /\ IndexedIn(indexRows, indexRows[u][1]) \subseteq job.listed
    /\ job.damaged = corruptions =>
         /\ stored[u].intact
         /\ \E i \in DOMAIN job.entries : job.entries[i].seq = indexRows[u][1] /\ Sound(job.entries[i], sealedRoots)
VerdictsOK == JobTyped /\ EntriesOK /\ DamageSeen /\ FailedHasReason /\ PassedHasProof
VerInv == ServiceOK /\ LedgerOK /\ IndexOK /\ VerdictsOK

\* ---- sequences, sets ------------------------------------------------------------------
LEMMA LeastFacts ==
  ASSUME NEW S, S \subseteq Nat, S # {}
  PROVE  Min(S) \in S /\ \A y \in S : Min(S) <= y
<1>1. PICK x \in S : \A y \in S : ~(<<y, x>> \in OpToRel(<, Nat))
  BY NatLessThanWellFounded, WFMin
<1>2. \A y \in S : ~(y < x)
  BY <1>1 DEF OpToRel
<1>3. \A y \in S : x <= y
  BY <1>2
<1> QED BY <1>3 DEF Min

LEMMA RangeGrows ==
  ASSUME NEW S, NEW s \in Seq(S), NEW x \in S
  PROVE  Range(Append(s, x)) = Range(s) \cup {x}
<1>1. /\ Append(s, x) \in Seq(S) /\ Len(Append(s, x)) = Len(s) + 1 /\ Len(s) \in Nat
      /\ \A i \in 1..Len(s) : Append(s, x)[i] = s[i]
      /\ Append(s, x)[Len(s) + 1] = x
  BY AppendProperties, LenProperties
<1>2. DOMAIN Append(s, x) = 1..(Len(s) + 1) /\ DOMAIN s = 1..Len(s)
  BY <1>1, LenProperties
<1>3. \A i \in 1..(Len(s) + 1) : i \in 1..Len(s) \/ i = Len(s) + 1
  BY <1>1
<1>4. 1..Len(s) \subseteq 1..(Len(s) + 1) /\ Len(s) + 1 \in 1..(Len(s) + 1)
  BY <1>1
<1>5. ASSUME NEW y \in Range(Append(s, x)) PROVE y \in Range(s) \cup {x}
  BY <1>1, <1>2, <1>3 DEF Range
<1>6. ASSUME NEW y \in Range(s) \cup {x} PROVE y \in Range(Append(s, x))
  BY <1>1, <1>2, <1>4 DEF Range
<1> QED BY <1>5, <1>6

LEMMA RootsGrow ==
  ASSUME NEW S, NEW r \in Seq(S), NEW x \in S
  PROVE  /\ Append(r, x) \in Seq(S) /\ Len(r) \in Nat /\ DOMAIN r = 1..Len(r) /\ DOMAIN Append(r, x) = 1..(Len(r) + 1)
         /\ \A i \in DOMAIN r : Append(r, x)[i] = r[i]
         /\ Append(r, x)[Len(r) + 1] = x
         /\ \A n \in 1..Len(r) : RootsTo(Append(r, x), n) = RootsTo(r, n)
         /\ RootsTo(Append(r, x), Len(r) + 1) = Append(r, x)
<1>1. /\ Append(r, x) \in Seq(S) /\ Len(Append(r, x)) = Len(r) + 1 /\ Len(r) \in Nat
      /\ \A i \in 1..Len(r) : Append(r, x)[i] = r[i]
      /\ Append(r, x)[Len(r) + 1] = x
  BY AppendProperties, LenProperties
<1>2. DOMAIN Append(r, x) = 1..(Len(r) + 1) /\ DOMAIN r = 1..Len(r)
  BY <1>1, LenProperties
<1> DEFINE q == Append(r, x)
<1> HIDE DEF q
<1>3. ASSUME NEW n \in 1..Len(r) PROVE RootsTo(q, n) = RootsTo(r, n)
  <2>1. SubSeq(q, 1, n) = [i \in 1..n |-> q[i]] /\ SubSeq(r, 1, n) = [i \in 1..n |-> r[i]]
    BY <1>1 DEF q
  <2>2. \A i \in 1..n : q[i] = r[i]
    BY <1>1 DEF q
  <2> QED BY <2>1, <2>2 DEF RootsTo
<1>4. RootsTo(q, Len(r) + 1) = q
  <2>1. Len(q) = Len(r) + 1 /\ q \in Seq(S) /\ Len(r) + 1 \in Nat
    BY <1>1 DEF q
  <2>2. SubSeq(q, 1, Len(q)) = q
    BY <2>1
  <2> QED BY <2>1, <2>2 DEF RootsTo
<1> QED BY <1>1, <1>2, <1>3, <1>4 DEF q

LEMMA RootsFacts ==
  ASSUME NEW r \in Seq(Batches), NEW n, n \in DOMAIN r
  PROVE  /\ n \in Nat /\ n >= 1 /\ n <= Len(r) /\ r[n] \in Batches
         /\ RootsTo(r, n) \in Seq(Batches) /\ Len(RootsTo(r, n)) = n /\ RootsTo(r, n)[n] = r[n]
         /\ RootsTo(r, n) # <<>> /\ r[n] # <<>>
<1>1. DOMAIN r = 1..Len(r) /\ Len(r) \in Nat
  OBVIOUS
<1>2. n \in Nat /\ n >= 1 /\ n <= Len(r) /\ r[n] \in Batches
  BY <1>1
<1>3. RootsTo(r, n) \in Seq(Batches) /\ Len(RootsTo(r, n)) = n /\ RootsTo(r, n)[n] = r[n]
  <2> HIDE DEF Batches
  <2> QED BY <1>1, <1>2 DEF RootsTo
<1>4. RootsTo(r, n) # <<>>
  BY <1>2, <1>3
<1> QED BY <1>2, <1>3, <1>4 DEF Batches

\* A line stays what it is while more batches are sealed.
LEMMA LineStays ==
  ASSUME NEW r \in Seq(Batches), NEW b \in Batches, NEW e, LineOK(e, r)
  PROVE  LineOK(e, Append(r, b)) /\ (Sound(e, Append(r, b)) <=> Sound(e, r))
<1> DEFINE q == Append(r, b)
<1>1. e.seq + 1 \in DOMAIN r
  BY DEF LineOK
<1>2. q[e.seq + 1] = r[e.seq + 1] /\ RootsTo(q, e.seq + 1) = RootsTo(r, e.seq + 1) /\ e.seq + 1 \in DOMAIN q
  <2> HIDE DEF Batches
  <2>1. /\ Len(r) \in Nat /\ DOMAIN r = 1..Len(r) /\ DOMAIN q = 1..(Len(r) + 1)
        /\ \A i \in DOMAIN r : q[i] = r[i]
        /\ \A n \in 1..Len(r) : RootsTo(q, n) = RootsTo(r, n)
    BY RootsGrow
  <2> HIDE DEF q
  <2>2. 1..Len(r) \subseteq 1..(Len(r) + 1)
    BY <2>1
  <2> QED BY <1>1, <2>1, <2>2
<1> HIDE DEF q
<1>3. LineOK(e, q) /\ (Sound(e, q) <=> Sound(e, r))
  BY <1>1, <1>2 DEF LineOK, Sound
<1> QED BY <1>3 DEF q

LEMMA LinesStay ==
  ASSUME NEW r \in Seq(Batches), NEW b \in Batches, NEW lines, LinesOK(lines, r)
  PROVE  LinesOK(lines, Append(r, b)) /\ \A i \in DOMAIN lines : Sound(lines[i], Append(r, b)) <=> Sound(lines[i], r)
BY LineStays DEF LinesOK

\* A line that checks says what was sealed.
LEMMA SignedIsSealed ==
  ASSUME NEW r \in Seq(Batches), NEW e, LineOK(e, r), e.signed = e.chained, e.chained = Append(e.prev, e.batch)
  PROVE  e.chained = RootsTo(r, e.seq + 1)
<1>1. RootsTo(r, e.seq + 1) # <<>> /\ e.seq + 1 \in DOMAIN r
  BY RootsFacts DEF LineOK
<1>2. e.chained # <<>>
  <2>1. <<<<>>>> # <<>> /\ \A x : <<x>> # <<>>
    OBVIOUS
  <2> QED BY <1>1, <2>1 DEF LineOK
<1> QED BY <1>2 DEF LineOK

LEMMA PlusFacts ==
  ASSUME NEW f, NEW g
  PROVE  /\ DOMAIN Plus(f, g) = DOMAIN f \cup DOMAIN g
         /\ \A x \in DOMAIN g : Plus(f, g)[x] = g[x]
         /\ \A x \in DOMAIN f : x \notin DOMAIN g => Plus(f, g)[x] = f[x]
BY DEF Plus

LEMMA EmptyFacts == DOMAIN Empty = {} /\ Range(<<>>) = {} /\ <<>> \in Seq(Nat)
BY DEF Empty, Range

LEMMA VerInitHolds == VerInit => VerInv
<1> SUFFICES ASSUME VerInit PROVE VerInv
  OBVIOUS
<1>1. /\ arrived = 0 /\ stored = Empty /\ unflushed = Empty /\ openBatch = <<>> /\ ledgerLines = <<>> /\ indexRows = Empty
      /\ unindexed = NoEntry /\ sealedRoots = <<>> /\ corruptions = 0 /\ job = NoJob
  BY DEF VerInit
<1>2. DOMAIN ledgerLines = {} /\ DOMAIN sealedRoots = {} /\ <<>> \in Seq(Batches) /\ DOMAIN ledgerLines = 1..0
  BY <1>1
<1>3. ServiceOK
  <2>1. Range(openBatch) = {} /\ DOMAIN unflushed = {} /\ DOMAIN stored = {} /\ openBatch \in Seq(Nat)
    BY <1>1, EmptyFacts
  <2> QED BY <2>1, <1>1, <1>2 DEF ServiceOK
<1>4. LedgerOK
  <2>1. LinesOK(ledgerLines, sealedRoots)
    BY <1>2 DEF LinesOK
  <2>2. <<>> \in Seq(Range(ledgerLines))
    OBVIOUS
  <2> QED BY <2>1, <2>2, <1>1, <1>2 DEF LedgerOK
<1>5. IndexOK
  <2>1. DOMAIN indexRows = {}
    BY <1>1, EmptyFacts
  <2> QED BY <2>1, <1>1 DEF IndexOK
<1>6. VerdictsOK
  BY <1>1 DEF VerdictsOK, JobTyped, EntriesOK, DamageSeen, FailedHasReason, PassedHasProof, Running, NoJob
<1> QED BY <1>3, <1>4, <1>5, <1>6 DEF VerInv

\* What a verification has established stays, while the service goes on and nothing is
\* damaged: bytes are added and none change, lines and rows are added and none change.
LEMMA VerdictsSurvive ==
  ASSUME VerInv, job' = job, corruptions' = corruptions,
         \A u \in DOMAIN stored : u \in DOMAIN stored' /\ stored'[u].intact = stored[u].intact,
         \/ sealedRoots' = sealedRoots
         \/ \E b \in Batches : sealedRoots' = Append(sealedRoots, b),
         \A i \in DOMAIN ledgerLines : i \in DOMAIN ledgerLines' /\ ledgerLines'[i] = ledgerLines[i],
         \A j \in DOMAIN ledgerLines' : j \in DOMAIN ledgerLines \/ ledgerLines'[j].seq = Len(sealedRoots),
         \A u \in DOMAIN indexRows : u \in DOMAIN indexRows' /\ indexRows'[u] = indexRows[u],
         \A u \in DOMAIN indexRows' : u \in DOMAIN indexRows \/ IndexedIn(indexRows, indexRows'[u][1]) = {}
  PROVE  VerdictsOK'
<1>1. JobTyped /\ EntriesOK /\ DamageSeen /\ FailedHasReason /\ PassedHasProof /\ ServiceOK /\ LedgerOK
  BY DEF VerInv, VerdictsOK
<1>2. sealedRoots \in Seq(Batches) /\ LinesOK(ledgerLines, sealedRoots)
  BY <1>1 DEF ServiceOK, LedgerOK
<1>3. ASSUME NEW lines, LinesOK(lines, sealedRoots)
      PROVE  /\ LinesOK(lines, sealedRoots')
             /\ \A i \in DOMAIN lines : Sound(lines[i], sealedRoots') <=> Sound(lines[i], sealedRoots)
  <2>1. CASE sealedRoots' = sealedRoots
    BY <2>1, <1>3
  <2>2. CASE \E b \in Batches : sealedRoots' = Append(sealedRoots, b)
    <3>1. PICK b \in Batches : sealedRoots' = Append(sealedRoots, b)
      BY <2>2
    <3>2. /\ LinesOK(lines, Append(sealedRoots, b))
          /\ \A i \in DOMAIN lines : Sound(lines[i], Append(sealedRoots, b)) <=> Sound(lines[i], sealedRoots)
      BY <1>2, <1>3, LinesStay
    <3> QED BY <3>1, <3>2
  <2> QED BY <2>1, <2>2
<1>4. \A lines : LinesOK(lines, sealedRoots) => \A i \in DOMAIN lines : lines[i].seq # Len(sealedRoots)
  <2>1. DOMAIN sealedRoots = 1..Len(sealedRoots) /\ Len(sealedRoots) \in Nat
    BY <1>2
  <2>2. SUFFICES ASSUME NEW e, LineOK(e, sealedRoots) PROVE e.seq # Len(sealedRoots)
    BY DEF LinesOK
  <2>3. e.seq \in Nat /\ e.seq + 1 <= Len(sealedRoots)
    BY <2>1, <2>2 DEF LineOK
  <2> QED BY <2>1, <2>3
<1>5. \A u \in DOMAIN indexRows : IndexedIn(indexRows', indexRows'[u][1]) = IndexedIn(indexRows, indexRows[u][1])
  BY DEF IndexedIn
<1>6. SUFFICES ASSUME Running PROVE VerdictsOK'
  BY <1>1 DEF VerdictsOK, JobTyped, EntriesOK, DamageSeen, FailedHasReason, PassedHasProof, Running
<1>7. Running' /\ LinesOK(job.entries, sealedRoots) /\ job.listed \subseteq DOMAIN stored
      /\ job.passed \subseteq DOMAIN stored /\ job.failed \subseteq DOMAIN stored
  BY <1>1, <1>6 DEF JobTyped, Running
<1>8. LinesOK(job.entries, sealedRoots')
  BY <1>3, <1>7
<1>9. JobTyped'
  BY <1>1, <1>6, <1>7, <1>8 DEF JobTyped, Running
<1>10. EntriesOK'
  <2>1. ASSUME NEW i \in DOMAIN job.entries, NEW j \in DOMAIN ledgerLines',
               job.entries[i].seq = ledgerLines'[j].seq, Sound(ledgerLines'[j], sealedRoots')
        PROVE  Sound(job.entries[i], sealedRoots')
    <3>1. j \in DOMAIN ledgerLines /\ ledgerLines'[j] = ledgerLines[j]
      BY <2>1, <1>4, <1>7
    <3>2. Sound(ledgerLines[j], sealedRoots)
      BY <2>1, <3>1, <1>2, <1>3
    <3>3. Sound(job.entries[i], sealedRoots)
      BY <2>1, <3>1, <3>2, <1>1, <1>6 DEF EntriesOK
    <3> QED BY <3>3, <1>3, <1>7
  <2>2. job.damaged = corruptions => \A i \in DOMAIN job.entries : i \in DOMAIN ledgerLines' /\ ledgerLines'[i] = job.entries[i]
    BY <1>1, <1>6 DEF EntriesOK
  <2>3. corruptions = 0 => \A i \in DOMAIN job.entries : Sound(job.entries[i], sealedRoots')
    BY <1>1, <1>3, <1>6, <1>7 DEF EntriesOK
  <2> QED BY <2>1, <2>2, <2>3 DEF EntriesOK
<1>11. DamageSeen'
  BY <1>1, <1>6, <1>7 DEF DamageSeen
<1>12. FailedHasReason'
  <2>1. ASSUME NEW u \in job.failed
        PROVE  \/ u \in job.unsealed \/ ~stored'[u].intact
               \/ /\ u \in DOMAIN indexRows'
                  /\ \/ ~(IndexedIn(indexRows', indexRows'[u][1]) \subseteq job.listed)
                     \/ \E i \in DOMAIN job.entries : job.entries[i].seq = indexRows'[u][1] /\ ~Sound(job.entries[i], sealedRoots')
    <3>1. CASE u \in job.unsealed \/ ~stored[u].intact
      BY <3>1, <2>1, <1>7
    <3>2. CASE u \in DOMAIN indexRows /\ ~(IndexedIn(indexRows, indexRows[u][1]) \subseteq job.listed)
      BY <3>2, <1>5
    <3>3. CASE u \in DOMAIN indexRows /\ \E i \in DOMAIN job.entries : job.entries[i].seq = indexRows[u][1] /\ ~Sound(job.entries[i], sealedRoots)
      BY <3>3, <1>3, <1>7
    <3> QED BY <3>1, <3>2, <3>3, <2>1, <1>1, <1>6 DEF FailedHasReason
  <2> QED BY <2>1 DEF FailedHasReason
<1>13. PassedHasProof'
  <2>1. ASSUME NEW u \in job.passed, job.present
        PROVE  /\ u \in DOMAIN indexRows' /\ IndexedIn(indexRows', indexRows'[u][1]) \subseteq job.listed
               /\ job.damaged = corruptions =>
                    /\ stored'[u].intact
                    /\ \E i \in DOMAIN job.entries : job.entries[i].seq = indexRows'[u][1] /\ Sound(job.entries[i], sealedRoots')
    <3>1. /\ u \in DOMAIN indexRows /\ IndexedIn(indexRows, indexRows[u][1]) \subseteq job.listed
          /\ job.damaged = corruptions =>
               /\ stored[u].intact
               /\ \E i \in DOMAIN job.entries : job.entries[i].seq = indexRows[u][1] /\ Sound(job.entries[i], sealedRoots)
      BY <2>1, <1>1, <1>6 DEF PassedHasProof
    <3>2. u \in DOMAIN indexRows' /\ IndexedIn(indexRows', indexRows'[u][1]) \subseteq job.listed
      BY <3>1, <1>5
    <3>3. ASSUME job.damaged = corruptions
          PROVE  /\ stored'[u].intact
                 /\ \E i \in DOMAIN job.entries : job.entries[i].seq = indexRows'[u][1] /\ Sound(job.entries[i], sealedRoots')
      BY <3>1, <3>3, <2>1, <1>3, <1>7
    <3> QED BY <3>2, <3>3
  <2> QED BY <2>1 DEF PassedHasProof
<1> QED BY <1>9, <1>10, <1>11, <1>12, <1>13 DEF VerdictsOK

\* ---- the service ----------------------------------------------------------------------
LEMMA IngestRawKeeps ==
  ASSUME VerInv, IngestRaw
  PROVE  VerInv'
<1> DEFINE new == arrived + 1
<1>1. /\ arrived' = new /\ unflushed' = Plus(unflushed, [u \in {new} |-> today]) /\ openBatch' = Append(openBatch, new)
      /\ UNCHANGED <<stored, ledgerLines, indexRows, unindexed, sealedRoots, corruptions, job>>
  BY DEF IngestRaw
<1>2. ServiceOK
  BY DEF VerInv
<1>3. arrived \in Nat /\ new \in Nat /\ ~(new <= arrived) /\ openBatch \in Seq(Nat) /\ \A u \in Nat : u <= arrived => u <= new
  BY <1>2 DEF ServiceOK
<1>4. new <= new
  BY <1>3
<1>5. Range(openBatch') = Range(openBatch) \cup {new} /\ openBatch' \in Seq(Nat)
  BY <1>1, <1>3, RangeGrows
<1>6. DOMAIN unflushed' = DOMAIN unflushed \cup {new}
  <2>1. DOMAIN [u \in {new} |-> today] = {new}
    OBVIOUS
  <2> QED BY <2>1, <1>1, PlusFacts
<1> HIDE DEF new
<1>7. \A i \in DOMAIN sealedRoots : \A u \in Range(sealedRoots[i]) : u \in Nat
  <2>1. \A i \in DOMAIN sealedRoots : sealedRoots[i] \in Seq(Nat)
    BY <1>2 DEF ServiceOK, Batches
  <2> QED BY <2>1 DEF Range
<1>8. ServiceOK'
  <2>1. \A u \in DOMAIN unflushed' \cup DOMAIN stored' \cup Range(openBatch') : u \in Nat /\ u <= arrived'
    BY <1>1, <1>2, <1>3, <1>4, <1>5, <1>6 DEF ServiceOK
  <2>2. DOMAIN unflushed' \cap DOMAIN stored' = {}
    BY <1>1, <1>2, <1>3, <1>6 DEF ServiceOK
  <2>3. \A i \in DOMAIN sealedRoots' : \A u \in Range(sealedRoots'[i]) : u <= arrived' /\ u \notin Range(openBatch')
    BY <1>1, <1>2, <1>3, <1>5, <1>7 DEF ServiceOK
  <2> QED BY <2>1, <2>2, <2>3, <1>1, <1>2, <1>3, <1>5 DEF ServiceOK
<1>9. LedgerOK' /\ IndexOK'
  BY <1>1 DEF VerInv, LedgerOK, IndexOK
<1>10. VerdictsOK'
  BY <1>1, VerdictsSurvive
<1> QED BY <1>8, <1>9, <1>10 DEF VerInv

LEMMA FlushRawKeeps ==
  ASSUME VerInv, FlushRaw
  PROVE  VerInv'
<1> DEFINE more == [u \in DOMAIN unflushed |-> [date |-> unflushed[u], intact |-> TRUE]]
<1>1. /\ unflushed' = Empty /\ stored' = Plus(stored, more)
      /\ UNCHANGED <<arrived, openBatch, ledgerLines, indexRows, unindexed, sealedRoots, corruptions, job>>
  BY DEF FlushRaw
<1>2. ServiceOK
  BY DEF VerInv
<1>3. DOMAIN more = DOMAIN unflushed /\ \A u \in DOMAIN unflushed : more[u].intact /\ DOMAIN more[u] = {"date", "intact"}
  OBVIOUS
<1> HIDE DEF more
<1>4. /\ DOMAIN stored' = DOMAIN stored \cup DOMAIN unflushed
      /\ \A u \in DOMAIN unflushed : stored'[u].intact /\ DOMAIN stored'[u] = {"date", "intact"}
      /\ \A u \in DOMAIN stored : stored'[u] = stored[u]
  <2>1. /\ DOMAIN Plus(stored, more) = DOMAIN stored \cup DOMAIN more
        /\ \A u \in DOMAIN more : Plus(stored, more)[u] = more[u]
        /\ \A u \in DOMAIN stored : u \notin DOMAIN more => Plus(stored, more)[u] = stored[u]
    BY PlusFacts
  <2>2. DOMAIN unflushed \cap DOMAIN stored = {}
    BY <1>2 DEF ServiceOK
  <2> QED BY <2>1, <2>2, <1>1, <1>3
<1>5. DOMAIN unflushed' = {}
  BY <1>1, EmptyFacts
<1>6. ServiceOK'
  BY <1>1, <1>2, <1>4, <1>5 DEF ServiceOK
<1>7. LedgerOK' /\ IndexOK'
  BY <1>1 DEF VerInv, LedgerOK, IndexOK
<1>8. VerdictsOK'
  BY <1>1, <1>4, VerdictsSurvive
<1> QED BY <1>6, <1>7, <1>8 DEF VerInv

LEMMA KilledKeeps ==
  ASSUME VerInv, Killed
  PROVE  VerInv'
<1>1. /\ unflushed' = Empty /\ openBatch' = <<>> /\ unindexed' = NoEntry
      /\ UNCHANGED <<arrived, stored, ledgerLines, indexRows, sealedRoots, corruptions, job>>
  BY DEF Killed
<1>2. DOMAIN unflushed' = {} /\ Range(openBatch') = {} /\ openBatch' \in Seq(Nat)
  BY <1>1, EmptyFacts
<1>3. ServiceOK'
  BY <1>1, <1>2 DEF VerInv, ServiceOK
<1>4. LedgerOK' /\ IndexOK'
  BY <1>1 DEF VerInv, LedgerOK, IndexOK
<1>5. VerdictsOK'
  BY <1>1, VerdictsSurvive
<1> QED BY <1>3, <1>4, <1>5 DEF VerInv

\* Midnight, the verification's own bookkeeping, and steps of anything else.
LEMMA VerStutters ==
  ASSUME VerInv, UNCHANGED <<arrived, stored, unflushed, openBatch, ledgerLines, indexRows, unindexed, sealedRoots, corruptions, job>>
  PROVE  VerInv'
<1>1. ServiceOK' /\ LedgerOK' /\ IndexOK'
  BY DEF VerInv, ServiceOK, LedgerOK, IndexOK
<1>2. VerdictsOK'
  BY VerdictsSurvive
<1> QED BY <1>1, <1>2 DEF VerInv

LEMMA SealBatchKeeps ==
  ASSUME VerInv, SealBatch
  PROVE  VerInv'
<1> DEFINE r == sealedRoots
           n == Len(r)
           entry == LedgerEntry(n, r, openBatch)
<1>1. /\ openBatch # <<>> /\ unindexed = NoEntry /\ ledgerLines' = Append(ledgerLines, entry) /\ unindexed' = entry
      /\ sealedRoots' = Append(r, openBatch) /\ openBatch' = <<>>
      /\ UNCHANGED <<arrived, stored, unflushed, indexRows, corruptions, job>>
  BY DEF SealBatch
<1>2. ServiceOK /\ LedgerOK /\ IndexOK
  BY DEF VerInv
<1>3. r \in Seq(Batches) /\ openBatch \in Batches
  BY <1>1, <1>2 DEF ServiceOK, Batches
<1>4. /\ sealedRoots' \in Seq(Batches) /\ n \in Nat /\ DOMAIN r = 1..n /\ DOMAIN sealedRoots' = 1..(n + 1)
      /\ \A i \in DOMAIN r : sealedRoots'[i] = r[i]
      /\ sealedRoots'[n + 1] = openBatch
      /\ RootsTo(sealedRoots', n + 1) = sealedRoots'
  BY <1>1, <1>3, RootsGrow
<1>5. n + 1 \in 1..(n + 1) /\ n + 1 \notin 1..n /\ 1..n \subseteq 1..(n + 1) /\ \A i \in 1..(n + 1) : i \in 1..n \/ i = n + 1
  BY <1>4
<1>6. /\ DOMAIN entry = LineFields /\ entry.seq = n /\ entry.batch = openBatch
      /\ entry.chained = sealedRoots' /\ entry.signed = sealedRoots'
  BY <1>1 DEF LedgerEntry, LineFields
<1> HIDE DEF entry, n, r, Batches
<1>7. sealedRoots'[n + 1] # <<>> /\ sealedRoots' # <<<<>>>>
  <2>1. sealedRoots'[n + 1] # <<>>
    BY <1>1, <1>4
  <2>2. CASE sealedRoots' = <<<<>>>>
    <3>1. DOMAIN <<<<>>>> = 1..1 /\ <<<<>>>>[1] = <<>>
      OBVIOUS
    <3>2. n + 1 = 1
      BY <2>2, <3>1, <1>4, <1>5
    <3> QED BY <2>1, <2>2, <3>1, <3>2
  <2> QED BY <2>1, <2>2
<1>8. LineOK(entry, sealedRoots') /\ Sound(entry, sealedRoots')
  BY <1>4, <1>5, <1>6, <1>7 DEF LineOK, Sound
<1>9. ServiceOK'
  <2>1. Range(openBatch') = {} /\ openBatch' \in Seq(Nat)
    BY <1>1, EmptyFacts
  <2>2. \A i \in DOMAIN sealedRoots' : \A u \in Range(sealedRoots'[i]) : u <= arrived'
    BY <1>1, <1>2, <1>4, <1>5 DEF ServiceOK, r
  <2>3. \A i, j \in DOMAIN sealedRoots' : i # j => Range(sealedRoots'[i]) \cap Range(sealedRoots'[j]) = {}
    BY <1>1, <1>2, <1>4, <1>5 DEF ServiceOK, r
  <2> QED BY <2>1, <2>2, <2>3, <1>1, <1>2, <1>4 DEF ServiceOK
<1>10. /\ LinesOK(ledgerLines, r) /\ LinesOK(ledgerLines, sealedRoots')
       /\ \A i \in DOMAIN ledgerLines : Sound(ledgerLines[i], sealedRoots') <=> Sound(ledgerLines[i], r)
  <2>1. LinesOK(ledgerLines, r)
    BY <1>2 DEF LedgerOK, r
  <2>2. /\ LinesOK(ledgerLines, Append(r, openBatch))
        /\ \A i \in DOMAIN ledgerLines : Sound(ledgerLines[i], Append(r, openBatch)) <=> Sound(ledgerLines[i], r)
    BY <2>1, <1>3, LinesStay
  <2> QED BY <2>1, <2>2, <1>1
<1> DEFINE lines == ledgerLines
           m == Len(lines)
           all == Range(ledgerLines) \cup {entry}
<1>11. lines \in Seq(all) /\ entry \in all
  <2>1. lines \in Seq(Range(ledgerLines))
    BY <1>2 DEF LedgerOK
  <2> QED BY <2>1
<1> HIDE DEF lines, m, all
<1>12. /\ ledgerLines' \in Seq(all) /\ m \in Nat /\ DOMAIN lines = 1..m /\ DOMAIN ledgerLines' = 1..(m + 1)
       /\ \A i \in DOMAIN lines : ledgerLines'[i] = lines[i]
       /\ ledgerLines'[m + 1] = entry
  BY <1>11, <1>1, RootsGrow DEF lines, m
<1>13. m + 1 \in 1..(m + 1) /\ m + 1 \notin 1..m /\ 1..m \subseteq 1..(m + 1) /\ \A i \in 1..(m + 1) : i \in 1..m \/ i = m + 1
  BY <1>12
<1>14. \A i \in DOMAIN lines : lines[i].seq # n
  <2>1. ASSUME NEW i \in DOMAIN lines PROVE lines[i].seq \in Nat /\ lines[i].seq + 1 \in 1..n
    BY <1>4, <1>10 DEF LinesOK, LineOK, lines
  <2>2. \A s \in Nat : s + 1 \in 1..n => s # n
    BY <1>4
  <2> QED BY <2>1, <2>2
<1>15. LedgerOK'
  <2>1. \E k \in Nat : DOMAIN ledgerLines' = 1..k
    <3>1. m + 1 \in Nat
      BY <1>12
    <3> QED BY <3>1, <1>12
  <2>2. \A i \in DOMAIN ledgerLines' : LineOK(ledgerLines'[i], sealedRoots')
    BY <1>8, <1>10, <1>12, <1>13 DEF LinesOK, lines
  <2>3. \A i, j \in DOMAIN ledgerLines' : ledgerLines'[i].seq = ledgerLines'[j].seq => i = j
    BY <1>6, <1>10, <1>12, <1>13, <1>14 DEF LinesOK, lines
  <2>4. ledgerLines' \in Seq(Range(ledgerLines'))
    <3>1. all = Range(ledgerLines')
      BY <1>12, <1>13 DEF all, lines, Range
    <3> QED BY <3>1, <1>12
  <2>5. corruptions' = 0 => \A i \in DOMAIN ledgerLines' : Sound(ledgerLines'[i], sealedRoots')
    BY <1>1, <1>2, <1>8, <1>10, <1>12, <1>13 DEF LedgerOK, lines, r
  <2> QED BY <2>1, <2>2, <2>3, <2>4, <2>5 DEF LedgerOK, LinesOK
<1>16. \A u \in DOMAIN indexRows : indexRows[u][1] \in Nat /\ indexRows[u][1] + 1 \in 1..n
  BY <1>2, <1>4 DEF IndexOK, r
<1>17. IndexedIn(indexRows, n) = {}
  <2>1. \A s \in Nat : s + 1 \in 1..n => s # n
    BY <1>4
  <2> QED BY <2>1, <1>16 DEF IndexedIn
<1>18. IndexOK'
  <2>1. ASSUME NEW u \in DOMAIN indexRows
        PROVE  LET s == indexRows[u][1] leaf == indexRows[u][2] IN
               /\ s \in Nat /\ s + 1 \in DOMAIN sealedRoots'
               /\ leaf \in DOMAIN sealedRoots'[s + 1] /\ sealedRoots'[s + 1][leaf] = u
               /\ IndexedIn(indexRows, s) = Range(sealedRoots'[s + 1])
    BY <1>2, <1>4, <1>5, <1>16 DEF IndexOK, r
  <2>2. unindexed'.seq \in Nat /\ unindexed'.seq + 1 \in DOMAIN sealedRoots'
        /\ unindexed'.batch = sealedRoots'[unindexed'.seq + 1] /\ IndexedIn(indexRows, unindexed'.seq) = {}
    BY <1>1, <1>4, <1>5, <1>6, <1>17
  <2> QED BY <2>1, <2>2, <1>1 DEF IndexOK
<1>19. VerdictsOK'
  <2>1. \A i \in DOMAIN ledgerLines : i \in DOMAIN ledgerLines' /\ ledgerLines'[i] = ledgerLines[i]
    BY <1>12, <1>13 DEF lines
  <2>2. \A j \in DOMAIN ledgerLines' : j \in DOMAIN ledgerLines \/ ledgerLines'[j].seq = Len(sealedRoots)
    BY <1>12, <1>13, <1>6 DEF lines, n, r
  <2>3. \E b \in Batches : sealedRoots' = Append(sealedRoots, b)
    BY <1>1, <1>3 DEF r
  <2> QED BY <2>1, <2>2, <2>3, <1>1, VerdictsSurvive
<1> QED BY <1>9, <1>15, <1>18, <1>19 DEF VerInv

LEMMA AddBatchKeeps ==
  ASSUME VerInv, AddBatch
  PROVE  VerInv'
<1> DEFINE b == unindexed.batch
           s == unindexed.seq
           more == [u \in Range(b) |-> <<s, CHOOSE i \in DOMAIN b : b[i] = u>>]
<1>1. /\ unindexed # NoEntry /\ unindexed' = NoEntry /\ indexRows' = Plus(indexRows, more)
      /\ UNCHANGED <<arrived, stored, unflushed, openBatch, ledgerLines, sealedRoots, corruptions, job>>
  BY DEF AddBatch
<1>2. ServiceOK /\ IndexOK
  BY DEF VerInv
<1>3. s \in Nat /\ s + 1 \in DOMAIN sealedRoots /\ b = sealedRoots[s + 1] /\ IndexedIn(indexRows, s) = {}
  BY <1>1, <1>2 DEF IndexOK
<1>4. DOMAIN more = Range(b)
  OBVIOUS
<1>5. \A u \in Range(b) : more[u][1] = s /\ more[u][2] \in DOMAIN b /\ b[more[u][2]] = u
  <2>1. ASSUME NEW u \in Range(b) PROVE (CHOOSE i \in DOMAIN b : b[i] = u) \in DOMAIN b /\ b[CHOOSE i \in DOMAIN b : b[i] = u] = u
    <3>1. \E i \in DOMAIN b : b[i] = u
      BY DEF Range
    <3> QED BY <3>1
  <2> QED BY <2>1
<1> HIDE DEF b, s, more
<1>6. DOMAIN indexRows \cap Range(b) = {}
  <2>1. SUFFICES ASSUME NEW u \in DOMAIN indexRows, u \in Range(b) PROVE FALSE
    OBVIOUS
  <2> DEFINE t == indexRows[u][1]
  <2>2. t \in Nat /\ t + 1 \in DOMAIN sealedRoots /\ u \in Range(sealedRoots[t + 1])
    BY <1>2 DEF IndexOK, Range
  <2>3. t # s
    BY <1>3 DEF IndexedIn
  <2>4. t + 1 # s + 1
    BY <2>2, <2>3, <1>3
  <2>5. Range(sealedRoots[t + 1]) \cap Range(sealedRoots[s + 1]) = {}
    BY <2>2, <2>4, <1>2, <1>3 DEF ServiceOK
  <2> QED BY <2>1, <2>2, <2>5, <1>3
<1>7. /\ DOMAIN indexRows' = DOMAIN indexRows \cup Range(b)
      /\ \A u \in DOMAIN indexRows : indexRows'[u] = indexRows[u]
      /\ \A u \in Range(b) : indexRows'[u] = more[u]
  <2>1. /\ DOMAIN Plus(indexRows, more) = DOMAIN indexRows \cup DOMAIN more
        /\ \A u \in DOMAIN more : Plus(indexRows, more)[u] = more[u]
        /\ \A u \in DOMAIN indexRows : u \notin DOMAIN more => Plus(indexRows, more)[u] = indexRows[u]
    BY PlusFacts
  <2> QED BY <2>1, <1>1, <1>4, <1>6
<1>8. IndexedIn(indexRows', s) = Range(b)
  BY <1>3, <1>5, <1>7 DEF IndexedIn
<1>9. \A t : t # s => IndexedIn(indexRows', t) = IndexedIn(indexRows, t)
  BY <1>5, <1>7 DEF IndexedIn
<1>10. ServiceOK' /\ LedgerOK'
  BY <1>1 DEF VerInv, ServiceOK, LedgerOK
<1>11. IndexOK'
  <2>1. ASSUME NEW u \in DOMAIN indexRows
        PROVE  LET t == indexRows'[u][1] leaf == indexRows'[u][2] IN
               /\ t \in Nat /\ t + 1 \in DOMAIN sealedRoots /\ leaf \in DOMAIN sealedRoots[t + 1] /\ sealedRoots[t + 1][leaf] = u
               /\ IndexedIn(indexRows', t) = Range(sealedRoots[t + 1])
    <3>1. indexRows[u][1] # s
      BY <1>3 DEF IndexedIn
    <3> QED BY <3>1, <1>2, <1>7, <1>9 DEF IndexOK
  <2>2. ASSUME NEW u \in Range(b)
        PROVE  LET t == indexRows'[u][1] leaf == indexRows'[u][2] IN
               /\ t \in Nat /\ t + 1 \in DOMAIN sealedRoots /\ leaf \in DOMAIN sealedRoots[t + 1] /\ sealedRoots[t + 1][leaf] = u
               /\ IndexedIn(indexRows', t) = Range(sealedRoots[t + 1])
    BY <1>3, <1>5, <1>7, <1>8
  <2> QED BY <2>1, <2>2, <1>1, <1>7 DEF IndexOK
<1>12. VerdictsOK'
  <2>1. \A u \in DOMAIN indexRows' : u \in DOMAIN indexRows \/ IndexedIn(indexRows, indexRows'[u][1]) = {}
    BY <1>3, <1>5, <1>7
  <2> QED BY <2>1, <1>1, <1>7, VerdictsSurvive
<1> QED BY <1>10, <1>11, <1>12 DEF VerInv

\* ---- damage -----------------------------------------------------------------------------
LEMMA VerdictsSurviveDamage ==
  ASSUME VerInv, job' = job, corruptions' = corruptions + 1, UNCHANGED <<indexRows, sealedRoots>>,
         \A u \in DOMAIN stored : u \in DOMAIN stored' /\ (stored'[u].intact => stored[u].intact),
         \A j \in DOMAIN ledgerLines' : \E k \in DOMAIN ledgerLines :
           /\ ledgerLines'[j].seq = ledgerLines[k].seq
           /\ Sound(ledgerLines'[j], sealedRoots) => Sound(ledgerLines[k], sealedRoots)
  PROVE  VerdictsOK'
<1>1. JobTyped /\ EntriesOK /\ DamageSeen /\ FailedHasReason /\ PassedHasProof /\ ServiceOK
  BY DEF VerInv, VerdictsOK
<1>2. corruptions' # 0 /\ corruptions \in Nat
  BY <1>1 DEF ServiceOK
<1>3. SUFFICES ASSUME Running PROVE VerdictsOK'
  BY <1>1 DEF VerdictsOK, JobTyped, EntriesOK, DamageSeen, FailedHasReason, PassedHasProof, Running
<1>4. job.damaged # corruptions' /\ job.damaged <= corruptions'
  <2>1. job.damaged \in Nat /\ job.damaged <= corruptions
    BY <1>1, <1>3 DEF JobTyped
  <2> QED BY <2>1, <1>2
<1>5. JobTyped'
  BY <1>1, <1>3, <1>4 DEF JobTyped, Running
<1>6. EntriesOK'
  <2>1. ASSUME NEW i \in DOMAIN job.entries, NEW j \in DOMAIN ledgerLines',
               job.entries[i].seq = ledgerLines'[j].seq, Sound(ledgerLines'[j], sealedRoots)
        PROVE  Sound(job.entries[i], sealedRoots)
    BY <2>1, <1>1, <1>3 DEF EntriesOK
  <2> QED BY <2>1, <1>2, <1>4 DEF EntriesOK
<1>7. DamageSeen' /\ PassedHasProof'
  BY <1>1, <1>3, <1>4 DEF DamageSeen, PassedHasProof, Running
<1>8. FailedHasReason'
  <2>1. job.failed \subseteq DOMAIN stored
    BY <1>1, <1>3 DEF JobTyped
  <2> QED BY <2>1, <1>1, <1>3 DEF FailedHasReason, Running
<1> QED BY <1>5, <1>6, <1>7, <1>8 DEF VerdictsOK

LEMMA DamageBytesKeeps ==
  ASSUME VerInv, NEW u \in DOMAIN stored, DamageBytes(u)
  PROVE  VerInv'
<1>1. /\ corruptions' = corruptions + 1 /\ stored' = [stored EXCEPT ![u].intact = FALSE]
      /\ UNCHANGED <<arrived, unflushed, openBatch, ledgerLines, indexRows, unindexed, sealedRoots, job>>
  BY DEF DamageBytes, Damage
<1>2. ServiceOK
  BY DEF VerInv
<1>3. DOMAIN stored' = DOMAIN stored /\ \A v \in DOMAIN stored : v # u => stored'[v] = stored[v]
  BY <1>1
<1>4. DOMAIN stored'[u] = {"date", "intact"} /\ stored'[u].intact = FALSE
  <2>1. DOMAIN stored[u] = {"date", "intact"}
    BY <1>2 DEF ServiceOK
  <2>2. stored'[u] = [stored[u] EXCEPT !.intact = FALSE]
    BY <1>1
  <2> QED BY <2>1, <2>2
<1>5. corruptions' # 0 /\ corruptions' \in Nat
  BY <1>1, <1>2 DEF ServiceOK
<1>6. ServiceOK'
  BY <1>1, <1>2, <1>3, <1>4, <1>5 DEF ServiceOK
<1>7. LedgerOK' /\ IndexOK'
  BY <1>1, <1>5 DEF VerInv, LedgerOK, IndexOK
<1>8. VerdictsOK'
  BY <1>1, <1>3, <1>4, VerdictsSurviveDamage
<1> QED BY <1>6, <1>7, <1>8 DEF VerInv

\* What each way of damaging a line, or the ledger at a line, makes of it.
DamagedLine(e) == {[e EXCEPT !.reads = FALSE], [e EXCEPT !.batch = <<>>], [e EXCEPT !.signed = <<>>],
                   [e EXCEPT !.prev = <<>>, !.chained = <<e.batch>>]}
DamagedAt(lines, i) == {Removed(lines, i), [lines EXCEPT ![i].reads = FALSE],
                        [lines EXCEPT ![i].batch = <<>>], [lines EXCEPT ![i].signed = <<>>],
                        [lines EXCEPT ![i].prev = <<>>, ![i].chained = <<lines[i].batch>>]}

LEMMA LineDamaged ==
  ASSUME NEW r \in Seq(Batches), NEW e, LineOK(e, r), NEW d \in DamagedLine(e)
  PROVE  LineOK(d, r) /\ d.seq = e.seq /\ (Sound(d, r) => Sound(e, r))
<1> DEFINE n == e.seq + 1
           root == r[n]
           to == RootsTo(r, n)
<1>1. /\ DOMAIN e = {"seq", "prev", "batch", "chained", "signed", "reads"} /\ e.seq \in Nat /\ n \in DOMAIN r
      /\ e.batch \in {root, <<>>} /\ e.signed \in {to, <<>>}
      /\ e.chained \in {to, <<root>>, <<<<>>>>} /\ (e.chained = <<<<>>>> => e.batch = <<>>)
  BY DEF LineOK, LineFields
<1>2. root # <<>> /\ to # <<>> /\ Len(to) = n /\ to[n] = root
  BY <1>1, RootsFacts
<1>3. <<root>> # <<>> /\ <<<<>>>> # <<>> /\ <<e.batch>>[1] = e.batch /\ Len(<<e.batch>>) = 1
  OBVIOUS
<1> HIDE DEF root, to, n
<1>4. /\ DOMAIN d = DOMAIN e /\ d.seq = e.seq
      /\ \/ d.batch = e.batch /\ d.signed = e.signed /\ d.chained = e.chained
         \/ d.batch = <<>> /\ d.signed = e.signed /\ d.chained = e.chained
         \/ d.batch = e.batch /\ d.signed = <<>> /\ d.chained = e.chained
         \/ d.batch = e.batch /\ d.signed = e.signed /\ d.chained = <<e.batch>>
  <2>1. CASE d = [e EXCEPT !.reads = FALSE]
    BY <2>1, <1>1
  <2>2. CASE d = [e EXCEPT !.batch = <<>>]
    BY <2>2, <1>1
  <2>3. CASE d = [e EXCEPT !.signed = <<>>]
    BY <2>3, <1>1
  <2>4. CASE d = [e EXCEPT !.prev = <<>>, !.chained = <<e.batch>>]
    <3>1. d.chained = <<e.batch>>
      BY <2>4, <1>1
    <3> QED BY <3>1, <2>4, <1>1
  <2> QED BY <2>1, <2>2, <2>3, <2>4 DEF DamagedLine
<1>5. /\ d.batch \in {root, <<>>} /\ d.signed \in {to, <<>>}
      /\ d.chained \in {to, <<root>>, <<<<>>>>} /\ (d.chained = <<<<>>>> => d.batch = <<>>)
  <2>1. CASE d.batch = e.batch /\ d.signed = e.signed /\ d.chained = <<e.batch>>
    <3>1. <<e.batch>> = <<<<>>>> => e.batch = <<>>
      <4>1. <<<<>>>>[1] = <<>>
        OBVIOUS
      <4> QED BY <4>1, <1>3
    <3> QED BY <2>1, <3>1, <1>1
  <2> QED BY <2>1, <1>1, <1>4
<1>6. LineOK(d, r)
  BY <1>1, <1>4, <1>5 DEF LineOK, LineFields, n, root, to
<1>7. ASSUME d.batch = root, d.signed = d.chained PROVE e.batch = root /\ e.signed = e.chained
  <2>1. CASE d.batch = <<>>
    BY <2>1, <1>2, <1>7
  <2>2. CASE d.signed = <<>>
    BY <2>2, <1>2, <1>3, <1>5, <1>7
  <2>3. CASE d.batch = e.batch /\ d.signed = e.signed /\ d.chained = <<e.batch>>
    <3>1. e.batch = root /\ e.signed = <<root>>
      BY <2>3, <1>7
    <3>2. to = <<root>>
      BY <3>1, <1>1, <1>3
    <3> QED BY <3>1, <3>2, <1>1, <1>2
  <2> QED BY <2>1, <2>2, <2>3, <1>4, <1>7
<1> QED BY <1>4, <1>6, <1>7 DEF Sound, n, root

\* A line changed in place, or removed: the others stay, in their order.
LEMMA SeqOfOwn ==
  ASSUME NEW s, NEW n \in Nat, s = [j \in 1..n |-> s[j]]
  PROVE  s \in Seq(Range(s))
<1> DEFINE T == {s[j] : j \in 1..n}
<1>1. DOMAIN s = 1..n
  OBVIOUS
<1>2. s \in [1..n -> T]
  OBVIOUS
<1> HIDE DEF T
<1>3. s \in Seq(T)
  BY <1>2, SeqDef
<1>4. T = Range(s)
  BY <1>1 DEF T, Range
<1> QED BY <1>3, <1>4

LEMMA LinesDamaged ==
  ASSUME NEW r \in Seq(Batches), NEW S, NEW lines \in Seq(S), LinesOK(lines, r), NEW i \in DOMAIN lines,
         NEW out \in DamagedAt(lines, i)
  PROVE  /\ LinesOK(out, r) /\ out \in Seq(Range(out))
         /\ \A j \in DOMAIN out : \E k \in DOMAIN lines :
              out[j].seq = lines[k].seq /\ (Sound(out[j], r) => Sound(lines[k], r))
<1>1. Len(lines) \in Nat /\ DOMAIN lines = 1..Len(lines) /\ LineOK(lines[i], r)
  BY LenProperties DEF LinesOK
<1> DEFINE e == lines[i]
<1>2. CASE out = Removed(lines, i)
  <2> DEFINE n == Len(lines)
             At(k) == IF k < i THEN k ELSE k + 1
  <2>1. i \in 1..n /\ n \in Nat /\ i - 1 \in 0..n /\ i + 1 \in 1..(n + 1) /\ n - 1 \in Nat
    BY <1>1
  <2>2. /\ SubSeq(lines, 1, i - 1) \in Seq(S) /\ Len(SubSeq(lines, 1, i - 1)) = i - 1
        /\ \A k \in 1..(i - 1) : SubSeq(lines, 1, i - 1)[k] = lines[k]
    BY <2>1
  <2>3. /\ SubSeq(lines, i + 1, n) \in Seq(S) /\ Len(SubSeq(lines, i + 1, n)) = n - i
        /\ \A k \in 1..(n - i) : SubSeq(lines, i + 1, n)[k] = lines[i + k]
    BY <2>1
  <2> DEFINE a == SubSeq(lines, 1, i - 1)
             b == SubSeq(lines, i + 1, n)
  <2>4. out = a \o b
    BY <1>2 DEF Removed
  <2> HIDE DEF a, b
  <2>5. /\ a \o b \in Seq(S) /\ Len(a \o b) = Len(a) + Len(b)
        /\ \A j \in 1..(Len(a) + Len(b)) : (a \o b)[j] = IF j <= Len(a) THEN a[j] ELSE b[j - Len(a)]
    BY <2>2, <2>3, ConcatProperties DEF a, b
  <2>6. out \in Seq(S) /\ Len(out) = n - 1 /\ DOMAIN out = 1..(n - 1)
    <3>0. Len(a) = i - 1 /\ Len(b) = n - i
      BY <2>2, <2>3 DEF a, b
    <3>1. Len(a) + Len(b) = n - 1
      BY <3>0, <2>1
    <3>2. out \in Seq(S) /\ Len(out) = n - 1
      BY <3>1, <2>4, <2>5
    <3> QED BY <3>2, LenProperties
  <2>7. ASSUME NEW k \in 1..(n - 1) PROVE At(k) \in 1..n /\ out[k] = lines[At(k)]
    <3>0. Len(a) = i - 1 /\ Len(b) = n - i
      BY <2>2, <2>3 DEF a, b
    <3>1. Len(a) = i - 1 /\ Len(b) = n - i /\ k \in 1..(Len(a) + Len(b))
      BY <3>0, <2>1
    <3>2. out[k] = IF k <= i - 1 THEN a[k] ELSE b[k - (i - 1)]
      BY <3>1, <2>4, <2>5
    <3>3. CASE k < i
      BY <3>2, <3>3, <2>1, <2>2 DEF a
    <3>4. CASE ~(k < i)
      <4>1. ~(k <= i - 1) /\ k - (i - 1) \in 1..(n - i) /\ i + (k - (i - 1)) = k + 1 /\ k + 1 \in 1..n
        BY <3>4, <2>1
      <4>2. b[k - (i - 1)] = lines[k + 1]
        BY <4>1, <2>3 DEF b
      <4> QED BY <3>2, <3>4, <4>1, <4>2
    <3> QED BY <3>3, <3>4
  <2>8. \A j, k \in 1..(n - 1) : At(j) = At(k) => j = k
    BY <2>1
  <2> HIDE DEF At, n
  <2>9. LinesOK(out, r)
    <3>1. \A k \in DOMAIN out : At(k) \in DOMAIN lines /\ out[k] = lines[At(k)]
      BY <2>6, <2>7, <1>1 DEF n
    <3>2. \A k \in DOMAIN out : LineOK(out[k], r)
      BY <3>1 DEF LinesOK
    <3>3. \A j, k \in DOMAIN out : out[j].seq = out[k].seq => j = k
      BY <3>1, <2>6, <2>8 DEF LinesOK
    <3> QED BY <3>2, <3>3, <2>1, <2>6 DEF LinesOK
  <2>10. out \in Seq(Range(out))
    <3> DEFINE m == n - 1
    <3>1. m \in Nat /\ out = [j \in 1..m |-> out[j]]
      BY <2>1, <2>6
    <3> HIDE DEF m
    <3> QED BY <3>1, SeqOfOwn
  <2>11. \A j \in DOMAIN out : At(j) \in DOMAIN lines /\ out[j] = lines[At(j)]
    BY <2>6, <2>7, <1>1 DEF n
  <2> QED BY <2>9, <2>10, <2>11
<1>3. CASE \E d \in DamagedLine(e) : out = [lines EXCEPT ![i] = d]
  <2>1. PICK d \in DamagedLine(e) : out = [lines EXCEPT ![i] = d]
    BY <1>3
  <2>2. LineOK(d, r) /\ d.seq = e.seq /\ (Sound(d, r) => Sound(e, r))
    <3>1. LineOK(e, r)
      BY <1>1
    <3> HIDE DEF e
    <3> QED BY <3>1, <2>1, LineDamaged
  <2>3. DOMAIN out = 1..Len(lines) /\ out[i] = d /\ \A k \in DOMAIN lines : k # i => out[k] = lines[k]
    BY <2>1, <1>1
  <2>4. \A k \in DOMAIN lines : out[k].seq = lines[k].seq /\ LineOK(out[k], r) /\ (Sound(out[k], r) => Sound(lines[k], r))
    BY <2>2, <2>3 DEF LinesOK
  <2>5. LinesOK(out, r)
    BY <2>3, <2>4, <1>1 DEF LinesOK
  <2>6. out \in Seq(Range(out))
    <3>1. out = [j \in 1..Len(lines) |-> out[j]]
      BY <2>1, <2>3, <1>1
    <3> QED BY <3>1, <1>1, SeqOfOwn
  <2> QED BY <2>3, <2>4, <2>5, <2>6, <1>1
<1>4. out = Removed(lines, i) \/ \E d \in DamagedLine(e) : out = [lines EXCEPT ![i] = d]
  <2>1. CASE out = [lines EXCEPT ![i].reads = FALSE]
    <3>1. out = [lines EXCEPT ![i] = [e EXCEPT !.reads = FALSE]]
      BY <2>1
    <3> QED BY <3>1 DEF DamagedLine
  <2>2. CASE out = [lines EXCEPT ![i].batch = <<>>]
    <3>1. out = [lines EXCEPT ![i] = [e EXCEPT !.batch = <<>>]]
      BY <2>2
    <3> QED BY <3>1 DEF DamagedLine
  <2>3. CASE out = [lines EXCEPT ![i].signed = <<>>]
    <3>1. out = [lines EXCEPT ![i] = [e EXCEPT !.signed = <<>>]]
      BY <2>3
    <3> QED BY <3>1 DEF DamagedLine
  <2>4. CASE out = [lines EXCEPT ![i].prev = <<>>, ![i].chained = <<lines[i].batch>>]
    <3>1. out = [lines EXCEPT ![i] = [e EXCEPT !.prev = <<>>, !.chained = <<e.batch>>]]
      BY <2>4, <1>1
    <3> QED BY <3>1 DEF DamagedLine
  <2> QED BY <2>1, <2>2, <2>3, <2>4 DEF DamagedAt
<1> QED BY <1>2, <1>3, <1>4

LEMMA DamageLedgerKeeps ==
  ASSUME VerInv, NEW i \in DOMAIN ledgerLines, DamageLedger(i)
  PROVE  VerInv'
<1>1. /\ corruptions' = corruptions + 1
      /\ ledgerLines' \in DamagedAt(ledgerLines, i)
      /\ UNCHANGED <<arrived, stored, unflushed, openBatch, indexRows, unindexed, sealedRoots, job>>
  BY DEF DamageLedger, Damage, DamagedAt
<1>2. ServiceOK /\ LedgerOK
  BY DEF VerInv
<1>3. sealedRoots \in Seq(Batches) /\ LinesOK(ledgerLines, sealedRoots) /\ ledgerLines \in Seq(Range(ledgerLines))
  BY <1>2 DEF ServiceOK, LedgerOK
<1>4. /\ LinesOK(ledgerLines', sealedRoots) /\ ledgerLines' \in Seq(Range(ledgerLines'))
      /\ \A j \in DOMAIN ledgerLines' : \E k \in DOMAIN ledgerLines :
           ledgerLines'[j].seq = ledgerLines[k].seq /\ (Sound(ledgerLines'[j], sealedRoots) => Sound(ledgerLines[k], sealedRoots))
  <2> DEFINE T == Range(ledgerLines)
             out == ledgerLines'
  <2>1. ledgerLines \in Seq(T)
    BY <1>3
  <2> HIDE DEF T
  <2>2. out \in DamagedAt(ledgerLines, i)
    BY <1>1
  <2> HIDE DEF out
  <2>3. /\ LinesOK(out, sealedRoots) /\ out \in Seq(Range(out))
        /\ \A j \in DOMAIN out : \E k \in DOMAIN ledgerLines :
             out[j].seq = ledgerLines[k].seq /\ (Sound(out[j], sealedRoots) => Sound(ledgerLines[k], sealedRoots))
    BY <2>1, <2>2, <1>3, LinesDamaged
  <2> QED BY <2>3 DEF out
<1>5. corruptions' # 0 /\ corruptions' \in Nat
  BY <1>1, <1>2 DEF ServiceOK
<1>6. ServiceOK' /\ IndexOK'
  BY <1>1, <1>5 DEF VerInv, ServiceOK, IndexOK
<1>7. LedgerOK'
  BY <1>1, <1>4, <1>5 DEF LedgerOK
<1>8. VerdictsOK'
  BY <1>1, <1>4, VerdictsSurviveDamage
<1> QED BY <1>6, <1>7, <1>8 DEF VerInv

\* ---- verification ----------------------------------------------------------------------
ServiceVars == <<arrived, stored, unflushed, openBatch, ledgerLines, indexRows, unindexed, sealedRoots, corruptions>>

LEMMA ServiceStays ==
  ASSUME VerInv, UNCHANGED ServiceVars
  PROVE  ServiceOK' /\ LedgerOK' /\ IndexOK'
BY DEF VerInv, ServiceVars, ServiceOK, LedgerOK, IndexOK

LEMMA VerifyBeginsKeeps ==
  ASSUME VerInv, NEW date, VerifyBegins(date)
  PROVE  VerInv'
<1> DEFINE listed == ScanRecords(date)
<1>1. /\ UNCHANGED ServiceVars
      /\ job' = [at |-> "listed", date |-> date, present |-> LedgerPresent, listed |-> listed, left |-> listed,
                entries |-> <<>>, passed |-> {}, failed |-> {}, unsealed |-> {}, damaged |-> corruptions]
  BY DEF VerifyBegins, ServiceVars
<1>2. ServiceOK' /\ LedgerOK' /\ IndexOK'
  BY <1>1, ServiceStays
<1>3. listed \subseteq DOMAIN stored
  BY DEF ScanRecords
<1> HIDE DEF listed
<1>4. /\ DOMAIN job' = JobFields /\ job'.at = "listed" /\ job'.listed = listed /\ job'.left = listed /\ job'.entries = <<>>
      /\ job'.passed = {} /\ job'.failed = {} /\ job'.damaged = corruptions
  BY <1>1 DEF JobFields
<1>5. corruptions \in Nat /\ corruptions <= corruptions
  BY DEF VerInv, ServiceOK
<1>6. DOMAIN <<>> = {} /\ DOMAIN <<>> = 1..0
  OBVIOUS
<1>7. LinesOK(<<>>, sealedRoots')
  BY <1>6 DEF LinesOK
<1>8. UNCHANGED <<stored, corruptions>>
  BY <1>1 DEF ServiceVars
<1>9. JobTyped'
  BY <1>3, <1>4, <1>5, <1>7, <1>8 DEF JobTyped, Running
<1>10. EntriesOK' /\ DamageSeen' /\ FailedHasReason' /\ PassedHasProof'
  BY <1>4, <1>6 DEF EntriesOK, DamageSeen, FailedHasReason, PassedHasProof
<1> QED BY <1>2, <1>9, <1>10 DEF VerInv, VerdictsOK

LEMMA VerifyOpensKeeps ==
  ASSUME VerInv, VerifyOpens
  PROVE  VerInv'
<1>1. job.at = "listed" /\ UNCHANGED ServiceVars
  BY DEF VerifyOpens, ServiceVars
<1>2. ServiceOK' /\ LedgerOK' /\ IndexOK'
  BY <1>1, ServiceStays
<1>3. CASE job' = NoJob
  <2>1. VerdictsOK'
    BY <1>3 DEF VerdictsOK, JobTyped, EntriesOK, DamageSeen, FailedHasReason, PassedHasProof, Running, NoJob
  <2> QED BY <1>2, <2>1 DEF VerInv
<1>4. CASE job' # NoJob
  <2> DEFINE es == IF job.present THEN ledgerLines ELSE <<>>
  <2>1. job' = [job EXCEPT !.at = "proving", !.entries = es]
    BY <1>4 DEF VerifyOpens
  <2>2. Running /\ JobTyped /\ LedgerOK /\ ServiceOK
    BY <1>1 DEF Running, VerInv, VerdictsOK
  <2>3. DOMAIN job = JobFields /\ job # NoJob
    BY <1>1, <2>2 DEF JobTyped, NoJob
  <2>4. /\ job.passed = {} /\ job.failed = {} /\ job.left = job.listed /\ job.listed \subseteq DOMAIN stored
        /\ job.damaged \in Nat /\ job.damaged <= corruptions
    BY <1>1, <2>2 DEF JobTyped
  <2>5. DOMAIN <<>> = {} /\ DOMAIN <<>> = 1..0
    OBVIOUS
  <2>6. LinesOK(es, sealedRoots) /\ \A i \in DOMAIN es : i \in DOMAIN ledgerLines /\ ledgerLines[i] = es[i]
    <3>1. LinesOK(<<>>, sealedRoots)
      BY <2>5 DEF LinesOK
    <3> QED BY <3>1, <2>2, <2>5 DEF LedgerOK
  <2> HIDE DEF es
  <2>7. /\ DOMAIN job' = JobFields /\ job'.at = "proving" /\ job'.listed = job.listed /\ job'.left = job.left /\ job'.entries = es
        /\ job'.passed = {} /\ job'.failed = {} /\ job'.damaged = job.damaged
    BY <2>1, <2>3, <2>4 DEF JobFields
  <2>8. UNCHANGED <<stored, ledgerLines, sealedRoots, corruptions>>
    BY <1>1 DEF ServiceVars
  <2>9. JobTyped'
    BY <2>4, <2>6, <2>7, <2>8 DEF JobTyped, Running
  <2>10. EntriesOK'
    <3>1. ASSUME NEW i \in DOMAIN es, NEW j \in DOMAIN ledgerLines, es[i].seq = ledgerLines[j].seq PROVE es[i] = ledgerLines[j]
      BY <3>1, <2>2, <2>6 DEF LedgerOK, LinesOK
    <3>2. corruptions = 0 => \A i \in DOMAIN es : Sound(es[i], sealedRoots)
      BY <2>2, <2>6 DEF LedgerOK
    <3> QED BY <3>1, <3>2, <2>6, <2>7, <2>8 DEF EntriesOK
  <2>11. DamageSeen' /\ FailedHasReason' /\ PassedHasProof'
    BY <2>4, <2>7 DEF DamageSeen, FailedHasReason, PassedHasProof
  <2> QED BY <1>2, <2>9, <2>10, <2>11 DEF VerInv, VerdictsOK
<1> QED BY <1>3, <1>4

\* The proof of an event against an entry of its batch.
LEMMA EntryFacts ==
  ASSUME NEW es, LinesOK(es, sealedRoots), NEW s, NEW i \in DOMAIN es, es[i].seq = s
  PROVE  EntryOf(es, s) = {i} /\ (CHOOSE k \in EntryOf(es, s) : TRUE) = i
<1>1. EntryOf(es, s) = {i}
  BY DEF EntryOf, LinesOK
<1> QED BY <1>1

LEMMA ProofsFollowEntries ==
  ASSUME IndexOK, ServiceOK, NEW es, LinesOK(es, sealedRoots), NEW cache,
         NEW u \in DOMAIN indexRows, NEW i \in DOMAIN es, es[i].seq = indexRows[u][1], HashOk(u)
  PROVE  /\ Found(u, es)
         /\ ProofOk(u, es, cache) /\ SignatureOk(u, es) <=>
              Sound(es[i], sealedRoots) /\ IndexedIn(indexRows, indexRows[u][1]) \subseteq cache
<1> DEFINE s == indexRows[u][1]
           leaf == indexRows[u][2]
           root == sealedRoots[s + 1]
           e == es[i]
<1>1. EntryOf(es, s) = {i} /\ (CHOOSE k \in EntryOf(es, s) : TRUE) = i
  BY EntryFacts
<1>2. /\ s \in Nat /\ leaf \in DOMAIN root /\ root[leaf] = u /\ IndexedIn(indexRows, s) = Range(root)
      /\ e.batch \in {root, <<>>} /\ e.seq = s
  BY DEF IndexOK, LinesOK, LineOK
<1>3. Found(u, es)
  BY <1>1 DEF Found
<1>4. /\ ProofOk(u, es, cache) <=> /\ BatchLeaves(s, cache) = Range(e.batch)
                                   /\ leaf \in DOMAIN e.batch /\ e.batch[leaf] = u
      /\ SignatureOk(u, es) <=> e.signed = e.chained
  BY <1>1 DEF ProofOk, SignatureOk
<1>5. BatchLeaves(s, cache) = IndexedIn(indexRows, s) \cap cache
  BY DEF BatchLeaves, IndexedIn
<1>6. leaf \in DOMAIN e.batch => e.batch = root
  <2>1. DOMAIN <<>> = {}
    OBVIOUS
  <2> QED BY <2>1, <1>2
<1>7. Sound(e, sealedRoots) <=> e.batch = root /\ e.signed = e.chained
  BY <1>2 DEF Sound
<1> HIDE DEF s, leaf, root, e
<1>8. ProofOk(u, es, cache) /\ SignatureOk(u, es) <=> Sound(e, sealedRoots) /\ IndexedIn(indexRows, s) \subseteq cache
  BY <1>2, <1>4, <1>5, <1>6, <1>7
<1> QED BY <1>3, <1>8 DEF s, e

LEMMA VerifyEventKeeps ==
  ASSUME VerInv, VerifyEvent
  PROVE  VerInv'
<1> DEFINE u == Min(job.left)
           ok == EventPassed(u, job.entries, job.listed, job.present)
<1>1. /\ job.at = "proving" /\ job.left # {} /\ UNCHANGED ServiceVars
      /\ job' = [job EXCEPT !.left = @ \ {u}, !.passed = IF ok THEN @ \cup {u} ELSE @, !.failed = IF ok THEN @ ELSE @ \cup {u},
                           !.unsealed = IF Found(u, job.entries) THEN @ ELSE @ \cup {u}]
  BY DEF VerifyEvent, ServiceVars
<1>2. ServiceOK' /\ LedgerOK' /\ IndexOK'
  BY <1>1, ServiceStays
<1>3. Running /\ JobTyped /\ EntriesOK /\ DamageSeen /\ FailedHasReason /\ PassedHasProof /\ ServiceOK /\ IndexOK
  BY <1>1 DEF Running, VerInv, VerdictsOK
<1>4. /\ DOMAIN job = JobFields /\ job.listed \subseteq DOMAIN stored /\ job.left \subseteq job.listed
      /\ job.passed \subseteq job.listed /\ job.failed \subseteq job.listed
      /\ job.damaged \in Nat /\ job.damaged <= corruptions /\ LinesOK(job.entries, sealedRoots)
  <2>1. job # NoJob
    BY <1>1 DEF NoJob
  <2> QED BY <2>1, <1>3 DEF JobTyped
<1>5. u \in job.left
  <2>1. job.left \subseteq Nat
    BY <1>3, <1>4 DEF ServiceOK
  <2> QED BY <2>1, <1>1, LeastFacts
<1> HIDE DEF u, ok
<1>6. /\ DOMAIN job' = JobFields /\ job'.at = "proving" /\ job'.listed = job.listed /\ job'.left = job.left \ {u}
      /\ job'.entries = job.entries /\ job'.damaged = job.damaged /\ job'.present = job.present
      /\ job'.passed = (IF ok THEN job.passed \cup {u} ELSE job.passed)
      /\ job'.failed = (IF ok THEN job.failed ELSE job.failed \cup {u})
      /\ job'.unsealed = (IF Found(u, job.entries) THEN job.unsealed ELSE job.unsealed \cup {u})
  <2>1. DOMAIN job = {"at", "date", "present", "listed", "left", "entries", "passed", "failed", "unsealed", "damaged"}
    BY <1>4 DEF JobFields
  <2> DEFINE p == IF ok THEN job.passed \cup {u} ELSE job.passed
             f == IF ok THEN job.failed ELSE job.failed \cup {u}
             n == IF Found(u, job.entries) THEN job.unsealed ELSE job.unsealed \cup {u}
  <2>2. job' = [job EXCEPT !.left = job.left \ {u}, !.passed = p, !.failed = f, !.unsealed = n]
    BY <1>1
  <2> HIDE DEF p, f, n
  <2>3. DOMAIN job' = DOMAIN job /\ job'.at = job.at /\ job'.listed = job.listed /\ job'.left = job.left \ {u}
    BY <2>1, <2>2
  <2>4. job'.entries = job.entries /\ job'.damaged = job.damaged /\ job'.present = job.present
    BY <2>1, <2>2
  <2>5. job'.passed = p /\ job'.failed = f /\ job'.unsealed = n
    BY <2>1, <2>2
  <2> QED BY <2>1, <2>3, <2>4, <2>5, <1>1 DEF JobFields, p, f, n
<1>7. UNCHANGED <<stored, ledgerLines, indexRows, sealedRoots, corruptions>>
  BY <1>1 DEF ServiceVars
<1>8. JobTyped'
  BY <1>4, <1>5, <1>6, <1>7 DEF JobTyped, Running
<1>9. EntriesOK'
  BY <1>3, <1>6, <1>7 DEF EntriesOK
<1>10. ok <=> HashOk(u) /\ (job.present => Found(u, job.entries) /\ ProofOk(u, job.entries, job.listed) /\ SignatureOk(u, job.entries))
  BY DEF ok, EventPassed
<1>11. DamageSeen'
  BY <1>3, <1>5, <1>6, <1>7, <1>10 DEF DamageSeen, HashOk
<1>12. ASSUME Found(u, job.entries), HashOk(u)
       PROVE  /\ u \in DOMAIN indexRows
              /\ \E i \in DOMAIN job.entries :
                   /\ job.entries[i].seq = indexRows[u][1]
                   /\ ProofOk(u, job.entries, job.listed) /\ SignatureOk(u, job.entries) <=>
                        Sound(job.entries[i], sealedRoots) /\ IndexedIn(indexRows, indexRows[u][1]) \subseteq job.listed
  <2>1. PICK i \in DOMAIN job.entries : job.entries[i].seq = indexRows[u][1] /\ u \in DOMAIN indexRows
    BY <1>12 DEF Found, EntryOf
  <2> QED BY <2>1, <1>3, <1>4, <1>12, ProofsFollowEntries
<1>13. FailedHasReason'
  <2>1. ASSUME ~ok, Found(u, job.entries), stored[u].intact
        PROVE  /\ u \in DOMAIN indexRows
               /\ \/ ~(IndexedIn(indexRows, indexRows[u][1]) \subseteq job.listed)
                  \/ \E i \in DOMAIN job.entries : job.entries[i].seq = indexRows[u][1] /\ ~Sound(job.entries[i], sealedRoots)
    BY <2>1, <1>10, <1>12 DEF HashOk
  <2> QED BY <2>1, <1>3, <1>6, <1>7 DEF FailedHasReason
<1>14. PassedHasProof'
  <2>1. ASSUME ok, job.present
        PROVE  /\ u \in DOMAIN indexRows /\ IndexedIn(indexRows, indexRows[u][1]) \subseteq job.listed /\ stored[u].intact
               /\ \E i \in DOMAIN job.entries : job.entries[i].seq = indexRows[u][1] /\ Sound(job.entries[i], sealedRoots)
    BY <2>1, <1>10, <1>12 DEF HashOk
  <2> QED BY <2>1, <1>3, <1>6, <1>7 DEF PassedHasProof
<1> QED BY <1>2, <1>8, <1>9, <1>11, <1>13, <1>14 DEF VerInv, VerdictsOK

LEMMA VerifyReportsKeeps ==
  ASSUME VerInv, VerifyReports
  PROVE  VerInv'
<1>1. job.at = "proving" /\ job.left = {} /\ UNCHANGED ServiceVars /\ job' = [job EXCEPT !.at = "reported"]
  BY DEF VerifyReports, ServiceVars
<1>2. ServiceOK' /\ LedgerOK' /\ IndexOK'
  BY <1>1, ServiceStays
<1>3. Running /\ JobTyped /\ EntriesOK /\ DamageSeen /\ FailedHasReason /\ PassedHasProof
  BY <1>1 DEF Running, VerInv, VerdictsOK
<1>4. DOMAIN job = JobFields
  BY <1>1, <1>3 DEF JobTyped, NoJob
<1>5. /\ DOMAIN job' = JobFields /\ job'.at = "reported" /\ job'.listed = job.listed /\ job'.left = job.left
      /\ job'.entries = job.entries /\ job'.damaged = job.damaged /\ job'.present = job.present
      /\ job'.passed = job.passed /\ job'.failed = job.failed /\ job'.unsealed = job.unsealed
  BY <1>1, <1>4 DEF JobFields
<1>6. UNCHANGED <<stored, ledgerLines, indexRows, sealedRoots, corruptions>>
  BY <1>1 DEF ServiceVars
<1>7. JobTyped'
  BY <1>1, <1>3, <1>5, <1>6 DEF JobTyped, Running
<1>8. EntriesOK' /\ DamageSeen'
  BY <1>3, <1>5, <1>6 DEF EntriesOK, DamageSeen
<1>9. FailedHasReason' /\ PassedHasProof'
  BY <1>3, <1>5, <1>6 DEF FailedHasReason, PassedHasProof
<1> QED BY <1>2, <1>7, <1>8, <1>9 DEF VerInv, VerdictsOK

LEMMA VerStepHolds == VerInv /\ [VerNext]_verVars => VerInv'
<1> SUFFICES ASSUME VerInv, [VerNext]_verVars PROVE VerInv'
  OBVIOUS
<1>1. CASE Midnight \/ UNCHANGED verVars
  <2>1. UNCHANGED <<arrived, stored, unflushed, openBatch, ledgerLines, indexRows, unindexed, sealedRoots, corruptions, job>>
    BY <1>1 DEF Midnight, verVars
  <2> QED BY <2>1, VerStutters
<1>2. CASE \E u \in DOMAIN stored : DamageBytes(u)
  BY <1>2, DamageBytesKeeps
<1>3. CASE \E i \in DOMAIN ledgerLines : DamageLedger(i)
  BY <1>3, DamageLedgerKeeps
<1>4. CASE IngestRaw \/ FlushRaw \/ SealBatch \/ AddBatch \/ Killed
  BY <1>4, IngestRawKeeps, FlushRawKeeps, SealBatchKeeps, AddBatchKeeps, KilledKeeps
<1>5. CASE (\E d \in 0..MaxDays : VerifyBegins(d)) \/ VerifyOpens \/ VerifyEvent \/ VerifyReports
  BY <1>5, VerifyBeginsKeeps, VerifyOpensKeeps, VerifyEventKeeps, VerifyReportsKeeps
<1> QED BY <1>1, <1>2, <1>3, <1>4, <1>5 DEF VerNext

\* ---- what follows ----------------------------------------------------------------------
LEMMA CheckedIsSound ==
  ASSUME VerInv, NEW i \in DOMAIN ledgerLines, CheckLine(ledgerLines, i)
  PROVE  i \in DOMAIN sealedRoots /\ ledgerLines[i].seq = i - 1 /\ ledgerLines[i].batch = sealedRoots[i]
         /\ Sound(ledgerLines[i], sealedRoots)
<1> DEFINE e == ledgerLines[i]
           r == sealedRoots
<1>1. r \in Seq(Batches) /\ LinesOK(ledgerLines, r) /\ ledgerLines \in Seq(Range(ledgerLines))
  BY DEF VerInv, ServiceOK, LedgerOK
<1>2. i \in Nat /\ i >= 1 /\ (i # 1 => i - 1 \in DOMAIN ledgerLines)
  <2>1. PICK n \in Nat : DOMAIN ledgerLines = 1..n
    BY <1>1 DEF LinesOK
  <2> QED BY <2>1
<1>3. /\ e.seq = i - 1 /\ e.chained = Append(e.prev, e.batch) /\ e.signed = e.chained
      /\ e.prev = (IF i = 1 THEN <<>> ELSE ledgerLines[i - 1].chained)
  BY DEF CheckLine
<1>4. LineOK(e, r)
  BY <1>1 DEF LinesOK
<1>5. e.chained = RootsTo(r, i) /\ i \in DOMAIN r
  <2>1. e.seq + 1 = i
    BY <1>2, <1>3
  <2> HIDE DEF e, r
  <2> QED BY <2>1, <1>1, <1>3, <1>4, SignedIsSealed DEF LineOK
<1>6. Len(e.chained) = i /\ e.chained[i] = r[i]
  BY <1>1, <1>5, RootsFacts
<1>7. e.prev \in Seq(Seq(Nat)) /\ e.batch \in Seq(Nat)
  <2>1. ASSUME NEW k \in DOMAIN ledgerLines PROVE ledgerLines[k].chained \in Seq(Seq(Nat)) /\ ledgerLines[k].batch \in Seq(Nat)
    <3> DEFINE f == ledgerLines[k]
    <3>1. LineOK(f, r)
      BY <1>1 DEF LinesOK
    <3>2. r[f.seq + 1] \in Seq(Nat) /\ RootsTo(r, f.seq + 1) \in Seq(Batches)
      BY <1>1, <3>1, RootsFacts DEF LineOK, Batches
    <3>3. RootsTo(r, f.seq + 1) \in Seq(Seq(Nat))
      BY <3>2 DEF Batches
    <3>4. <<r[f.seq + 1]>> \in Seq(Seq(Nat)) /\ <<<<>>>> \in Seq(Seq(Nat)) /\ <<>> \in Seq(Nat)
      BY <3>2
    <3> HIDE DEF f
    <3>5. f.chained \in Seq(Seq(Nat)) /\ f.batch \in Seq(Nat)
      BY <3>1, <3>2, <3>3, <3>4 DEF LineOK
    <3> QED BY <3>5 DEF f
  <2>2. <<>> \in Seq(Seq(Nat))
    OBVIOUS
  <2> QED BY <2>1, <2>2, <1>2, <1>3
<1> HIDE DEF e, r
<1>8. Append(e.prev, e.batch)[Len(e.prev) + 1] = e.batch /\ Len(Append(e.prev, e.batch)) = Len(e.prev) + 1
  BY <1>7, AppendProperties
<1>9. e.batch = r[i]
  BY <1>3, <1>6, <1>8
<1>10. Sound(e, r)
  <2>1. e.seq + 1 = i
    BY <1>2, <1>3
  <2> QED BY <2>1, <1>3, <1>9 DEF Sound
<1> QED BY <1>3, <1>5, <1>9, <1>10 DEF e, r

LEMMA VerifiedPrefixHolds == VerInv => VerifiedIsPrefix
<1> SUFFICES ASSUME VerInv PROVE VerifiedIsPrefix
  OBVIOUS
<1> DEFINE bad == {i \in DOMAIN ledgerLines : ~CheckLine(ledgerLines, i)}
           n == VerifyChain(ledgerLines).verified
<1>1. n = (IF bad = {} THEN Len(ledgerLines) ELSE Min(bad) - 1) /\ VerifyChain(ledgerLines).ok = (bad = {})
  BY DEF VerifyChain
<1>2. sealedRoots \in Seq(Batches) /\ ledgerLines \in Seq(Range(ledgerLines)) /\ LinesOK(ledgerLines, sealedRoots)
  BY DEF VerInv, ServiceOK, LedgerOK
<1>3. Len(ledgerLines) \in Nat /\ DOMAIN ledgerLines = 1..Len(ledgerLines)
  BY <1>2, LenProperties
<1>4. bad \subseteq Nat /\ bad \subseteq 1..Len(ledgerLines)
  BY <1>3
<1>5. \A i \in 1..n : i \in DOMAIN ledgerLines /\ CheckLine(ledgerLines, i)
  <2>1. CASE bad = {}
    BY <2>1, <1>1, <1>3
  <2>2. CASE bad # {}
    <3>1. Min(bad) \in bad /\ \A y \in bad : Min(bad) <= y
      BY <2>2, <1>4, LeastFacts
    <3>2. n = Min(bad) - 1 /\ Min(bad) \in 1..Len(ledgerLines)
      BY <2>2, <3>1, <1>1, <1>4
    <3>3. \A i \in 1..n : i \in 1..Len(ledgerLines) /\ ~(Min(bad) <= i)
      <4> HIDE DEF bad, n
      <4> QED BY <3>2, <1>3
    <3>4. \A i \in 1..n : i \in DOMAIN ledgerLines /\ i \notin bad
      BY <3>1, <3>3, <1>3
    <3> QED BY <3>4
  <2> QED BY <2>1, <2>2
<1>6. \A i \in 1..n : i <= Len(sealedRoots) /\ ledgerLines[i].batch = sealedRoots[i]
  <2>1. \A i \in DOMAIN sealedRoots : i <= Len(sealedRoots)
    BY <1>2
  <2> QED BY <2>1, <1>5, CheckedIsSound
<1>7. ChainVerified => n = Len(ledgerLines)
  <2>1. CASE LedgerPresent
    BY <2>1, <1>1 DEF ChainVerified
  <2>2. CASE ~LedgerPresent
    <3>1. DOMAIN sealedRoots = {}
      BY <2>2 DEF LedgerPresent
    <3>2. DOMAIN ledgerLines = {}
      BY <3>1, <1>2 DEF LinesOK, LineOK
    <3> QED BY <3>2, <1>1
  <2> QED BY <2>1, <2>2
<1> QED BY <1>6, <1>7 DEF VerifiedIsPrefix

LEMMA RowsWereSealedHolds == VerInv => VerifiedRowsWereSealed
<1> SUFFICES ASSUME VerInv, NEW i \in DOMAIN ledgerLines, RowVerified(ledgerLines[i])
             PROVE  \E n \in 0..Len(sealedRoots) : ledgerLines[i].chained = SubSeq(sealedRoots, 1, n)
  BY DEF VerifiedRowsWereSealed
<1> DEFINE e == ledgerLines[i]
<1>1. sealedRoots \in Seq(Batches) /\ LineOK(e, sealedRoots)
  BY DEF VerInv, ServiceOK, LedgerOK, LinesOK
<1>2. e.signed = e.chained /\ e.chained = Append(e.prev, e.batch)
  BY DEF RowVerified
<1> HIDE DEF e
<1>3. e.chained = RootsTo(sealedRoots, e.seq + 1)
  BY <1>1, <1>2, SignedIsSealed
<1>4. e.seq + 1 \in 0..Len(sealedRoots)
  <2>1. e.seq + 1 \in DOMAIN sealedRoots
    BY <1>1 DEF LineOK
  <2> QED BY <2>1, <1>1
<1> QED BY <1>3, <1>4 DEF RootsTo, e

LEMMA ReportsHold == VerInv => IntactEventsPass /\ PassedMeansSealed /\ DamagedBytesAreReported
<1> SUFFICES ASSUME VerInv, job.at = "reported" PROVE IntactEventsPass /\ PassedMeansSealed /\ DamagedBytesAreReported
  BY DEF IntactEventsPass, PassedMeansSealed, DamagedBytesAreReported
<1>1. Running /\ JobTyped /\ EntriesOK /\ DamageSeen /\ FailedHasReason /\ PassedHasProof /\ ServiceOK /\ IndexOK
  BY DEF Running, VerInv, VerdictsOK
<1>2. \A u \in DOMAIN indexRows : Listed(u) => IndexedIn(indexRows, indexRows[u][1]) \subseteq job.listed
  BY DEF Listed, IndexedIn
<1>3. IntactEventsPass
  <2>1. SUFFICES ASSUME corruptions = 0, NEW u \in job.failed, u \notin job.unsealed PROVE ~Listed(u)
    BY DEF IntactEventsPass
  <2>2. stored[u].intact /\ \A i \in DOMAIN job.entries : Sound(job.entries[i], sealedRoots)
    BY <2>1, <1>1 DEF JobTyped, EntriesOK, ServiceOK
  <2> QED BY <2>1, <2>2, <1>1, <1>2 DEF FailedHasReason
<1>4. PassedMeansSealed
  <2>1. SUFFICES ASSUME job.present, NEW u \in job.passed PROVE \E i \in DOMAIN sealedRoots : u \in Range(sealedRoots[i])
    BY DEF PassedMeansSealed
  <2>2. u \in DOMAIN indexRows
    BY <2>1, <1>1 DEF PassedHasProof
  <2> DEFINE s == indexRows[u][1]
  <2>3. s + 1 \in DOMAIN sealedRoots /\ u \in Range(sealedRoots[s + 1])
    BY <2>2, <1>1 DEF IndexOK, Range
  <2> QED BY <2>3
<1>5. DamagedBytesAreReported
  BY <1>1 DEF DamagedBytesAreReported, DamageSeen, JobTyped
<1> QED BY <1>3, <1>4, <1>5

LEMMA DamageIsLocal == VerInv => DamageStaysLocal
<1> SUFFICES ASSUME VerInv, job.at = "reported", VerifyChain(ledgerLines).ok, Len(ledgerLines) = Len(sealedRoots),
                    NEW u \in job.failed, stored[u].intact, u \notin job.unsealed, Listed(u)
             PROVE  FALSE
  BY DEF DamageStaysLocal
<1>1. Running /\ JobTyped /\ EntriesOK /\ FailedHasReason /\ IndexOK
  BY DEF Running, VerInv, VerdictsOK
<1>2. u \in DOMAIN indexRows => IndexedIn(indexRows, indexRows[u][1]) \subseteq job.listed
  BY DEF Listed, IndexedIn
<1>3. PICK i \in DOMAIN job.entries : /\ job.entries[i].seq = indexRows[u][1] /\ ~Sound(job.entries[i], sealedRoots)
                                      /\ u \in DOMAIN indexRows
  BY <1>1, <1>2 DEF FailedHasReason
<1> DEFINE s == indexRows[u][1]
<1>4. s \in Nat /\ s + 1 \in DOMAIN sealedRoots
  BY <1>1, <1>3 DEF IndexOK
<1>5. s + 1 \in DOMAIN ledgerLines
  <2>1. sealedRoots \in Seq(Batches) /\ ledgerLines \in Seq(Range(ledgerLines))
    BY DEF VerInv, ServiceOK, LedgerOK
  <2>2. DOMAIN sealedRoots = 1..Len(sealedRoots) /\ DOMAIN ledgerLines = 1..Len(ledgerLines)
    BY <2>1, LenProperties
  <2> QED BY <2>2, <1>4
<1>6. CheckLine(ledgerLines, s + 1)
  BY <1>5 DEF VerifyChain
<1> HIDE DEF s
<1>7. ledgerLines[s + 1].seq = (s + 1) - 1 /\ Sound(ledgerLines[s + 1], sealedRoots)
  BY <1>5, <1>6, CheckedIsSound
<1>8. ledgerLines[s + 1].seq = s
  BY <1>4, <1>7
<1> QED BY <1>1, <1>3, <1>5, <1>7, <1>8 DEF EntriesOK, s

LEMMA PassedStaysHolds == VerInv => PassedStaysProven
<1> SUFFICES ASSUME VerInv, job.at = "reported", job.present, job.damaged = corruptions, NEW u \in job.passed
             PROVE  SingleOk(u) /\ LineageVerified(u)
  BY DEF PassedStaysProven
<1>1. Running /\ JobTyped /\ EntriesOK /\ PassedHasProof /\ IndexOK /\ ServiceOK /\ LedgerOK
  BY DEF Running, VerInv, VerdictsOK
<1>2. /\ u \in DOMAIN indexRows /\ IndexedIn(indexRows, indexRows[u][1]) \subseteq job.listed /\ stored[u].intact
      /\ \E i \in DOMAIN job.entries : job.entries[i].seq = indexRows[u][1] /\ Sound(job.entries[i], sealedRoots)
  BY <1>1 DEF PassedHasProof
<1>3. PICK i \in DOMAIN ledgerLines : ledgerLines[i].seq = indexRows[u][1] /\ Sound(ledgerLines[i], sealedRoots)
  BY <1>1, <1>2 DEF EntriesOK
<1>4. IndexedIn(indexRows, indexRows[u][1]) \subseteq ScanRecords(0)
  <2>1. job.listed \subseteq DOMAIN stored
    BY <1>1 DEF JobTyped
  <2> QED BY <2>1, <1>2 DEF ScanRecords
<1>5. LinesOK(ledgerLines, sealedRoots) /\ HashOk(u)
  BY <1>1, <1>2 DEF LedgerOK, HashOk
<1>6. Found(u, ledgerLines) /\ ProofOk(u, ledgerLines, ScanRecords(0)) /\ SignatureOk(u, ledgerLines)
  <2> DEFINE cache == ScanRecords(0)
  <2> HIDE DEF cache
  <2>1. Found(u, ledgerLines) /\ (ProofOk(u, ledgerLines, cache) /\ SignatureOk(u, ledgerLines) <=>
              Sound(ledgerLines[i], sealedRoots) /\ IndexedIn(indexRows, indexRows[u][1]) \subseteq cache)
    BY <1>1, <1>2, <1>3, <1>5, ProofsFollowEntries
  <2> QED BY <2>1, <1>3, <1>4 DEF cache
<1> QED BY <1>5, <1>6 DEF SingleOk, LineageVerified, EventPassed

\* Whatever is ingested, sealed and damaged while it runs, a verification is sound and local:
\* what passes was sealed and stays proven, what was damaged is reported, nothing intact is,
\* and what the chain walk verified is a beginning of what was sealed.
THEOREM VerdictsHold == VerSpec => []VerdictsAreRight
<1>1. VerInv => VerdictsAreRight
  BY VerifiedPrefixHolds, RowsWereSealedHolds, ReportsHold, DamageIsLocal, PassedStaysHolds DEF VerdictsAreRight
<1> QED BY <1>1, VerInitHolds, VerStepHolds, PTL DEF VerSpec
=============================================================================
