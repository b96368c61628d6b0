----------------------------- MODULE Verification -----------------------------
(***************************************************************************)
(* `ulpf verify chain | events | event` and the /integrity API, run against  *)
(* the files of a service that goes on storing and sealing.  A hash is what   *)
(* it is the hash of; a chained root is the sequence of batches under it.     *)
(***************************************************************************)
EXTENDS Naturals, Sequences, FiniteSets, SequencesExt

CONSTANTS MaxUids, MaxDays, LeavesPerBatch, MaxCorrupt, MaxVerifies

VARIABLES today, arrived,   \* uids are numbered as they arrive
          stored,    \* bronze: uid -> [date, intact]
          unflushed,        \* RawStore's buffer: uid -> date
          openBatch,        \* IntegrityStage's pending leaves
          ledgerLines, indexRows,   \* ledger.ndjson; uid -> <<seq, leaf>>
          unindexed,        \* the entry written and not yet indexed, if any
          sealedRoots,      \* every batch ever sealed, in order
          corruptions, job, verifies
verVars == <<today, arrived, stored, unflushed, openBatch, ledgerLines, indexRows, unindexed, sealedRoots, corruptions, job, verifies>>

NoEntry == [seq |-> 0, chained |-> <<>>]
NoJob == [at |-> "idle"]
Plus(f, g) == [x \in DOMAIN f \cup DOMAIN g |-> IF x \in DOMAIN g THEN g[x] ELSE f[x]]
Empty == [x \in {} |-> 0]

\* ---- the service ---------------------------------------------------------------
IngestRaw ==
  /\ arrived < MaxUids /\ Len(openBatch) < LeavesPerBatch /\ arrived' = arrived + 1
  /\ unflushed' = Plus(unflushed, [u \in {arrived'} |-> today]) /\ openBatch' = Append(openBatch, arrived')
  /\ UNCHANGED <<today, stored, ledgerLines, indexRows, unindexed, sealedRoots, corruptions, job, verifies>>
FlushRaw ==
  /\ unflushed # Empty /\ unflushed' = Empty
  /\ stored' = Plus(stored, [u \in DOMAIN unflushed |-> [date |-> unflushed[u], intact |-> TRUE]])
  /\ UNCHANGED <<today, arrived, openBatch, ledgerLines, indexRows, unindexed, sealedRoots, corruptions, job, verifies>>
\* append_batch: chained to the last root, signed, one line.
LedgerEntryFromZero(seq, before, leaves) ==   \* numbered per process
  [seq |-> 0, prev |-> before, batch |-> leaves, chained |-> Append(before, leaves), signed |-> Append(before, leaves), reads |-> TRUE]
LedgerEntry(seq, before, leaves) ==
  [seq |-> seq, prev |-> before, batch |-> leaves, chained |-> Append(before, leaves), signed |-> Append(before, leaves), reads |-> TRUE]
SealBatch ==
  /\ openBatch # <<>> /\ unindexed = NoEntry
  /\ LET entry == LedgerEntry(Len(sealedRoots), sealedRoots, openBatch)
     IN ledgerLines' = Append(ledgerLines, entry) /\ unindexed' = entry
  /\ sealedRoots' = Append(sealedRoots, openBatch) /\ openBatch' = <<>>
  /\ UNCHANGED <<today, arrived, stored, unflushed, indexRows, corruptions, job, verifies>>
AddBatch ==
  /\ unindexed # NoEntry /\ unindexed' = NoEntry
  /\ indexRows' = Plus(indexRows, [u \in Range(unindexed.batch) |-> <<unindexed.seq, CHOOSE i \in DOMAIN unindexed.batch : unindexed.batch[i] = u>>])
  /\ UNCHANGED <<today, arrived, stored, unflushed, openBatch, ledgerLines, sealedRoots, corruptions, job, verifies>>
Midnight == today < MaxDays /\ today' = today + 1
            /\ UNCHANGED <<arrived, stored, unflushed, openBatch, ledgerLines, indexRows, unindexed, sealedRoots, corruptions, job, verifies>>
\* The process dies; one that restarts finds a ledger it can read (the rest is Integrity's).
Killed == /\ corruptions = 0 /\ unflushed' = Empty /\ openBatch' = <<>> /\ unindexed' = NoEntry
          /\ UNCHANGED <<today, arrived, stored, ledgerLines, indexRows, sealedRoots, corruptions, job, verifies>>

\* ---- damage ----------------------------------------------------------------------
Damage == corruptions < MaxCorrupt /\ corruptions' = corruptions + 1
DamageBytes(u) ==
  /\ Damage /\ u \in DOMAIN stored /\ stored' = [stored EXCEPT ![u].intact = FALSE]
  /\ UNCHANGED <<today, arrived, unflushed, openBatch, ledgerLines, indexRows, unindexed, sealedRoots, job, verifies>>
Removed(lines, i) == SubSeq(lines, 1, i - 1) \o SubSeq(lines, i + 1, Len(lines))
DamageLedger(i) ==
  /\ Damage
  /\ ledgerLines' \in {Removed(ledgerLines, i), [ledgerLines EXCEPT ![i].reads = FALSE],
                       [ledgerLines EXCEPT ![i].batch = <<>>], [ledgerLines EXCEPT ![i].signed = <<>>],
                       [ledgerLines EXCEPT ![i].prev = <<>>, ![i].chained = <<ledgerLines[i].batch>>]}
  /\ UNCHANGED <<today, arrived, stored, unflushed, openBatch, indexRows, unindexed, sealedRoots, job, verifies>>

\* ---- verify chain ------------------------------------------------------------------
\* _check_line: position, link to the previous line, root, signature.
CheckLine(lines, i) ==
  /\ lines[i].reads /\ lines[i].seq = i - 1
  /\ lines[i].prev = (IF i = 1 THEN <<>> ELSE lines[i - 1].chained)
  /\ lines[i].chained = Append(lines[i].prev, lines[i].batch)
  /\ lines[i].signed = lines[i].chained
\* run_verify_chain, POST /verify/chain, GET /status: up to the first bad line.
VerifyChain(lines) ==
  LET bad == {i \in DOMAIN lines : ~CheckLine(lines, i)}
  IN [ok |-> bad = {}, verified |-> IF bad = {} THEN Len(lines) ELSE Min(bad) - 1]
\* GET /status: nothing to contradict when there is no ledger.
LedgerPresent == sealedRoots # <<>>
ChainVerified == LedgerPresent => VerifyChain(ledgerLines).ok
\* ledger.entries(): an unreadable line is an error.
EntriesRaise(lines) == \E i \in DOMAIN lines : ~lines[i].reads
\* GET /ledger: each row on its own.
RowVerified(e) == e.reads /\ e.signed = e.chained /\ e.chained = Append(e.prev, e.batch)

\* ---- verify events -------------------------------------------------------------------
\* _scan_records: the records of one partition; date 0 is every date.
ScanRecords(date) == {u \in DOMAIN stored : date = 0 \/ stored[u].date = date}
\* The bronze of that date is listed, and is the cache the leaves of a batch are taken from.
VerifyBegins(date) ==
  /\ job = NoJob /\ verifies < MaxVerifies /\ verifies' = verifies + 1
  /\ LET listed == ScanRecords(date)
     IN job' = [at |-> "listed", date |-> date, present |-> LedgerPresent, listed |-> listed, left |-> listed,
                entries |-> <<>>, passed |-> {}, failed |-> {}, unsealed |-> {}, damaged |-> corruptions]
  /\ UNCHANGED <<today, arrived, stored, unflushed, openBatch, ledgerLines, indexRows, unindexed, sealedRoots, corruptions>>
\* ProofBuilder reads the entries once; an unreadable line is an error.
VerifyOpens ==
  /\ job.at = "listed"
  /\ job' = IF job.present /\ EntriesRaise(ledgerLines) THEN NoJob
            ELSE [job EXCEPT !.at = "proving", !.entries = IF job.present THEN ledgerLines ELSE <<>>]
  /\ UNCHANGED <<today, arrived, stored, unflushed, openBatch, ledgerLines, indexRows, unindexed, sealedRoots, corruptions, verifies>>

\* for_event: the bytes, the index, the batch's leaves, the signature.  The proof
\* recomputes the batch's root when every leaf is the one that was sealed.
HashOk(u) == stored[u].intact
EntryOf(entries, seq) == {i \in DOMAIN entries : entries[i].seq = seq}
Found(u, entries) == u \in DOMAIN indexRows /\ EntryOf(entries, indexRows[u][1]) # {}
BatchLeaves(seq, cache) == {v \in DOMAIN indexRows : indexRows[v][1] = seq /\ v \in cache}
ProofOk(u, entries, cache) ==
  LET entry == entries[CHOOSE i \in EntryOf(entries, indexRows[u][1]) : TRUE]
      leaf == indexRows[u][2]
  IN /\ HashOk(u) /\ BatchLeaves(indexRows[u][1], cache) = Range(entry.batch)
     /\ leaf \in DOMAIN entry.batch /\ entry.batch[leaf] = u
SignatureOk(u, entries) == LET e == entries[CHOOSE i \in EntryOf(entries, indexRows[u][1]) : TRUE] IN e.signed = e.chained
EventPassed(u, entries, cache, present) ==
  HashOk(u) /\ (present => Found(u, entries) /\ ProofOk(u, entries, cache) /\ SignatureOk(u, entries))
\* `verify event U` and GET /proof/U: no cache, the store is read for each leaf.
SingleOk(u) == EventPassed(u, ledgerLines, ScanRecords(0), TRUE)
\* GET /events/U/lineage: ledger_verified.
LineageVerified(u) == Found(u, ledgerLines) /\ ProofOk(u, ledgerLines, ScanRecords(0)) /\ SignatureOk(u, ledgerLines)
VerifyEvent ==
  /\ job.at = "proving" /\ job.left # {}
  /\ LET u == Min(job.left)
         ok == EventPassed(u, job.entries, job.listed, job.present)
     IN job' = [job EXCEPT !.left = @ \ {u}, !.passed = IF ok THEN @ \cup {u} ELSE @, !.failed = IF ok THEN @ ELSE @ \cup {u},
                           !.unsealed = IF Found(u, job.entries) THEN @ ELSE @ \cup {u}]
  /\ UNCHANGED <<today, arrived, stored, unflushed, openBatch, ledgerLines, indexRows, unindexed, sealedRoots, corruptions, verifies>>
VerifyReports == /\ job.at = "proving" /\ job.left = {} /\ job' = [job EXCEPT !.at = "reported"]
                 /\ UNCHANGED <<today, arrived, stored, unflushed, openBatch, ledgerLines, indexRows, unindexed, sealedRoots, corruptions, verifies>>

VerInit == /\ today = 1 /\ arrived = 0 /\ stored = Empty /\ unflushed = Empty /\ openBatch = <<>> /\ ledgerLines = <<>> /\ indexRows = Empty
           /\ unindexed = NoEntry /\ sealedRoots = <<>> /\ corruptions = 0 /\ job = NoJob /\ verifies = 0
VerNext == \/ \E u \in DOMAIN stored : DamageBytes(u)
           \/ IngestRaw \/ FlushRaw \/ SealBatch \/ AddBatch \/ Midnight \/ Killed
           \/ \E i \in DOMAIN ledgerLines : DamageLedger(i)
           \/ \E d \in 0..MaxDays : VerifyBegins(d)
           \/ VerifyOpens \/ VerifyEvent \/ VerifyReports
VerSpec == VerInit /\ [][VerNext]_verVars

\* ---- properties -------------------------------------------------------------------------
\* What the walk verified before the first break is a beginning of what was sealed, all
\* of the ledger when it reports none: no line altered, removed before the end, moved
\* or taken from elsewhere (IntegrityLedger.verify_chain).
VerifiedIsPrefix ==
  /\ ChainVerified => VerifyChain(ledgerLines).verified = Len(ledgerLines)
  /\ \A i \in 1..VerifyChain(ledgerLines).verified : i <= Len(sealedRoots) /\ ledgerLines[i].batch = sealedRoots[i]

Listed(u) == \A v \in DOMAIN indexRows : indexRows[v][1] = indexRows[u][1] => v \in job.listed
\* An event that is indexed, in a batch whose bronze was all listed, is not reported
\* unless something was damaged: sealing and flushing during the run do not matter.  (A
\* run of one date lists that date only, and so fails a batch that spans midnight.)
IntactEventsPass ==
  job.at = "reported" /\ corruptions = 0 => \A u \in job.failed : u \in job.unsealed \/ ~Listed(u)

\* An event that passes where there is a ledger is in a batch that was sealed.
PassedMeansSealed ==
  job.at = "reported" /\ job.present =>
    \A u \in job.passed : \E i \in DOMAIN sealedRoots : u \in Range(sealedRoots[i])

\* Bytes damaged before a verification began are reported by it, whenever the event
\* was flushed, sealed and indexed relative to the steps of the run.
DamagedBytesAreReported ==
  job.at = "reported" /\ job.damaged = corruptions => \A u \in job.listed : ~stored[u].intact => u \in job.failed

\* One damaged event is that event's failure alone: its batch's other events keep
\* their proofs, whose leaves are the recorded hashes (proofs.py, _batch_leaves).
DamageStaysLocal ==
  job.at = "reported" /\ VerifyChain(ledgerLines).ok /\ Len(ledgerLines) = Len(sealedRoots) =>
    \A u \in job.failed : stored[u].intact => u \in job.unsealed \/ ~Listed(u)

\* A row the ledger page marks verified carries a root that was once the chain's head,
\* whatever was done to the other rows.
VerifiedRowsWereSealed ==
  \A i \in DOMAIN ledgerLines : RowVerified(ledgerLines[i]) =>
    \E n \in 0..Len(sealedRoots) : ledgerLines[i].chained = SubSeq(sealedRoots, 1, n)

\* What a run over the store passed, `verify event`, GET /proof and the lineage of the
\* event pass afterwards, as long as nothing was damaged since.
PassedStaysProven ==
  job.at = "reported" /\ job.present /\ job.damaged = corruptions => \A u \in job.passed : SingleOk(u) /\ LineageVerified(u)

\* Verification is sound and local: what passes was sealed and stays proven, what was
\* damaged is reported, and nothing intact is.
VerdictsAreRight ==
  /\ VerifiedIsPrefix /\ IntactEventsPass /\ PassedMeansSealed /\ DamagedBytesAreReported
  /\ DamageStaysLocal /\ VerifiedRowsWereSealed /\ PassedStaysProven
=============================================================================
