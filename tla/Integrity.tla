----------------------------- MODULE Integrity -----------------------------
(***************************************************************************)
(* The evidence path: RawStoreStage buffers each raw event for the bronze  *)
(* store (ulpf/sinks/raw_store.py), IntegrityStage batches the event hashes *)
(* (ulpf/integrity/stage.py), and sealing a batch appends one chained,     *)
(* signed entry to the ledger (ledger.py) and then one row per event to the *)
(* index (index.py), from which inclusion proofs are rebuilt (proofs.py).  *)
(*                                                                         *)
(* Bronze, the ledger file and the index survive a crash; the two buffers, *)
(* the ledger's cached tail and the timeout watcher do not.  A seal writes *)
(* two files, so it is two steps, and the process may die before, between  *)
(* and in the middle of them (a torn ledger line has no newline, though it *)
(* may lack nothing else: the next entry is appended to the same line,     *)
(* which is then unreadable).                                              *)
(*                                                                         *)
(* Hashes are free: a Merkle root is the sequence of its leaves, a chained *)
(* root the sequence of the batch roots up to it.  Merkle is a module of   *)
(* its own.  An event stands for its event_uid and its raw_hash.           *)
(***************************************************************************)
EXTENDS Integers, Sequences, FiniteSets, Functions

CONSTANTS
    Events,
    BatchSize,       \* integrity.batch_size
    MaxBuffered,     \* RawStore max_buffered_records
    MaxDeliveries,   \* bound: Events -> times its event_uid reaches the stages
    MaxCrashes,      \* bound: crashes of the process
    MaxTears,        \* bound: ledger writes cut short
    MaxSealFailures, \* bound: ledger appends and index commits that raise
    MaxRawFailures,  \* bound: bronze flushes that raise
    MaxStarts        \* bound: starts of the process

ASSUME IntegrityAssumption ==
    /\ BatchSize \in Nat \ {0} /\ MaxBuffered \in Nat \ {0}
    /\ MaxDeliveries \in [Events -> Nat]
    /\ {MaxCrashes, MaxTears, MaxSealFailures, MaxRawFailures, MaxStarts}
          \subseteq Nat

VARIABLES
    bronze,    \* set of events on disk in the bronze store
    lfile,     \* the lines of ledger.ndjson
    tornTail,  \* the last line has no newline
    index,     \* set of rows [uid, seq, leaf] of event_index, uid its key
    phase,     \* "down", "up" or "closing"
    rawbuf,    \* RawStore._buffer
    pending,   \* IntegrityStage._pending
    batch,     \* the batch _seal has swapped out of pending
    pc,        \* where _seal is: "idle", "append" or "index"
    trigger,   \* why: "size", "timeout" or "shutdown"
    nextSeq,   \* IntegrityLedger._next_seq
    prevRoot,  \* IntegrityLedger._prev_chained_root
    watcher,   \* IntegrityStage._watcher: "none", "on" or "dead"
    hashed,    \* history: events hashed since the process started
    outcome,   \* history: how the last process ended: "none", "clean", "unclean"
    deliveries, crashes, tears, sealFailures, rawFailures, starts

disk     == <<bronze, lfile, tornTail, index>>
sealing  == <<batch, pc, trigger>>
tail     == <<nextSeq, prevRoot>>
history  == <<hashed, outcome>>
counters == <<deliveries, crashes, tears, sealFailures, rawFailures, starts>>
vars     == <<disk, phase, rawbuf, pending, sealing, tail, watcher, history, counters>>

Init ==
    /\ bronze = {} /\ lfile = <<>> /\ tornTail = FALSE /\ index = {}
    /\ phase = "down" /\ rawbuf = <<>> /\ pending = <<>>
    /\ batch = <<>> /\ pc = "idle" /\ trigger = "size"
    /\ nextSeq = 0 /\ prevRoot = <<>> /\ watcher = "none"
    /\ hashed = {} /\ outcome = "none"
    /\ deliveries = [e \in Events |-> 0]
    /\ crashes = 0 /\ tears = 0 /\ sealFailures = 0 /\ rawFailures = 0 /\ starts = 0

-----------------------------------------------------------------------------
(* The ledger.                                                             *)

\* A line from_json raises on, and the ones it reads.
Bad == [seq |-> -1, root |-> <<>>, prev |-> <<>>, chained |-> <<>>]
Readable(l) == l.seq >= 0

\* The first n lines are those before the first unreadable one: what __init__
\* replays.
GoodPrefix(n) ==
    /\ \A i \in 1..n : Readable(lfile[i])
    /\ n < Len(lfile) => ~Readable(lfile[n + 1])

\* chain_roots(prev, root), the free hash.
chain_roots(prev, root) == Append(prev, root)

\* The entry append_batch builds for a batch of leaves.
Entry(leaves) ==
    [seq |-> nextSeq, root |-> leaves, prev |-> prevRoot,
     chained |-> chain_roots(prevRoot, leaves)]

\* Mutant: the file is opened for writing, not for appending.
OverwriteFile(l) == <<l>>

\* Opening the file "a": behind a torn line, the entry ends up in that line.
AppendLine(l) == IF tornTail THEN [lfile EXCEPT ![Len(lfile)] = Bad] ELSE Append(lfile, l)

\* The write of the batch's line is cut short: somewhere in the JSON text, or
\* just before its newline.
TornWrite ==
    /\ \E l \in {Bad, Entry(batch)} : lfile' = AppendLine(l)
    /\ tornTail' = TRUE

\* _check_line: the line's position, its link, its own hash (and so its signature).
LineSound(f, i) ==
    /\ Readable(f[i])
    /\ f[i].seq = i - 1
    /\ f[i].prev = IF i = 1 THEN <<>> ELSE f[i - 1].chained
    /\ chain_roots(f[i].prev, f[i].root) = f[i].chained

\* Mutant: the cached number is the last entry's, not the next one's.
StartAtLast ==
    /\ phase = "down" /\ starts < MaxStarts
    /\ starts' = starts + 1
    /\ phase' = "up"
    /\ \E n \in 0..Len(lfile) :
         /\ GoodPrefix(n)
         /\ nextSeq'  = IF n = 0 THEN -1 ELSE lfile[n].seq
         /\ prevRoot' = IF n = 0 THEN <<>> ELSE lfile[n].chained
    /\ rawbuf' = <<>> /\ pending' = <<>> /\ watcher' = "none"
    /\ hashed' = {} /\ outcome' = "none"
    /\ UNCHANGED <<disk, sealing, deliveries, crashes, tears, sealFailures, rawFailures>>

\* IntegrityLedger.__init__ and a fresh stage: the cached tail comes from disk.
Start ==
    /\ phase = "down" /\ starts < MaxStarts
    /\ starts' = starts + 1
    /\ phase' = "up"
    /\ \E n \in 0..Len(lfile) :
         /\ GoodPrefix(n)
         /\ nextSeq'  = IF n = 0 THEN 0 ELSE lfile[n].seq + 1
         /\ prevRoot' = IF n = 0 THEN <<>> ELSE lfile[n].chained
    /\ rawbuf' = <<>> /\ pending' = <<>> /\ watcher' = "none"
    /\ hashed' = {} /\ outcome' = "none"
    /\ UNCHANGED <<disk, sealing, deliveries, crashes, tears, sealFailures, rawFailures>>

-----------------------------------------------------------------------------
(* RawStoreStage.process, then IntegrityStage.process.                     *)

\* RawStore.write of e: buffered, and flushed when the buffer is full or old.
RawWrite(e) ==
    LET buf == Append(rawbuf, e) IN
    \/ /\ Len(buf) < MaxBuffered
       /\ rawbuf' = buf /\ UNCHANGED bronze
    \/ /\ bronze' = bronze \cup Range(buf) /\ rawbuf' = <<>>

\* RawStore.flush raises partway: some of the records are on disk, all of them
\* are still buffered.
RawFlushFails(buf) ==
    /\ rawFailures < MaxRawFailures /\ rawFailures' = rawFailures + 1
    /\ rawbuf' = buf
    /\ \E n \in 0..Len(buf) : bronze' = bronze \cup Range(SubSeq(buf, 1, n))

\* Mutant: the timeout poll is never started.
AccumulateNoWatcher(e) ==
    LET more == Append(pending, e) IN
    /\ hashed' = hashed \cup {e}
    /\ IF Len(more) >= BatchSize
         THEN pending' = <<>> /\ batch' = more /\ pc' = "append" /\ trigger' = "size"
         ELSE pending' = more /\ UNCHANGED sealing
    /\ UNCHANGED watcher

\* IntegrityStage.process of e: start the watcher, add the hash, and when the
\* batch is full swap it out and seal it.
Accumulate(e) ==
    LET more == Append(pending, e) IN
    /\ watcher' = IF watcher = "none" THEN "on" ELSE watcher
    /\ hashed' = hashed \cup {e}
    /\ IF Len(more) >= BatchSize
         THEN pending' = <<>> /\ batch' = more /\ pc' = "append" /\ trigger' = "size"
         ELSE pending' = more /\ UNCHANGED sealing

Process(e) ==
    /\ phase = "up" /\ pc = "idle"
    /\ deliveries[e] < MaxDeliveries[e]
    /\ deliveries' = [deliveries EXCEPT ![e] = @ + 1]
    /\ RawWrite(e)
    /\ Accumulate(e)
    /\ UNCHANGED <<lfile, tornTail, index, phase, tail, outcome, crashes, tears,
                   sealFailures, rawFailures, starts>>

\* The bronze flush raises: the event is dead-lettered before it is hashed,
\* its record stays in the buffer with those not yet on disk.
ProcessRawFails(e) ==
    /\ phase = "up" /\ pc = "idle"
    /\ deliveries[e] < MaxDeliveries[e]
    /\ deliveries' = [deliveries EXCEPT ![e] = @ + 1]
    /\ RawFlushFails(Append(rawbuf, e))
    /\ UNCHANGED <<lfile, tornTail, index, phase, pending, sealing, tail, watcher, history,
                   crashes, tears, sealFailures, starts>>

-----------------------------------------------------------------------------
(* _seal.                                                                  *)

\* The watcher finds the open batch older than batch_timeout_seconds.
WatchTimeout ==
    /\ phase = "up" /\ pc = "idle" /\ watcher = "on"
    /\ pending # <<>>
    /\ batch' = pending /\ pending' = <<>>
    /\ pc' = "append" /\ trigger' = "timeout"
    /\ UNCHANGED <<disk, phase, rawbuf, tail, watcher, history, counters>>

\* Mutant: the entry is written, but the cached sequence number stays behind.
SealAppendNoSeq ==
    /\ pc = "append"
    /\ lfile' = AppendLine(Entry(batch)) /\ tornTail' = FALSE
    /\ prevRoot' = chain_roots(prevRoot, batch)
    /\ pc' = "index"
    /\ UNCHANGED <<bronze, index, phase, rawbuf, pending, batch, trigger, nextSeq, watcher,
                   history, counters>>

\* append_batch: write the entry, then advance the cached tail.
SealAppend ==
    /\ pc = "append"
    /\ lfile' = AppendLine(Entry(batch)) /\ tornTail' = FALSE
    /\ nextSeq' = nextSeq + 1
    /\ prevRoot' = chain_roots(prevRoot, batch)
    /\ pc' = "index"
    /\ UNCHANGED <<bronze, index, phase, rawbuf, pending, batch, trigger, watcher,
                   history, counters>>

\* Mutant: the leaf numbers of a batch start at one.
RowsFromOne(s, leaves) ==
    {[uid |-> leaves[i], seq |-> s, leaf |-> i] : i \in DOMAIN leaves}

\* add_batch: INSERT OR REPLACE of one row per event, one transaction.
Rows(s, leaves) ==
    {[uid |-> leaves[i], seq |-> s, leaf |-> i - 1] : i \in DOMAIN leaves}

\* What becomes of the process once _seal has returned.
AfterSeal ==
    /\ pc' = "idle" /\ batch' = <<>>
    /\ IF trigger = "shutdown" THEN phase' = "down" /\ outcome' = "clean"
                               ELSE UNCHANGED <<phase, outcome>>

SealIndex ==
    /\ pc = "index"
    /\ index' = {r \in index : r.uid \notin Range(batch)} \cup Rows(nextSeq - 1, batch)
    /\ AfterSeal
    /\ UNCHANGED <<bronze, lfile, tornTail, rawbuf, pending, trigger, tail, watcher, hashed,
                   counters>>

\* Mutant: a batch whose seal failed is put back, entry written or not.
SealRetries ==
    /\ pc # "idle" /\ sealFailures < MaxSealFailures
    /\ sealFailures' = sealFailures + 1
    /\ pc' = "idle" /\ batch' = <<>> /\ pending' = batch \o pending
    /\ IF trigger = "shutdown" THEN phase' = "down" /\ outcome' = "unclean"
                               ELSE UNCHANGED <<phase, outcome>>
    /\ UNCHANGED <<disk, rawbuf, watcher, trigger, tail, hashed, deliveries, crashes, tears,
                   rawFailures, starts>>

\* append_batch or add_batch raises.  The batch left pending before, so it is
\* not tried again; from the watcher the exception ends the watcher for good,
\* from flush() it ends the shutdown.
SealRaises ==
    /\ pc # "idle" /\ sealFailures < MaxSealFailures
    /\ sealFailures' = sealFailures + 1
    /\ pc' = "idle" /\ batch' = <<>>
    /\ watcher' = IF trigger = "timeout" THEN "dead" ELSE watcher
    /\ IF trigger = "shutdown" THEN phase' = "down" /\ outcome' = "unclean"
                               ELSE UNCHANGED <<phase, outcome>>
    \* an append that raises (a full disk) may have written part of its line
    /\ \/ UNCHANGED <<lfile, tornTail, tears>>
       \/ /\ pc = "append" /\ tears < MaxTears /\ tears' = tears + 1
          /\ TornWrite
    /\ UNCHANGED <<bronze, index, rawbuf, pending, trigger, tail, hashed, deliveries, crashes,
                   rawFailures, starts>>

-----------------------------------------------------------------------------
(* Shutdown and crash.                                                     *)

\* Mutant: the partial batch is not sealed at shutdown.
ShutdownForgets ==
    /\ phase = "up" /\ pc = "idle"
    /\ bronze' = bronze \cup Range(rawbuf) /\ rawbuf' = <<>>
    /\ watcher' = "none"
    /\ phase' = "down" /\ outcome' = "clean"
    /\ UNCHANGED <<lfile, tornTail, index, pending, sealing, tail, hashed, counters>>

\* Pipeline._flush_stages: RawStoreStage.flush, then IntegrityStage.flush.
Shutdown ==
    /\ phase = "up" /\ pc = "idle" /\ watcher # "dead"
    /\ bronze' = bronze \cup Range(rawbuf) /\ rawbuf' = <<>>
    /\ watcher' = "none"
    /\ IF pending = <<>>
         THEN /\ phase' = "down" /\ outcome' = "clean"
              /\ UNCHANGED <<pending, sealing>>
         ELSE /\ batch' = pending /\ pending' = <<>> /\ pc' = "append" /\ trigger' = "shutdown"
              /\ phase' = "closing" /\ UNCHANGED outcome
    /\ UNCHANGED <<lfile, tornTail, index, tail, hashed, counters>>

\* flush() awaits the watcher it cancels: one that ended with an exception
\* raises it there, before the partial batch is sealed.
ShutdownDeadWatcher ==
    /\ phase = "up" /\ pc = "idle" /\ watcher = "dead"
    /\ bronze' = bronze \cup Range(rawbuf) /\ rawbuf' = <<>>
    /\ phase' = "down" /\ outcome' = "unclean"
    /\ UNCHANGED <<lfile, tornTail, index, pending, sealing, tail, watcher, hashed, counters>>

\* The bronze flush raises: _flush_stages ends there, the batch is never sealed.
ShutdownRawFails ==
    /\ phase = "up" /\ pc = "idle" /\ rawbuf # <<>>
    /\ RawFlushFails(rawbuf)
    /\ phase' = "down" /\ outcome' = "unclean"
    /\ UNCHANGED <<lfile, tornTail, index, pending, sealing, tail, watcher, hashed,
                   deliveries, crashes, tears, sealFailures, starts>>

Crash ==
    /\ phase # "down" /\ crashes < MaxCrashes
    /\ crashes' = crashes + 1
    /\ phase' = "down" /\ outcome' = "unclean"
    /\ pc' = "idle" /\ batch' = <<>>
    /\ UNCHANGED <<disk, rawbuf, pending, trigger, tail, watcher, hashed,
                   deliveries, tears, sealFailures, rawFailures, starts>>

\* The process dies while the ledger line is being written.
CrashTorn ==
    /\ pc = "append" /\ crashes < MaxCrashes /\ tears < MaxTears
    /\ crashes' = crashes + 1 /\ tears' = tears + 1
    /\ TornWrite
    /\ phase' = "down" /\ outcome' = "unclean"
    /\ pc' = "idle" /\ batch' = <<>>
    /\ UNCHANGED <<bronze, index, rawbuf, pending, trigger, tail, watcher, hashed,
                   deliveries, sealFailures, rawFailures, starts>>

-----------------------------------------------------------------------------
Next ==
    \/ Start
    \/ \E e \in Events : Process(e) \/ ProcessRawFails(e)
    \/ WatchTimeout \/ SealAppend \/ SealIndex \/ SealRaises
    \/ Shutdown \/ ShutdownDeadWatcher \/ ShutdownRawFails \/ Crash \/ CrashTorn

Spec == Init /\ [][Next]_vars

\* The poll comes round and a seal in progress ends; events, failures, shutdowns
\* and restarts are not obliged to happen.
Fairness == WF_vars(WatchTimeout) /\ WF_vars(SealAppend \/ SealIndex)

FairSpec == Spec /\ Fairness

-----------------------------------------------------------------------------
(* Properties.                                                             *)

Lines == [seq : Nat \cup {-1}, root : Seq(Events), prev : Seq(Seq(Events)),
          chained : Seq(Seq(Events))]

TypeOK ==
    /\ bronze \subseteq Events
    /\ lfile \in Seq(Lines) /\ tornTail \in BOOLEAN
    /\ index \subseteq [uid : Events, seq : Nat, leaf : Nat]
    /\ phase \in {"down", "up", "closing"}
    /\ rawbuf \in Seq(Events) /\ pending \in Seq(Events) /\ batch \in Seq(Events)
    /\ pc \in {"idle", "append", "index"} /\ trigger \in {"size", "timeout", "shutdown"}
    /\ nextSeq \in Nat /\ prevRoot \in Seq(Seq(Events))
    /\ watcher \in {"none", "on", "dead"}
    /\ hashed \subseteq Events /\ outcome \in {"none", "clean", "unclean"}
    /\ deliveries \in [Events -> Nat] /\ \A e \in Events : deliveries[e] <= MaxDeliveries[e]
    /\ crashes \in 0..MaxCrashes /\ tears \in 0..MaxTears
    /\ sealFailures \in 0..MaxSealFailures /\ rawFailures \in 0..MaxRawFailures
    /\ starts \in 0..MaxStarts

\* verify_chain finds no fault other than a line torn by a crash: through every
\* failure and restart, the entries before the first unreadable line are
\* numbered, linked and hashed correctly.
ChainIntact ==
    \A i \in 1..Len(lfile) :
        (\A j \in 1..i : Readable(lfile[j])) => LineSound(lfile, i)

\* Entries are only ever added: no step removes a line, or changes a readable one
\* that was written to its end.
Complete(i) == Readable(lfile[i]) /\ ~(tornTail /\ i = Len(lfile))
LedgerAppendOnly ==
    [][\A i \in 1..Len(lfile) :
          i <= Len(lfile') /\ (Complete(i) => lfile'[i] = lfile[i])]_vars

\* The ledger commits to no event twice as long as no event_uid arrives twice:
\* a failed, interrupted or repeated seal never seals its leaves again.
SealedOnce ==
    (\A e \in Events : deliveries[e] <= 1) =>
        \A i, j \in 1..Len(lfile) : Readable(lfile[i]) /\ Readable(lfile[j]) =>
            \A k \in DOMAIN lfile[i].root, l \in DOMAIN lfile[j].root :
                lfile[i].root[k] = lfile[j].root[l] => i = j /\ k = l

\* event_uids_for_batch(s): the events whose index row is in batch s, by leaf.
RowsOf(s)    == {r \in index : r.seq = s}
event_uids_for_batch(s) ==
    [n \in 1..Cardinality(RowsOf(s)) |->
        (CHOOSE r \in RowsOf(s) : Cardinality({q \in RowsOf(s) : q.leaf < r.leaf}) = n - 1).uid]

\* The index gives back, for the event of row r, the batch that was sealed: the
\* uids in leaf order, with this event at its leaf.
BatchRebuilt(r) ==
    \E i \in 1..Len(lfile) :
        /\ Readable(lfile[i]) /\ lfile[i].seq = r.seq
        /\ lfile[i].root = event_uids_for_batch(r.seq)
        /\ r.leaf + 1 \in DOMAIN lfile[i].root
        /\ lfile[i].root[r.leaf + 1] = r.uid

\* for_event's proof_ok for the event of row r: _batch_leaves also finds every
\* event of the batch in bronze, so the path leads to the signed root.
RowProves(r) == BatchRebuilt(r) /\ Range(event_uids_for_batch(r.seq)) \subseteq bronze

\* The events of the readable entry with number q; whether one of them arrived again.
SealedIn(q) == UNION {Range(lfile[i].root) : i \in {j \in 1..Len(lfile) : lfile[j].seq = q /\ Readable(lfile[j])}}
Disturbed(q) == \E e \in SealedIn(q) : deliveries[e] > 1

\* As long as no ledger line is torn, every indexed event's batch is rebuilt from the
\* index exactly as it was sealed, also when earlier seals failed halfway or the process
\* died between the ledger append and the index commit.  The one exception is an event
\* that arrived again: INSERT OR REPLACE moves its row, and the proofs of the events it
\* was first sealed with, or is sealed with twice, no longer hold.
IndexRebuildsBatch ==
    tears = 0 => \A r \in index :
        BatchRebuilt(r) \/ Disturbed(r.seq)

\* The module docstring's promise, as far as the code keeps it: if no seal failed
\* and no line was torn, a graceful shutdown leaves every event hashed since the
\* start in bronze, sealed, indexed, and with a proof that holds (but for the batches
\* of an event that arrived again).
ShutdownSealsAll ==
    phase = "down" /\ outcome = "clean" /\ sealFailures = 0 /\ tears = 0 =>
        \A e \in hashed : e \in bronze /\ \E r \in index : r.uid = e /\ (RowProves(r) \/ Disturbed(r.seq))

\* An open batch is eventually taken up for sealing although no further event
\* arrives, unless an earlier seal raised in the watcher and ended it.
QuietBatchSealed ==
    (phase = "up" /\ pending # <<>>) ~> (pending = <<>> \/ phase # "up" \/ watcher = "dead")
=============================================================================
