-------------------------------- MODULE Recovery --------------------------------
(***************************************************************************)
(* The dead-letter queue (src/ulpf/sinks/dlq.py) and the two jobs that run *)
(* stored events through today's stages again: ulpf dlq replay (also POST  *)
(* /dlq/replay) and ulpf reprocess, started several times, side by side,   *)
(* killed, and while the live pipeline dead-letters more.                  *)
(***************************************************************************)
EXTENDS Naturals, Sequences, FiniteSets, SequencesExt

CONSTANTS Uids,          \* events; all were ingested on day 1 and are in bronze
          Unmatched,     \* those no definition claims; the others' definition fails on them
          Late,          \* those whose own time lies on another day than their ingest
          Jobs,          \* runs of the commands, in the order they are started
          MaxLive,       \* bound on what the live pipeline dead-letters
          MaxDays,       \* bound on dlq partitions
          MaxSinkErrors, MaxKills

VARIABLES defs,      \* what today's definitions make of an event: "fails", "unmatched", "maps"
          letters,   \* the date=*/ files, in order: uid, stage, day
          marks,     \* resolved.ndjson
          today,     \* the current partition
          rows,      \* silver rows on disk, in the order written: uid, run, tagged, source
          mined,     \* what the runs recorded in the template catalogue: run and event
          job,       \* each run's state
          faults     \* "sink", "kill", "overlap"
recVars == <<defs, letters, marks, today, rows, mined, job, faults>>

NoEntry == [uid |-> "none", stage |-> "none", day |-> 0]
Idle == [cmd |-> "none", dry |-> FALSE, at |-> "idle", defs |-> [u \in Uids |-> "fails"], skip |-> {}, seen |-> {},
         days |-> <<>>, todo |-> <<>>, cur |-> NoEntry, buf |-> <<>>, report |-> [no_previous |-> {}, prior |-> {}]]

RecoveryInit ==
  /\ defs = [u \in Uids |-> IF u \in Unmatched THEN "unmatched" ELSE "fails"] /\ letters = <<>> /\ marks = {} /\ today = 1
  /\ rows = <<>> /\ mined = {} /\ job = [j \in Jobs |-> Idle] /\ faults = {}

\* _iter_all_records: partitions in order; a partition file is read whole when reached.
Partitions == SetToSortSeq({letters[k].day : k \in DOMAIN letters}, <)
FileOf(d) == SelectSeq(letters, LAMBDA l : l.day = d)

Letter(u, stage) == [uid |-> u, stage |-> stage, day |-> today]
Lives == Len(SelectSeq(letters, LAMBDA l : l.stage = "live"))

\* DeadLetterQueue.write by the live pipeline; a redelivered event may fail twice.
LiveFails(u) ==
  /\ Lives < MaxLive /\ defs[u] = "fails" /\ letters' = Append(letters, Letter(u, "live"))
  /\ UNCHANGED <<defs, marks, today, rows, mined, job, faults>>
\* The live pipeline's row for an event it did map (as template-only).
LiveWrites(u) ==
  /\ defs[u] = "unmatched" /\ \A k \in DOMAIN rows : rows[k].uid # u
  /\ rows' = Append(rows, [uid |-> u, run |-> 0, tagged |-> FALSE, source |-> "unknown"])
  /\ UNCHANGED <<defs, letters, marks, today, mined, job, faults>>
NextDay ==
  /\ today < MaxDays /\ FileOf(today) # <<>> /\ today' = today + 1
  /\ UNCHANGED <<defs, letters, marks, rows, mined, job, faults>>
\* The operator fixes the definition.
OperatorFixes(u) ==
  /\ defs[u] = "fails" /\ defs' = [defs EXCEPT ![u] = "maps"]
  /\ UNCHANGED <<letters, marks, today, rows, mined, job, faults>>

\* _log_version_rank, over the rows of the ingest date's partition.
Rank(row) == IF row.tagged THEN row.run ELSE 0
\* _read_previous_rows: the rows found under the ingest date, the best ranked of an event.
Visible == {k \in DOMAIN rows : rows[k].uid \notin Late}
Previous == {k \in Visible : \A i \in Visible :
               rows[i].uid = rows[k].uid => Rank(rows[i]) < Rank(rows[k]) \/ (Rank(rows[i]) = Rank(rows[k]) /\ i <= k)}

Running(j) == job[j].at \notin {"idle", "done", "dead", "aborted"}
First(j) == job[j].at = "idle" /\ \A i \in Jobs : i < j => job[i].at # "idle"
Overlap == IF \E j \in Jobs : Running(j) THEN faults \cup {"overlap"} ELSE faults

\* run_replay: the registry and the resolved uids are read once, at the start.
ReplayBegin(j, dry) ==
  /\ First(j) /\ letters # <<>>
  /\ job' = [job EXCEPT ![j] = [@ EXCEPT !.cmd = "replay", !.dry = dry, !.at = "next", !.defs = defs,
                !.skip = marks, !.days = Partitions, !.seen = {letters[k].uid : k \in DOMAIN letters}]]
  /\ faults' = Overlap /\ UNCHANGED <<defs, letters, marks, today, rows, mined>>

\* run_reprocess of the ingest date, with --compare.
ReprocessBegin(j, dry) ==
  /\ First(j)
  /\ job' = [job EXCEPT ![j] = [@ EXCEPT !.cmd = "reprocess", !.dry = dry, !.at = "next", !.defs = defs,
                !.todo = [k \in 1..Cardinality(Uids) |-> [NoEntry EXCEPT !.uid = SetToSeq(Uids)[k]]],
                !.report = [no_previous |-> {}, prior |-> {rows[k] : k \in Previous}]]]
  /\ faults' = Overlap /\ UNCHANGED <<defs, letters, marks, today, rows, mined>>

\* Mutant: the resolved uids are not looked at.
WantedAll(j, entry) == TRUE
\* iter_entries(unresolved_only): against the set read at the start.
Wanted(j, entry) == job[j].cmd = "reprocess" \/ entry.uid \notin job[j].skip

\* The next entry, from the file at hand or the next partition, through parse, normalize, enrich and validate (_replay_one,
\* _reprocess_one).  A failing one is dead-lettered again, in a scratch directory when
\* dry; an unmatched one is recorded in the template catalogue, dry or not.
TakeEntry(j) ==
  /\ job[j].at = "next" /\ job[j].todo \o job[j].days # <<>>
  /\ LET file == IF job[j].todo # <<>> THEN job[j].todo ELSE FileOf(Head(job[j].days))
         entry == Head(file)
         u == entry.uid
         verdict == IF Wanted(j, entry) THEN job[j].defs[u] ELSE "skipped"
         go == IF verdict \in {"fails", "skipped"} THEN "next" ELSE IF job[j].dry THEN "next" ELSE "sink"
         old == \E r \in job[j].report.prior : r.uid = u
     IN /\ job' = [job EXCEPT ![j] = [@ EXCEPT !.todo = Tail(file), !.cur = entry, !.at = go,
                     !.days = IF job[j].todo # <<>> THEN @ ELSE Tail(@),
                     !.report.no_previous = @ \cup (IF verdict \in {"maps", "unmatched"} /\ ~old THEN {u} ELSE {})]]
        /\ letters' = IF verdict = "fails" /\ ~job[j].dry THEN Append(letters, Letter(u, "normalize")) ELSE letters
        /\ mined' = IF verdict = "unmatched" THEN mined \cup {<<j, u>>} ELSE mined
  /\ UNCHANGED <<defs, marks, today, rows, faults>>

\* parse() is not in a try: a line that looks like a format and is not one raises out of
\* the run, whose finally clause flushes the sinks.
Abort(j) ==
  /\ job[j].at = "next" /\ job[j].todo \o job[j].days # <<>>
  /\ LET file == IF job[j].todo # <<>> THEN job[j].todo ELSE FileOf(Head(job[j].days))
     IN Wanted(j, Head(file)) /\ job[j].defs[Head(file).uid] = "fails"
  /\ rows' = rows \o job[j].buf
  /\ job' = [job EXCEPT ![j] = [@ EXCEPT !.at = "aborted", !.buf = <<>>, !.cur = NoEntry]]
  /\ UNCHANGED <<defs, letters, marks, today, mined, faults>>

\* SinkManager.process: the row is in the Parquet buffer, or the event is dead-lettered
\* by the manager.  _reprocess_one tags the row when a definition matched.
SinkTakes(j) ==
  /\ job[j].at = "sink"
  /\ LET u == job[j].cur.uid
         known == job[j].defs[u] = "maps"
         row == [uid |-> u, run |-> j, tagged |-> known /\ job[j].cmd = "reprocess",
                 source |-> IF known THEN "known" ELSE "unknown"]
     IN \/ job' = [job EXCEPT ![j] = [@ EXCEPT !.buf = Append(@, row), !.at = "mark"]] /\ UNCHANGED <<letters, faults>>
        \/ /\ Len(SelectSeq(letters, LAMBDA l : l.stage = "sink")) < MaxSinkErrors
           /\ job' = [job EXCEPT ![j] = [@ EXCEPT !.at = "mark"]]
           /\ letters' = Append(letters, Letter(u, "sink")) /\ faults' = faults \cup {"sink"}
  /\ UNCHANGED <<defs, marks, today, rows, mined>>

\* mark_resolved, whatever the sinks said; reprocess marks nothing.
Mark(j) ==
  /\ job[j].at = "mark" /\ job' = [job EXCEPT ![j] = [@ EXCEPT !.at = "next"]]
  /\ marks' = IF job[j].cmd = "replay" THEN marks \cup {job[j].cur.uid} ELSE marks
  /\ UNCHANGED <<defs, letters, today, rows, mined, faults>>

\* The end of the run: finally flushes the sinks.
JobEnds(j) ==
  /\ job[j].at = "next" /\ job[j].todo \o job[j].days = <<>>
  /\ rows' = rows \o job[j].buf
  /\ job' = [job EXCEPT ![j] = [@ EXCEPT !.at = "done", !.buf = <<>>, !.cur = NoEntry]]
  /\ UNCHANGED <<defs, letters, marks, today, mined, faults>>

\* The process is killed: what its Parquet sink buffered is gone.
JobKilled(j) ==
  /\ Running(j) /\ Cardinality({i \in Jobs : job[i].at = "dead"}) < MaxKills
  /\ job' = [job EXCEPT ![j] = [@ EXCEPT !.at = "dead", !.buf = <<>>]] /\ faults' = faults \cup {"kill"}
  /\ UNCHANGED <<defs, letters, marks, today, rows, mined>>

JobStep(j) == TakeEntry(j) \/ Abort(j) \/ SinkTakes(j) \/ Mark(j) \/ JobEnds(j)
RecoveryNext ==
  \/ NextDay
  \/ \E u \in Uids : LiveFails(u) \/ LiveWrites(u) \/ OperatorFixes(u)
  \/ \E j \in Jobs : JobStep(j) \/ JobKilled(j) \/ \E dry \in BOOLEAN : ReplayBegin(j, dry) \/ ReprocessBegin(j, dry)
RecProgress == \E j \in Jobs : JobStep(j)

\* stats(), and the page of GET /dlq/ (newest first).
Stats ==
  LET done == Len(SelectSeq(letters, LAMBDA l : l.uid \in marks))
  IN [total |-> Len(letters), resolved |-> done, unresolved |-> Len(letters) - done]
Page(n, size, unresolved) ==
  LET all == Reverse(SelectSeq(letters, LAMBDA l : ~unresolved \/ l.uid \notin marks))
  IN [items |-> SubSeq(all, (n - 1) * size + 1, IF n * size > Len(all) THEN Len(all) ELSE n * size), total |-> Len(all)]
-----------------------------------------------------------------------------
OnDisk(u) == \E k \in DOMAIN rows : rows[k].uid = u
Buffered(u) == \E j \in Jobs : \E k \in DOMAIN job[j].buf : job[j].buf[k].uid = u
Copies(u) == Cardinality({k \in DOMAIN rows : rows[k].uid = u})
LettersOf(u) == {k \in DOMAIN letters : letters[k].uid = u}

\* An event marked resolved is in silver, or in the buffer of the replay that marked it,
\* unless a sink refused it or a run was killed before its flush.
ResolvedIsAccounted ==
  \A u \in marks : OnDisk(u) \/ Buffered(u) \/ "kill" \in faults
                   \/ \E k \in LettersOf(u) : letters[k].stage = "sink"

\* An event gets a second row from replays only if it had two letters, or two runs
\* overlapped, or one was killed before it could mark: replays one after the other do
\* not duplicate.
ReplaysDoNotDuplicate ==
  \A u \in Uids :
     Cardinality({k \in DOMAIN rows : rows[k].uid = u /\ rows[k].run > 0}) > 1
     => \/ Cardinality(LettersOf(u)) > 1 \/ faults \cap {"overlap", "kill"} # {}
        \/ \E j \in Jobs : job[j].cmd = "reprocess"

\* A replay that ran to its end has settled every event it saw: what today's definitions
\* read is resolved, what they do not read has a new letter and is not resolved by it.
FinishedReplaySettles ==
  \A j \in Jobs : job[j].at = "done" /\ job[j].cmd = "replay" /\ ~job[j].dry =>
     \A u \in job[j].seen :
        /\ job[j].defs[u] # "fails" => u \in marks
        /\ job[j].defs[u] = "fails" /\ u \notin job[j].skip /\ "overlap" \notin faults =>
             /\ Cardinality(LettersOf(u)) > 1
             /\ (u \in marks => \E i \in Jobs : i > j /\ job[i].cmd = "replay")

\* What stats() counts as unresolved is what an unfiltered replay would take now, and the
\* unresolved pages list the same letters, each once.
StatsMatchReplay ==
  /\ Stats.unresolved = Page(1, 1, TRUE).total
  /\ \A size \in 1..2 :
       FlattenSeq([n \in 1..Len(letters) |-> Page(n, size, TRUE).items])
       = Reverse(SelectSeq(letters, LAMBDA l : l.uid \notin marks))

\* A run ends: what it dead-letters itself does not feed it.
RunEnds == \A j \in Jobs : Running(j) ~> ~Running(j)

\* Replays account for every dead letter: resolved is accounted for, nothing is doubled,
\* a finished replay settles what it saw, the counts agree, and every run ends.
ReplaysAccount ==
  [](ResolvedIsAccounted /\ ReplaysDoNotDuplicate /\ FinishedReplaySettles /\ StatsMatchReplay) /\ RunEnds
=============================================================================
