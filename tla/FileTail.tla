-------------------------------- MODULE FileTail --------------------------------
(***************************************************************************)
(* The file tailer (src/ulpf/ingest/file_tail.py) following one path while *)
(* a sensor appends to it, rotates it or truncates it, and while the       *)
(* process is stopped, cancelled, killed and started again.  Every line is *)
(* two bytes, <<line, 1>> and <<line, 2>>, the second one holding the      *)
(* newline: offsets, chunks and pending bytes keep their meaning.          *)
(***************************************************************************)
EXTENDS Naturals, Sequences, FiniteSets, SequencesExt

CONSTANTS ReadSize,      \* read_size
          MaxLines,      \* bound on lines written
          MaxRotations, MaxTruncations, MaxRejects, MaxRestarts

VARIABLES files,     \* bytes of every inode the path has had; the last is current
          written,   \* bytes written so far, all inodes
          tail,      \* _state: inode, read_pos and pending, or NoState
          persisted, \* tail_offsets.json: inode and offset, or NoState
          scan,      \* where the scan is: "sleep", "stat", "read", "emit", "down"
          handle,    \* the open file: inode, and the bytes this scan may still read
          lines,     \* complete lines of the last chunk, still to be emitted
          progress,  \* lines emitted by this scan
          emitted,   \* what on_event received, in order
          rejected,  \* lines whose on_event raised
          rotations, truncations, restarts,
          mishaps    \* what could make lines go missing: "cancel", "truncate", "crash",
                     \* "raced" (a rotation between stat and open)
tailVars == <<files, written, tail, persisted, scan, handle, lines, progress, emitted, rejected,
              rotations, truncations, restarts, mishaps>>

NoState == [inode |-> 0, pos |-> 0, pending |-> <<>>]
NoHandle == [inode |-> 0, left |-> 0]
Current == Len(files)
Size(i) == Len(files[i])

FileTailInit ==
  /\ files = <<<<>>>> /\ written = 0 /\ tail = NoState /\ persisted = NoState /\ scan = "sleep"
  /\ handle = NoHandle /\ lines = <<>> /\ progress = 0 /\ emitted = <<>> /\ rejected = {}
  /\ rotations = 0 /\ truncations = 0 /\ restarts = 0 /\ mishaps = {}

\* The sensor: the next byte; a new file under the path; the file emptied in place.
SensorAppends ==
  /\ written < 2 * MaxLines /\ written' = written + 1
  /\ files' = [files EXCEPT ![Current] = Append(@, <<(written \div 2) + 1, (written % 2) + 1>>)]
  /\ UNCHANGED <<tail, persisted, scan, handle, lines, progress, emitted, rejected, rotations, truncations, restarts, mishaps>>
SensorRotates ==
  /\ rotations < MaxRotations /\ rotations' = rotations + 1 /\ written % 2 = 0
  /\ files' = Append(files, <<>>)
  /\ UNCHANGED <<written, tail, persisted, scan, handle, lines, progress, emitted, rejected, truncations, restarts, mishaps>>
SensorTruncates ==
  /\ truncations < MaxTruncations /\ truncations' = truncations + 1 /\ written % 2 = 0
  /\ files' = [files EXCEPT ![Current] = <<>>] /\ mishaps' = mishaps \cup {"truncate"}
  /\ UNCHANGED <<written, tail, persisted, scan, handle, lines, progress, emitted, rejected, rotations, restarts>>

\* _split_lines: a complete line ends in a newline byte; the rest is pending.
Ends(data) == {i \in 1..Len(data) : data[i][2] = 2}
LastEnd(data) == IF Ends(data) = {} THEN 0 ELSE Max(Ends(data))
LineAt(data, i) == LET from == {j \in Ends(data) : j < i}
                   IN SubSeq(data, (IF from = {} THEN 0 ELSE Max(from)) + 1, i)
SplitLines(data) == [k \in 1..Cardinality(Ends(data)) |-> LineAt(data, SetToSortSeq(Ends(data), <)[k])]
Pending(data) == SubSeq(data, LastEnd(data) + 1, Len(data))

\* Mutant: the saved offset of another inode is used.
InitialStateAnyInode(inode, size) ==
  [inode |-> inode, pos |-> IF persisted.pos < size THEN persisted.pos ELSE size, pending |-> <<>>]

\* _initial_state: a saved offset of the same inode, capped by the size; else the start.
InitialState(inode, size) ==
  IF persisted.inode = inode
  THEN [inode |-> inode, pos |-> IF persisted.pos < size THEN persisted.pos ELSE size, pending |-> <<>>]
  ELSE [inode |-> inode, pos |-> 0, pending |-> <<>>]

\* _scan_file: what is known of the path against what stat() says.
Reconcile(inode, size) ==
  IF tail = NoState THEN InitialState(inode, size)
  ELSE IF inode # tail.inode \/ size < tail.pos THEN [inode |-> inode, pos |-> 0, pending |-> <<>>]
  ELSE tail

Stat ==
  /\ scan = "sleep" /\ tail' = Reconcile(Current, Size(Current))
  /\ handle' = [inode |-> 0, left |-> Size(Current) - tail'.pos]
  /\ scan' = IF handle'.left > 0 THEN "open" ELSE "sleep"
  /\ progress' = 0
  /\ UNCHANGED <<files, written, persisted, lines, emitted, rejected, rotations, truncations, restarts, mishaps>>

\* path.open: by now the path may name another file.
Open ==
  /\ scan = "open" /\ handle' = [handle EXCEPT !.inode = Current] /\ scan' = "read"
  /\ mishaps' = IF Current = tail.inode THEN mishaps ELSE mishaps \cup {"raced"}
  /\ UNCHANGED <<files, written, tail, persisted, lines, progress, emitted, rejected, rotations, truncations, restarts>>

\* _read_new, one chunk: read_pos moves past it before any of its lines is emitted.
ReadChunk ==
  /\ scan = "read" /\ handle.left > 0 /\ Size(handle.inode) > tail.pos
  /\ LET want == Min({ReadSize, handle.left, Size(handle.inode) - tail.pos})
         data == tail.pending \o SubSeq(files[handle.inode], tail.pos + 1, tail.pos + want)
     IN /\ tail' = [tail EXCEPT !.pos = @ + want, !.pending = Pending(data)]
        /\ lines' = SplitLines(data) /\ handle' = [handle EXCEPT !.left = @ - want]
        /\ scan' = "emit"
  /\ UNCHANGED <<files, written, persisted, progress, emitted, rejected, rotations, truncations, restarts, mishaps>>

\* _emit: on_event takes the line, or raises and the line is logged and passed over.
Emit ==
  /\ scan = "emit" /\ lines # <<>> /\ lines' = Tail(lines) /\ progress' = progress + 1
  /\ \/ emitted' = Append(emitted, Head(lines)) /\ UNCHANGED rejected
     \/ /\ Cardinality(rejected) < MaxRejects
        /\ rejected' = rejected \cup {Head(lines)} /\ UNCHANGED emitted
  /\ UNCHANGED <<files, written, tail, persisted, scan, handle, rotations, truncations, restarts, mishaps>>
NextChunk ==
  /\ scan = "emit" /\ lines = <<>> /\ scan' = "read"
  /\ UNCHANGED <<files, written, tail, persisted, handle, lines, progress, emitted, rejected, rotations, truncations, restarts, mishaps>>

\* _save_offsets: read_pos less the partial line.
Committed == IF tail = NoState THEN persisted
             ELSE [tail EXCEPT !.pos = @ - Len(tail.pending), !.pending = <<>>]

\* The end of a scan: offsets are saved when something was emitted.
ScanEnd ==
  /\ scan = "read" /\ (handle.left = 0 \/ Size(handle.inode) <= tail.pos)
  /\ scan' = "sleep" /\ handle' = NoHandle
  /\ persisted' = IF progress > 0 THEN Committed ELSE persisted
  /\ UNCHANGED <<files, written, tail, lines, progress, emitted, rejected, rotations, truncations, restarts, mishaps>>

Down == /\ scan' = "down" /\ tail' = NoState /\ handle' = NoHandle /\ lines' = <<>> /\ progress' = 0
        /\ UNCHANGED <<files, written, emitted, rejected, rotations, truncations, restarts>>

\* stop() between scans; Runtime.stop cancels a watch() that takes more than five
\* seconds, in the middle of an on_event; both run the finally clause.
StopTail == scan = "sleep" /\ persisted' = Committed /\ Down /\ UNCHANGED mishaps
CancelTail ==
  /\ scan = "emit" /\ lines # <<>> /\ persisted' = Committed /\ Down /\ mishaps' = mishaps \cup {"cancel"}
\* The process dies: no finally clause.
KillTail == scan # "down" /\ restarts < MaxRestarts /\ Down /\ mishaps' = mishaps \cup {"crash"} /\ UNCHANGED persisted
RestartTail ==
  /\ scan = "down" /\ restarts < MaxRestarts /\ restarts' = restarts + 1 /\ scan' = "sleep"
  /\ UNCHANGED <<files, written, tail, persisted, handle, lines, progress, emitted, rejected, rotations, truncations, mishaps>>

TailStep == Stat \/ Open \/ ReadChunk \/ Emit \/ NextChunk \/ ScanEnd
FileTailNext == TailStep \/ SensorAppends \/ SensorRotates \/ SensorTruncates
                \/ StopTail \/ CancelTail \/ KillTail \/ RestartTail
-----------------------------------------------------------------------------
Whole(l) == <<<<l, 1>>, <<l, 2>>>>
Emitted(l) == \E k \in DOMAIN emitted : emitted[k] = Whole(l)
\* Where a line ends in a file that still holds it.
EndsAt(l) == {<<i, k>> \in (1..Current) \X (1..2 * MaxLines) : k <= Size(i) /\ files[i][k] = <<l, 2>>}
Settled(l) == Emitted(l) \/ Whole(l) \in rejected \/ \E k \in DOMAIN lines : lines[k] = Whole(l)
\* The saved or the current position is behind the end of the line in its file.
Passed(l) == \E p \in EndsAt(l) :
               \/ tail.inode = p[1] /\ tail.pos - Len(tail.pending) >= p[2]
               \/ persisted.inode = p[1] /\ persisted.pos >= p[2]
Moved == mishaps \cap {"truncate", "raced"} # {}

\* The tailer never moves past a line it has not handed on, over stops, kills, rotations
\* and restarts: only a cancelled scan, a truncation or a rotation in the middle of a scan
\* makes it do that.
NoLinePassedOver == \A l \in 1..MaxLines : Passed(l) => Settled(l) \/ Moved \/ "cancel" \in mishaps

\* "a half-written JSON record is never handed downstream": what is emitted is a whole
\* line unless a truncation or a rotation moved the file under the saved position.
OnlyWholeLines == Moved \/ \A k \in DOMAIN emitted : \E l \in 1..MaxLines : emitted[k] = Whole(l)

\* A line is handed on twice only after a kill, which loses the offsets of the scan, or
\* when a rotation in the middle of a scan credits the old inode with the new file's lines.
RereadNeedsKill ==
  (\E j, k \in DOMAIN emitted : j < k /\ emitted[j] = emitted[k]) => mishaps \cap {"crash", "raced"} # {}

\* While the tailer runs, a complete line is handed on or rejected, unless the file is
\* rotated or truncated before it was read or an earlier scan was cancelled.
WrittenLineArrives ==
  \A l \in 1..MaxLines : written >= 2 * l ~>
     Emitted(l) \/ Whole(l) \in rejected \/ scan = "down" \/ rotations > 0 \/ mishaps \cap {"cancel", "truncate"} # {}

\* Lines are handed on whole, none passed over, none twice without a kill, and all of them
\* in the end, with the exceptions each part names.
LinesArrive == [](NoLinePassedOver /\ OnlyWholeLines /\ RereadNeedsKill) /\ WrittenLineArrives
=============================================================================
