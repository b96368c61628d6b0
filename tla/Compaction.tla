------------------------------ MODULE Compaction -------------------------------
(***************************************************************************)
(* One silver partition: the sink adds part files to it, the compactor     *)
(* merges them (src/ulpf/sinks/compaction.py).  The sink writes a part     *)
(* under its final name, so a part can be seen unfinished; the compactor   *)
(* writes to a temporary name and renames, so its outputs appear whole.    *)
(* A file is a sequence of rows: a row can be in a partition several times. *)
(***************************************************************************)
EXTENDS Naturals, Sequences, FiniteSets, Functions

CONSTANTS SilverRows,         \* rows the sink will write
          MinFiles,     \* _min_files
          RowsPerFile,  \* what _rows_per_file comes to
          MaxCopies     \* bounds the passes cut short: each doubles mostCopies

\* Compactor.__init__ and _rows_per_file take the maximum with 1.
ASSUME CompactionAssumption == MinFiles \in Nat \ {0} /\ RowsPerFile \in Nat \ {0}

VARIABLES parts,   \* part number -> rows and whether the file is complete
          landed,  \* rows that were readable at some time
          cpAt,      \* where compact() is
          inputs,  \* the parts it globbed, those not yet unlinked
          unread,  \* the inputs it has still to read
          mergedRows,  \* rows read, or still to be written out
          mostCopies   \* 1, doubled by each pass that was cut short
cpVars == <<parts, landed, cpAt, inputs, unread, mergedRows, mostCopies>>

Whole == {p \in DOMAIN parts : parts[p].whole}
At(r, seq) == {i \in DOMAIN seq : seq[i] = r}
\* Where row r is in the files ps, and how often a query over the partition returns it.
Occurrences(ps, files, r) == UNION {{<<p, i>> : i \in At(r, ps[p].rows)} : p \in files}
Copies(r) == Cardinality(Occurrences(parts, Whole, r))
\* part-<uuid>.parquet: any name not in use.
FreshPart == CHOOSE n \in 1..Cardinality(DOMAIN parts) + 1 : n \notin DOMAIN parts
AddPart(rows, whole) ==
  [p \in DOMAIN parts \cup {FreshPart} |->
     IF p = FreshPart THEN [rows |-> rows, whole |-> whole] ELSE parts[p]]
RemovePart(p) == [q \in DOMAIN parts \ {p} |-> parts[q]]

CompactionInit == /\ parts = [p \in {} |-> {}] /\ landed = {}
        /\ cpAt = "idle" /\ inputs = {} /\ unread = {} /\ mergedRows = <<>> /\ mostCopies = 1

\* ParquetSink.flush opens the file under its final name ...
SinkOpens(r) ==
  /\ \A p \in DOMAIN parts : r \notin Range(parts[p].rows)
  /\ r \notin landed
  /\ parts' = AddPart(<<r>>, FALSE)
  /\ UNCHANGED <<landed, cpAt, inputs, unread, mergedRows, mostCopies>>

\* ... and completes it.
SinkCloses(p) ==
  /\ p \in DOMAIN parts \ Whole
  /\ parts' = [parts EXCEPT ![p].whole = TRUE]
  /\ landed' = landed \cup Range(parts[p].rows)
  /\ UNCHANGED <<cpAt, inputs, unread, mergedRows, mostCopies>>

\* compact(): the glob, and the threshold below which a partition is left alone.
Glob ==
  /\ cpAt = "idle" /\ Cardinality(DOMAIN parts) >= MinFiles
  /\ inputs' = DOMAIN parts /\ unread' = DOMAIN parts /\ cpAt' = "read"
  /\ UNCHANGED <<parts, landed, mergedRows, mostCopies>>

\* The inputs are read one after the other, and merge_tables puts their rows together.
ReadPart(p) ==
  /\ cpAt = "read" /\ p \in unread \cap Whole
  /\ mergedRows' = mergedRows \o parts[p].rows
  /\ unread' = unread \ {p} /\ cpAt' = IF unread' = {} THEN "write" ELSE cpAt
  /\ UNCHANGED <<parts, landed, inputs, mostCopies>>

\* An input that is not a Parquet file yet: compact_all logs it and goes on.
ReadFails ==
  /\ cpAt = "read" /\ ~(unread \subseteq Whole)
  /\ cpAt' = "idle" /\ inputs' = {} /\ unread' = {} /\ mergedRows' = <<>>
  /\ UNCHANGED <<parts, landed, mostCopies>>

\* Mutant: only whole slices are written.
WriteSliceFloor ==
  /\ cpAt = "write" /\ Len(mergedRows) >= RowsPerFile
  /\ parts' = AddPart(SubSeq(mergedRows, 1, RowsPerFile), TRUE)
  /\ mergedRows' = SubSeq(mergedRows, RowsPerFile + 1, Len(mergedRows))
  /\ cpAt' = IF Len(mergedRows') < RowsPerFile THEN "unlink" ELSE cpAt
  /\ UNCHANGED <<landed, inputs, unread, mostCopies>>

\* _write_slices: the next slice, written to a temporary file and renamed.
WriteSlice ==
  /\ cpAt = "write" /\ mergedRows # <<>>
  /\ LET n == IF RowsPerFile < Len(mergedRows) THEN RowsPerFile ELSE Len(mergedRows)
     IN /\ parts' = AddPart(SubSeq(mergedRows, 1, n), TRUE)
        /\ mergedRows' = SubSeq(mergedRows, n + 1, Len(mergedRows))
  /\ cpAt' = IF mergedRows' = <<>> THEN "unlink" ELSE cpAt
  /\ UNCHANGED <<landed, inputs, unread, mostCopies>>

\* The originals go only after every output is in place.
Unlink(p) ==
  /\ cpAt = "unlink" /\ p \in inputs
  /\ parts' = RemovePart(p)
  /\ inputs' = inputs \ {p} /\ cpAt' = IF inputs' = {} THEN "idle" ELSE cpAt
  /\ UNCHANGED <<landed, unread, mergedRows, mostCopies>>

\* An exception or the death of the process ends the pass where it is.
CutShort ==
  /\ cpAt # "idle" /\ 2 * mostCopies <= MaxCopies
  /\ mostCopies' = 2 * mostCopies
  /\ cpAt' = "idle" /\ inputs' = {} /\ unread' = {} /\ mergedRows' = <<>>
  /\ UNCHANGED <<parts, landed>>

CompactionNext == \/ \E r \in SilverRows : SinkOpens(r)
        \/ \E p \in DOMAIN parts : SinkCloses(p) \/ ReadPart(p) \/ Unlink(p)
        \/ Glob \/ ReadFails \/ WriteSlice \/ CutShort
CompactionSpec == CompactionInit /\ [][CompactionNext]_cpVars

-----------------------------------------------------------------------------
\* Compaction never takes a row out of reach: what was readable once is readable
\* at every moment of every later pass, also one cut short.
RowsPreserved == \A r \in landed : Copies(r) >= 1

\* Between passes a row is there once, unless a pass was cut short; each such pass
\* at most doubles it, since the next one merges the copies it finds.
CopiesBounded == cpAt = "idle" => \A r \in landed : Copies(r) <= mostCopies

\* Both bounds on the copies of a row: at least one at every moment of a pass, and at most
\* two to the number of passes cut short.
RowsKept == RowsPreserved /\ CopiesBounded
=============================================================================
