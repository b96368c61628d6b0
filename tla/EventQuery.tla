----------------------------- MODULE EventQuery -----------------------------
(***************************************************************************)
(* GET /events over either backend, the Parquet lake through DuckDB or       *)
(* ClickHouse, while events land: a client walking pages, the summary and     *)
(* the time series; and what a record looks like when it comes back.          *)
(***************************************************************************)
EXTENDS Integers, Sequences, FiniteSets, Functions

CONSTANTS
  QEvents,    \* [uid, time (0: none), ingest, src, class ("none"), ports, words]
  QFilters,   \* [src, port, from, to, q], each 0 or "any" when absent
  PageSize, QSpans,   \* QSpans: pairs <<interval, window>>
  RecordFiles,   \* sequences of records, path -> value, written to one file
  MaxWalks

VARIABLES backend, landed, walk, walks, summary, files
eqVars == <<backend, landed, walk, walks, summary, files>>

NoWalk == [at |-> "idle"]
NoSummary == [at |-> "idle"]

\* ---- filters -----------------------------------------------------------------
\* ch_row: an event without a time has its ingest time in ClickHouse, and none in the lake.
TimeOf(b, e) == IF b = "clickhouse" /\ e.time = 0 THEN e.ingest ELSE e.time
\* NULL compares with nothing.
Within(t, f) == (f.from = 0 \/ (t # 0 /\ t >= f.from)) /\ (f.to = 0 \/ (t # 0 /\ t <= f.to))
Same(f, e) == (f.src = "any" \/ e.src = f.src) /\ (f.port = 0 \/ f.port \in e.ports)
\* ILIKE '%q%': a % in q is a wildcard; positionCaseInsensitive takes it as it is.
LakeWhere(f, e) ==
  Same(f, e) /\ Within(TimeOf("lake", e), f) /\ (f.q = "any" \/ f.q \in e.words \/ (f.q = "%" /\ e.words # {}))
ChWhere(f, e) == Same(f, e) /\ Within(TimeOf("clickhouse", e), f) /\ (f.q = "any" \/ f.q \in e.words)
Matches(b, f, S) == {e \in S : IF b = "lake" THEN LakeWhere(f, e) ELSE ChWhere(f, e)}

\* ---- GET / ---------------------------------------------------------------------
\* ORDER BY time DESC, no time last; rows of one time come in any order.
Orders(b, S) ==
  {s \in [1..Cardinality(S) -> S] : Range(s) = S /\ \A i, j \in DOMAIN s : i < j => TimeOf(b, s[i]) >= TimeOf(b, s[j])}
OffsetFromPage(page) == page * PageSize
Offset(page) == (page - 1) * PageSize
\* LIMIT PageSize OFFSET offset.
Page(s, offset) == SubSeq(s, offset + 1, IF Len(s) < offset + PageSize THEN Len(s) ELSE offset + PageSize)
LandEvent(e) ==
  /\ e \notin landed /\ landed' = landed \cup {e}
  /\ walk' = IF walk = NoWalk THEN walk ELSE [walk EXCEPT !.during = @ \cup {e}]
  /\ summary' = IF summary = NoSummary THEN summary ELSE [summary EXCEPT !.during = TRUE]
  /\ UNCHANGED <<backend, walks, files>>
WalkBegins(f) ==
  /\ walk = NoWalk /\ walks < MaxWalks /\ walks' = walks + 1
  /\ walk' = [at |-> "count", filter |-> f, page |-> 1, total |-> 0, seen |-> <<>>, start |-> Matches(backend, f, landed), during |-> {}]
  /\ UNCHANGED <<backend, landed, summary, files>>
CountRows ==
  /\ walk.at = "count" /\ walk' = [walk EXCEPT !.at = "rows", !.total = Cardinality(Matches(backend, walk.filter, landed))]
  /\ UNCHANGED <<backend, landed, walks, summary, files>>
\* The client asks for the next page until one is short.
PageRows ==
  /\ walk.at = "rows"
  /\ \E s \in Orders(backend, Matches(backend, walk.filter, landed)) :
       LET page == Page(s, Offset(walk.page))
       IN walk' = [walk EXCEPT !.seen = @ \o page, !.page = @ + 1, !.at = IF Len(page) < PageSize THEN "done" ELSE "count"]
  /\ UNCHANGED <<backend, landed, walks, summary, files>>
\* _run_ch: 503, and the walk ends.
QueryFails == /\ backend = "clickhouse" /\ walk.at \in {"count", "rows"} /\ walk' = NoWalk
              /\ UNCHANGED <<backend, landed, walks, summary, files>>

\* ---- GET /stats/summary -----------------------------------------------------------
\* Three queries one after the other; NULL is a group.
Grouped(S) == Cardinality(S)
StatsBySource == /\ summary = NoSummary
                 /\ summary' = [at |-> "by_class", total |-> Cardinality(landed), classes |-> 0, actions |-> 0, during |-> FALSE]
                 /\ UNCHANGED <<backend, landed, walk, walks, files>>
StatsByClass == /\ summary.at = "by_class" /\ summary' = [summary EXCEPT !.at = "by_action", !.classes = Grouped(landed)]
                /\ UNCHANGED <<backend, landed, walk, walks, files>>
StatsByAction == /\ summary.at = "by_action" /\ summary' = [summary EXCEPT !.at = "done", !.actions = Cardinality(landed)]
                 /\ UNCHANGED <<backend, landed, walk, walks, files>>

\* ---- GET /stats/timeseries ----------------------------------------------------------
BucketStart(t, i) == (t \div i) * i
Timed(S) == {e \in S : e.time # 0}
Newest(S) == CHOOSE e \in Timed(S) : \A x \in Timed(S) : x.time <= e.time
\* LakeQuery.timeseries: back from the newest bucket.
LakeSeries(S, i, w) == {e \in Timed(S) : BucketStart(e.time, i) >= BucketStart(Newest(S).time, i) - w}
\* _timeseries_clickhouse: back from the clock.
ChSeries(S, i, w, now_) == {e \in S : TimeOf("clickhouse", e) >= now_ - w}

\* ---- a record in and out ----------------------------------------------------------------
\* Values: "int", "zero", "str", "digits", "list", "empty", "dict"; "json" is text that
\* stands for a value, "none" is NULL.
JsonKeys == {<<"unmapped">>, <<"enrichments">>}
CoreColumns == {<<"time">>, <<"src_port">>}
AsInt(v) == IF v \in {"int", "zero"} THEN v ELSE IF v = "digits" THEN "int" ELSE "none"
At(record, p) == IF p \in DOMAIN record THEN record[p] ELSE "none"
CoreRow(record) == [c \in CoreColumns |-> IF c = <<"time">> THEN AsInt(At(record, <<"time">>)) ELSE AsInt(At(record, <<"src_endpoint", "port">>))]
JsonOrNone(v) == IF v \in {"zero", "empty", "none"} THEN "none" ELSE "json"
Flatten(v) == IF v \in {"list", "empty"} THEN JsonOrNone(v) ELSE v
SilverRow(record) ==
  [c \in CoreColumns \cup DOMAIN record |->
     IF c \in CoreColumns THEN CoreRow(record)[c] ELSE IF c \in JsonKeys THEN JsonOrNone(record[c]) ELSE Flatten(record[c])]
\* _build_table: a column whose values differ in type becomes JSON text.
Kind(v) == IF v \in {"int", "zero"} THEN "number" ELSE "text"
Mixed(table, c) == \E i, j \in DOMAIN table : At(table[i], c) # "none" /\ At(table[j], c) # "none" /\ Kind(At(table[i], c)) # Kind(At(table[j], c))
BuildTable(table) ==
  [i \in DOMAIN table |-> [c \in DOMAIN table[i] |-> IF c \notin CoreColumns /\ Mixed(table, c) THEN JsonOrNone(table[i][c]) ELSE table[i][c]]]
\* _unflatten: NULLs are left out, the two JSON columns are read back.
Unflatten(row) == [c \in {x \in DOMAIN row : row[x] # "none"} |-> IF c \in JsonKeys THEN "dict" ELSE row[c]]
LakeRecords(file) == LET table == BuildTable([i \in DOMAIN file |-> SilverRow(file[i])]) IN [i \in DOMAIN file |-> Unflatten(table[i])]
WriteRecords(f) == /\ files' = f /\ UNCHANGED <<backend, landed, walk, walks, summary>>

\* page_size is Query(ge=1), a bucket of width zero is the database's error, times count from 1970;
\* the two JSON columns hold what OcsfMapper and the enrichers put there, dictionaries.
ASSUME EqAssumption ==
  /\ PageSize \in Nat \ {0}
  /\ \A e \in QEvents : e.time \in Nat /\ e.ingest \in Nat
  /\ \A s \in QSpans : s[1] \in Nat \ {0} /\ s[2] \in Nat
  /\ \A f \in RecordFiles : \A i \in DOMAIN f : \A p \in JsonKeys \cap DOMAIN f[i] : f[i][p] \in {"dict", "empty"}

EqInit == backend \in {"lake", "clickhouse"} /\ landed = {} /\ walk = NoWalk /\ walks = 0 /\ summary = NoSummary /\ files = <<>>
WalkNext == \/ \E e \in QEvents : LandEvent(e)
            \/ \E f \in QFilters : WalkBegins(f)
            \/ CountRows \/ PageRows \/ QueryFails
StatsNext == (\E e \in QEvents : LandEvent(e)) \/ StatsBySource \/ StatsByClass \/ StatsByAction
RowNext == files = <<>> /\ \E f \in RecordFiles : WriteRecords(f)
EqSpec == EqInit /\ [][WalkNext \/ StatsNext \/ RowNext]_eqVars

\* ---- properties ---------------------------------------------------------------------------
Distinct(S) == \A x, y \in S : x # y => TimeOf(backend, x) # TimeOf(backend, y)

\* Pages are cut from a newest-first order by offset, so what lands during the walk only
\* pushes rows to later pages: if no two rows share a time, a walk to the first short page
\* returns every row that matched when it began (list_events).
WalkSkipsNothing == walk.at = "done" /\ Distinct(landed) => walk.start \subseteq Range(walk.seen)

\* ... and it returns a row twice only when a newer row landed meanwhile (list_events).
RepeatsNeedNewer ==
  walk.at = "done" /\ Distinct(landed) =>
    \A i, j \in DOMAIN walk.seen : i # j /\ walk.seen[i] = walk.seen[j] =>
      \E e \in walk.during : TimeOf(backend, e) > TimeOf(backend, walk.seen[i])

\* When nothing lands, the total sent with the last page is what the walk returned.
TotalMatchesWalk ==
  walk.at = "done" /\ walk.during = {} /\ Distinct(landed) => walk.total = Len(walk.seen)

\* The two backends answer a filter alike, whatever has landed, but for events without a
\* time, and for a q with a wildcard in it (events.py, _lake_where and _ch_where).
BackendsAgree ==
  \A f \in QFilters : f.q # "%" =>
    \A e \in Matches("lake", f, landed) \cup Matches("clickhouse", f, landed) :
      e.time # 0 => e \in Matches("lake", f, landed) \cap Matches("clickhouse", f, landed)

\* total_events is the sum of the first of three queries: the groupings after it count
\* at least as many, and the same when nothing landed in between (stats_summary).
SummaryOnlyGrows ==
  summary.at = "done" =>
    /\ summary.total <= summary.classes /\ summary.classes <= summary.actions
    /\ ~summary.during => summary.total = summary.actions

\* When the interval divides the window, the lake's series holds every event of the last
\* window of data, and all that ClickHouse would return at the newest event's time.
SeriesCoversWindow ==
  \A s \in QSpans : s[2] % s[1] = 0 /\ Timed(landed) # {} =>
    LET newest == Newest(landed).time IN
    /\ {e \in Timed(landed) : e.time >= newest - s[2]} \subseteq LakeSeries(landed, s[1], s[2])
    /\ Timed(ChSeries(landed, s[1], s[2], newest)) \subseteq LakeSeries(landed, s[1], s[2])

\* A field of a stored record is in the record GET /events/{uid} returns, unless it was
\* empty, its name is a core column's, or it was zero in a column of mixed types.
FieldsComeBack ==
  LET back == LakeRecords(files)
  IN \A i \in DOMAIN files : \A p \in DOMAIN files[i] :
       \/ p \in DOMAIN back[i] \/ files[i][p] \in {"empty", "none"} \/ p \in CoreColumns
       \/ files[i][p] = "zero" /\ \E j \in DOMAIN files : Kind(At(files[j], p)) = "text" /\ At(files[j], p) # "none"

\* Core columns keep their type whatever the record holds under their names: what comes
\* back in one is the number at its place in the record or nothing.
CoreColumnsTyped ==
  LET back == LakeRecords(files)
  IN \A i \in DOMAIN files : \A c \in CoreColumns \cap DOMAIN back[i] : back[i][c] \in {"int", "zero"}

\* Reading back: pages miss nothing, the backends and the statistics agree, and a record
\* comes back with its fields.
AnswersAreRight ==
  /\ WalkSkipsNothing /\ RepeatsNeedNewer /\ TotalMatchesWalk /\ BackendsAgree
  /\ SummaryOnlyGrows /\ SeriesCoversWindow /\ FieldsComeBack /\ CoreColumnsTyped
=============================================================================
