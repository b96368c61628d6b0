------------------------------- MODULE Scoring -------------------------------
(***************************************************************************)
(* Anomaly scoring.  A background loop re-scores the last Window of events   *)
(* every Interval, from the partitions of the lake; a command scores a whole *)
(* day; training rewrites the model file.  The API shows, for each event,    *)
(* its most recent row.  Time is in steps; an event is in the lake at most   *)
(* Delay steps after its time.                                               *)
(***************************************************************************)
EXTENDS Integers, FiniteSets, FiniteSetsExt

CONSTANTS ScEvents,  \* the events: [at, src]
          Window,    \* scoring_window_minutes
          Interval,  \* scoring_interval_seconds
          Bucket,    \* the width of the window features
          DayLength, Delay, MaxNow, MaxModels, MaxDayRuns

\* The loop sleeps at least a second; a day is a whole number of buckets.
ASSUME ScAssumption ==
  /\ Window \in Nat /\ Delay \in Nat /\ MaxNow \in Nat /\ MaxModels \in Nat /\ MaxDayRuns \in Nat
  /\ Interval \in Nat \ {0} /\ Bucket \in Nat \ {0} /\ DayLength \in Nat \ {0}
  /\ \E k \in 1..DayLength : DayLength = Bucket * k
  /\ \A e \in ScEvents : e.at \in Nat

VARIABLES now, lake, rows, model, scoring, dayRun, training, lastTick, missed, dayRuns
scVars == <<now, lake, rows, model, scoring, dayRun, training, lastTick, missed, dayRuns>>

Day(t) == t \div DayLength
Idle(j) == j.at = "idle"
Free == [at |-> "idle"]

\* ---- features ---------------------------------------------------------------
\* An event's window features count the events of its source in its bucket, among the
\* events of one partition.
Peers(partition, e) == {f \in partition : f.src = e.src /\ f.at \div Bucket = e.at \div Bucket}
LoadFeatures(date) == {e \in lake : Day(e.at) = date}
LoadRangeFeatures(dates) == UNION {LoadFeatures(d) : d \in dates}
ScoreFrame(events, when, m) ==
  {[event |-> e, when |-> when, peers |-> Cardinality(Peers(LoadFeatures(Day(e.at)), e)), model |-> m] : e \in events}

\* ---- training ---------------------------------------------------------------
\* joblib.dump truncates the file and fills it: a reader in between fails.
TrainBegins == /\ training = 0 /\ model.n < MaxModels /\ lake # {}
               /\ training' = model.n + 1 /\ model' = [model EXCEPT !.torn = TRUE]
               /\ UNCHANGED <<now, lake, rows, scoring, dayRun, lastTick, missed, dayRuns>>
TrainEnds == /\ training # 0 /\ model' = [n |-> training, torn |-> FALSE] /\ training' = 0
             /\ UNCHANGED <<now, lake, rows, scoring, dayRun, lastTick, missed, dayRuns>>

\* ---- the loop ---------------------------------------------------------------
Due == lastTick + Interval <= now
TickDates(when) == {Day(when - Window), Day(when)} \cap Nat
\* _tick / score_recent: the time is taken, then the model is loaded.  No model, or a
\* torn one, and the tick is given up, the loop goes on.
TickLoads ==
  /\ Idle(scoring) /\ Due /\ lastTick' = now
  /\ IF model.n > 0 /\ ~model.torn
     THEN scoring' = [at |-> "loaded", when |-> now, model |-> model.n] /\ UNCHANGED missed
     ELSE missed' = missed \cup {now} /\ UNCHANGED scoring
  /\ UNCHANGED <<now, lake, rows, model, dayRun, training, dayRuns>>
InWindow(e, when) == e.at >= when - Window /\ e.at <= when
TickScoresNew ==   \* only events without a row
  /\ scoring.at = "loaded"
  /\ rows' = rows \cup ScoreFrame({e \in LoadRangeFeatures(TickDates(scoring.when)) :
                                     InWindow(e, scoring.when) /\ ~\E r \in rows : r.event = e},
                                  scoring.when, scoring.model)
  /\ scoring' = Free
  /\ UNCHANGED <<now, lake, model, dayRun, training, lastTick, missed, dayRuns>>
TickScores ==
  /\ scoring.at = "loaded"
  /\ rows' = rows \cup ScoreFrame({e \in LoadRangeFeatures(TickDates(scoring.when)) : InWindow(e, scoring.when)},
                                  scoring.when, scoring.model)
  /\ scoring' = Free
  /\ UNCHANGED <<now, lake, model, dayRun, training, lastTick, missed, dayRuns>>

\* ---- scoring a day ------------------------------------------------------------
DayLoads(d) ==
  /\ Idle(dayRun) /\ dayRuns < MaxDayRuns /\ dayRuns' = dayRuns + 1 /\ model.n > 0 /\ ~model.torn
  /\ dayRun' = [at |-> "loaded", date |-> d, model |-> model.n]
  /\ UNCHANGED <<now, lake, rows, model, scoring, training, lastTick, missed>>
\* the time is taken after the features are read
DayScores ==
  /\ dayRun.at = "loaded" /\ dayRun' = Free
  /\ rows' = rows \cup ScoreFrame(LoadFeatures(dayRun.date), now, dayRun.model)
  /\ UNCHANGED <<now, lake, model, scoring, training, lastTick, missed, dayRuns>>

\* ---- time and the lake ----------------------------------------------------------
Land(e) == /\ e \in ScEvents \ lake /\ e.at <= now /\ lake' = lake \cup {e}
           /\ UNCHANGED <<now, rows, model, scoring, dayRun, training, lastTick, missed, dayRuns>>
\* A tick is taken when it is due, and takes less than a step; no event is later than Delay.
Pass == /\ now < MaxNow /\ now' = now + 1 /\ ~Due /\ Idle(scoring)
        /\ \A e \in ScEvents \ lake : e.at + Delay > now
        /\ UNCHANGED <<lake, rows, model, scoring, dayRun, training, lastTick, missed, dayRuns>>

ScInit == /\ now = 0 /\ lake = {} /\ rows = {} /\ model \in [n : {0, 1}, torn : {FALSE}] /\ scoring = Free /\ dayRun = Free
          /\ training = 0 /\ lastTick = 0 /\ missed = {} /\ dayRuns = 0
ScNext == \/ TrainBegins \/ TrainEnds \/ TickLoads \/ TickScores \/ DayScores \/ Pass
          \/ \E e \in ScEvents : Land(e)
          \/ \E d \in 0..Day(MaxNow) : DayLoads(d)
ScSpec == ScInit /\ [][ScNext]_scVars

\* ---- the API ---------------------------------------------------------------------
\* _latest_cte: the row with the latest scored_at, any of those of the same time.
Latest(rs, e) == {r \in rs : r.event = e /\ \A q \in rs : q.event = e => q.when <= r.when}

\* ---- properties --------------------------------------------------------------------
\* Events that have left the window, none of whose ticks was missed.
Left(e) == e.at + Window + Interval < now
Unmissed(e) == \A t \in missed : t < e.at \/ t > e.at + Window
\* Every event the lake holds in time is scored before it leaves the window, also
\* across midnight, for a window longer than the interval and the lake's delay and of
\* a day at most: a tick reads the partitions of its window's two ends.
EveryEventIsScored ==
  Delay + Interval <= Window /\ Window <= DayLength =>
    \A e \in ScEvents : Left(e) /\ Unmissed(e) => \E r \in rows : r.event = e

\* The row the API shows in the end was computed with the whole of the event's bucket,
\* when the window is longer than bucket, delay and interval together.
FinalRowSeesWholeBucket ==
  Bucket + Delay + Interval <= Window /\ Window <= DayLength =>
    \A e \in ScEvents : Left(e) /\ Unmissed(e) =>
      \A r \in Latest(rows, e) : r.peers = Cardinality(Peers(ScEvents, e))

\* The model behind the row the API shows never goes back to an older one, unless a
\* day was being scored that had loaded its model before.
LatestModelNeverOlder ==
  [][\A e \in ScEvents : \A r \in Latest(rows, e), q \in Latest(rows', e) :
       q.model >= r.model \/ dayRun.at = "loaded" \/ q.when = r.when]_scVars

\* Every event is scored, in the end with its whole bucket, and by no older model.
ScoresAreCurrent == [](EveryEventIsScored /\ FinalRowSeesWholeBucket) /\ LatestModelNeverOlder
=============================================================================
