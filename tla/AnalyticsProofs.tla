--------------------------- MODULE AnalyticsProofs ---------------------------
(***************************************************************************)
(* What is proved of the parts that learn from the events: the scores are   *)
(* current (Scoring), the catalogue of templates follows the lines           *)
(* (Templates), an outage is flagged (Drift) and a drafted definition is     *)
(* sound (Suggestion), for every value of their constants.                   *)
(***************************************************************************)
EXTENDS Scoring, Templates, Drift, Suggestion, FiniteSetTheorems, SequenceTheorems, TLAPS

(***************************************************************************)
(* Scoring: every event is scored in time and by no older model.            *)
(***************************************************************************)
ScTypeOK ==
  /\ now \in Nat /\ lastTick \in Nat /\ missed \subseteq Nat /\ lake \subseteq ScEvents
  /\ model \in [n : Nat, torn : BOOLEAN] /\ training \in {0, model.n + 1}
  /\ scoring = Free \/ scoring \in [at : {"loaded"}, when : Nat, model : Nat]
  /\ dayRun = Free \/ dayRun \in [at : {"loaded"}, date : Nat, model : Nat]
  /\ \A r \in rows : r.event \in ScEvents /\ r.when \in Nat /\ r.model \in Nat

\* The clock is never more than an interval past the last tick, and an event not yet in
\* the lake is younger than Delay.
OnTime == /\ lastTick <= now /\ now <= lastTick + Interval
          /\ \A e \in ScEvents \ lake : now <= e.at + Delay
          /\ \A e \in lake : e.at <= now
\* A tick under way is the last one; its model and those of the rows are at most the
\* file's, and only rows of the same instant have a model newer than the tick's.
TickIsNow ==
  /\ scoring.at = "loaded" => scoring.when = now /\ lastTick = now /\ scoring.model <= model.n
  /\ dayRun.at = "loaded" => dayRun.model <= model.n
  /\ \A r \in rows : r.when <= now /\ r.model <= model.n
  /\ scoring.at = "loaded" => \A r \in rows : r.when < now => r.model <= scoring.model
\* An event has a row computed more than s after it, or a tick of its window was missed
\* or is under way, or no tick has come more than s after it.
ScoredAfter(e, s) ==
  \/ \E r \in rows : r.event = e /\ r.when > e.at + s
  \/ \E t \in missed : e.at <= t /\ t <= e.at + Window
  \/ scoring.at = "loaded" /\ e.at + s < scoring.when /\ scoring.when <= e.at + Window
  \/ lastTick <= e.at + s
CoveredAfter(s) ==
  Delay <= s /\ s + Interval <= Window /\ Window <= DayLength => \A e \in ScEvents : ScoredAfter(e, s)
\* Once the bucket is over and landed, a row counts all of it.
Settled == Bucket - 1 + Delay
LateRowsAreWhole ==
  \A r \in rows : r.when > r.event.at + Settled => r.peers = Cardinality(Peers(ScEvents, r.event))
ScInv == ScTypeOK /\ OnTime /\ TickIsNow /\ CoveredAfter(Delay) /\ CoveredAfter(Settled) /\ LateRowsAreWhole

\* ---- division ----------------------------------------------------------------
\* The quotient and its bounds: what the day of a time and its bucket are.
LEMMA DivBounds ==
  ASSUME NEW a \in Int, NEW d \in Nat \ {0}
  PROVE  a \div d \in Int /\ d * (a \div d) <= a /\ a < d * (a \div d) + d
OBVIOUS

LEMMA TimesMonotone ==
  ASSUME NEW d \in Nat \ {0}, NEW m \in Int, NEW n \in Int, m <= n
  PROVE  d * m \in Int /\ d * n \in Int /\ d * m <= d * n
OBVIOUS

LEMMA TimesNext ==
  ASSUME NEW d \in Nat \ {0}, NEW m \in Int
  PROVE  d * m \in Int /\ d * (m + 1) = d * m + d
OBVIOUS

LEMMA DivMonotone ==
  ASSUME NEW d \in Nat \ {0}, NEW a \in Int, NEW b \in Int, a <= b
  PROVE  a \div d <= b \div d
<1> DEFINE p == a \div d
           q == b \div d
<1>1. /\ p \in Int /\ d * p <= a /\ q \in Int /\ b < d * q + d
  BY DivBounds
<1> HIDE DEF p, q
<1>2. SUFFICES ASSUME ~(p <= q) PROVE FALSE
  BY DEF p, q
<1>3. q + 1 <= p /\ q + 1 \in Int
  BY <1>1, <1>2
<1>4. d * (q + 1) \in Int /\ d * p \in Int /\ d * (q + 1) <= d * p
  BY <1>1, <1>3, TimesMonotone
<1>5. d * q \in Int /\ d * (q + 1) = d * q + d
  BY <1>1, TimesNext
<1> HIDE <1>2
<1> QED BY <1>1, <1>4, <1>5

\* A span of at most a day touches the days of its two ends only.
LEMMA SpanHasTwoDays ==
  ASSUME NEW d \in Nat \ {0}, NEW a \in Int, NEW b \in Int, NEW c \in Int, a <= b, b <= c, c <= a + d
  PROVE  b \div d \in {a \div d, c \div d}
<1> DEFINE p == a \div d
           q == b \div d
           r == c \div d
<1>1. p \in Int /\ q \in Int /\ r \in Int /\ p <= q /\ q <= r
  BY DivBounds, DivMonotone
<1>2. a < d * p + d /\ d * r <= c
  BY DivBounds
<1> HIDE DEF p, q, r
<1>3. d * p \in Int /\ d * (p + 1) = d * p + d /\ d * (p + 2) = d * p + d + d
  <2>1. d * p \in Int /\ d * (p + 1) = d * p + d
    BY <1>1, TimesNext
  <2>2. p + 1 \in Int /\ (p + 1) + 1 = p + 2
    BY <1>1
  <2>3. d * ((p + 1) + 1) = d * (p + 1) + d
    BY <2>2, TimesNext
  <2> QED BY <2>1, <2>2, <2>3
<1>4. r < p + 2
  <2>1. SUFFICES ASSUME p + 2 <= r PROVE FALSE
    BY <1>1
  <2>2. d * (p + 2) \in Int /\ d * r \in Int /\ d * (p + 2) <= d * r
    BY <2>1, <1>1, TimesMonotone
  <2> QED BY <2>2, <1>2, <1>3
<1>5. q = p \/ q = r
  BY <1>1, <1>4
<1> QED BY <1>5 DEF p, q, r

\* Two times of one bucket are of one day, a day being a whole number of buckets, and
\* less than a bucket apart.
LEMMA BucketInDay ==
  ASSUME NEW e \in Int, NEW f \in Int, e \div Bucket = f \div Bucket
  PROVE  Day(e) = Day(f) /\ f <= e + Bucket - 1
<1> DEFINE b == Bucket
           q == e \div b
<1>1. PICK k \in 1..DayLength : DayLength = Bucket * k
  BY ScAssumption
<1>2. b \in Nat \ {0} /\ k \in Nat \ {0} /\ DayLength \in Nat \ {0}
  BY <1>1, ScAssumption
<1>3. q \in Int /\ b * q \in Int /\ b * q <= e /\ e < b * q + b /\ b * q <= f /\ f < b * q + b
  BY <1>2, DivBounds
<1> HIDE DEF q, b
<1>4. ASSUME NEW x \in Int, b * q <= x, x < b * q + b
      PROVE  x \div DayLength = q \div k
  <2> DEFINE p == q \div k
  <2>1. p \in Int /\ k * p <= q /\ q < k * p + k /\ k * p \in Int
    BY <1>2, <1>3, DivBounds
  <2> HIDE DEF p
  <2>2. b * (k * p) <= b * q /\ b * (k * p) \in Int
    BY <2>1, <1>2, <1>3, TimesMonotone
  <2>3. b * (q + 1) <= b * (k * p + k)
    BY <2>1, <1>2, <1>3, TimesMonotone
  <2>4. b * (q + 1) = b * q + b
    BY <1>2, <1>3, TimesNext
  <2>5. b * (k * p) = (b * k) * p
    BY <1>2, <2>1
  <2>6. b * (k * p + k) = (b * k) * p + b * k
    BY <1>2, <2>1
  <2>7. b * k = DayLength
    BY <1>1 DEF b
  <2>8. DayLength * p \in Int /\ DayLength * p <= x /\ x < DayLength * p + DayLength
    BY <2>2, <2>3, <2>4, <2>5, <2>6, <2>7, <1>2, <1>3, <1>4
  <2>9. x \div DayLength = p
    BY <2>1, <2>8, <1>2
  <2> QED BY <2>9 DEF p
<1>5. e \div DayLength = f \div DayLength
  BY <1>3, <1>4
<1>6. f <= e + b - 1
  BY <1>2, <1>3
<1> QED BY <1>5, <1>6 DEF Day, b

\* ---- the rows a pass writes ----------------------------------------------------
LEMMA FrameRows ==
  ASSUME NEW events, NEW when, NEW m
  PROVE  \A r \in ScoreFrame(events, when, m) :
           /\ r.event \in events /\ r.when = when /\ r.model = m
           /\ r.peers = Cardinality(Peers(LoadFeatures(Day(r.event.at)), r.event))
BY DEF ScoreFrame

LEMMA FrameHasRow ==
  ASSUME NEW events, NEW when, NEW m, NEW e \in events
  PROVE  \E r \in ScoreFrame(events, when, m) : r.event = e /\ r.when = when
<1> DEFINE r == [event |-> e, when |-> when, peers |-> Cardinality(Peers(LoadFeatures(Day(e.at)), e)), model |-> m]
<1>1. r \in ScoreFrame(events, when, m)
  BY DEF ScoreFrame
<1>2. r.event = e /\ r.when = when
  OBVIOUS
<1> QED BY <1>1, <1>2

\* Once its bucket is over and landed, an event's peers in its partition are all of them.
LEMMA LatePeersAreAll ==
  ASSUME ScTypeOK, OnTime, NEW e \in ScEvents, now > e.at + Settled
  PROVE  Peers(LoadFeatures(Day(e.at)), e) = Peers(ScEvents, e)
<1>1. e.at \in Nat /\ now \in Nat /\ Bucket \in Nat \ {0} /\ Delay \in Nat /\ lake \subseteq ScEvents
  BY ScAssumption DEF ScTypeOK
<1>2. ASSUME NEW f \in ScEvents, f.at \div Bucket = e.at \div Bucket
      PROVE  f \in LoadFeatures(Day(e.at))
  <2>1. f.at \in Nat
    BY ScAssumption
  <2>2. Day(e.at) = Day(f.at) /\ f.at <= e.at + Bucket - 1
    BY <1>1, <1>2, <2>1, BucketInDay
  <2>3. f \in lake
    <3>1. SUFFICES ASSUME f \notin lake PROVE FALSE
      OBVIOUS
    <3>2. now <= f.at + Delay
      BY <3>1 DEF OnTime
    <3> QED BY <1>1, <2>1, <2>2, <3>2 DEF Settled
  <2> QED BY <2>2, <2>3 DEF LoadFeatures
<1>3. LoadFeatures(Day(e.at)) \subseteq ScEvents
  BY <1>1 DEF LoadFeatures
<1> QED BY <1>2, <1>3 DEF Peers

\* What holds of the rows after a pass that scores events of the lake at the present time.
LEMMA FrameKeeps ==
  ASSUME ScInv, NEW events \in SUBSET lake, NEW m \in Nat, m <= model.n,
         rows' = rows \cup ScoreFrame(events, now, m), now' = now, model' = model
  PROVE  /\ \A r \in rows' : r.event \in ScEvents /\ r.when \in Nat /\ r.model \in Nat
         /\ \A r \in rows' : r.when <= now /\ r.model <= model.n
         /\ LateRowsAreWhole'
<1>1. now \in Nat /\ lake \subseteq ScEvents /\ ScTypeOK /\ OnTime /\ TickIsNow /\ LateRowsAreWhole
  BY DEF ScInv, ScTypeOK
<1>2. ASSUME NEW r \in rows'
      PROVE  /\ r.event \in ScEvents /\ r.when \in Nat /\ r.model \in Nat
             /\ r.when <= now /\ r.model <= model.n
             /\ r.when > r.event.at + Settled => r.peers = Cardinality(Peers(ScEvents, r.event))
  <2>1. CASE r \in rows
    BY <1>1, <2>1 DEF ScTypeOK, TickIsNow, LateRowsAreWhole
  <2>2. CASE r \in ScoreFrame(events, now, m)
    <3>1. /\ r.event \in events /\ r.when = now /\ r.model = m
          /\ r.peers = Cardinality(Peers(LoadFeatures(Day(r.event.at)), r.event))
      BY <2>2, FrameRows
    <3>2. r.event \in ScEvents
      BY <3>1, <1>1
    <3>3. now > r.event.at + Settled => r.peers = Cardinality(Peers(ScEvents, r.event))
      BY <3>1, <3>2, <1>1, LatePeersAreAll
    <3> QED BY <3>1, <3>2, <3>3, <1>1
  <2> QED BY <2>1, <2>2
<1>3. LateRowsAreWhole'
  BY <1>2 DEF LateRowsAreWhole, Peers, Settled
<1> QED BY <1>2, <1>3

\* An event of the window is among those the tick reads.
LEMMA TickReads ==
  ASSUME NEW when \in Nat, NEW e \in lake, e.at \in Nat, InWindow(e, when), Window <= DayLength
  PROVE  e \in LoadRangeFeatures(TickDates(when))
<1>1. Window \in Nat /\ DayLength \in Nat \ {0}
  BY ScAssumption
<1>2. when - Window \in Int /\ when - Window <= e.at /\ e.at <= when /\ when <= (when - Window) + DayLength
  BY <1>1 DEF InWindow
<1>3. e.at \div DayLength \in {(when - Window) \div DayLength, when \div DayLength}
  <2> DEFINE a == when - Window
             b == e.at
  <2>1. a \in Int /\ b \in Int /\ when \in Int /\ a <= b /\ b <= when /\ when <= a + DayLength
    BY <1>2
  <2> HIDE DEF a, b
  <2>2. b \div DayLength \in {a \div DayLength, when \div DayLength}
    BY <1>1, <2>1, SpanHasTwoDays
  <2> QED BY <2>2 DEF a, b
<1>4. e.at \div DayLength \in Nat
  BY <1>1
<1>5. Day(e.at) \in TickDates(when)
  BY <1>3, <1>4 DEF Day, TickDates
<1> QED BY <1>5 DEF LoadRangeFeatures, LoadFeatures

LEMMA SlackTypes ==
  Delay \in Nat /\ Settled \in Nat /\ Delay <= Settled /\ Interval \in Nat /\ Window \in Nat
BY ScAssumption DEF Settled

\* ---- the actions -----------------------------------------------------------------
LEMMA ScInitHolds == ScInit => ScInv
<1> SUFFICES ASSUME ScInit PROVE ScInv
  OBVIOUS
<1>0. Interval \in Nat /\ \A e \in ScEvents : e.at \in Nat
  BY ScAssumption
<1>1. ScTypeOK
  <2>1. model \in [n : Nat, torn : BOOLEAN]
    <3>1. model \in [n : {0, 1}, torn : {FALSE}]
      BY DEF ScInit
    <3>2. {0, 1} \subseteq Nat /\ {FALSE} \subseteq BOOLEAN
      OBVIOUS
    <3>3. ASSUME NEW A, NEW B, NEW C, NEW D, A \subseteq B, C \subseteq D
          PROVE  [n : A, torn : C] \subseteq [n : B, torn : D]
      BY <3>3
    <3> QED BY <3>1, <3>2, <3>3
  <2>2. now = 0 /\ lastTick = 0 /\ missed = {} /\ lake = {} /\ training = 0 /\ scoring = Free /\ dayRun = Free /\ rows = {}
    BY DEF ScInit
  <2>3. now \in Nat /\ lastTick \in Nat /\ missed \subseteq Nat /\ lake \subseteq ScEvents /\ training \in {0, model.n + 1}
    BY <2>2
  <2> QED BY <2>1, <2>2, <2>3 DEF ScTypeOK
<1>2. OnTime
  BY <1>0, SlackTypes DEF ScInit, OnTime
<1>3. TickIsNow
  BY DEF ScInit, TickIsNow, Free
<1>4. ASSUME NEW s \in Nat PROVE CoveredAfter(s)
  BY <1>0 DEF ScInit, CoveredAfter, ScoredAfter
<1>5. LateRowsAreWhole
  BY DEF ScInit, LateRowsAreWhole
<1> QED BY <1>1, <1>2, <1>3, <1>4, <1>5, SlackTypes DEF ScInv

\* What is kept by a step that leaves the rows, the tick and the missed ticks.
LEMMA CoverKept ==
  ASSUME ScInv, UNCHANGED <<rows, missed, scoring, lastTick>>
  PROVE  CoveredAfter(Delay)' /\ CoveredAfter(Settled)' /\ LateRowsAreWhole'
BY DEF ScInv, CoveredAfter, ScoredAfter, LateRowsAreWhole, Peers, Settled

LEMMA TrainKeeps ==
  ASSUME ScInv, TrainBegins \/ TrainEnds
  PROVE  ScInv'
<1>1. UNCHANGED <<now, lake, rows, scoring, dayRun, lastTick, missed>>
  BY DEF TrainBegins, TrainEnds
<1>2. ScTypeOK /\ OnTime /\ TickIsNow
  BY DEF ScInv
<1>3. model \in [n : Nat, torn : BOOLEAN] /\ training \in {0, model.n + 1}
  BY <1>2 DEF ScTypeOK
<1>4. /\ model' \in [n : Nat, torn : BOOLEAN] /\ training' \in {0, model'.n + 1}
      /\ model.n \in Nat /\ model'.n \in Nat /\ model.n <= model'.n
  <2>1. CASE TrainBegins
    <3>1. training' = model.n + 1 /\ model' = [model EXCEPT !.torn = TRUE]
      BY <2>1 DEF TrainBegins
    <3>2. model' \in [n : Nat, torn : BOOLEAN] /\ model'.n = model.n /\ model.n \in Nat
      BY <3>1, <1>3
    <3> QED BY <3>1, <3>2
  <2>2. CASE TrainEnds
    BY <2>2, <1>3 DEF TrainEnds
  <2> QED BY <2>1, <2>2
<1>5. ScTypeOK'
  BY <1>1, <1>2, <1>4 DEF ScTypeOK
<1>6. OnTime'
  BY <1>1, <1>2 DEF OnTime
<1>7. TickIsNow'
  <2>1. scoring.at = "loaded" => scoring.model \in Nat
    BY <1>2 DEF ScTypeOK, Free
  <2>2. dayRun.at = "loaded" => dayRun.model \in Nat
    BY <1>2 DEF ScTypeOK, Free
  <2>3. \A r \in rows : r.model \in Nat
    BY <1>2 DEF ScTypeOK
  <2> QED BY <2>1, <2>2, <2>3, <1>1, <1>2, <1>4 DEF TickIsNow
<1> QED BY <1>1, <1>5, <1>6, <1>7, CoverKept DEF ScInv

LEMMA TickLoadsKeeps ==
  ASSUME ScInv, TickLoads
  PROVE  ScInv'
<1>1. UNCHANGED <<now, lake, rows, model, dayRun, training>> /\ lastTick' = now
  BY DEF TickLoads
<1>2. ScTypeOK /\ OnTime /\ TickIsNow /\ LateRowsAreWhole
  BY DEF ScInv
<1>3. now \in Nat /\ lastTick \in Nat /\ model.n \in Nat /\ Interval \in Nat /\ scoring.at = "idle"
  BY <1>2, SlackTypes DEF ScTypeOK, TickLoads, Idle
<1>4. now = lastTick + Interval
  BY <1>2, <1>3 DEF OnTime, TickLoads, Due
<1>5. \/ scoring' = [at |-> "loaded", when |-> now, model |-> model.n] /\ missed' = missed
      \/ missed' = missed \cup {now} /\ scoring' = scoring
  BY DEF TickLoads
<1>6. ScTypeOK'
  <2>1. missed' \subseteq Nat
    BY <1>2, <1>3, <1>5 DEF ScTypeOK
  <2>2. scoring' = Free \/ scoring' \in [at : {"loaded"}, when : Nat, model : Nat]
    BY <1>2, <1>3, <1>5 DEF ScTypeOK
  <2> QED BY <1>1, <1>2, <1>3, <2>1, <2>2 DEF ScTypeOK
<1>7. OnTime'
  <2>1. lastTick' <= now' /\ now' <= lastTick' + Interval
    BY <1>1, <1>3
  <2> QED BY <2>1, <1>1, <1>2 DEF OnTime
<1>8. TickIsNow'
  <2>1. scoring'.at = "loaded" => scoring'.when = now /\ scoring'.model = model.n
    BY <1>3, <1>5
  <2>2. \A r \in rows : r.when <= now /\ r.model <= model.n
    BY <1>2 DEF TickIsNow
  <2>3. dayRun.at = "loaded" => dayRun.model <= model.n
    BY <1>2 DEF TickIsNow
  <2> QED BY <1>1, <1>3, <2>1, <2>2, <2>3 DEF TickIsNow
<1>9. ASSUME NEW s \in Nat, CoveredAfter(s) PROVE CoveredAfter(s)'
  <2>1. SUFFICES ASSUME Delay <= s, s + Interval <= Window, Window <= DayLength, NEW e \in ScEvents
                 PROVE  ScoredAfter(e, s)'
    BY DEF CoveredAfter
  <2>2. ScoredAfter(e, s)
    BY <1>9, <2>1 DEF CoveredAfter
  <2>3. e.at \in Nat /\ Window \in Nat /\ Delay \in Nat
    BY ScAssumption
  <2>4. CASE \E r \in rows : r.event = e /\ r.when > e.at + s
    BY <1>1, <2>4 DEF ScoredAfter
  <2>5. CASE \E t \in missed : e.at <= t /\ t <= e.at + Window
    BY <1>5, <2>5 DEF ScoredAfter
  <2>6. CASE lastTick <= e.at + s
    <3>1. now <= e.at + Window /\ e.at <= e.at + s
      BY <1>3, <1>4, <2>1, <2>3, <2>6
    <3>2. CASE now <= e.at + s
      BY <3>2, <1>1 DEF ScoredAfter
    <3>3. CASE ~(now <= e.at + s)
      <4>1. e.at + s < now /\ e.at <= now
        BY <3>3, <1>3, <2>3
      <4>2. CASE scoring' = [at |-> "loaded", when |-> now, model |-> model.n]
        BY <4>1, <4>2, <3>1 DEF ScoredAfter
      <4>3. CASE missed' = missed \cup {now}
        BY <4>1, <4>3, <3>1 DEF ScoredAfter
      <4> QED BY <1>5, <4>2, <4>3
    <3> QED BY <3>2, <3>3
  <2> QED BY <2>2, <2>4, <2>5, <2>6, <1>3 DEF ScoredAfter
<1>10. CoveredAfter(Delay)' /\ CoveredAfter(Settled)'
  <2>1. CoveredAfter(Delay) /\ CoveredAfter(Settled)
    BY DEF ScInv
  <2>2. CoveredAfter(Delay)'
    BY <1>9, <2>1, SlackTypes
  <2>3. Settled \in Nat /\ Settled' = Settled
    BY SlackTypes DEF Settled
  <2> HIDE DEF Settled
  <2>4. CoveredAfter(Settled)'
    BY <1>9, <2>1, <2>3
  <2> QED BY <2>2, <2>4
<1>11. LateRowsAreWhole'
  BY <1>1, <1>2 DEF LateRowsAreWhole, Peers, Settled
<1> QED BY <1>6, <1>7, <1>8, <1>10, <1>11 DEF ScInv

LEMMA TickScoresKeeps ==
  ASSUME ScInv, TickScores
  PROVE  ScInv'
<1> DEFINE events == {e \in LoadRangeFeatures(TickDates(scoring.when)) : InWindow(e, scoring.when)}
           m == scoring.model
<1>1. /\ UNCHANGED <<now, lake, model, dayRun, training, lastTick, missed>> /\ scoring' = Free
      /\ scoring.at = "loaded" /\ rows' = rows \cup ScoreFrame(events, scoring.when, m)
  BY DEF TickScores
<1>2. ScTypeOK /\ OnTime /\ TickIsNow
  BY DEF ScInv
<1>3. scoring.when = now /\ lastTick = now /\ m \in Nat /\ m <= model.n /\ now \in Nat
  BY <1>1, <1>2 DEF TickIsNow, ScTypeOK, Free
<1>4. events \subseteq lake
  BY DEF LoadRangeFeatures, LoadFeatures
<1>5. scoring'.at = "idle"
  BY <1>1 DEF Free
<1>6. ASSUME NEW s \in Nat, CoveredAfter(s) PROVE CoveredAfter(s)'
  <2>1. SUFFICES ASSUME Delay <= s, s + Interval <= Window, Window <= DayLength, NEW e \in ScEvents
                 PROVE  ScoredAfter(e, s)'
    BY DEF CoveredAfter
  <2>2. ScoredAfter(e, s)
    BY <1>6, <2>1 DEF CoveredAfter
  <2>3. e.at \in Nat /\ Window \in Nat /\ Delay \in Nat
    BY ScAssumption
  <2>4. CASE \E r \in rows : r.event = e /\ r.when > e.at + s
    BY <1>1, <2>4 DEF ScoredAfter
  <2>5. CASE \E t \in missed : e.at <= t /\ t <= e.at + Window
    BY <1>1, <2>5 DEF ScoredAfter
  <2>6. CASE lastTick <= e.at + s
    BY <1>1, <2>6 DEF ScoredAfter
  <2>7. CASE e.at + s < scoring.when /\ scoring.when <= e.at + Window
    <3>1. e \in lake
      <4>1. SUFFICES ASSUME e \notin lake PROVE FALSE
        OBVIOUS
      <4>2. now <= e.at + Delay
        BY <4>1, <1>2 DEF OnTime
      <4> QED BY <4>2, <2>7, <2>1, <2>3, <1>3
    <3>2. InWindow(e, now)
      BY <1>3, <2>1, <2>3, <2>7 DEF InWindow
    <3>3. e \in events
      BY <3>1, <3>2, <1>3, <2>1, <2>3, TickReads
    <3> HIDE DEF events
    <3>4. PICK r \in ScoreFrame(events, scoring.when, m) : r.event = e /\ r.when = scoring.when
      BY <3>3, FrameHasRow
    <3>5. r \in rows' /\ r.event = e /\ r.when > e.at + s
      BY <3>4, <1>1, <1>3, <2>3, <2>7
    <3> QED BY <3>5 DEF ScoredAfter
  <2> QED BY <2>2, <2>4, <2>5, <2>6, <2>7 DEF ScoredAfter
<1>7. CoveredAfter(Delay)' /\ CoveredAfter(Settled)'
  <2>1. CoveredAfter(Delay) /\ CoveredAfter(Settled)
    BY DEF ScInv
  <2>2. CoveredAfter(Delay)'
    BY <1>6, <2>1, SlackTypes
  <2>3. Settled \in Nat /\ Settled' = Settled
    BY SlackTypes DEF Settled
  <2>4. CoveredAfter(Settled)'
    BY <1>6, <2>1, <2>3
  <2> QED BY <2>2, <2>4
<1> HIDE DEF events, m
<1>8. /\ \A r \in rows' : r.event \in ScEvents /\ r.when \in Nat /\ r.model \in Nat
      /\ \A r \in rows' : r.when <= now /\ r.model <= model.n
      /\ LateRowsAreWhole'
  BY <1>1, <1>3, <1>4, FrameKeeps
<1>9. ScTypeOK'
  BY <1>1, <1>2, <1>8 DEF ScTypeOK
<1>10. OnTime'
  BY <1>1, <1>2 DEF OnTime
<1>11. TickIsNow'
  <2>1. dayRun.at = "loaded" => dayRun.model <= model.n
    BY <1>2 DEF TickIsNow
  <2> QED BY <2>1, <1>1, <1>5, <1>8 DEF TickIsNow
<1> QED BY <1>7, <1>8, <1>9, <1>10, <1>11 DEF ScInv

LEMMA DayLoadsKeeps ==
  ASSUME ScInv, NEW d \in 0..Day(MaxNow), DayLoads(d)
  PROVE  ScInv'
<1>1. /\ UNCHANGED <<now, lake, rows, model, scoring, training, lastTick, missed>>
      /\ dayRun' = [at |-> "loaded", date |-> d, model |-> model.n]
  BY DEF DayLoads
<1>2. ScTypeOK /\ OnTime /\ TickIsNow
  BY DEF ScInv
<1>3. model.n \in Nat /\ d \in Nat
  BY <1>2 DEF ScTypeOK
<1>4. dayRun' \in [at : {"loaded"}, date : Nat, model : Nat] /\ dayRun'.model = model.n
  BY <1>1, <1>3
<1>5. ScTypeOK'
  BY <1>1, <1>2, <1>4 DEF ScTypeOK
<1>6. OnTime'
  BY <1>1, <1>2 DEF OnTime
<1>7. TickIsNow'
  BY <1>1, <1>2, <1>3, <1>4 DEF TickIsNow
<1> QED BY <1>1, <1>5, <1>6, <1>7, CoverKept DEF ScInv

LEMMA DayScoresKeeps ==
  ASSUME ScInv, DayScores
  PROVE  ScInv'
<1> DEFINE events == LoadFeatures(dayRun.date)
           m == dayRun.model
<1>1. /\ UNCHANGED <<now, lake, model, scoring, training, lastTick, missed>> /\ dayRun' = Free
      /\ dayRun.at = "loaded" /\ rows' = rows \cup ScoreFrame(events, now, m)
  BY DEF DayScores
<1>2. ScTypeOK /\ OnTime /\ TickIsNow
  BY DEF ScInv
<1>3. m \in Nat /\ m <= model.n /\ now \in Nat
  BY <1>1, <1>2 DEF TickIsNow, ScTypeOK, Free
<1>4. events \subseteq lake
  BY DEF LoadFeatures
<1>5. dayRun'.at = "idle"
  BY <1>1 DEF Free
<1> HIDE DEF events, m
<1>6. /\ \A r \in rows' : r.event \in ScEvents /\ r.when \in Nat /\ r.model \in Nat
      /\ \A r \in rows' : r.when <= now /\ r.model <= model.n
      /\ LateRowsAreWhole'
  BY <1>1, <1>3, <1>4, FrameKeeps
<1>7. CoveredAfter(Delay)' /\ CoveredAfter(Settled)'
  <2>1. rows \subseteq rows' /\ UNCHANGED <<missed, scoring, lastTick>>
    BY <1>1
  <2> QED BY <2>1 DEF ScInv, CoveredAfter, ScoredAfter, Settled
<1>8. ScTypeOK'
  BY <1>1, <1>2, <1>6 DEF ScTypeOK
<1>9. OnTime'
  BY <1>1, <1>2 DEF OnTime
<1>10. TickIsNow'
  <2>1. ASSUME scoring.at = "loaded", NEW r \in rows', r.when < now PROVE r.model <= scoring.model
    <3>1. r \notin ScoreFrame(events, now, m)
      BY <2>1, <1>3, FrameRows
    <3>2. r \in rows
      BY <3>1, <1>1
    <3> QED BY <2>1, <3>2, <1>2 DEF TickIsNow
  <2>2. scoring.at = "loaded" => scoring.when = now /\ lastTick = now /\ scoring.model <= model.n
    BY <1>2 DEF TickIsNow
  <2> QED BY <2>1, <2>2, <1>1, <1>5, <1>6 DEF TickIsNow
<1> QED BY <1>6, <1>7, <1>8, <1>9, <1>10 DEF ScInv

LEMMA LandKeeps ==
  ASSUME ScInv, NEW e \in ScEvents, Land(e)
  PROVE  ScInv'
<1>1. /\ UNCHANGED <<now, rows, model, scoring, dayRun, training, lastTick, missed>>
      /\ lake' = lake \cup {e} /\ e.at <= now
  BY DEF Land
<1>2. ScTypeOK /\ OnTime /\ TickIsNow
  BY DEF ScInv
<1>3. ScTypeOK'
  BY <1>1, <1>2 DEF ScTypeOK
<1>4. OnTime'
  BY <1>1, <1>2 DEF OnTime
<1>5. TickIsNow'
  BY <1>1, <1>2 DEF TickIsNow
<1> QED BY <1>1, <1>3, <1>4, <1>5, CoverKept DEF ScInv

LEMMA PassKeeps ==
  ASSUME ScInv, Pass
  PROVE  ScInv'
<1>1. /\ UNCHANGED <<lake, rows, model, scoring, dayRun, training, lastTick, missed>>
      /\ now' = now + 1 /\ scoring.at = "idle" /\ ~Due /\ \A e \in ScEvents \ lake : e.at + Delay > now
  BY DEF Pass, Idle
<1>2. ScTypeOK /\ OnTime /\ TickIsNow
  BY DEF ScInv
<1>3. now \in Nat /\ lastTick \in Nat /\ now' \in Nat /\ \A r \in rows : r.when \in Nat
  BY <1>1, <1>2 DEF ScTypeOK
<1>4. ScTypeOK'
  BY <1>1, <1>2, <1>3 DEF ScTypeOK
<1>5. OnTime'
  <2>1. lastTick <= now + 1 /\ now + 1 <= lastTick + Interval
    BY <1>1, <1>2, <1>3, SlackTypes DEF OnTime, Due
  <2>2. \A e \in ScEvents : e.at \in Nat
    BY ScAssumption
  <2>3. \A e \in ScEvents \ lake : now + 1 <= e.at + Delay
    BY <2>2, <1>1, <1>3, SlackTypes
  <2>4. \A e \in lake : e.at <= now + 1
    BY <2>2, <1>2, <1>3 DEF OnTime, ScTypeOK
  <2> QED BY <2>1, <2>3, <2>4, <1>1 DEF OnTime
<1>6. TickIsNow'
  <2>1. \A r \in rows : r.when <= now + 1 /\ r.model <= model.n
    BY <1>2, <1>3 DEF TickIsNow
  <2> QED BY <2>1, <1>1, <1>2 DEF TickIsNow
<1> QED BY <1>1, <1>4, <1>5, <1>6, CoverKept DEF ScInv

LEMMA ScStepKeeps == ScInv /\ [ScNext]_scVars => ScInv'
<1> SUFFICES ASSUME ScInv, [ScNext]_scVars PROVE ScInv'
  OBVIOUS
<1>1. CASE UNCHANGED scVars
  <2>1. UNCHANGED <<now, lake, rows, model, scoring, dayRun, training, lastTick, missed>>
    BY <1>1 DEF scVars
  <2>2. ScTypeOK' /\ OnTime' /\ TickIsNow'
    BY <2>1 DEF ScInv, ScTypeOK, OnTime, TickIsNow
  <2> QED BY <2>1, <2>2, CoverKept DEF ScInv
<1> QED BY <1>1, TrainKeeps, TickLoadsKeeps, TickScoresKeeps, DayLoadsKeeps, DayScoresKeeps, LandKeeps, PassKeeps DEF ScNext

\* ---- the property ------------------------------------------------------------------
\* An event that has left the window, none of whose ticks was missed, has its row.
LEMMA LeftIsScored ==
  ASSUME ScInv, NEW s \in Nat, CoveredAfter(s), Delay <= s, s + Interval <= Window, Window <= DayLength,
         NEW e \in ScEvents, Left(e), Unmissed(e)
  PROVE  \E r \in rows : r.event = e /\ r.when > e.at + s
<1>1. e.at \in Nat /\ Window \in Nat /\ Interval \in Nat /\ now \in Nat /\ lastTick \in Nat /\ now <= lastTick + Interval
  BY ScAssumption, SlackTypes DEF ScInv, ScTypeOK, OnTime
<1>2. missed \subseteq Nat /\ (scoring.at = "loaded" => scoring.when = now)
  BY DEF ScInv, ScTypeOK, TickIsNow
<1>3. lastTick > e.at + Window /\ now > e.at + Window
  BY <1>1 DEF Left
<1>4. ~(lastTick <= e.at + s)
  BY <1>1, <1>3
<1>5. ~(scoring.at = "loaded" /\ scoring.when <= e.at + Window)
  BY <1>1, <1>2, <1>3
<1>6. ~\E t \in missed : e.at <= t /\ t <= e.at + Window
  BY <1>1, <1>2 DEF Unmissed
<1>7. ScoredAfter(e, s)
  BY DEF CoveredAfter
<1> QED BY <1>4, <1>5, <1>6, <1>7 DEF ScoredAfter

LEMMA EveryEventIsScoredHolds == ScInv => EveryEventIsScored
<1> SUFFICES ASSUME ScInv, Delay + Interval <= Window, Window <= DayLength,
                    NEW e \in ScEvents, Left(e), Unmissed(e)
             PROVE  \E r \in rows : r.event = e
  BY DEF EveryEventIsScored
<1>1. CoveredAfter(Delay) /\ Delay \in Nat /\ Delay <= Delay
  BY SlackTypes DEF ScInv
<1> QED BY <1>1, LeftIsScored

LEMMA FinalRowSeesWholeBucketHolds == ScInv => FinalRowSeesWholeBucket
<1> SUFFICES ASSUME ScInv, Bucket + Delay + Interval <= Window, Window <= DayLength,
                    NEW e \in ScEvents, Left(e), Unmissed(e), NEW r \in Latest(rows, e)
             PROVE  r.peers = Cardinality(Peers(ScEvents, e))
  BY DEF FinalRowSeesWholeBucket
<1>1. Settled \in Nat /\ Delay <= Settled /\ Settled + Interval <= Window /\ CoveredAfter(Settled)
  <2>1. Bucket \in Nat \ {0}
    BY ScAssumption
  <2> QED BY <2>1, SlackTypes DEF ScInv, Settled
<1>2. PICK q \in rows : q.event = e /\ q.when > e.at + Settled
  BY <1>1, LeftIsScored
<1>3. r \in rows /\ r.event = e /\ q.when <= r.when
  BY <1>2 DEF Latest
<1>4. q.when \in Nat /\ r.when \in Nat /\ e.at \in Nat
  BY <1>2, <1>3, ScAssumption DEF ScInv, ScTypeOK
<1>5. r.when > e.at + Settled
  BY <1>1, <1>2, <1>3, <1>4
<1> QED BY <1>3, <1>5 DEF ScInv, LateRowsAreWhole

LEMMA LatestModelStep ==
  ASSUME ScInv, [ScNext]_scVars, NEW e \in ScEvents, NEW r \in Latest(rows, e), NEW q \in Latest(rows', e)
  PROVE  q.model >= r.model \/ dayRun.at = "loaded" \/ q.when = r.when
<1>1. /\ r \in rows /\ r.event = e /\ q \in rows' /\ q.event = e
      /\ \A x \in rows : x.event = e => x.when <= r.when
      /\ \A x \in rows' : x.event = e => x.when <= q.when
  BY DEF Latest
<1>2. r.when \in Nat /\ r.model \in Nat /\ now \in Nat /\ (\A x \in rows : x.when \in Nat) /\ r.when <= now
  BY <1>1 DEF ScInv, ScTypeOK, TickIsNow
<1>3. ASSUME rows \subseteq rows', q \in rows PROVE q.when = r.when
  BY <1>1, <1>2, <1>3
<1>4. CASE rows' = rows
  BY <1>1, <1>3, <1>4
<1>5. CASE DayScores
  BY <1>5 DEF DayScores
<1>6. CASE TickScores
  <2>1. /\ scoring.at = "loaded" /\ rows \subseteq rows'
        /\ q \in rows \/ (q.when = scoring.when /\ q.model = scoring.model)
    <3>1. PICK events : rows' = rows \cup ScoreFrame(events, scoring.when, scoring.model)
      BY <1>6 DEF TickScores
    <3>2. scoring.at = "loaded"
      BY <1>6 DEF TickScores
    <3>3. rows \subseteq rows' /\ (q \in rows \/ q \in ScoreFrame(events, scoring.when, scoring.model))
      BY <1>1, <3>1
    <3>4. CASE q \in ScoreFrame(events, scoring.when, scoring.model)
      <4>1. q.when = scoring.when /\ q.model = scoring.model
        BY <3>4, FrameRows
      <4> QED BY <3>2, <3>3, <4>1
    <3>5. CASE q \in rows
      BY <3>2, <3>3, <3>5
    <3> QED BY <3>3, <3>4, <3>5
  <2>2. scoring.when = now /\ (r.when < now => r.model <= scoring.model) /\ scoring.model \in Nat
    BY <2>1, <1>1 DEF ScInv, TickIsNow, ScTypeOK, Free
  <2>3. CASE q \in rows
    BY <2>1, <2>3, <1>3
  <2>4. CASE q.when = scoring.when /\ q.model = scoring.model
    <3>1. CASE r.when = now
      BY <3>1, <2>2, <2>4
    <3>2. CASE r.when < now
      BY <3>2, <2>2, <2>4, <1>2
    <3> QED BY <3>1, <3>2, <1>2
  <2> QED BY <2>1, <2>3, <2>4
<1>7. rows' = rows \/ DayScores \/ TickScores
  BY DEF ScNext, scVars, TrainBegins, TrainEnds, TickLoads, DayLoads, Land, Pass
<1> QED BY <1>4, <1>5, <1>6, <1>7

\* Every event the lake holds in time is scored before it leaves the window, the row the
\* API shows in the end was computed with the whole of its bucket, and its model never
\* goes back, for every window, interval, bucket, delay and set of events.
THEOREM ScoringIsSafe == ScSpec => ScoresAreCurrent
<1>1. ScInit => ScInv
  BY ScInitHolds
<1>2. ScInv /\ [ScNext]_scVars => ScInv'
  BY ScStepKeeps
<1>3. ScInv => EveryEventIsScored /\ FinalRowSeesWholeBucket
  BY EveryEventIsScoredHolds, FinalRowSeesWholeBucketHolds
<1>4. ScInv /\ [ScNext]_scVars =>
        [\A e \in ScEvents : \A r \in Latest(rows, e), q \in Latest(rows', e) :
           q.model >= r.model \/ dayRun.at = "loaded" \/ q.when = r.when]_scVars
  BY LatestModelStep
<1> QED BY <1>1, <1>2, <1>3, <1>4, PTL DEF ScSpec, ScoresAreCurrent, LatestModelNeverOlder

(***************************************************************************)
(* Templates: the catalogue follows the lines.                              *)
(***************************************************************************)
Alone == ~overlapped /\ OwnFiles
Tree(s) == treeFile[SafeName[s]]

\* The trees' files: sequences of shapes without repetition.
TreesOK ==
  /\ treeFile \in [{SafeName[s] : s \in TplSources} -> Seq(Shapes)]
  /\ \A s \in TplSources : \A i, j \in DOMAIN Tree(s) : Tree(s)[i] = Tree(s)[j] => i = j
\* A line between mine and record is one of its source's tree.
LineOK(l) ==
  \/ l = NothingMined
  \/ /\ l = [at |-> "mined", source |-> l.source, id |-> l.id, shape |-> l.shape]
     /\ l.source \in TplSources /\ l.shape \in Shapes
     /\ l.id \in DOMAIN Tree(l.source) /\ Tree(l.source)[l.id] = l.shape
\* The one process that is up has in memory what is in the files.
UpOK(p) ==
  /\ DOMAIN miner[p] = {"up", "trees", "cat", "line"} /\ miner[p].up = TRUE
  /\ miner[p].cat = catFile
  /\ DOMAIN miner[p].trees \subseteq TplSources
  /\ \A s \in DOMAIN miner[p].trees : miner[p].trees[s] = Tree(s)
  /\ LineOK(miner[p].line)
MinersOK ==
  /\ miner = [p \in Miners |-> miner[p]]
  /\ \A p \in Miners : miner[p] = Down \/ UpOK(p)
  /\ \A p, q \in Miners : miner[p].up /\ miner[q].up => p = q
\* A ring: the latest times in order, all of them or RingCap.
Later(times, t) == {u \in times : u > t}
RingOK(times, recent) ==
  /\ recent \in Seq(Nat) /\ Len(recent) \in 1..RingCap
  /\ \A i \in 1..Len(recent) : recent[i] \in times /\ Cardinality(Later(times, recent[i])) = Len(recent) - i
  /\ \A i \in 1..Len(recent) : i > 1 => recent[i - 1] < recent[i]
  /\ \A t \in times : (\E i \in 1..Len(recent) : recent[i] = t) \/ (Len(recent) = RingCap /\ t < recent[1])
RowOK(k) ==
  /\ k = <<k[1], k[2]>> /\ k[1] \in TplSources /\ k[2] \in DOMAIN Tree(k[1])
  /\ catFile[k] = [shape |-> Tree(k[1])[k[2]], count |-> Cardinality(Occurrences(k[1], catFile[k].shape)),
                   recent |-> catFile[k].recent]
  /\ RingOK(Occurrences(k[1], catFile[k].shape), catFile[k].recent)
CatOK ==
  /\ mined \in Seq(TplSources \X Shapes)
  /\ \A k \in DOMAIN catFile : RowOK(k)
  /\ \A s \in TplSources, shape \in Shapes :
       Occurrences(s, shape) # {} => \E k \in DOMAIN catFile : k[1] = s /\ catFile[k].shape = shape
TplInv == Alone => TreesOK /\ MinersOK /\ CatOK

\* ---- rings ---------------------------------------------------------------------
LEMMA AppendElements ==
  ASSUME NEW S, NEW q \in Seq(S), NEW x \in S
  PROVE  /\ Append(q, x) \in Seq(S) /\ Len(q) \in Nat /\ Len(Append(q, x)) = Len(q) + 1
         /\ \A i \in 1..Len(q) : Append(q, x)[i] = q[i] /\ q[i] \in S
         /\ Append(q, x)[Len(q) + 1] = x
         /\ DOMAIN q = 1..Len(q) /\ DOMAIN Append(q, x) = 1..(Len(q) + 1)
OBVIOUS

LEMMA DropFirst ==
  ASSUME NEW S, NEW q \in Seq(S), NEW n \in Nat, Len(q) = n + 1
  PROVE  /\ SubSeq(q, 2, n + 1) \in Seq(S) /\ Len(SubSeq(q, 2, n + 1)) = n
         /\ \A i \in 1..n : SubSeq(q, 2, n + 1)[i] = q[i + 1]
OBVIOUS

\* A time later than all others is later than each of them, and adds one to their number.
LEMMA LaterGrows ==
  ASSUME NEW times \in SUBSET Nat, IsFiniteSet(times), NEW stamp \in Nat, \A t \in times : t < stamp
  PROVE  /\ Later(times \cup {stamp}, stamp) = {} /\ Cardinality(Later(times \cup {stamp}, stamp)) = 0
         /\ \A t \in times : Cardinality(Later(times \cup {stamp}, t)) = Cardinality(Later(times, t)) + 1
<1>0. \A t \in times \cup {stamp} : t \in Nat /\ ~(t > stamp)
  OBVIOUS
<1>1. Later(times \cup {stamp}, stamp) = {}
  BY <1>0 DEF Later
<1>2. Cardinality({}) = 0
  BY FS_EmptySet
<1>3. ASSUME NEW t \in times
      PROVE  Cardinality(Later(times \cup {stamp}, t)) = Cardinality(Later(times, t)) + 1
  <2>1. Later(times \cup {stamp}, t) = Later(times, t) \cup {stamp}
    BY DEF Later
  <2>2. IsFiniteSet(Later(times, t))
    <3>1. Later(times, t) \subseteq times
      BY DEF Later
    <3> QED BY <3>1, FS_Subset
  <2>3. stamp \notin Later(times, t)
    BY DEF Later
  <2> QED BY <2>1, <2>2, <2>3, FS_AddElement
<1> QED BY <1>1, <1>2, <1>3

\* The ring of a template's first line.
LEMMA RingStarts ==
  ASSUME NEW stamp \in Nat
  PROVE  RingOK({stamp}, <<stamp>>)
<1>1. <<stamp>> \in Seq(Nat) /\ Len(<<stamp>>) = 1 /\ <<stamp>>[1] = stamp /\ RingCap \in Nat \ {0}
  BY TplAssumption
<1>2. Cardinality(Later({stamp}, stamp)) = 0
  <2>1. Later({stamp}, stamp) = {}
    BY DEF Later
  <2> QED BY <2>1, FS_EmptySet
<1> QED BY <1>1, <1>2 DEF RingOK

\* The ring after one more line.
LEMMA RingGrows ==
  ASSUME NEW times \in SUBSET Nat, IsFiniteSet(times), NEW stamp \in Nat, \A t \in times : t < stamp,
         NEW recent, RingOK(times, recent)
  PROVE  RingOK(times \cup {stamp}, Ring(recent, stamp))
<1> DEFINE all == Append(recent, stamp)
           L == Len(recent)
           more == times \cup {stamp}
<1>1. /\ recent \in Seq(Nat) /\ L \in 1..RingCap /\ RingCap \in Nat \ {0}
      /\ \A i \in 1..L : recent[i] \in times /\ Cardinality(Later(times, recent[i])) = L - i
      /\ \A i \in 1..L : i > 1 => recent[i - 1] < recent[i]
      /\ \A t \in times : (\E i \in 1..L : recent[i] = t) \/ (L = RingCap /\ t < recent[1])
  BY TplAssumption DEF RingOK
<1>2. /\ all \in Seq(Nat) /\ L \in Nat /\ Len(all) = L + 1
      /\ \A i \in 1..L : all[i] = recent[i] /\ recent[i] \in Nat
      /\ all[L + 1] = stamp
  BY <1>1, AppendElements
<1>3. Ring(recent, stamp) = IF L + 1 > RingCap THEN SubSeq(all, (L + 1) - RingCap + 1, L + 1) ELSE all
  BY <1>2 DEF Ring
<1>0. /\ Cardinality(Later(more, stamp)) = 0
      /\ \A t \in times : Cardinality(Later(more, t)) = Cardinality(Later(times, t)) + 1
  BY LaterGrows
<1>01. times \subseteq more /\ stamp \in more /\ (\A t \in more : t \in times \/ t = stamp) /\ more \subseteq Nat
  OBVIOUS
<1> HIDE DEF all, L, more
<1>4. \A i \in 1..(L + 1) : all[i] \in more /\ Cardinality(Later(more, all[i])) = (L + 1) - i
  <2>1. ASSUME NEW i \in 1..L
        PROVE  all[i] \in more /\ Cardinality(Later(more, all[i])) = (L + 1) - i
    <3>1. all[i] \in times /\ Cardinality(Later(times, all[i])) = L - i
      BY <1>1, <1>2
    <3>2. Cardinality(Later(more, all[i])) = (L - i) + 1
      BY <3>1, <1>0
    <3> QED BY <3>1, <3>2, <1>2, <1>01
  <2>2. all[L + 1] \in more /\ Cardinality(Later(more, all[L + 1])) = 0
    BY <1>2, <1>0, <1>01
  <2>3. (L + 1) - (L + 1) = 0 /\ \A i \in 1..(L + 1) : i \in 1..L \/ i = L + 1
    BY <1>2
  <2> QED BY <2>1, <2>2, <2>3
<1>5. \A i \in 1..(L + 1) : i > 1 => all[i - 1] < all[i]
  <2>1. SUFFICES ASSUME NEW i \in 1..(L + 1), i > 1 PROVE all[i - 1] < all[i]
    OBVIOUS
  <2>2. i - 1 \in 1..L /\ (i \in 1..L \/ i = L + 1)
    BY <1>2, <2>1
  <2>3. CASE i \in 1..L
    BY <2>1, <2>2, <2>3, <1>1, <1>2
  <2>4. CASE i = L + 1
    <3>1. all[i - 1] \in times
      BY <2>2, <1>1, <1>2
    <3> QED BY <3>1, <2>4, <1>2
  <2> QED BY <2>2, <2>3, <2>4
<1>6. CASE L < RingCap
  <2>1. Ring(recent, stamp) = all /\ L + 1 \in 1..RingCap
    BY <1>1, <1>2, <1>3, <1>6
  <2>2. \A t \in more : \E i \in 1..(L + 1) : all[i] = t
    <3>1. SUFFICES ASSUME NEW t \in more PROVE \E i \in 1..(L + 1) : all[i] = t
      OBVIOUS
    <3>2. CASE t = stamp
      BY <3>2, <1>2
    <3>3. CASE t \in times
      <4>1. PICK i \in 1..L : recent[i] = t
        BY <3>3, <1>1, <1>2, <1>6
      <4>2. i \in 1..(L + 1) /\ all[i] = t
        BY <4>1, <1>2
      <4> QED BY <4>2
    <3>4. t = stamp \/ t \in times
      BY <1>01
    <3> QED BY <3>2, <3>3, <3>4
  <2>3. RingOK(more, all)
    BY <2>1, <2>2, <1>2, <1>4, <1>5 DEF RingOK
  <2> QED BY <2>1, <2>3 DEF more
<1>7. CASE L = RingCap
  <2> DEFINE new == SubSeq(all, 2, L + 1)
  <2>1. Ring(recent, stamp) = new
    <3>1. L + 1 > RingCap /\ (L + 1) - RingCap + 1 = 2
      BY <1>1, <1>2, <1>7
    <3> QED BY <3>1, <1>3
  <2>2. new \in Seq(Nat) /\ Len(new) = L /\ \A i \in 1..L : new[i] = all[i + 1]
    BY <1>2, DropFirst
  <2> HIDE DEF new
  <2>3. \A i \in 1..L : new[i] \in more /\ Cardinality(Later(more, new[i])) = L - i
    <3>1. SUFFICES ASSUME NEW i \in 1..L PROVE new[i] \in more /\ Cardinality(Later(more, new[i])) = L - i
      OBVIOUS
    <3>2. i + 1 \in 1..(L + 1) /\ (L + 1) - (i + 1) = L - i
      BY <1>2
    <3> QED BY <3>2, <2>2, <1>4
  <2>4. \A i \in 1..L : i > 1 => new[i - 1] < new[i]
    <3>1. SUFFICES ASSUME NEW i \in 1..L, i > 1 PROVE new[i - 1] < new[i]
      OBVIOUS
    <3>2. i + 1 \in 1..(L + 1) /\ i + 1 > 1 /\ i - 1 \in 1..L /\ (i - 1) + 1 = i /\ (i + 1) - 1 = i
      BY <1>2, <3>1
    <3>3. all[(i + 1) - 1] < all[i + 1]
      BY <3>2, <1>5
    <3>4. new[i] = all[i + 1] /\ new[i - 1] = all[(i - 1) + 1]
      BY <3>2, <2>2
    <3> QED BY <3>2, <3>3, <3>4
  <2>5. 1 \in 1..L /\ 2 \in 1..(L + 1) /\ new[1] = all[2] /\ all[1] < all[2] /\ all[1] = recent[1]
    <3>1. 1 \in 1..L /\ 2 \in 1..(L + 1) /\ 2 > 1 /\ 1 + 1 = 2 /\ 2 - 1 = 1
      BY <1>1, <1>2, <1>7
    <3>2. all[2 - 1] < all[2]
      BY <3>1, <1>5
    <3>3. new[1] = all[1 + 1]
      BY <3>1, <2>2
    <3> QED BY <3>1, <3>2, <3>3, <1>2
  <2>6. all[2] \in Nat /\ recent[1] \in Nat
    BY <2>5, <1>2, <1>4, <1>01
  <2>7. \A t \in more : (\E i \in 1..L : new[i] = t) \/ t < new[1]
    <3>1. SUFFICES ASSUME NEW t \in more PROVE (\E i \in 1..L : new[i] = t) \/ t < new[1]
      OBVIOUS
    <3>2. CASE t = stamp
      <4>1. L \in 1..L /\ new[L] = stamp
        BY <1>2, <2>2, <2>5
      <4> QED BY <4>1, <3>2
    <3>3. CASE t \in times /\ t < recent[1]
      BY <3>3, <2>5, <2>6
    <3>4. CASE \E i \in 1..L : recent[i] = t
      <4>1. PICK i \in 1..L : recent[i] = t
        BY <3>4
      <4>2. CASE i = 1
        BY <4>1, <4>2, <2>5, <2>6
      <4>3. CASE i > 1
        <5>1. i - 1 \in 1..L /\ (i - 1) + 1 = i
          BY <4>3, <1>2
        <5>2. new[i - 1] = t
          BY <5>1, <2>2, <1>2, <4>1
        <5> QED BY <5>1, <5>2
      <4> QED BY <4>2, <4>3, <1>2
    <3>5. t = stamp \/ t \in times
      BY <1>01
    <3>6. t \in times => (\E i \in 1..L : recent[i] = t) \/ t < recent[1]
      BY <1>1
    <3> QED BY <3>2, <3>3, <3>4, <3>5, <3>6
  <2>8. L \in 1..RingCap
    BY <1>1
  <2>9. RingOK(more, new)
    BY <2>2, <2>3, <2>4, <2>7, <2>8, <1>7 DEF RingOK
  <2> QED BY <2>1, <2>9 DEF more
<1> QED BY <1>1, <1>2, <1>6, <1>7

\* What the ring holds, by its invariant, is the latest RingCap times.
LEMMA RingIsLatest ==
  ASSUME NEW times \in SUBSET Nat, IsFiniteSet(times), NEW recent, RingOK(times, recent)
  PROVE  Range(recent) = {t \in times : Cardinality({u \in times : u > t}) < RingCap}
<1> DEFINE L == Len(recent)
<1>1. /\ recent \in Seq(Nat) /\ L \in 1..RingCap /\ RingCap \in Nat \ {0}
      /\ \A i \in 1..L : recent[i] \in times /\ Cardinality(Later(times, recent[i])) = L - i
      /\ \A t \in times : (\E i \in 1..L : recent[i] = t) \/ (L = RingCap /\ t < recent[1])
  BY TplAssumption DEF RingOK
<1>2. Range(recent) = {recent[i] : i \in 1..L} /\ L \in Nat
  BY <1>1 DEF Range
<1> HIDE DEF L
<1>3. ASSUME NEW i \in 1..L PROVE recent[i] \in times /\ Cardinality(Later(times, recent[i])) < RingCap
  <2>1. L - i < RingCap
    BY <1>1
  <2> QED BY <1>1, <2>1
<1>4. ASSUME NEW t \in times, Cardinality(Later(times, t)) < RingCap PROVE \E i \in 1..L : recent[i] = t
  <2>1. SUFFICES ASSUME L = RingCap, t < recent[1] PROVE FALSE
    BY <1>1
  <2>2. 1 \in 1..L
    BY <1>1
  <2> DEFINE first == recent[1]
             upper == Later(times, first)
  <2>3. first \in times /\ Cardinality(upper) = L - 1
    BY <1>1, <2>2
  <2>35. first \in Nat /\ t \in Nat /\ \A u \in times : u \in Nat
    <3>1. \A u \in times : u \in Nat
      OBVIOUS
    <3> QED BY <3>1, <2>3
  <2>5. t < first
    BY <2>1
  <2> HIDE DEF first
  <2>4. IsFiniteSet(upper) /\ first \notin upper /\ IsFiniteSet(Later(times, t))
    <3>1. upper \subseteq times /\ Later(times, t) \subseteq times
      BY DEF Later
    <3>2. ~(first > first)
      BY <2>35
    <3>3. first \notin upper
      BY <3>2 DEF Later
    <3> QED BY <3>1, <3>3, FS_Subset
  <2>6. upper \cup {first} \subseteq Later(times, t)
    <3>2. first > t /\ \A u \in times : u > first => u > t
      BY <2>35, <2>5
    <3> QED BY <2>3, <3>2 DEF Later
  <2> HIDE DEF upper
  <2>7. Cardinality(upper \cup {first}) = (L - 1) + 1
    BY <2>3, <2>4, FS_AddElement
  <2>8. Cardinality(upper \cup {first}) <= Cardinality(Later(times, t)) /\ Cardinality(Later(times, t)) \in Nat
    BY <2>4, <2>6, FS_Subset, FS_CardinalityType
  <2> QED BY <2>7, <2>8, <1>4, <1>1, <1>2, <2>1
<1> QED BY <1>2, <1>3, <1>4 DEF Later

\* ---- lines and rows ----------------------------------------------------------------
LEMMA OccurrencesAreTimes ==
  ASSUME mined \in Seq(TplSources \X Shapes), NEW s, NEW shape
  PROVE  /\ Occurrences(s, shape) \in SUBSET Nat /\ IsFiniteSet(Occurrences(s, shape))
         /\ Len(mined) + 1 \in Nat /\ \A t \in Occurrences(s, shape) : t < Len(mined) + 1
<1>1. Len(mined) \in Nat /\ DOMAIN mined = 1..Len(mined)
  OBVIOUS
<1>2. Occurrences(s, shape) \subseteq 1..Len(mined)
  BY <1>1 DEF Occurrences
<1>3. IsFiniteSet(1..Len(mined))
  BY <1>1, FS_Interval
<1>4. IsFiniteSet(Occurrences(s, shape))
  BY <1>2, <1>3, FS_Subset
<1>5. \A t \in 1..Len(mined) : t \in Nat /\ t < Len(mined) + 1
  BY <1>1
<1> QED BY <1>1, <1>2, <1>4, <1>5

LEMMA OccurrencesGrow ==
  ASSUME mined \in Seq(TplSources \X Shapes), NEW s \in TplSources, NEW shape \in Shapes,
         mined' = Append(mined, <<s, shape>>)
  PROVE  /\ mined' \in Seq(TplSources \X Shapes)
         /\ Occurrences(s, shape)' = Occurrences(s, shape) \cup {Len(mined) + 1}
         /\ \A t, other : <<t, other>> # <<s, shape>> => Occurrences(t, other)' = Occurrences(t, other)
<1> DEFINE P == TplSources \X Shapes
           x == <<s, shape>>
<1>1. x \in P
  OBVIOUS
<1>2. /\ Append(mined, x) \in Seq(P) /\ Len(mined) \in Nat
      /\ \A i \in 1..Len(mined) : Append(mined, x)[i] = mined[i]
      /\ Append(mined, x)[Len(mined) + 1] = x
      /\ DOMAIN mined = 1..Len(mined) /\ DOMAIN Append(mined, x) = 1..(Len(mined) + 1)
  <2> HIDE DEF P, x
  <2>1. mined \in Seq(P)
    BY DEF P
  <2> QED BY <2>1, <1>1, AppendElements
<1>3. /\ mined' \in Seq(P) /\ mined'[Len(mined) + 1] = x
      /\ \A i \in 1..Len(mined) : mined'[i] = mined[i]
      /\ DOMAIN mined' = DOMAIN mined \cup {Len(mined) + 1} /\ DOMAIN mined = 1..Len(mined)
      /\ Len(mined) + 1 \notin DOMAIN mined
  <2>1. 1..(Len(mined) + 1) = 1..Len(mined) \cup {Len(mined) + 1} /\ Len(mined) + 1 \notin 1..Len(mined)
    BY <1>2
  <2> QED BY <1>2, <2>1
<1> HIDE DEF x, P
<1>4. ASSUME NEW y PROVE {i \in DOMAIN mined' : mined'[i] = y} =
                         {i \in DOMAIN mined : mined[i] = y} \cup (IF y = x THEN {Len(mined) + 1} ELSE {})
  BY <1>3
<1>5. Occurrences(s, shape)' = Occurrences(s, shape) \cup {Len(mined) + 1}
  BY <1>4 DEF Occurrences, x
<1>6. ASSUME NEW t, NEW other, <<t, other>> # x
      PROVE  Occurrences(t, other)' = Occurrences(t, other)
  BY <1>4, <1>6 DEF Occurrences
<1> QED BY <1>3, <1>5, <1>6 DEF x, P

\* One row per shape: its id is the shape's place in the tree.
LEMMA RowIsKey ==
  ASSUME TreesOK, NEW k, RowOK(k), NEW s \in TplSources, NEW id \in DOMAIN Tree(s),
         k[1] = s, catFile[k].shape = Tree(s)[id]
  PROVE  k = <<s, id>>
<1>1. k = <<k[1], k[2]>> /\ k[2] \in DOMAIN Tree(s) /\ catFile[k].shape = Tree(s)[k[2]]
  BY DEF RowOK
<1>2. k[2] = id
  BY <1>1 DEF TreesOK
<1> QED BY <1>1, <1>2

\* The files' effect: a row for the line's key, the others as they were.
LEMMA RecordRows ==
  ASSUME TreesOK, CatOK, NEW s \in TplSources, NEW id \in DOMAIN Tree(s), NEW shape \in Shapes,
         Tree(s)[id] = shape,
         catFile' = With(catFile, <<s, id>>, Row(catFile, <<s, id>>, shape, Len(mined) + 1)),
         mined' = Append(mined, <<s, shape>>), treeFile' = treeFile
  PROVE  /\ CatOK'
         /\ \A k \in DOMAIN catFile : k \in DOMAIN catFile' /\ catFile'[k].shape = catFile[k].shape
<1> DEFINE key == <<s, id>>
           n == Len(mined) + 1
           times == Occurrences(s, shape)
<1>1. mined \in Seq(TplSources \X Shapes) /\ (\A k \in DOMAIN catFile : RowOK(k))
  BY DEF CatOK
<1>2. /\ mined' \in Seq(TplSources \X Shapes)
      /\ Occurrences(s, shape)' = times \cup {n}
      /\ \A t, other : <<t, other>> # <<s, shape>> => Occurrences(t, other)' = Occurrences(t, other)
  BY <1>1, OccurrencesGrow
<1>3. times \in SUBSET Nat /\ IsFiniteSet(times) /\ n \in Nat /\ \A t \in times : t < n
  BY <1>1, OccurrencesAreTimes
<1>4. /\ DOMAIN catFile' = DOMAIN catFile \cup {key}
      /\ catFile'[key] = Row(catFile, key, shape, n)
      /\ \A k \in DOMAIN catFile : k # key => catFile'[k] = catFile[k]
  BY DEF With
<1>5. Cardinality(times \cup {n}) = Cardinality(times) + 1
  <2>1. n \notin times
    BY <1>3
  <2> QED BY <2>1, <1>3, FS_AddElement
<1>6. key[1] = s /\ key[2] = id /\ key = <<key[1], key[2]>>
  OBVIOUS
<1> HIDE DEF n, times
<1>7. catFile'[key] = [shape |-> shape, count |-> Cardinality(times \cup {n}), recent |-> catFile'[key].recent]
      /\ RingOK(times \cup {n}, catFile'[key].recent)
  <2>1. CASE key \in DOMAIN catFile
    <3>1. /\ catFile[key] = [shape |-> shape, count |-> Cardinality(Occurrences(s, catFile[key].shape)), recent |-> catFile[key].recent]
          /\ RingOK(Occurrences(s, catFile[key].shape), catFile[key].recent)
      BY <1>1, <1>6, <2>1 DEF RowOK
    <3>2. catFile[key].shape = shape
      BY <3>1
    <3>3. catFile[key] = [shape |-> shape, count |-> Cardinality(times), recent |-> catFile[key].recent]
      BY <3>1, <3>2 DEF times
    <3>4. RingOK(times, catFile[key].recent)
      BY <3>1, <3>2 DEF times
    <3>5. catFile'[key] = [shape |-> shape, count |-> catFile[key].count + 1, recent |-> Ring(catFile[key].recent, n)]
      BY <1>4, <2>1 DEF Row
    <3> DEFINE old == catFile[key].recent
               num == Cardinality(times)
    <3>6. catFile[key] = [shape |-> shape, count |-> num, recent |-> old]
      BY <3>3
    <3> HIDE DEF old, num
    <3>62. catFile[key].count = num /\ catFile[key].recent = old
      BY <3>6
    <3>7. catFile'[key] = [shape |-> shape, count |-> num + 1, recent |-> Ring(old, n)]
      BY <3>5, <3>62
    <3>8. RingOK(times \cup {n}, Ring(old, n))
      BY <3>4, <1>3, RingGrows DEF old
    <3>9. catFile'[key].recent = Ring(old, n) /\ num + 1 = Cardinality(times \cup {n})
      BY <3>7, <1>5 DEF num
    <3> QED BY <3>7, <3>8, <3>9
  <2>2. CASE key \notin DOMAIN catFile
    <3>1. times = {}
      <4>1. SUFFICES ASSUME times # {} PROVE FALSE
        OBVIOUS
      <4>2. PICK k \in DOMAIN catFile : k[1] = s /\ catFile[k].shape = shape
        BY <4>1 DEF CatOK, times
      <4>3. k = key
        BY <4>2, <1>1, RowIsKey
      <4> QED BY <4>2, <4>3, <2>2
    <3>2. catFile'[key] = [shape |-> shape, count |-> 1, recent |-> <<n>>]
      BY <1>4, <2>2 DEF Row
    <3>3. times \cup {n} = {n} /\ Cardinality({n}) = 1
      BY <3>1, FS_Singleton
    <3>4. RingOK({n}, <<n>>)
      BY <1>3, RingStarts
    <3>5. catFile'[key].recent = <<n>>
      BY <3>2
    <3> QED BY <3>2, <3>3, <3>4, <3>5
  <2> QED BY <2>1, <2>2
<1>8. catFile'[key].shape = shape
  BY <1>7
<1>9. \A x : Tree(x)' = Tree(x)
  BY DEF Tree
<1>10. RowOK(key)'
  <2>1. Occurrences(key[1], catFile[key].shape)' = times \cup {n}
    <3>1. {i \in DOMAIN mined' : mined'[i] = <<s, shape>>} = times \cup {n}
      BY <1>2 DEF Occurrences
    <3> QED BY <3>1, <1>6, <1>8 DEF Occurrences
  <2>2. (Tree(key[1])[key[2]])' = shape /\ key[2] \in DOMAIN Tree(key[1])' /\ key[1] \in TplSources
    BY <1>6, <1>9
  <2> QED BY <2>1, <2>2, <1>6, <1>7 DEF RowOK
<1>11. ASSUME NEW k \in DOMAIN catFile, k # key
       PROVE  RowOK(k)' /\ catFile'[k] = catFile[k]
  <2>1. RowOK(k) /\ catFile'[k] = catFile[k]
    BY <1>1, <1>4, <1>11
  <2>2. <<k[1], catFile[k].shape>> # <<s, shape>>
    <3>1. SUFFICES ASSUME k[1] = s, catFile[k].shape = shape PROVE FALSE
      OBVIOUS
    <3>2. k = key
      BY <3>1, <2>1, RowIsKey
    <3> QED BY <3>2, <1>11
  <2>3. Occurrences(k[1], catFile[k].shape)' = Occurrences(k[1], catFile[k].shape)
    <3>1. ASSUME NEW x, NEW y, <<x, y>> # <<s, shape>>
          PROVE  {i \in DOMAIN mined' : mined'[i] = <<x, y>>} = {i \in DOMAIN mined : mined[i] = <<x, y>>}
      BY <1>2, <3>1 DEF Occurrences
    <3>2. {i \in DOMAIN mined' : mined'[i] = <<k[1], catFile[k].shape>>} =
            {i \in DOMAIN mined : mined[i] = <<k[1], catFile[k].shape>>}
      BY <3>1, <2>2
    <3> QED BY <3>2, <2>1 DEF Occurrences
  <2> QED BY <2>1, <2>3, <1>9 DEF RowOK
<1>12. \A k \in DOMAIN catFile' : RowOK(k)'
  BY <1>4, <1>10, <1>11
<1>13. \A k \in DOMAIN catFile : k \in DOMAIN catFile' /\ catFile'[k].shape = catFile[k].shape
  <2>1. key \in DOMAIN catFile => catFile[key].shape = shape
    BY <1>1, <1>6 DEF RowOK
  <2> QED BY <2>1, <1>4, <1>8, <1>11
<1>14. ASSUME NEW t \in TplSources, NEW other \in Shapes, Occurrences(t, other)' # {}
       PROVE  \E k \in DOMAIN catFile' : k[1] = t /\ catFile'[k].shape = other
  <2>1. CASE <<t, other>> = <<s, shape>>
    BY <2>1, <1>4, <1>6, <1>8
  <2>2. CASE <<t, other>> # <<s, shape>>
    <3>1. Occurrences(t, other) # {}
      BY <2>2, <1>2, <1>14
    <3>2. PICK k \in DOMAIN catFile : k[1] = t /\ catFile[k].shape = other
      BY <3>1 DEF CatOK
    <3> QED BY <3>2, <1>13
  <2> QED BY <2>1, <2>2
<1> QED BY <1>2, <1>12, <1>13, <1>14 DEF CatOK

\* ---- the processes -----------------------------------------------------------------
LEMMA UpIsOK ==
  ASSUME MinersOK, NEW p \in Miners, miner[p].up
  PROVE  UpOK(p) /\ \A q \in Miners : q # p => miner[q] = Down
BY DEF MinersOK, UpOK, Down

\* The others are down while one is up: what a step does to it is all there is to show.
LEMMA OneMinerChanges ==
  ASSUME MinersOK, NEW p \in Miners, \A q \in Miners : q # p => miner[q] = Down,
         miner' = [q \in Miners |-> miner'[q]], \A q \in Miners : q # p => miner'[q] = miner[q],
         miner'[p] = Down \/ UpOK(p)'
  PROVE  MinersOK'
<1>1. \A q \in Miners : miner'[q] = Down \/ UpOK(q)'
  OBVIOUS
<1>2. \A q \in Miners : q # p => ~miner'[q].up
  BY DEF Down
<1> QED BY <1>1, <1>2 DEF MinersOK

LEMMA RecordKeeps ==
  ASSUME TreesOK, MinersOK, CatOK, NEW p \in Miners, Record(p)
  PROVE  /\ TreesOK' /\ MinersOK' /\ CatOK'
         /\ \A k \in DOMAIN catFile : k \in DOMAIN catFile' /\ catFile'[k].shape = catFile[k].shape
<1> DEFINE l == miner[p].line
           key == <<l.source, l.id>>
           cat == With(miner[p].cat, key, Row(miner[p].cat, key, l.shape, Len(mined) + 1))
<1>1. /\ miner[p].up /\ l # NothingMined /\ catFile' = cat /\ mined' = Append(mined, <<l.source, l.shape>>)
      /\ miner' = [miner EXCEPT ![p].cat = cat, ![p].line = NothingMined]
      /\ treeFile' = treeFile
  BY DEF Record
<1>2. UpOK(p) /\ \A q \in Miners : q # p => miner[q] = Down
  BY <1>1, UpIsOK
<1>3. /\ l.source \in TplSources /\ l.shape \in Shapes
      /\ l.id \in DOMAIN Tree(l.source) /\ Tree(l.source)[l.id] = l.shape
  BY <1>1, <1>2 DEF UpOK, LineOK
<1>4. catFile' = With(catFile, key, Row(catFile, key, l.shape, Len(mined) + 1))
  BY <1>1, <1>2 DEF UpOK
<1> HIDE DEF cat
<1>5. CatOK' /\ \A k \in DOMAIN catFile : k \in DOMAIN catFile' /\ catFile'[k].shape = catFile[k].shape
  <2> HIDE DEF l
  <2> QED BY <1>1, <1>3, <1>4, RecordRows
<1>6. TreesOK' /\ \A s : Tree(s)' = Tree(s)
  BY <1>1 DEF TreesOK, Tree
<1>7. /\ miner' = [q \in Miners |-> miner'[q]] /\ \A q \in Miners : q # p => miner'[q] = miner[q]
      /\ miner'[p] = [miner[p] EXCEPT !.cat = cat, !.line = NothingMined]
  BY <1>1 DEF MinersOK
<1>8. /\ DOMAIN miner'[p] = {"up", "trees", "cat", "line"} /\ miner'[p].up = TRUE
      /\ miner'[p].trees = miner[p].trees /\ miner'[p].cat = cat /\ miner'[p].line = NothingMined
  BY <1>2, <1>7 DEF UpOK
<1>9. UpOK(p)'
  BY <1>1, <1>2, <1>6, <1>8 DEF UpOK, LineOK
<1> QED BY <1>2, <1>5, <1>6, <1>7, <1>9, OneMinerChanges

LEMMA MineKeeps ==
  ASSUME OwnFiles, TreesOK, MinersOK, CatOK, NEW p \in Miners, NEW s \in TplSources, NEW shape \in Shapes, Mine(p, s, shape)
  PROVE  TreesOK' /\ MinersOK' /\ CatOK' /\ catFile' = catFile
<1> DEFINE old == TreeOf(p, s)
           tree == IF shape \in Range(old) THEN old ELSE Append(old, shape)
           id == CHOOSE i \in DOMAIN tree : tree[i] = shape
           l == [at |-> "mined", source |-> s, id |-> id, shape |-> shape]
<1>1. /\ miner[p].up /\ UNCHANGED <<catFile, mined>>
      /\ treeFile' = IF tree = old THEN treeFile ELSE [treeFile EXCEPT ![SafeName[s]] = tree]
      /\ miner' = [miner EXCEPT ![p].trees = With(@, s, tree), ![p].line = l]
  BY DEF Mine
<1>2. UpOK(p) /\ \A q \in Miners : q # p => miner[q] = Down
  BY <1>1, UpIsOK
<1>3. old = Tree(s) /\ old \in Seq(Shapes) /\ \A i, j \in DOMAIN old : old[i] = old[j] => i = j
  <2>1. old = Tree(s)
    BY <1>2 DEF UpOK, TreeOf, Tree
  <2>2. Tree(s) \in Seq(Shapes) /\ \A i, j \in DOMAIN Tree(s) : Tree(s)[i] = Tree(s)[j] => i = j
    BY DEF TreesOK, Tree
  <2> QED BY <2>1, <2>2
<1> HIDE DEF old
<1>4. /\ tree \in Seq(Shapes) /\ (\A i, j \in DOMAIN tree : tree[i] = tree[j] => i = j)
      /\ DOMAIN old \subseteq DOMAIN tree /\ (\A i \in DOMAIN old : tree[i] = old[i])
      /\ \E i \in DOMAIN tree : tree[i] = shape
  <2>1. CASE shape \in Range(old)
    BY <2>1, <1>3 DEF Range
  <2>2. CASE shape \notin Range(old)
    <3>1. tree = Append(old, shape)
      BY <2>2
    <3> HIDE DEF tree
    <3>2. /\ tree \in Seq(Shapes) /\ Len(old) \in Nat /\ DOMAIN old = 1..Len(old)
          /\ DOMAIN tree = 1..(Len(old) + 1) /\ tree[Len(old) + 1] = shape
          /\ \A i \in 1..Len(old) : tree[i] = old[i]
      BY <1>3, <3>1, AppendElements
    <3>3. \A i \in 1..Len(old) : old[i] # shape
      BY <2>2, <3>2 DEF Range
    <3>4. DOMAIN old \subseteq DOMAIN tree /\ (\A i \in DOMAIN tree : i \in DOMAIN old \/ i = Len(old) + 1) /\ Len(old) + 1 \in DOMAIN tree
      BY <3>2
    <3>5. \A i, j \in DOMAIN tree : tree[i] = tree[j] => i = j
      BY <3>2, <3>3, <3>4, <1>3
    <3> QED BY <3>2, <3>4, <3>5
  <2> QED BY <2>1, <2>2
<1> HIDE DEF tree
<1>5. id \in DOMAIN tree /\ tree[id] = shape
  BY <1>4
<1> HIDE DEF id
<1>6. /\ treeFile' \in [{SafeName[t] : t \in TplSources} -> Seq(Shapes)]
      /\ Tree(s)' = tree /\ \A t \in TplSources : t # s => Tree(t)' = Tree(t)
  <2>1. treeFile \in [{SafeName[t] : t \in TplSources} -> Seq(Shapes)]
    BY DEF TreesOK
  <2>2. treeFile' = [treeFile EXCEPT ![SafeName[s]] = tree]
    <3>1. CASE tree = old
      BY <3>1, <2>1, <1>1, <1>3 DEF Tree
    <3> QED BY <3>1, <1>1
  <2>3. \A t \in TplSources : t # s => SafeName[t] # SafeName[s]
    BY DEF OwnFiles
  <2> QED BY <2>1, <2>2, <2>3, <1>4 DEF Tree
<1>7. TreesOK'
  <2>1. \A t \in TplSources : \A i, j \in DOMAIN Tree(t)' : Tree(t)'[i] = Tree(t)'[j] => i = j
    BY <1>4, <1>6 DEF TreesOK
  <2> QED BY <1>6, <2>1 DEF TreesOK
<1>8. ASSUME NEW t \in TplSources, NEW i \in DOMAIN Tree(t)
      PROVE  i \in DOMAIN Tree(t)' /\ Tree(t)'[i] = Tree(t)[i]
  BY <1>3, <1>4, <1>6
<1>9. CatOK'
  <2>1. ASSUME NEW k \in DOMAIN catFile PROVE RowOK(k)'
    <3>1. RowOK(k)
      BY DEF CatOK
    <3>2. k[1] \in TplSources /\ k[2] \in DOMAIN Tree(k[1])
      BY <3>1 DEF RowOK
    <3>3. k[2] \in DOMAIN Tree(k[1])' /\ Tree(k[1])'[k[2]] = Tree(k[1])[k[2]]
      BY <3>2, <1>8
    <3>4. \A x, y : Occurrences(x, y)' = Occurrences(x, y)
      BY <1>1 DEF Occurrences
    <3>5. Occurrences(k[1], catFile[k].shape)' = Occurrences(k[1], catFile[k].shape)
      BY <1>1 DEF Occurrences
    <3> QED BY <3>1, <3>3, <3>5, <1>1 DEF RowOK
  <2>2. \A x, y : Occurrences(x, y)' = Occurrences(x, y)
    BY <1>1 DEF Occurrences
  <2> QED BY <2>1, <2>2, <1>1 DEF CatOK
<1>10. /\ miner' = [q \in Miners |-> miner'[q]] /\ \A q \in Miners : q # p => miner'[q] = miner[q]
       /\ miner'[p] = [miner[p] EXCEPT !.trees = With(miner[p].trees, s, tree), !.line = l]
  <2> HIDE DEF l
  <2> QED BY <1>1 DEF MinersOK
<1>11. /\ DOMAIN miner'[p] = {"up", "trees", "cat", "line"} /\ miner'[p].up = TRUE
       /\ miner'[p].trees = With(miner[p].trees, s, tree) /\ miner'[p].cat = miner[p].cat /\ miner'[p].line = l
  <2> HIDE DEF l
  <2> QED BY <1>2, <1>10 DEF UpOK
<1>12. UpOK(p)'
  <2>1. DOMAIN miner'[p].trees \subseteq TplSources /\ \A t \in DOMAIN miner'[p].trees : miner'[p].trees[t] = Tree(t)'
    BY <1>2, <1>6, <1>11 DEF UpOK, With
  <2>2. LineOK(miner[p].line)'
    <3>1. l.source = s /\ l.id = id /\ l.shape = shape /\ l = [at |-> "mined", source |-> l.source, id |-> l.id, shape |-> l.shape]
      OBVIOUS
    <3> HIDE DEF l
    <3> QED BY <3>1, <1>5, <1>6, <1>11 DEF LineOK
  <2>3. miner'[p].cat = catFile'
    BY <1>1, <1>2, <1>11 DEF UpOK
  <2> QED BY <2>1, <2>2, <2>3, <1>11 DEF UpOK
<1> QED BY <1>1, <1>2, <1>7, <1>9, <1>10, <1>12, OneMinerChanges

\* What does not touch the files keeps the trees and the catalogue.
LEMMA FilesKept ==
  ASSUME TreesOK, CatOK, UNCHANGED <<treeFile, catFile, mined>>
  PROVE  TreesOK' /\ CatOK'
<1>1. TreesOK' /\ \A s : Tree(s)' = Tree(s)
  BY DEF TreesOK, Tree
<1>2. \A x, y : Occurrences(x, y)' = Occurrences(x, y)
  BY DEF Occurrences
<1>3. ASSUME NEW k \in DOMAIN catFile PROVE RowOK(k)'
  <2>1. RowOK(k) /\ Tree(k[1])' = Tree(k[1])
    BY <1>1 DEF CatOK
  <2>2. Occurrences(k[1], catFile[k].shape)' = Occurrences(k[1], catFile[k].shape)
    BY DEF Occurrences
  <2> QED BY <2>1, <2>2 DEF RowOK
<1> QED BY <1>1, <1>2, <1>3 DEF CatOK

LEMMA StartKeeps ==
  ASSUME TreesOK, MinersOK, CatOK, NEW p \in Miners, StartMiner(p), ~overlapped'
  PROVE  TreesOK' /\ MinersOK' /\ CatOK' /\ catFile' = catFile
<1> DEFINE new == [up |-> TRUE, trees |-> Catalogue, cat |-> catFile, line |-> NothingMined]
<1>1. UNCHANGED <<treeFile, catFile, mined>> /\ miner' = [miner EXCEPT ![p] = new] /\ ~\E q \in Miners : miner[q].up
  BY DEF StartMiner
<1>2. \A q \in Miners : miner[q] = Down
  BY <1>1 DEF MinersOK, UpOK
<1>3. /\ DOMAIN new = {"up", "trees", "cat", "line"} /\ new.up = TRUE /\ DOMAIN new.trees = {}
      /\ new.cat = catFile /\ new.line = NothingMined
  BY DEF Catalogue
<1> HIDE DEF new
<1>4. /\ miner' = [q \in Miners |-> miner'[q]] /\ miner'[p] = new
      /\ \A q \in Miners : q # p => miner'[q] = miner[q]
  BY <1>1 DEF MinersOK
<1>5. UpOK(p)'
  BY <1>1, <1>3, <1>4 DEF UpOK, LineOK
<1> QED BY <1>1, <1>2, <1>4, <1>5, FilesKept, OneMinerChanges

LEMMA StopKeeps ==
  ASSUME TreesOK, MinersOK, CatOK, NEW p \in Miners, StopMiner(p)
  PROVE  TreesOK' /\ MinersOK' /\ CatOK' /\ catFile' = catFile
<1>1. UNCHANGED <<treeFile, catFile, mined>> /\ miner' = [miner EXCEPT ![p] = Down] /\ miner[p].up
  BY DEF StopMiner
<1>2. \A q \in Miners : q # p => miner[q] = Down
  BY <1>1, UpIsOK
<1>3. /\ miner' = [q \in Miners |-> miner'[q]] /\ miner'[p] = Down
      /\ \A q \in Miners : q # p => miner'[q] = miner[q]
  BY <1>1 DEF MinersOK
<1> QED BY <1>1, <1>2, <1>3, FilesKept, OneMinerChanges

LEMMA TplStepKeeps ==
  ASSUME TplInv, [TplNext]_tplVars
  PROVE  /\ TplInv'
         /\ ~overlapped' /\ OwnFiles => \A k \in DOMAIN catFile :
              k \in DOMAIN catFile' /\ catFile'[k].shape = catFile[k].shape
<1> SUFFICES ASSUME ~overlapped', OwnFiles
             PROVE  /\ TreesOK' /\ MinersOK' /\ CatOK'
                    /\ \A k \in DOMAIN catFile : k \in DOMAIN catFile' /\ catFile'[k].shape = catFile[k].shape
  BY DEF TplInv, Alone
<1>1. ~overlapped
  <2>1. ASSUME NEW p \in Miners, StartMiner(p) PROVE ~overlapped
    BY <2>1 DEF StartMiner
  <2>2. ASSUME NEW p \in Miners, Record(p) PROVE ~overlapped
    BY <2>2 DEF Record
  <2>3. ASSUME NEW p \in Miners, StopMiner(p) PROVE ~overlapped
    BY <2>3 DEF StopMiner
  <2>4. ASSUME NEW p \in Miners, NEW s \in TplSources, NEW shape \in Shapes, Mine(p, s, shape) PROVE ~overlapped
    BY <2>4 DEF Mine
  <2>5. CASE UNCHANGED tplVars
    BY <2>5 DEF tplVars
  <2> QED BY <2>1, <2>2, <2>3, <2>4, <2>5 DEF TplNext
<1>2. TreesOK /\ MinersOK /\ CatOK
  BY <1>1 DEF TplInv, Alone
<1>3. CASE UNCHANGED tplVars
  <2>1. UNCHANGED <<treeFile, catFile, mined, miner>>
    BY <1>3 DEF tplVars
  <2>2. MinersOK'
    BY <2>1, <1>2 DEF MinersOK, UpOK, LineOK, Tree
  <2> QED BY <2>1, <2>2, <1>2, FilesKept
<1>4. ASSUME NEW p \in Miners, StartMiner(p)
      PROVE  TreesOK' /\ MinersOK' /\ CatOK' /\ catFile' = catFile
  BY <1>2, <1>4, StartKeeps
<1>5. ASSUME NEW p \in Miners, StopMiner(p)
      PROVE  TreesOK' /\ MinersOK' /\ CatOK' /\ catFile' = catFile
  BY <1>2, <1>5, StopKeeps
<1>6. ASSUME NEW p \in Miners, NEW s \in TplSources, NEW shape \in Shapes, Mine(p, s, shape)
      PROVE  TreesOK' /\ MinersOK' /\ CatOK' /\ catFile' = catFile
  BY <1>2, <1>6, MineKeeps
<1>7. ASSUME NEW p \in Miners, Record(p)
      PROVE  /\ TreesOK' /\ MinersOK' /\ CatOK'
             /\ \A k \in DOMAIN catFile : k \in DOMAIN catFile' /\ catFile'[k].shape = catFile[k].shape
  BY <1>2, <1>7, RecordKeeps
<1> QED BY <1>3, <1>4, <1>5, <1>6, <1>7 DEF TplNext

LEMMA TplInitHolds == TplInit => TplInv
<1> SUFFICES ASSUME TplInit PROVE TreesOK /\ MinersOK /\ CatOK
  BY DEF TplInv
<1>1. /\ treeFile = [f \in {SafeName[s] : s \in TplSources} |-> <<>>] /\ catFile = Catalogue
      /\ miner = [p \in Miners |-> Down] /\ mined = <<>>
  BY DEF TplInit
<1>2. TreesOK
  <2>1. \A s \in TplSources : Tree(s) = <<>>
    BY <1>1 DEF Tree
  <2>2. <<>> \in Seq(Shapes) /\ DOMAIN <<>> = {}
    OBVIOUS
  <2> QED BY <2>1, <2>2, <1>1 DEF TreesOK
<1>3. MinersOK
  BY <1>1 DEF MinersOK, Down
<1>4. CatOK
  <2>1. DOMAIN catFile = {}
    BY <1>1 DEF Catalogue
  <2>2. mined \in Seq(TplSources \X Shapes) /\ DOMAIN mined = {}
    BY <1>1
  <2>3. \A s, shape : Occurrences(s, shape) = {}
    BY <2>2 DEF Occurrences
  <2> QED BY <2>1, <2>2, <2>3 DEF CatOK
<1> QED BY <1>2, <1>3, <1>4

\* ---- the property ------------------------------------------------------------------
LEMMA CatalogueCountsHolds == TplInv => CatalogueCounts
<1> SUFFICES ASSUME TplInv, ~overlapped, OwnFiles, NEW s \in TplSources, NEW shape \in Shapes
             PROVE  Cardinality(Rows(s, shape)) <= 1 /\ Total(s, shape) = Cardinality(Occurrences(s, shape))
  BY DEF CatalogueCounts
<1>1. TreesOK /\ CatOK
  BY DEF TplInv, Alone
<1>2. CASE Rows(s, shape) = {}
  <2>1. Occurrences(s, shape) = {}
    BY <1>1, <1>2 DEF CatOK, Rows
  <2>2. Cardinality({}) = 0
    BY FS_EmptySet
  <2>3. Total(s, shape) = 0
    BY <1>2 DEF Total
  <2> QED BY <1>2, <2>1, <2>2, <2>3
<1>3. CASE Rows(s, shape) # {}
  <2> DEFINE k == CHOOSE x \in Rows(s, shape) : TRUE
  <2>1. k \in Rows(s, shape)
    BY <1>3
  <2>2. Total(s, shape) = catFile[k].count
    BY <1>3 DEF Total
  <2> HIDE DEF k
  <2>3. k \in DOMAIN catFile /\ k[1] = s /\ catFile[k].shape = shape
    BY <2>1 DEF Rows
  <2>4. RowOK(k)
    BY <2>3, <1>1 DEF CatOK
  <2>5. catFile[k].count = Cardinality(Occurrences(s, shape))
    <3> DEFINE c == Cardinality(Occurrences(k[1], catFile[k].shape))
    <3>1. catFile[k] = [shape |-> Tree(k[1])[k[2]], count |-> c, recent |-> catFile[k].recent]
      BY <2>4 DEF RowOK
    <3> HIDE DEF c
    <3>2. catFile[k].count = c
      BY <3>1
    <3> QED BY <3>2, <2>3 DEF c
  <2>6. k[2] \in DOMAIN Tree(s) /\ catFile[k].shape = Tree(s)[k[2]] /\ k = <<s, k[2]>>
    BY <2>3, <2>4 DEF RowOK
  <2>7. ASSUME NEW x \in Rows(s, shape) PROVE x = k
    <3>1. x \in DOMAIN catFile /\ x[1] = s /\ catFile[x].shape = shape /\ RowOK(x)
      BY <1>1 DEF Rows, CatOK
    <3> QED BY <3>1, <2>3, <2>6, <1>1, RowIsKey
  <2>8. Rows(s, shape) = {k}
    BY <2>1, <2>7
  <2>9. Cardinality({k}) = 1
    BY FS_Singleton
  <2> QED BY <2>2, <2>5, <2>8, <2>9
<1> QED BY <1>2, <1>3

LEMMA RingKeepsLatestHolds == TplInv => RingKeepsLatest
<1> SUFFICES ASSUME TplInv, ~overlapped, OwnFiles, NEW k \in DOMAIN catFile
             PROVE  LET times == Occurrences(k[1], catFile[k].shape)
                    IN Range(catFile[k].recent) = {t \in times : Cardinality({u \in times : u > t}) < RingCap}
  BY DEF RingKeepsLatest
<1> DEFINE times == Occurrences(k[1], catFile[k].shape)
           recent == catFile[k].recent
<1>1. CatOK
  BY DEF TplInv, Alone
<1>2. RingOK(times, recent)
  BY <1>1 DEF CatOK, RowOK
<1>3. times \in SUBSET Nat /\ IsFiniteSet(times)
  BY <1>1, OccurrencesAreTimes DEF CatOK
<1> HIDE DEF times, recent
<1>4. Range(recent) = {t \in times : Cardinality({u \in times : u > t}) < RingCap}
  BY <1>2, <1>3, RingIsLatest
<1> QED BY <1>4 DEF times, recent

\* While processes do not overlap and no two sources share a tree's file, over kills and
\* restarts, the catalogue counts every line in one row per shape, its rings hold the
\* times of the latest lines, and an id is never given to another shape.
THEOREM TemplatesAreSafe == TplSpec => CatalogueFollowsLines
<1>1. TplInit => TplInv
  BY TplInitHolds
<1>2. TplInv /\ [TplNext]_tplVars => TplInv'
  BY TplStepKeeps
<1>3. TplInv => CatalogueCounts /\ RingKeepsLatest
  BY CatalogueCountsHolds, RingKeepsLatestHolds
<1>4. TplInv /\ [TplNext]_tplVars =>
        [~overlapped' /\ OwnFiles => \A k \in DOMAIN catFile :
           k \in DOMAIN catFile' /\ catFile'[k].shape = catFile[k].shape]_tplVars
  BY TplStepKeeps
<1> QED BY <1>1, <1>2, <1>3, <1>4, PTL DEF TplSpec, CatalogueFollowsLines, IdsKeepTheirShape

(***************************************************************************)
(* Drift: the frozen baseline.  DriftInv says what the baseline in the file *)
(* and the results of the polls under way are worth: no more windows than   *)
(* polls completed, and, while polls are one at a time and none straddles   *)
(* the start of the outage, the source's own rate.                          *)
(***************************************************************************)
Bases == [kind : {"ok"}, rate : Int, windows : Nat]
PollRecord == [at : {"scored", "writing"}, span : Spans, when : Nat, result : [fired : BOOLEAN, next : Bases]]
FiredRecord == [when : Nat, span : Spans, fired : BOOLEAN, failed : BOOLEAN]
DriftTypeOK ==
  /\ steps \in Nat /\ crashes \in Nat /\ clashed \in BOOLEAN
  /\ history \in Seq(BOOLEAN) /\ Len(history) = steps
  /\ state = None \/ state = Torn \/ state \in Bases
  /\ poll \in [Polls -> PollRecord \cup {Resting}]
  /\ \A p \in Polls : poll[p] # Resting => poll[p].when <= steps
  /\ fired \in Seq(FiredRecord)
  /\ \A i \in 1..Len(fired) : fired[i].when <= steps
\* The file is torn only under a write, until a crash; polls are under way one at a time, until two clash.
TornUnderWrite == crashes = 0 /\ state = Torn => \E p \in Polls : poll[p].at = "writing"
OneAtATime ==
  ~clashed => \A p, q \in Polls : poll[p] # Resting /\ poll[q] # Resting => p = q
\* The polls of fs that completed; no baseline counts more windows than there are.
DoneIn(fs) == {i \in 1..Len(fs) : ~fs[i].failed}
CountedIn(fs, st, po) ==
  /\ st \in Bases => st.windows <= Cardinality(DoneIn(fs))
  /\ \A p \in Polls : po[p] # Resting =>
       /\ po[p].result.next.windows <= Cardinality(DoneIn(fs)) + 1
       /\ po[p].result.fired => Cardinality(DoneIn(fs)) >= Warmup
EarlyIn(fs) == \A i \in 1..Len(fs) : fs[i].fired => Cardinality({j \in DoneIn(fs) : j < i}) >= Warmup
\* The source sent in the first c steps.  Polls of windows of w steps, each before or in the silence:
SpacedIn(c, w, fs) == \A i \in 1..Len(fs) : ~fs[i].failed /\ fs[i].span = w /\ (fs[i].when <= c \/ fs[i].when >= c + w)
FullIn(c, fs) == {i \in 1..Len(fs) : fs[i].when <= c}
\* A baseline at the rate of the source, warm or with k windows folded in.
Steady(b, k) == b \in Bases /\ b.rate = PerStep * Unit /\ (b.windows >= k \/ b.windows >= Warmup)
GoodBase(c, fs, b) ==
  FullIn(c, fs) = 1..Len(fs) \/ Cardinality(FullIn(c, fs)) >= Warmup =>
    IF Len(fs) = 0 THEN b = None ELSE Steady(b, Cardinality(FullIn(c, fs)))
GoodResult(c, fs, q) ==
  /\ q.when <= c => Steady(q.result.next, Cardinality(FullIn(c, fs)) + 1)
  /\ q.when >= c + q.span /\ Cardinality(FullIn(c, fs)) >= Warmup =>
       q.result.fired /\ Steady(q.result.next, Cardinality(FullIn(c, fs)))
Flags(c, w, fs) ==
  Len(fs) > 0 /\ fs[Len(fs)].when >= c + w /\ Cardinality(FullIn(c, fs)) >= Warmup => fs[Len(fs)].fired
Tracks(c, w, fs, st, po) ==
  /\ st # Torn => GoodBase(c, fs, st)
  /\ \A p \in Polls : po[p] # Resting /\ po[p].span = w => GoodResult(c, fs, po[p])
  /\ Flags(c, w, fs)
Up == Cardinality(Sent)
OutageTracked ==
  ~clashed /\ crashes = 0 /\ OneOutage =>
    \A w \in Spans : SpacedIn(Up, w, fired) /\ Noticeable(w) => Tracks(Up, w, fired, state, poll)
DriftInv == /\ DriftTypeOK /\ TornUnderWrite /\ OneAtATime /\ CountedIn(fired, state, poll) /\ EarlyIn(fired)
            /\ FailuresAreExplained /\ OutageTracked

\* A product divided by one factor is the other.
LEMMA DivOfProduct ==
  ASSUME NEW a \in Nat, NEW w \in Nat \ {0}
  PROVE  (a * w) \div w = a
<1> DEFINE t == a * w
           q == t \div w
<1>1. t \in Nat
  OBVIOUS
<1>2. t = a * w
  OBVIOUS
<1> HIDE DEF t
<1>3. t = w * (t \div w) + (t % w) /\ 0 <= t % w /\ t % w < w /\ t \div w \in Int /\ t % w \in Int
  BY <1>1
<1>4. q \in Int /\ w * q <= t /\ t < w * q + w
  BY <1>1, <1>3
<1> HIDE DEF q
<1>5. w * q <= w * a /\ w * a < w * q + w
  BY <1>2, <1>4
<1>6. ~(q >= a + 1)
  <2> SUFFICES ASSUME q >= a + 1 PROVE FALSE
    OBVIOUS
  <2>1. w * q >= w * (a + 1)
    BY <1>4
  <2>2. w * (a + 1) = w * a + w
    OBVIOUS
  <2>3. w * a \in Int /\ w * q \in Int
    BY <1>4
  <2> QED
    BY <1>5, <2>1, <2>2, <2>3
<1>7. ~(q <= a - 1)
  <2> SUFFICES ASSUME q <= a - 1 PROVE FALSE
    OBVIOUS
  <2>1. w * q <= w * (a - 1)
    BY <1>4
  <2>2. w * (a - 1) = w * a - w
    OBVIOUS
  <2>3. w * a \in Int /\ w * q \in Int
    BY <1>4
  <2> QED
    BY <1>5, <2>1, <2>2, <2>3
<1>8. q = a
  BY <1>4, <1>6, <1>7
<1> QED
  BY <1>8 DEF q, t

\* The rate of a full window is the source's, and folding it in changes nothing.
LEMMA FullRate ==
  ASSUME NEW w \in Spans, NEW r, r = PerStep * Unit
  PROVE  /\ ((PerStep * w) * Unit) \div w = PerStep * Unit
         /\ Fold(PerStep * w, r, w) = PerStep * Unit
<1>1. w \in Nat \ {0} /\ PerStep \in Nat
  BY DriftAssumption
<1> DEFINE u == PerStep * Unit
<1>2. u \in Nat
  BY <1>1 DEF Unit
<1>3. (PerStep * w) * Unit = u * w
  BY <1>1 DEF Unit
<1>4. u = PerStep * Unit
  OBVIOUS
<1> HIDE DEF u
<1>5. (u * w) \div w = u
  BY <1>1, <1>2, DivOfProduct
<1>6. 3 * u + 7 * u = u * 10
  BY <1>2
<1>7. (u * 10) \div 10 = u
  BY <1>2, DivOfProduct
<1>8. Fold(PerStep * w, r, w) = (3 * (((PerStep * w) * Unit) \div w) + 7 * r) \div 10
  BY DEF Fold
<1> QED
  BY <1>3, <1>4, <1>5, <1>6, <1>7, <1>8

\* A noticeable silence fires against the source's rate.
LEMMA SilenceFires ==
  ASSUME NEW w \in Spans, Noticeable(w), NEW r, r = PerStep * Unit
  PROVE  Fires(0, r, w)
<1>1. w \in Nat \ {0} /\ PerStep \in Nat \ {0} /\ ZThreshold \in Nat
  BY DriftAssumption
<1> DEFINE e == r * w
           m == PerStep * w
           z == ZThreshold * ZThreshold
<1>2. m \in Nat /\ m > 0 /\ z \in Nat
  BY <1>1
<1>3. m >= z
  BY DEF Noticeable
<1>4. e = m * 1000
  BY <1>1 DEF Unit
<1>5. Fires(0, r, w) <=> e > 0 /\ (0 * 1000 - e) * (0 * 1000 - e) >= z * e * 1000
  BY DEF Fires, Unit
<1> HIDE DEF e, m, z
<1>6. e \in Nat /\ e > 0 /\ e >= z * 1000
  BY <1>2, <1>3, <1>4
<1>7. (0 * 1000 - e) * (0 * 1000 - e) = e * e
  BY <1>6
<1>8. z * e * 1000 = (z * 1000) * e
  BY <1>2, <1>6
<1> DEFINE y == z * 1000
<1>9. y \in Nat /\ e >= y
  BY <1>2, <1>6
<1> HIDE DEF y
<1>10. e * e >= y * e
  BY <1>6, <1>9
<1> QED
  BY <1>5, <1>6, <1>7, <1>8, <1>10 DEF y

\* The numbers from 1 to n are n.
LEMMA IntervalSize ==
  ASSUME NEW n \in Nat
  PROVE  IsFiniteSet(1..n) /\ Cardinality(1..n) = n
<1>1. IsFiniteSet(1..n) /\ Cardinality(1..n) = IF 1 > n THEN 0 ELSE n - 1 + 1
  BY FS_Interval
<1> QED
  BY <1>1

\* The steps in which the source sent are finitely many, and among the steps so far.
LEMMA SentFacts ==
  ASSUME DriftTypeOK
  PROVE  IsFiniteSet(Sent) /\ Sent \subseteq 1..steps /\ Up \in Nat /\ Up <= steps
<1>1. Sent \subseteq 1..steps
  BY DEF Sent, DriftTypeOK
<1>2. IsFiniteSet(1..steps) /\ Cardinality(1..steps) = steps
  BY FS_Interval DEF DriftTypeOK
<1> QED
  BY <1>1, <1>2, FS_Subset, FS_CardinalityType DEF Up

\* What a poll observes counts the steps of its window in which the source sent.
LEMMA ObservedOfSent ==
  ASSUME DriftTypeOK, NEW w
  PROVE  Observed(w) = PerStep * Cardinality({i \in Sent : i > steps - w})
<1>1. {i \in DOMAIN history : i > steps - w /\ history[i]} = {i \in Sent : i > steps - w}
  BY DEF Sent
<1> QED
  BY <1>1 DEF Observed

\* What a poll observes: a count, that of a full window before the outage, and nothing in it.
LEMMA ObservedFacts ==
  ASSUME DriftTypeOK, NEW w \in Spans
  PROVE  /\ Observed(w) \in Nat
         /\ OneOutage /\ Up = steps /\ steps >= w => Observed(w) = PerStep * w
         /\ OneOutage /\ steps >= Up + w => Observed(w) = 0
<1> DEFINE S == {i \in Sent : i > steps - w}
<1>1. w \in Nat \ {0} /\ PerStep \in Nat /\ steps \in Nat
  BY DriftAssumption DEF DriftTypeOK
<1>2. Observed(w) = PerStep * Cardinality(S)
  BY ObservedOfSent
<1>3. IsFiniteSet(S) /\ Cardinality(S) \in Nat
  <2>1. S \subseteq Sent
    OBVIOUS
  <2> HIDE DEF S
  <2> QED
    BY <2>1, SentFacts, FS_Subset, FS_CardinalityType
<1>4. ASSUME OneOutage, Up = steps, steps >= w
      PROVE  Cardinality(S) = w
  <2>1. Sent = 1..steps
    BY <1>4 DEF OneOutage, Up
  <2>2. S = (steps - w + 1)..steps
    BY <1>1, <1>4, <2>1
  <2>3. steps - w + 1 \in Int /\ steps \in Int
    BY <1>1
  <2>4. Cardinality((steps - w + 1)..steps) = IF steps - w + 1 > steps THEN 0 ELSE steps - (steps - w + 1) + 1
    BY <2>3, FS_Interval
  <2> HIDE DEF S
  <2> QED
    BY <1>1, <2>2, <2>4
<1>5. ASSUME OneOutage, steps >= Up + w
      PROVE  Cardinality(S) = 0
  <2>1. Sent = 1..Up
    BY <1>5 DEF OneOutage, Up
  <2>2. S = {}
    BY <1>1, <1>5, <2>1, SentFacts
  <2> HIDE DEF S
  <2> QED
    BY <2>2, FS_EmptySet
<1> HIDE DEF S
<1> QED
  BY <1>1, <1>2, <1>3, <1>4, <1>5

\* A step of time within one outage: the source goes on sending, or is silent from some step on.
LEMMA StepOfOutage ==
  ASSUME DriftTypeOK, NEW up \in BOOLEAN, Step(up), OneOutage'
  PROVE  OneOutage /\ (Up' = Up \/ (Up = steps /\ Up' = steps + 1))
<1>1. history' = Append(history, up) /\ Len(history) = steps /\ steps \in Nat /\ history \in Seq(BOOLEAN)
  BY DEF Step, DriftTypeOK
<1>2. /\ Len(history') = steps + 1 /\ \A i \in 1..steps : history'[i] = history[i]
      /\ history'[steps + 1] = up /\ DOMAIN history' = 1..(steps + 1) /\ DOMAIN history = 1..steps
  BY <1>1
<1>3. Sent \subseteq 1..steps /\ IsFiniteSet(Sent) /\ Up \in Nat /\ Up <= steps
  BY SentFacts
<1>4. CASE up
  <2>1. Sent' = Sent \cup {steps + 1}
    BY <1>1, <1>2, <1>4 DEF Sent
  <2>2. steps + 1 \notin Sent
    BY <1>1, <1>3
  <2>3. Up' = Up + 1
    BY <1>3, <2>1, <2>2, FS_AddElement DEF Up
  <2>4. Sent' = 1..(Up + 1)
    BY <2>3 DEF OneOutage, Up
  <2>5. Up = steps
    BY <1>1, <1>3, <2>1, <2>4
  <2>6. Sent = 1..Up
    <3>1. \A i \in 1..(steps + 1) : i = steps + 1 \/ i \in 1..steps
      BY <1>1
    <3>2. \A i \in 1..steps : i \in 1..(steps + 1) /\ i # steps + 1
      BY <1>1
    <3> QED
      BY <1>3, <2>1, <2>4, <2>5, <3>1, <3>2
  <2> QED
    BY <2>3, <2>5, <2>6 DEF OneOutage, Up
<1>5. CASE ~up
  <2>1. Sent' = Sent
    BY <1>1, <1>2, <1>5 DEF Sent
  <2>2. Up' = Up
    BY <2>1 DEF Up
  <2>3. Sent' = 1..Up'
    BY DEF OneOutage, Up
  <2>4. Sent = 1..Up
    BY <2>1, <2>2, <2>3
  <2>5. OneOutage
    BY <2>4 DEF OneOutage, Up
  <2> QED
    BY <2>2, <2>5
<1> QED
  BY <1>4, <1>5

Outcomes == [fired : BOOLEAN, next : Bases]
\* What update answers, whatever it observed.
LEMMA UpdateFacts ==
  ASSUME NEW b, b = None \/ b \in Bases, NEW o \in Nat, NEW w \in Spans
  PROVE  /\ Update(b, o, w) \in Outcomes
         /\ b = None => /\ ~Update(b, o, w).fired /\ Update(b, o, w).next.windows = 1
                        /\ Update(b, o, w).next.rate = (o * Unit) \div w
         /\ b \in Bases => /\ Update(b, o, w).next.windows <= b.windows + 1
                           /\ Update(b, o, w).fired <=> b.windows >= Warmup /\ Fires(o, b.rate, w)
                           /\ Update(b, o, w).fired => Update(b, o, w).next = b
                           /\ ~Update(b, o, w).fired =>
                                /\ Update(b, o, w).next.windows = b.windows + 1
                                /\ Update(b, o, w).next.rate = Fold(o, b.rate, w)
<1>1. w \in Nat \ {0} /\ Unit \in Nat
  BY DriftAssumption DEF Unit
<1>2. (o * Unit) \div w \in Int
  <2> DEFINE t == o * Unit
  <2>1. t \in Int
    BY <1>1
  <2> HIDE DEF t
  <2>2. t \div w \in Int
    BY <1>1, <2>1
  <2> QED
    BY <2>2 DEF t
<1>3. CASE b = None
  <2> DEFINE r == (o * Unit) \div w
  <2>1. b.kind = "none"
    BY <1>3 DEF None
  <2>2. Update(b, o, w) = [fired |-> FALSE, next |-> [kind |-> "ok", rate |-> r, windows |-> 1]]
    BY <2>1 DEF Update, Base
  <2>3. b \notin Bases
    BY <2>1 DEF Bases
  <2> HIDE DEF r
  <2>4. r \in Int
    BY <1>2 DEF r
  <2>5. [kind |-> "ok", rate |-> r, windows |-> 1] \in Bases
    BY <2>4 DEF Bases
  <2> QED
    BY <2>2, <2>3, <2>5 DEF Outcomes, r
<1>4. CASE b \in Bases
  <2> DEFINE g == Fold(o, b.rate, w)
             z == b.windows >= Warmup /\ Fires(o, b.rate, w)
  <2>1. b.kind = "ok" /\ b.rate \in Int /\ b.windows \in Nat /\ b # None
    BY <1>4 DEF Bases, None
  <2>2. Update(b, o, w) = [fired |-> z, next |-> IF z THEN b ELSE [kind |-> "ok", rate |-> g, windows |-> b.windows + 1]]
    BY <2>1 DEF Update, Base
  <2>3. g \in Int
    <3> DEFINE t == 3 * ((o * Unit) \div w) + 7 * b.rate
    <3>1. t \in Int
      <4> DEFINE y == (o * Unit) \div w
      <4>1. y \in Int
        BY <1>2
      <4> HIDE DEF y
      <4>2. 3 * y + 7 * b.rate \in Int
        BY <2>1, <4>1
      <4> QED
        BY <4>2 DEF y
    <3>2. g = t \div 10
      BY DEF Fold
    <3> HIDE DEF t, g
    <3>3. t \div 10 \in Int
      BY <3>1
    <3> QED
      BY <3>2, <3>3
  <2>4. z \in BOOLEAN
    OBVIOUS
  <2>5. z <=> b.windows >= Warmup /\ Fires(o, b.rate, w)
    OBVIOUS
  <2>6. g = Fold(o, b.rate, w)
    OBVIOUS
  <2> HIDE DEF g, z
  <2>7. [kind |-> "ok", rate |-> g, windows |-> b.windows + 1] \in Bases
    BY <2>1, <2>3 DEF Bases
  <2>8. CASE z
    <3>1. Update(b, o, w) = [fired |-> TRUE, next |-> b]
      BY <2>2, <2>8
    <3> QED
      BY <1>4, <2>1, <2>5, <2>8, <3>1 DEF Outcomes
  <2>9. CASE ~z
    <3>1. Update(b, o, w) = [fired |-> FALSE, next |-> [kind |-> "ok", rate |-> g, windows |-> b.windows + 1]]
      BY <2>2, <2>4, <2>9
    <3> QED
      BY <2>1, <2>5, <2>6, <2>7, <2>9, <3>1 DEF Outcomes
  <2> QED
    BY <2>8, <2>9
<1> QED
  BY <1>3, <1>4

\* A poll that reads a good baseline has a good result.
LEMMA ReadIsGood ==
  ASSUME DriftTypeOK, OneOutage, NEW w \in Spans, Noticeable(w), steps >= w, state # Torn, GoodBase(Up, fired, state),
         NEW q, q.span = w, q.when = steps, q.result = Update(state, Observed(w), w)
  PROVE  GoodResult(Up, fired, q)
<1> DEFINE F == Cardinality(FullIn(Up, fired))
           o == Observed(w)
<1>1. /\ w \in Nat \ {0} /\ Up \in Nat /\ Up <= steps /\ steps \in Nat /\ Warmup \in Nat \ {0}
      /\ fired \in Seq(FiredRecord) /\ Len(fired) \in Nat /\ (state = None \/ state \in Bases)
  BY DriftAssumption, SentFacts DEF DriftTypeOK
<1>2. F \in Nat /\ (Len(fired) = 0 => F = 0)
  <2>1. FullIn(Up, fired) \subseteq 1..Len(fired)
    BY DEF FullIn
  <2>2. IsFiniteSet(1..Len(fired)) /\ Cardinality(1..Len(fired)) = Len(fired)
    BY <1>1, IntervalSize
  <2> QED
    BY <1>1, <2>1, <2>2, FS_Subset, FS_CardinalityType
<1>3. FullIn(Up, fired) = 1..Len(fired) \/ F >= Warmup => IF Len(fired) = 0 THEN state = None ELSE Steady(state, F)
  BY DEF GoodBase
<1>4. /\ o \in Nat /\ (Up = steps => o = PerStep * w) /\ (steps >= Up + w => o = 0)
  BY ObservedFacts
<1> HIDE DEF F, o
<1>5. q.result = Update(state, o, w)
  BY DEF o
<1>6. ASSUME q.when <= Up
      PROVE  Steady(q.result.next, F + 1)
  <2>1. Up = steps /\ o = PerStep * w
    BY <1>1, <1>4, <1>6
  <2>2. FullIn(Up, fired) = 1..Len(fired)
    BY <2>1 DEF FullIn, DriftTypeOK
  <2>3. CASE Len(fired) = 0
    <3>1. state = None /\ F = 0
      BY <1>2, <1>3, <2>2, <2>3
    <3>2. /\ Update(state, o, w) \in Outcomes /\ Update(state, o, w).next.windows = 1
          /\ Update(state, o, w).next.rate = (o * Unit) \div w
      BY <1>4, <3>1, UpdateFacts
    <3>3. ((PerStep * w) * Unit) \div w = PerStep * Unit
      BY FullRate
    <3>4. q.result.next \in Bases /\ q.result.next.windows = 1 /\ q.result.next.rate = PerStep * Unit
      BY <1>5, <2>1, <3>2, <3>3 DEF Outcomes
    <3> QED
      BY <3>1, <3>4 DEF Steady
  <2>4. CASE Len(fired) # 0
    <3>1. Steady(state, F) /\ state \in Bases /\ state.rate = PerStep * Unit /\ state.windows \in Nat
      BY <1>3, <2>2, <2>4 DEF Steady, Bases
    <3>2. /\ q.result.next \in Bases
          /\ q.result.fired => q.result.next = state /\ state.windows >= Warmup
          /\ ~q.result.fired => q.result.next.windows = state.windows + 1 /\ q.result.next.rate = Fold(o, state.rate, w)
      BY <1>4, <1>5, <3>1, UpdateFacts DEF Outcomes
    <3>3. Fold(o, state.rate, w) = PerStep * Unit
      BY <2>1, <3>1, FullRate
    <3>4. state.windows >= F \/ state.windows >= Warmup
      BY <3>1 DEF Steady
    <3>5. CASE q.result.fired
      BY <3>1, <3>2, <3>5 DEF Steady
    <3>6. CASE ~q.result.fired
      <4>1. q.result.next.windows >= F + 1 \/ q.result.next.windows >= Warmup
        BY <1>1, <1>2, <3>1, <3>2, <3>4, <3>6
      <4> QED
        BY <3>2, <3>3, <3>6, <4>1 DEF Steady
    <3> QED
      BY <3>5, <3>6
  <2> QED
    BY <2>3, <2>4
<1>7. ASSUME q.when >= Up + q.span, F >= Warmup
      PROVE  q.result.fired /\ Steady(q.result.next, F)
  <2>1. Len(fired) # 0 /\ o = 0
    BY <1>1, <1>2, <1>4, <1>7
  <2>2. Steady(state, F) /\ state \in Bases /\ state.rate = PerStep * Unit /\ state.windows \in Nat
    BY <1>3, <1>7, <2>1 DEF Steady, Bases
  <2>3. state.windows >= Warmup
    BY <1>1, <1>2, <1>7, <2>2 DEF Steady
  <2>4. Fires(0, state.rate, w)
    BY <2>2, SilenceFires
  <2>5. q.result.fired /\ q.result.next = state
    BY <1>4, <1>5, <2>1, <2>2, <2>3, <2>4, UpdateFacts
  <2> QED
    BY <2>2, <2>5
<1> QED
  BY <1>6, <1>7 DEF GoodResult, F

\* gs is fs and the poll f.
Adds(fs, f, gs) ==
  /\ gs \in Seq(FiredRecord) /\ Len(gs) = Len(fs) + 1 /\ gs[Len(fs) + 1] = f
  /\ \A i \in 1..Len(fs) : gs[i] = fs[i]

\* Append adds a poll.
LEMMA AppendAdds ==
  ASSUME NEW fs \in Seq(FiredRecord), NEW f \in FiredRecord, NEW gs, gs = Append(fs, f)
  PROVE  Adds(fs, f, gs)
BY DEF Adds

\* Polls are finitely many.
LEMMA CountFacts ==
  ASSUME NEW fs \in Seq(FiredRecord), NEW c
  PROVE  /\ IsFiniteSet(DoneIn(fs)) /\ Cardinality(DoneIn(fs)) \in Nat
         /\ IsFiniteSet(FullIn(c, fs)) /\ Cardinality(FullIn(c, fs)) \in Nat
<1>1. DoneIn(fs) \subseteq 1..Len(fs) /\ FullIn(c, fs) \subseteq 1..Len(fs)
  BY DEF DoneIn, FullIn
<1>2. Len(fs) \in Nat
  OBVIOUS
<1>3. IsFiniteSet(1..Len(fs))
  BY <1>2, IntervalSize
<1> QED
  BY <1>1, <1>3, FS_Subset, FS_CardinalityType

\* How a new poll changes the counts.
Counts(c, fs, f, gs) ==
  /\ f.failed => DoneIn(gs) = DoneIn(fs)
  /\ ~f.failed => DoneIn(gs) = DoneIn(fs) \cup {Len(fs) + 1} /\ Cardinality(DoneIn(gs)) = Cardinality(DoneIn(fs)) + 1
  /\ f.when <= c => FullIn(c, gs) = FullIn(c, fs) \cup {Len(fs) + 1} /\ Cardinality(FullIn(c, gs)) = Cardinality(FullIn(c, fs)) + 1
  /\ ~(f.when <= c) => FullIn(c, gs) = FullIn(c, fs)
\* The counts change as Counts says.
LEMMA AddsCounts ==
  ASSUME NEW c, NEW fs \in Seq(FiredRecord), NEW f \in FiredRecord, NEW gs, Adds(fs, f, gs)
  PROVE  Counts(c, fs, f, gs)
<1> DEFINE n == Len(fs)
<1>1. n \in Nat
  OBVIOUS
<1>2. /\ Len(gs) = n + 1 /\ gs[n + 1] = f /\ \A i \in 1..n : gs[i] = fs[i]
  BY DEF Adds
<1>3. DoneIn(fs) = {i \in 1..n : ~fs[i].failed} /\ FullIn(c, fs) = {i \in 1..n : fs[i].when <= c}
  BY DEF DoneIn, FullIn
<1>4. DoneIn(gs) = {i \in 1..(n + 1) : ~gs[i].failed} /\ FullIn(c, gs) = {i \in 1..(n + 1) : gs[i].when <= c}
  BY <1>2 DEF DoneIn, FullIn
<1> HIDE DEF n
<1>5. n + 1 \notin DoneIn(fs) /\ n + 1 \notin FullIn(c, fs)
  BY <1>1, <1>3
<1>6. \A i : i \in 1..(n + 1) <=> i \in 1..n \/ i = n + 1
  BY <1>1
<1>7. n + 1 \notin 1..n
  BY <1>1
<1>8. f.failed => DoneIn(gs) = DoneIn(fs)
  BY <1>2, <1>3, <1>4, <1>6, <1>7
<1>9. ~f.failed => DoneIn(gs) = DoneIn(fs) \cup {n + 1}
  BY <1>2, <1>3, <1>4, <1>6, <1>7
<1>10. f.when <= c => FullIn(c, gs) = FullIn(c, fs) \cup {n + 1}
  BY <1>2, <1>3, <1>4, <1>6, <1>7
<1>11. ~(f.when <= c) => FullIn(c, gs) = FullIn(c, fs)
  BY <1>2, <1>3, <1>4, <1>6, <1>7
<1>12. /\ Cardinality(DoneIn(fs) \cup {n + 1}) = Cardinality(DoneIn(fs)) + 1
       /\ Cardinality(FullIn(c, fs) \cup {n + 1}) = Cardinality(FullIn(c, fs)) + 1
  BY <1>5, CountFacts, FS_AddElement
<1> QED
  BY <1>8, <1>9, <1>10, <1>11, <1>12 DEF Counts, n

\* A poll that fired came after a warm-up of completed ones: so it stays.
LEMMA EarlyKeeps ==
  ASSUME NEW fs \in Seq(FiredRecord), NEW f \in FiredRecord, NEW gs, Adds(fs, f, gs), EarlyIn(fs),
         f.fired => Cardinality(DoneIn(fs)) >= Warmup
  PROVE  EarlyIn(gs)
<1> SUFFICES ASSUME NEW i \in 1..Len(gs), gs[i].fired
             PROVE  Cardinality({j \in DoneIn(gs) : j < i}) >= Warmup
  BY DEF EarlyIn
<1> DEFINE n == Len(fs)
           D == {j \in DoneIn(gs) : j < i}
<1>1. n \in Nat /\ Len(gs) = n + 1 /\ gs[n + 1] = f /\ \A k \in 1..n : gs[k] = fs[k]
  BY DEF Adds
<1>2. DoneIn(gs) = DoneIn(fs) \/ DoneIn(gs) = DoneIn(fs) \cup {n + 1}
  BY AddsCounts DEF Counts
<1>3. DoneIn(fs) \subseteq 1..n
  BY DEF DoneIn
<1>4. CASE i \in 1..n
  <2>1. D = {j \in DoneIn(fs) : j < i}
    BY <1>1, <1>2, <1>4
  <2>2. fs[i].fired
    BY <1>1, <1>4
  <2>3. Cardinality({j \in DoneIn(fs) : j < i}) >= Warmup
    BY <1>4, <2>2 DEF EarlyIn
  <2> QED
    BY <2>1, <2>3
<1>5. CASE i = n + 1
  <2>1. D = DoneIn(fs)
    BY <1>1, <1>2, <1>3, <1>5
  <2>2. f.fired
    BY <1>1, <1>5
  <2> QED
    BY <2>1, <2>2
<1>6. i \in 1..n \/ i = n + 1
  BY <1>1
<1> QED
  BY <1>4, <1>5, <1>6

\* A step of time keeps the invariant: which windows are full or silent does not change.
LEMMA StepKeeps == ASSUME DriftInv, NEW up \in BOOLEAN, Step(up) PROVE DriftInv'
<1> USE DEF DriftInv
<1>1. /\ UNCHANGED <<state, poll, fired, crashes, clashed>> /\ steps' = steps + 1
      /\ history' = Append(history, up)
  BY DEF Step
<1>2. steps \in Nat /\ history \in Seq(BOOLEAN) /\ Len(history) = steps /\ fired \in Seq(FiredRecord)
  BY DEF DriftTypeOK
<1>3. history' \in Seq(BOOLEAN) /\ Len(history') = steps'
  BY <1>1, <1>2
<1>4. poll \in [Polls -> PollRecord \cup {Resting}] /\ \A p \in Polls : poll[p] # Resting => poll[p].when \in Nat /\ poll[p].when <= steps
  BY DEF DriftTypeOK, PollRecord
<1>5. \A i \in 1..Len(fired) : fired[i].when \in Nat /\ fired[i].when <= steps
  <2>1. \A i \in 1..Len(fired) : fired[i] \in FiredRecord
    BY <1>2
  <2>2. \A i \in 1..Len(fired) : fired[i].when \in Nat
    BY <2>1 DEF FiredRecord
  <2>3. \A i \in 1..Len(fired) : fired[i].when <= steps
    BY DEF DriftTypeOK
  <2> QED
    BY <2>2, <2>3
<1>6. DriftTypeOK'
  <2>1. \A p \in Polls : poll[p] # Resting => poll[p].when <= steps + 1
    BY <1>2, <1>4
  <2>2. \A i \in 1..Len(fired) : fired[i].when <= steps + 1
    BY <1>2, <1>5
  <2> QED
    BY <1>1, <1>2, <1>3, <2>1, <2>2 DEF DriftTypeOK
<1>7. TornUnderWrite' /\ OneAtATime' /\ CountedIn(fired, state, poll)' /\ EarlyIn(fired)' /\ FailuresAreExplained'
  BY <1>1 DEF TornUnderWrite, OneAtATime, CountedIn, EarlyIn, FailuresAreExplained, DoneIn
<1>8. OutageTracked'
  <2> SUFFICES ASSUME ~clashed, crashes = 0, OneOutage', NEW w \in Spans, SpacedIn(Up', w, fired), Noticeable(w)
               PROVE  Tracks(Up', w, fired, state, poll)
    BY <1>1 DEF OutageTracked, Noticeable
  <2>1. OneOutage /\ (Up' = Up \/ (Up = steps /\ Up' = steps + 1))
    BY StepOfOutage
  <2>2. CASE Up' = Up
    BY <2>1, <2>2 DEF OutageTracked
  <2>3. CASE Up = steps /\ Up' = steps + 1
    <3>1. w \in Nat \ {0}
      BY DriftAssumption
    <3>2. FullIn(Up', fired) = FullIn(Up, fired)
      BY <1>2, <1>5, <2>3 DEF FullIn
    <3>3. SpacedIn(Up, w, fired)
      BY <1>2, <1>5, <2>3, <3>1 DEF SpacedIn
    <3>4. Tracks(Up, w, fired, state, poll)
      BY <2>1, <3>3 DEF OutageTracked
    <3>5. GoodBase(Up, fired, state) <=> GoodBase(Up', fired, state)
      BY <3>2 DEF GoodBase
    <3>6. \A p \in Polls : poll[p] # Resting /\ poll[p].span = w => GoodResult(Up', fired, poll[p])
      <4> SUFFICES ASSUME NEW p \in Polls, poll[p] # Resting, poll[p].span = w
                   PROVE  GoodResult(Up', fired, poll[p])
        OBVIOUS
      <4>1. GoodResult(Up, fired, poll[p])
        BY <3>4 DEF Tracks
      <4>2. poll[p].when <= Up /\ ~(poll[p].when >= Up' + poll[p].span)
        BY <1>2, <1>4, <2>3, <3>1
      <4> QED
        BY <3>2, <4>1, <4>2 DEF GoodResult
    <3>7. Flags(Up', w, fired)
      <4>1. Len(fired) > 0 => ~(fired[Len(fired)].when >= Up' + w)
        BY <1>2, <1>5, <2>3, <3>1
      <4> QED
        BY <4>1 DEF Flags
    <3> QED
      BY <3>4, <3>5, <3>6, <3>7 DEF Tracks
  <2> QED
    BY <2>1, <2>2, <2>3
<1> QED
  BY <1>6, <1>7, <1>8

\* A poll that finds the file torn fails; it was torn by a crash, or under a poll it clashes with.
LEMMA ReadTornKeeps ==
  ASSUME DriftInv, NEW p \in Polls, NEW span \in Spans, ReadState(p, span), state = Torn
  PROVE  DriftInv'
<1> USE DEF DriftInv
<1> DEFINE f == [when |-> steps, span |-> span, fired |-> FALSE, failed |-> TRUE]
<1>1. /\ UNCHANGED <<steps, history, state, crashes, poll>> /\ fired' = Append(fired, f)
      /\ clashed' = (clashed \/ \E q \in Polls : poll[q] # Resting)
  BY DEF ReadState
<1>2. steps \in Nat /\ fired \in Seq(FiredRecord) /\ f \in FiredRecord /\ Len(fired) \in Nat /\ crashes \in Nat
  BY DEF DriftTypeOK, FiredRecord
<1>3. f.failed /\ ~f.fired /\ f.when = steps
  OBVIOUS
<1> HIDE DEF f
<1>4. Adds(fired, f, fired')
  BY <1>1, <1>2, AppendAdds
<1>5. fired' \in Seq(FiredRecord) /\ Len(fired') = Len(fired) + 1 /\ fired'[Len(fired) + 1] = f
      /\ \A i \in 1..Len(fired) : fired'[i] = fired[i]
  BY <1>4 DEF Adds
<1>6. DriftTypeOK'
  <2>1. \A i \in 1..Len(fired') : fired'[i].when <= steps
    BY <1>2, <1>3, <1>5 DEF DriftTypeOK
  <2>2. clashed' \in BOOLEAN
    BY <1>1 DEF DriftTypeOK
  <2> QED
    BY <1>1, <1>5, <2>1, <2>2 DEF DriftTypeOK
<1>7. crashes > 0 \/ clashed'
  <2>1. CASE crashes = 0
    <3>1. \E q \in Polls : poll[q].at = "writing"
      BY <2>1 DEF TornUnderWrite
    <3>2. \E q \in Polls : poll[q] # Resting
      BY <3>1 DEF Resting
    <3> QED
      BY <1>1, <3>2
  <2> QED
    BY <1>2, <2>1
<1>8. TornUnderWrite'
  BY <1>1 DEF TornUnderWrite
<1>9. OneAtATime'
  BY <1>1 DEF OneAtATime
<1>10. CountedIn(fired, state, poll)'
  <2>1. DoneIn(fired') = DoneIn(fired)
    BY <1>2, <1>3, <1>4, AddsCounts DEF Counts
  <2> QED
    BY <1>1, <2>1 DEF CountedIn
<1>11. EarlyIn(fired)'
  BY <1>2, <1>3, <1>4, EarlyKeeps
<1>12. FailuresAreExplained' /\ OutageTracked'
  BY <1>1, <1>2, <1>7 DEF FailuresAreExplained, OutageTracked
<1> QED
  BY <1>6, <1>8, <1>9, <1>10, <1>11, <1>12

\* A poll that reads a baseline: its result is good if the baseline was.
LEMMA ReadKeeps ==
  ASSUME DriftInv, NEW p \in Polls, NEW span \in Spans, ReadState(p, span), state # Torn
  PROVE  DriftInv'
<1> USE DEF DriftInv
<1> DEFINE r == Update(state, Observed(span), span)
           q == [at |-> "scored", span |-> span, when |-> steps, result |-> r]
<1>1. /\ UNCHANGED <<steps, history, state, crashes, fired>> /\ poll' = [poll EXCEPT ![p] = q]
      /\ clashed' = (clashed \/ \E k \in Polls : poll[k] # Resting)
      /\ poll[p] = Resting /\ steps >= span
  BY DEF ReadState
<1>2. steps \in Nat /\ fired \in Seq(FiredRecord) /\ Observed(span) \in Nat /\ (state = None \/ state \in Bases)
  BY ObservedFacts DEF DriftTypeOK
<1>3. /\ r \in Outcomes
      /\ state = None => ~r.fired /\ r.next.windows = 1
      /\ state \in Bases => r.next.windows <= state.windows + 1 /\ (r.fired => state.windows >= Warmup)
  BY <1>2, UpdateFacts
<1> HIDE DEF r
<1>4. q \in PollRecord /\ q # Resting
  BY <1>2, <1>3 DEF PollRecord, Outcomes, Resting
<1>5. q.at = "scored" /\ q.span = span /\ q.when = steps /\ q.result = r
  OBVIOUS
<1> HIDE DEF q
<1>6. poll' \in [Polls -> PollRecord \cup {Resting}] /\ poll'[p] = q /\ \A k \in Polls : k # p => poll'[k] = poll[k]
  BY <1>1, <1>4 DEF DriftTypeOK
<1>7. DriftTypeOK'
  <2>1. \A k \in Polls : poll'[k] # Resting => poll'[k].when <= steps
    BY <1>2, <1>5, <1>6 DEF DriftTypeOK
  <2>2. clashed' \in BOOLEAN
    BY <1>1 DEF DriftTypeOK
  <2> QED
    BY <1>1, <1>6, <2>1, <2>2 DEF DriftTypeOK
<1>8. TornUnderWrite' /\ EarlyIn(fired)' /\ FailuresAreExplained'
  BY <1>1 DEF TornUnderWrite, EarlyIn, DoneIn, FailuresAreExplained
<1>9. ~clashed' => ~clashed /\ \A k \in Polls : k # p => poll'[k] = Resting
  BY <1>1, <1>6
<1>10. OneAtATime'
  BY <1>9 DEF OneAtATime
<1>11. CountedIn(fired, state, poll)'
  <2>1. Cardinality(DoneIn(fired)) \in Nat /\ Warmup \in Nat
    BY <1>2, CountFacts, DriftAssumption
  <2>2. state \in Bases => state.windows \in Nat /\ state.windows <= Cardinality(DoneIn(fired))
    BY DEF CountedIn, Bases
  <2>3. r.next.windows \in Nat /\ r.next.windows <= Cardinality(DoneIn(fired)) + 1
    <3>1. r.next.windows \in Nat
      BY <1>3 DEF Outcomes, Bases
    <3> QED
      BY <1>2, <1>3, <2>1, <2>2, <3>1
  <2>4. r.fired => Cardinality(DoneIn(fired)) >= Warmup
    BY <1>2, <1>3, <2>1, <2>2
  <2> QED
    BY <1>1, <1>5, <1>6, <2>3, <2>4 DEF CountedIn
<1>12. OutageTracked'
  <2>1. Sent' = Sent
    BY <1>1 DEF Sent
  <2>2. Up' = Up /\ (OneOutage' <=> OneOutage)
    BY <2>1 DEF Up, OneOutage
  <2> SUFFICES ASSUME ~clashed', crashes = 0, OneOutage, NEW w \in Spans, SpacedIn(Up, w, fired), Noticeable(w)
               PROVE  Tracks(Up, w, fired, state, poll')
    BY <1>1, <2>2 DEF OutageTracked, Noticeable
  <2>3. Tracks(Up, w, fired, state, poll)
    BY <1>9 DEF OutageTracked
  <2>4. \A k \in Polls : poll'[k] # Resting /\ poll'[k].span = w => GoodResult(Up, fired, poll'[k])
    <3> SUFFICES ASSUME NEW k \in Polls, poll'[k] # Resting, poll'[k].span = w
                 PROVE  GoodResult(Up, fired, poll'[k])
      OBVIOUS
    <3>1. poll'[k] = q /\ w = span
      BY <1>5, <1>6, <1>9
    <3>2. GoodBase(Up, fired, state)
      BY <2>3 DEF Tracks
    <3>3. q.result = Update(state, Observed(span), span)
      BY <1>5 DEF r
    <3>4. GoodResult(Up, fired, q)
      BY <1>1, <1>5, <3>1, <3>2, <3>3, ReadIsGood
    <3> QED
      BY <3>1, <3>4
  <2> QED
    BY <2>3, <2>4 DEF Tracks
<1> QED
  BY <1>7, <1>8, <1>10, <1>11, <1>12

\* The write begins: only the file changes, and the stage of the poll.
LEMMA TruncateKeeps == ASSUME DriftInv, NEW p \in Polls, Truncate(p) PROVE DriftInv'
<1> USE DEF DriftInv
<1>1. /\ UNCHANGED <<steps, history, fired, crashes, clashed>> /\ state' = Torn /\ poll[p].at = "scored"
      /\ poll' = [poll EXCEPT ![p].at = "writing"]
  BY DEF Truncate
<1>2. poll[p] \in PollRecord /\ poll[p] # Resting /\ poll \in [Polls -> PollRecord \cup {Resting}]
  BY <1>1 DEF DriftTypeOK, Resting
<1> DEFINE q == [poll[p] EXCEPT !.at = "writing"]
<1>3. poll' = [poll EXCEPT ![p] = q]
  BY <1>1
<1>4. /\ q \in PollRecord /\ q.at = "writing" /\ q.span = poll[p].span /\ q.when = poll[p].when
      /\ q.result = poll[p].result
  BY <1>2 DEF PollRecord
<1> HIDE DEF q
<1>5. q # Resting
  BY <1>4 DEF Resting
<1>6. /\ poll' \in [Polls -> PollRecord \cup {Resting}] /\ poll'[p] = q
      /\ \A k \in Polls : k # p => poll'[k] = poll[k]
  BY <1>2, <1>3, <1>4
<1>7. \A k \in Polls : /\ poll'[k] # Resting <=> poll[k] # Resting
                       /\ poll[k] # Resting => /\ poll'[k].span = poll[k].span /\ poll'[k].when = poll[k].when
                                               /\ poll'[k].result = poll[k].result
  BY <1>2, <1>4, <1>5, <1>6
<1>8. DriftTypeOK'
  BY <1>1, <1>6, <1>7 DEF DriftTypeOK
<1>9. TornUnderWrite'
  BY <1>4, <1>6 DEF TornUnderWrite
<1>10. OneAtATime'
  BY <1>1, <1>7 DEF OneAtATime
<1>11. CountedIn(fired, state, poll)'
  <2>1. Torn \notin Bases
    BY DEF Torn, Bases
  <2> QED
    BY <1>1, <1>7, <2>1 DEF CountedIn
<1>12. EarlyIn(fired)' /\ FailuresAreExplained'
  BY <1>1 DEF EarlyIn, DoneIn, FailuresAreExplained
<1>13. OutageTracked'
  <2>1. Sent' = Sent
    BY <1>1 DEF Sent
  <2>2. Up' = Up /\ (OneOutage' <=> OneOutage)
    BY <2>1 DEF Up, OneOutage
  <2> SUFFICES ASSUME ~clashed, crashes = 0, OneOutage, NEW w \in Spans, SpacedIn(Up, w, fired), Noticeable(w)
               PROVE  Tracks(Up, w, fired, Torn, poll')
    BY <1>1, <2>2 DEF OutageTracked, Noticeable
  <2>3. Tracks(Up, w, fired, state, poll)
    BY DEF OutageTracked
  <2> QED
    BY <1>7, <2>3 DEF Tracks, GoodResult
<1> QED
  BY <1>8, <1>9, <1>10, <1>11, <1>12, <1>13

\* A crash ends the polls; what it leaves torn is excused.
LEMMA CrashDriftKeeps == ASSUME DriftInv, CrashDrift PROVE DriftInv'
<1> USE DEF DriftInv
<1>1. /\ UNCHANGED <<steps, history, state, fired, clashed>> /\ crashes' = crashes + 1
      /\ poll' = [p \in Polls |-> Resting]
  BY DEF CrashDrift
<1>2. crashes \in Nat /\ crashes + 1 \in Nat /\ crashes + 1 > 0 /\ crashes + 1 # 0
  BY DEF DriftTypeOK
<1>3. \A p \in Polls : poll'[p] = Resting
  BY <1>1
<1>4. DriftTypeOK'
  BY <1>1, <1>2, <1>3 DEF DriftTypeOK
<1> QED
  BY <1>1, <1>2, <1>3, <1>4
     DEF TornUnderWrite, OneAtATime, CountedIn, DoneIn, EarlyIn, FailuresAreExplained, OutageTracked

\* A poll completes.  The baseline it writes is as good as its result, and if its whole
\* window is silent it reports the drop.
LEMMA WriteTracks ==
  ASSUME NEW c \in Nat, NEW w \in Spans, NEW fs \in Seq(FiredRecord), NEW f \in FiredRecord, NEW gs, Adds(fs, f, gs),
         NEW q \in PollRecord, GoodResult(c, fs, q), q.span = w,
         f.when = q.when, f.span = w, f.fired = q.result.fired,
         q.when <= c \/ q.when >= c + w
  PROVE  GoodBase(c, gs, q.result.next) /\ Flags(c, w, gs)
<1> DEFINE F == Cardinality(FullIn(c, fs))
           G == Cardinality(FullIn(c, gs))
           n == Len(fs)
<1>1. /\ F \in Nat /\ n \in Nat /\ w \in Nat \ {0} /\ q.when \in Nat /\ Warmup \in Nat /\ q.result.next \in Bases
      /\ q.result.next.windows \in Nat
  BY CountFacts, DriftAssumption DEF PollRecord, Bases
<1>2. Len(gs) = n + 1 /\ gs[n + 1] = f /\ Len(gs) # 0
  BY <1>1 DEF Adds
<1>3. Counts(c, fs, f, gs)
  BY AddsCounts
<1>4. CASE q.when <= c
  <2>1. G = F + 1
    BY <1>3, <1>4 DEF Counts
  <2>2. Steady(q.result.next, F + 1)
    BY <1>4 DEF GoodResult
  <2>3. ~(f.when >= c + w)
    BY <1>1, <1>4
  <2> QED
    BY <1>2, <2>1, <2>2, <2>3 DEF GoodBase, Flags
<1>5. CASE q.when >= c + w
  <2>1. ~(f.when <= c)
    BY <1>1, <1>5
  <2>2. G = F /\ FullIn(c, gs) = FullIn(c, fs)
    BY <1>3, <2>1 DEF Counts
  <2>3. n + 1 \notin FullIn(c, gs) /\ n + 1 \in 1..Len(gs)
    BY <1>1, <1>2, <2>1 DEF FullIn
  <2>4. F >= Warmup => q.result.fired /\ Steady(q.result.next, F)
    BY <1>5 DEF GoodResult
  <2>5. FullIn(c, gs) # 1..Len(gs)
    BY <2>3
  <2> QED
    BY <1>2, <2>2, <2>4, <2>5 DEF GoodBase, Flags
<1> QED
  BY <1>4, <1>5

\* A poll writes its baseline and completes.
LEMMA WriteStateKeeps == ASSUME DriftInv, NEW p \in Polls, WriteState(p) PROVE DriftInv'
<1> USE DEF DriftInv
<1> DEFINE q == poll[p]
           f == [when |-> q.when, span |-> q.span, fired |-> q.result.fired, failed |-> FALSE]
<1>1. /\ UNCHANGED <<steps, history, crashes, clashed>> /\ state' = q.result.next /\ q.at = "writing"
      /\ poll' = [poll EXCEPT ![p] = Resting] /\ fired' = Append(fired, f)
  BY DEF WriteState
<1>2. q \in PollRecord /\ q # Resting /\ poll \in [Polls -> PollRecord \cup {Resting}] /\ q.when <= steps
  BY <1>1 DEF DriftTypeOK, Resting
<1>3. steps \in Nat /\ fired \in Seq(FiredRecord) /\ Len(fired) \in Nat /\ crashes \in Nat
  BY DEF DriftTypeOK
<1>4. q.when \in Nat /\ q.span \in Spans /\ q.result.fired \in BOOLEAN /\ q.result.next \in Bases
  BY <1>2 DEF PollRecord
<1> HIDE DEF q
<1>5. f \in FiredRecord
  BY <1>4 DEF FiredRecord
<1>6. f.when = q.when /\ f.span = q.span /\ f.fired = q.result.fired /\ ~f.failed
  OBVIOUS
<1> HIDE DEF f
<1>7. Adds(fired, f, fired')
  BY <1>1, <1>3, <1>5, AppendAdds
<1>8. /\ fired' \in Seq(FiredRecord) /\ Len(fired') = Len(fired) + 1 /\ fired'[Len(fired) + 1] = f
      /\ \A i \in 1..Len(fired) : fired'[i] = fired[i]
  BY <1>7 DEF Adds
<1>9. \A i \in 1..Len(fired') : i \in 1..Len(fired) \/ i = Len(fired) + 1
  BY <1>3, <1>8
<1>10. /\ poll' \in [Polls -> PollRecord \cup {Resting}] /\ poll'[p] = Resting
       /\ \A k \in Polls : k # p => poll'[k] = poll[k]
  BY <1>1, <1>2
<1>11. DriftTypeOK'
  <2>1. \A i \in 1..Len(fired') : fired'[i].when <= steps
    BY <1>2, <1>6, <1>8, <1>9 DEF DriftTypeOK
  <2>2. \A k \in Polls : poll'[k] # Resting => poll'[k].when <= steps
    BY <1>10 DEF DriftTypeOK
  <2> QED
    BY <1>1, <1>4, <1>8, <1>10, <2>1, <2>2 DEF DriftTypeOK
<1>12. state' # Torn
  BY <1>1, <1>4 DEF Bases, Torn
<1>13. TornUnderWrite'
  BY <1>12 DEF TornUnderWrite
<1>14. OneAtATime'
  BY <1>1, <1>10 DEF OneAtATime
<1>15. CountedIn(fired, state, poll)' /\ EarlyIn(fired)'
  <2>1. Cardinality(DoneIn(fired)) \in Nat /\ Warmup \in Nat
    BY <1>3, CountFacts, DriftAssumption
  <2>2. Cardinality(DoneIn(fired')) = Cardinality(DoneIn(fired)) + 1
    BY <1>3, <1>5, <1>6, <1>7, AddsCounts DEF Counts
  <2>3. q.result.next.windows <= Cardinality(DoneIn(fired)) + 1 /\ (q.result.fired => Cardinality(DoneIn(fired)) >= Warmup)
    BY <1>2 DEF CountedIn, q
  <2>4. EarlyIn(fired')
    BY <1>3, <1>5, <1>6, <1>7, <2>3, EarlyKeeps
  <2>5. \A k \in Polls : poll'[k] # Resting =>
          /\ poll'[k].result.next.windows <= Cardinality(DoneIn(fired)) + 1
          /\ poll'[k].result.next.windows \in Nat
          /\ poll'[k].result.fired => Cardinality(DoneIn(fired)) >= Warmup
    BY <1>10 DEF CountedIn, DriftTypeOK, PollRecord, Bases
  <2>6. \A k \in Polls : poll'[k] # Resting =>
          /\ poll'[k].result.next.windows <= Cardinality(DoneIn(fired')) + 1
          /\ poll'[k].result.fired => Cardinality(DoneIn(fired')) >= Warmup
    BY <2>1, <2>2, <2>5
  <2> QED
    BY <1>1, <2>2, <2>3, <2>4, <2>6 DEF CountedIn
<1>16. FailuresAreExplained'
  BY <1>1, <1>3, <1>6, <1>8, <1>9 DEF FailuresAreExplained
<1>17. OutageTracked'
  <2>1. Sent' = Sent
    BY <1>1 DEF Sent
  <2>2. Up' = Up /\ (OneOutage' <=> OneOutage) /\ Up \in Nat
    BY <2>1, SentFacts DEF Up, OneOutage
  <2> SUFFICES ASSUME ~clashed, crashes = 0, OneOutage, NEW w \in Spans, SpacedIn(Up, w, fired'), Noticeable(w)
               PROVE  Tracks(Up, w, fired', q.result.next, poll')
    BY <1>1, <2>2 DEF OutageTracked, Noticeable
  <2>3. Len(fired) + 1 \in 1..Len(fired') /\ 1..Len(fired) \subseteq 1..Len(fired')
    BY <1>3, <1>8
  <2>4. SpacedIn(Up, w, fired) /\ f.span = w /\ (f.when <= Up \/ f.when >= Up + w)
    BY <1>8, <2>3 DEF SpacedIn
  <2>5. Tracks(Up, w, fired, state, poll)
    BY <2>4 DEF OutageTracked
  <2>6. GoodResult(Up, fired, q)
    BY <1>2, <1>6, <2>4, <2>5 DEF Tracks, q
  <2>7. GoodBase(Up, fired', q.result.next) /\ Flags(Up, w, fired')
    BY <1>2, <1>3, <1>5, <1>6, <1>7, <2>2, <2>4, <2>6, WriteTracks
  <2>8. \A k \in Polls : poll'[k] = Resting
    BY <1>2, <1>10 DEF OneAtATime, q
  <2> QED
    BY <2>7, <2>8 DEF Tracks
<1> QED
  BY <1>11, <1>13, <1>14, <1>15, <1>16, <1>17

\* What DriftInv says of the polls that completed.
LEMMA DriftAnswers == DriftInv => DriftIsFlagged
<1> SUFFICES ASSUME DriftInv PROVE DriftIsFlagged
  OBVIOUS
<1> USE DEF DriftInv
<1>1. fired \in Seq(FiredRecord) /\ Len(fired) \in Nat /\ DOMAIN fired = 1..Len(fired) /\ crashes \in Nat
  BY DEF DriftTypeOK
<1>2. Done = DoneIn(fired)
  BY <1>1 DEF Done, DoneIn
<1>3. NoEarlySignal
  BY <1>1, <1>2 DEF NoEarlySignal, EarlyIn
<1>4. OutageFlaggedWhenSpaced
  <2> SUFFICES ASSUME ~clashed, crashes = 0, OneOutage, WarmBefore,
                      \A i \in Done : (Silent(fired[i]) \/ Full(fired[i])) /\ fired[i].span = LastPoll.span,
                      Len(fired) > 0, Silent(LastPoll), Noticeable(LastPoll.span)
               PROVE  LastPoll.fired
    BY DEF OutageFlaggedWhenSpaced
  <2> DEFINE w == LastPoll.span
  <2>1. LastPoll = fired[Len(fired)] /\ w \in Spans
    <3>1. fired[Len(fired)] \in FiredRecord
      BY <1>1
    <3> QED
      BY <3>1 DEF LastPoll, FiredRecord
  <2>2. Done = 1..Len(fired) /\ \A i \in 1..Len(fired) : ~fired[i].failed
    BY <1>1, <1>2 DEF DoneIn, FailuresAreExplained
  <2>3. SpacedIn(Up, w, fired)
    BY <2>2 DEF SpacedIn, Silent, Full, Up
  <2>4. Flags(Up, w, fired)
    BY <2>1, <2>3 DEF OutageTracked, Tracks
  <2>5. {i \in Done : Full(fired[i])} = FullIn(Up, fired)
    BY <2>2 DEF Full, FullIn, Up
  <2>6. Cardinality(FullIn(Up, fired)) >= Warmup
    BY <2>5 DEF WarmBefore
  <2> QED
    BY <2>1, <2>4, <2>6 DEF Flags, Silent, Up
<1> QED
  BY <1>3, <1>4 DEF DriftIsFlagged

\* Drift polling is right for any polls, window lengths, rate, warm-up and threshold, and any
\* interleaving of polls, crashes and silences: polls one at a time keep an outage flagged
\* (the frozen baseline of update), no poll reports before the warm-up, even when clashing
\* polls lose updates, and a poll fails only on a file torn by a crash or under a clash.
THEOREM DriftIsSafe == DriftSpec => []DriftIsFlagged
<1>1. DriftInit => DriftInv
  <2> SUFFICES ASSUME DriftInit PROVE DriftInv
    OBVIOUS
  <2>1. /\ steps = 0 /\ history = <<>> /\ state = None /\ fired = <<>> /\ crashes = 0 /\ clashed = FALSE
        /\ poll = [p \in Polls |-> Resting]
    BY DEF DriftInit
  <2>2. \A p \in Polls : poll[p] = Resting
    BY <2>1
  <2>3. None # Torn /\ None \notin Bases
    BY DEF None, Torn, Bases
  <2>4. Len(fired) = 0 /\ 1..Len(fired) = {} /\ DOMAIN fired = {}
    BY <2>1
  <2>5. DriftTypeOK
    <3>1. history \in Seq(BOOLEAN) /\ Len(history) = 0 /\ fired \in Seq(FiredRecord)
      BY <2>1
    <3>2. poll \in [Polls -> PollRecord \cup {Resting}]
      BY <2>1
    <3> QED
      BY <2>1, <2>2, <2>4, <3>1, <3>2 DEF DriftTypeOK
  <2>6. TornUnderWrite /\ OneAtATime /\ CountedIn(fired, state, poll) /\ EarlyIn(fired) /\ FailuresAreExplained
    BY <2>1, <2>2, <2>3, <2>4 DEF TornUnderWrite, OneAtATime, CountedIn, EarlyIn, FailuresAreExplained
  <2>7. OutageTracked
    BY <2>1, <2>2, <2>4 DEF OutageTracked, Tracks, GoodBase, Flags
  <2> QED
    BY <2>5, <2>6, <2>7 DEF DriftInv
<1>2. DriftInv /\ [DriftNext]_driftVars => DriftInv'
  <2> SUFFICES ASSUME DriftInv, [DriftNext]_driftVars PROVE DriftInv'
    OBVIOUS
  <2>1. CASE UNCHANGED driftVars
    BY <2>1 DEF driftVars, DriftInv, DriftTypeOK, TornUnderWrite, OneAtATime, CountedIn, DoneIn, EarlyIn,
                FailuresAreExplained, OutageTracked, Up, OneOutage, Sent
  <2>2. CASE \E up \in BOOLEAN : Step(up)
    BY <2>2, StepKeeps
  <2>3. ASSUME NEW p \in Polls, NEW span \in Spans, ReadState(p, span) PROVE DriftInv'
    BY <2>3, ReadTornKeeps, ReadKeeps
  <2>4. ASSUME NEW p \in Polls, Truncate(p) \/ WriteState(p) PROVE DriftInv'
    BY <2>4, TruncateKeeps, WriteStateKeeps
  <2>5. CASE CrashDrift
    BY <2>5, CrashDriftKeeps
  <2> QED
    BY <2>1, <2>2, <2>3, <2>4, <2>5 DEF DriftNext
<1> QED
  BY <1>1, <1>2, DriftAnswers, PTL DEF DriftSpec

(***************************************************************************)
(* Suggestion: a draft is sound.  SgInv says what each loop over the        *)
(* columns has settled when it has come to the cursor: behind the sweep     *)
(* from the left no unclaimed column follows a port or an address; behind   *)
(* the one from the right none is beside one; behind the loop of the paths  *)
(* the first two columns of a kind are the ones in its places.              *)
(***************************************************************************)
Primary == {"unknown", "ip_address", "protocol", "action", "timestamp", "port"}
Meanings == Primary \cup {"byte_count", "interface_name", "source_ip", "destination_ip"}
\* A record of a draft over n columns.
IsDraft(d, n) ==
  /\ d = [ok |-> d.ok, columns |-> d.columns, means |-> d.means, detect |-> d.detect, doc |-> d.doc]
  /\ n \in Nat \ {0} /\ DOMAIN d.columns = 1..n /\ Len(d.columns) = n /\ d.means \in [1..n -> Meanings]
\* A port-sized column that nothing claimed.
Unclaimed(cols, means, k) == PortInt(cols[k]) /\ means[k] = "unknown"
Clear(means, n, k) == k \in 1..n => means[k] \notin {"ip_address", "port"}
\* What the sweep from the left leaves behind column i, and the one from the right leaves on both sides.
Behind(cols, means, n, k) == Unclaimed(cols, means, k) => cols[k].mask # "PORT" /\ Clear(means, n, k - 1)
Isolated(cols, means, n, k) == Unclaimed(cols, means, k) => Clear(means, n, k - 1) /\ Clear(means, n, k + 1)
SweptLeft(cols, means, n, i) == \A k \in 1..(i - 1) : Behind(cols, means, n, k)
SweptRight(cols, means, n, i) == /\ \A k \in 1..i : Behind(cols, means, n, k)
                                 /\ \A k \in (i + 1)..n : Isolated(cols, means, n, k)
Fixed(cols, means, n) ==
  \A i \in 1..n : PortInt(cols[i]) /\ means[i] \in {"unknown", "byte_count"} =>
     \A j \in {i - 1, i + 1} \cap 1..n : means[j] \notin {"port", "source_ip", "destination_ip", "ip_address"}

\* A claim changes one meaning at most, that of a column that was left.
Claimed(cols, means, n, i, new) ==
  /\ new \in [1..n -> Primary] /\ \A k \in 1..n : k # i => new[k] = means[k]
  /\ new[i] = means[i] \/ (new[i] = "port" /\ Unclaimed(cols, means, i))
  /\ Unclaimed(cols, new, i) => cols[i].mask # "PORT" /\ Clear(means, n, i - 1) /\ Clear(means, n, i + 1)
  /\ new[i] # means[i] => cols[i].mask = "PORT" \/ ~Clear(means, n, i - 1) \/ ~Clear(means, n, i + 1)
\* What one try of the port rule does.
LEMMA ClaimFacts ==
  ASSUME NEW cols, NEW n \in Nat, DOMAIN cols = 1..n, NEW means \in [1..n -> Primary], NEW i \in 1..n
  PROVE  Claimed(cols, means, n, i, TryClaim(cols, means, i))
<1> DEFINE new == TryClaim(cols, means, i)
<1>0. new = TryClaim(cols, means, i)
  OBVIOUS
<1> HIDE DEF new
<1> SUFFICES Claimed(cols, means, n, i, new)
  BY <1>0
<1>1. CASE ClaimsPort(cols, means, i)
  <2>1. new = [means EXCEPT ![i] = "port"]
    BY <1>0, <1>1 DEF TryClaim
  <2>2. Unclaimed(cols, means, i)
    BY <1>1 DEF ClaimsPort, Unclaimed
  <2>3. cols[i].mask = "PORT" \/ ~Clear(means, n, i - 1) \/ ~Clear(means, n, i + 1)
    BY <1>1 DEF ClaimsPort, Clear
  <2>4. new \in [1..n -> Primary] /\ new[i] = "port" /\ \A k \in 1..n : k # i => new[k] = means[k]
    BY <2>1 DEF Primary
  <2>5. ~Unclaimed(cols, new, i)
    BY <2>4 DEF Unclaimed
  <2> QED
    BY <2>2, <2>3, <2>4, <2>5 DEF Claimed
<1>2. CASE ~ClaimsPort(cols, means, i)
  <2>1. new = means
    BY <1>0, <1>2 DEF TryClaim
  <2>2. Unclaimed(cols, means, i) => cols[i].mask # "PORT" /\ Clear(means, n, i - 1) /\ Clear(means, n, i + 1)
    BY <1>2 DEF ClaimsPort, Unclaimed, Clear
  <2> QED
    BY <2>1, <2>2 DEF Claimed
<1> QED
  BY <1>1, <1>2

\* The sweep from the left: what is behind it stays as it was left.
LEMMA LeftSweep ==
  ASSUME NEW cols, NEW n \in Nat, DOMAIN cols = 1..n, NEW means \in [1..n -> Primary], NEW i \in 1..n,
         NEW new, Claimed(cols, means, n, i, new), SweptLeft(cols, means, n, i)
  PROVE  SweptLeft(cols, new, n, i + 1)
<1>1. /\ \A k \in 1..n : k # i => new[k] = means[k]
      /\ Unclaimed(cols, new, i) => cols[i].mask # "PORT" /\ Clear(means, n, i - 1)
  BY DEF Claimed
<1>2. SUFFICES ASSUME NEW k \in 1..i PROVE Behind(cols, new, n, k)
  BY DEF SweptLeft
<1>3. CASE k = i
  <2>1. Clear(means, n, i - 1) => Clear(new, n, i - 1)
    BY <1>1 DEF Clear
  <2> QED
    BY <1>1, <1>3, <2>1 DEF Behind
<1>4. CASE k < i
  <2>1. k \in 1..(i - 1) /\ k \in 1..n /\ k # i /\ k - 1 # i
    BY <1>4
  <2>2. Behind(cols, means, n, k)
    BY <2>1 DEF SweptLeft
  <2>3. Unclaimed(cols, new, k) => Unclaimed(cols, means, k)
    BY <1>1, <2>1 DEF Unclaimed
  <2>4. Clear(means, n, k - 1) => Clear(new, n, k - 1)
    BY <1>1, <2>1 DEF Clear
  <2> QED
    BY <2>2, <2>3, <2>4 DEF Behind
<1>5. k = i \/ k < i
  OBVIOUS
<1> QED
  BY <1>3, <1>4, <1>5

\* The sweep from the right claims a column only beside one that is a port or an address,
\* which no column left alone is.
LEMMA RightSweep ==
  ASSUME NEW cols, NEW n \in Nat, DOMAIN cols = 1..n, NEW means \in [1..n -> Primary], NEW i \in 1..n,
         NEW new, Claimed(cols, means, n, i, new), SweptRight(cols, means, n, i)
  PROVE  SweptRight(cols, new, n, i - 1)
<1>1. /\ \A k \in 1..n : k # i => new[k] = means[k]
      /\ new[i] = means[i] \/ (new[i] = "port" /\ Unclaimed(cols, means, i))
      /\ Unclaimed(cols, new, i) => cols[i].mask # "PORT" /\ Clear(means, n, i - 1) /\ Clear(means, n, i + 1)
      /\ new[i] # means[i] => cols[i].mask = "PORT" \/ ~Clear(means, n, i - 1) \/ ~Clear(means, n, i + 1)
  BY DEF Claimed
<1>2. Behind(cols, means, n, i)
  BY DEF SweptRight
<1>3. \A k \in 1..(i - 1) : Behind(cols, new, n, k)
  <2> SUFFICES ASSUME NEW k \in 1..(i - 1) PROVE Behind(cols, new, n, k)
    OBVIOUS
  <2>1. k \in 1..i /\ k \in 1..n /\ k # i /\ k - 1 # i
    OBVIOUS
  <2>2. Behind(cols, means, n, k)
    BY <2>1 DEF SweptRight
  <2>3. Unclaimed(cols, new, k) => Unclaimed(cols, means, k)
    BY <1>1, <2>1 DEF Unclaimed
  <2>4. Clear(means, n, k - 1) => Clear(new, n, k - 1)
    BY <1>1, <2>1 DEF Clear
  <2> QED
    BY <2>2, <2>3, <2>4 DEF Behind
<1>4. \A k \in i..n : Isolated(cols, new, n, k)
  <2> SUFFICES ASSUME NEW k \in i..n, Unclaimed(cols, new, k)
               PROVE  Clear(new, n, k - 1) /\ Clear(new, n, k + 1)
    BY DEF Isolated
  <2>1. CASE k = i
    <3>1. Clear(means, n, i - 1) /\ Clear(means, n, i + 1)
      BY <1>1, <2>1
    <3> QED
      BY <1>1, <2>1, <3>1 DEF Clear
  <2>2. CASE k > i
    <3>1. k \in (i + 1)..n /\ k \in 1..n /\ k # i /\ k + 1 # i
      BY <2>2
    <3>2. Unclaimed(cols, means, k)
      BY <1>1, <3>1 DEF Unclaimed
    <3>3. Clear(means, n, k - 1) /\ Clear(means, n, k + 1)
      BY <3>1, <3>2 DEF SweptRight, Isolated
    <3>4. Clear(new, n, k + 1)
      BY <1>1, <3>1, <3>3 DEF Clear
    <3>5. CASE k - 1 # i
      BY <1>1, <3>3, <3>4, <3>5 DEF Clear
    <3>6. CASE k - 1 = i
      <4>1. i + 1 = k /\ means[k] = "unknown"
        BY <3>2, <3>6 DEF Unclaimed
      <4>2. Clear(means, n, i + 1) /\ Clear(means, n, i)
        BY <3>3, <3>6, <4>1 DEF Clear
      <4>3. new[i] = means[i]
        <5> SUFFICES ASSUME new[i] # means[i] PROVE FALSE
          OBVIOUS
        <5>1. cols[i].mask # "PORT" /\ Clear(means, n, i - 1)
          BY <1>1, <1>2 DEF Behind
        <5> QED
          BY <1>1, <4>2, <5>1
      <4> QED
        BY <3>4, <3>6, <4>2, <4>3 DEF Clear
    <3> QED
      BY <3>5, <3>6
  <2>3. k = i \/ k > i
    OBVIOUS
  <2> QED
    BY <2>1, <2>2, <2>3
<1> QED
  BY <1>3, <1>4 DEF SweptRight

\* The final meanings: an unclaimed column is beside no port and no address.
LEMMA RefineFacts ==
  ASSUME NEW cols, NEW n \in Nat, DOMAIN cols = 1..n, NEW means \in [1..n -> Primary], SweptRight(cols, means, n, 0),
         NEW new, new = AssignIpRoles(RefineRest(cols, means))
  PROVE  new \in [1..n -> Meanings] /\ Fixed(cols, new, n)
<1> DEFINE rest == RefineRest(cols, means)
<1>1. rest \in [1..n -> Meanings] /\ DOMAIN rest = 1..n
  BY DEF RefineRest, Primary, Meanings
<1>2. \A i \in 1..n : /\ rest[i] \in {"unknown", "byte_count"} => means[i] = "unknown"
                      /\ rest[i] = "port" => means[i] = "port"
                      /\ rest[i] = "ip_address" => means[i] = "ip_address"
                      /\ rest[i] \notin {"source_ip", "destination_ip"}
  BY DEF RefineRest, Primary
<1> HIDE DEF rest
<1>3. new = AssignIpRoles(rest)
  BY DEF rest
<1> DEFINE Nth(i) == Cardinality({j \in 1..i : rest[j] = "ip_address"})
<1>4. new = [i \in 1..n |-> IF rest[i] # "ip_address" THEN rest[i]
                            ELSE CASE Nth(i) = 1 -> "source_ip" [] Nth(i) = 2 -> "destination_ip" [] OTHER -> "ip_address"]
  BY <1>1, <1>3 DEF AssignIpRoles
<1> HIDE DEF Nth
<1>5. \A i \in 1..n : /\ rest[i] # "ip_address" => new[i] = rest[i]
                      /\ rest[i] = "ip_address" => new[i] \in {"source_ip", "destination_ip", "ip_address"}
  BY <1>4
<1>6. new \in [1..n -> Meanings]
  BY <1>1, <1>4, <1>5 DEF Meanings
<1>7. \A i \in 1..n : /\ new[i] \in {"unknown", "byte_count"} => means[i] = "unknown"
                      /\ new[i] \in {"port", "source_ip", "destination_ip", "ip_address"} => means[i] \in {"ip_address", "port"}
  BY <1>2, <1>5
<1>8. ASSUME NEW i \in 1..n, PortInt(cols[i]), new[i] \in {"unknown", "byte_count"}, NEW j \in {i - 1, i + 1} \cap 1..n
      PROVE  new[j] \notin {"port", "source_ip", "destination_ip", "ip_address"}
  <2>1. Unclaimed(cols, means, i)
    BY <1>7, <1>8 DEF Unclaimed
  <2>2. Clear(means, n, i - 1) /\ Clear(means, n, i + 1)
    BY <2>1 DEF SweptRight, Isolated
  <2>3. means[j] \notin {"ip_address", "port"}
    BY <2>2 DEF Clear
  <2> QED
    BY <1>7, <2>3
<1> QED
  BY <1>6, <1>8 DEF Fixed

\* ---- the document
\* A mapping of an unsure column is under review.
Flagged(cols, doc) ==
  \A p \in DOMAIN doc.fields : doc.fields[p] # 0 /\ ~cols[doc.fields[p]].sure => p \in doc.review
\* The columns C before the i-th and the two places s and t: the first two hold them.
Places(C, s, t, doc, i) ==
  LET D == DOMAIN doc.fields
      F == doc.fields
  IN /\ s \notin D /\ t \notin D => \A k \in C : k >= i
     /\ s \in D /\ t \notin D => F[s] \in C /\ F[s] < i /\ \A k \in C : k < i => k = F[s]
     /\ s \notin D /\ t \in D => F[t] \in C /\ F[t] < i /\ \A k \in C : k < i => k = F[t]
     /\ s \in D /\ t \in D => /\ F[s] \in C /\ F[s] < i /\ F[t] \in C /\ F[t] < i /\ F[s] # F[t]
                              /\ \A k \in C : k < i => k = F[s] \/ k = F[t] \/ (k > F[s] /\ k > F[t])

\* Add writes the paths it is given and no other.
LEMMA AddFacts ==
  ASSUME NEW doc, NEW paths, NEW cols, NEW i, NEW new, new = Add(doc, paths, cols, i)
  PROVE  /\ DOMAIN new.fields = DOMAIN doc.fields \cup paths
         /\ \A p \in paths : new.fields[p] = i
         /\ \A p \in DOMAIN doc.fields \ paths : new.fields[p] = doc.fields[p]
         /\ new.review = doc.review \cup (IF cols[i].sure THEN {} ELSE paths)
BY DEF Add

\* Add flags what is unsure.
LEMMA AddFlagged ==
  ASSUME NEW doc, NEW paths, NEW cols, NEW i, Flagged(cols, doc)
  PROVE  Flagged(cols, Add(doc, paths, cols, i))
<1> DEFINE new == Add(doc, paths, cols, i)
<1>1. /\ DOMAIN new.fields = DOMAIN doc.fields \cup paths
      /\ \A p \in paths : new.fields[p] = i
      /\ \A p \in DOMAIN doc.fields \ paths : new.fields[p] = doc.fields[p]
      /\ new.review = doc.review \cup (IF cols[i].sure THEN {} ELSE paths)
  BY AddFacts
<1> HIDE DEF new
<1>2. ASSUME NEW p \in DOMAIN new.fields, new.fields[p] # 0, ~cols[new.fields[p]].sure
      PROVE  p \in new.review
  <2>1. CASE p \in paths
    BY <1>1, <1>2, <2>1
  <2>2. CASE p \notin paths
    BY <1>1, <1>2, <2>2 DEF Flagged
  <2> QED
    BY <2>1, <2>2
<1> QED
  BY <1>2 DEF Flagged, new

\* Other paths leave the places alone.
LEMMA AddElsewhere ==
  ASSUME NEW doc, NEW paths, NEW cols, NEW i \in Nat, NEW C, C \subseteq Nat, NEW s, NEW t, s \notin paths, t \notin paths,
         i \notin C, Places(C, s, t, doc, i)
  PROVE  Places(C, s, t, Add(doc, paths, cols, i), i + 1)
<1> DEFINE new == Add(doc, paths, cols, i)
<1>1. /\ DOMAIN new.fields = DOMAIN doc.fields \cup paths
      /\ \A p \in DOMAIN doc.fields \ paths : new.fields[p] = doc.fields[p]
  BY AddFacts
<1> HIDE DEF new
<1>2. /\ s \in DOMAIN new.fields <=> s \in DOMAIN doc.fields
      /\ t \in DOMAIN new.fields <=> t \in DOMAIN doc.fields
      /\ s \in DOMAIN doc.fields => new.fields[s] = doc.fields[s]
      /\ t \in DOMAIN doc.fields => new.fields[t] = doc.fields[t]
  BY <1>1
<1>3. \A k \in C : k \in Nat /\ (k >= i => k >= i + 1) /\ (k < i + 1 => k < i) /\ (k < i => k < i + 1)
  OBVIOUS
<1> QED
  BY <1>2, <1>3 DEF Places, new

\* The two places are alike.
LEMMA PlacesSwap ==
  ASSUME NEW C, NEW s, NEW t, NEW doc, NEW i, Places(C, s, t, doc, i)
  PROVE  Places(C, t, s, doc, i)
BY DEF Places

\* The column takes the first place, or the second.
LEMMA AddFirst ==
  ASSUME NEW doc, NEW cols, NEW i \in Nat, NEW C, C \subseteq Nat, NEW s, NEW t, s # t, i \in C,
         s \notin DOMAIN doc.fields, Places(C, s, t, doc, i)
  PROVE  Places(C, s, t, Add(doc, {s}, cols, i), i + 1)
<1> DEFINE new == Add(doc, {s}, cols, i)
<1>1. /\ DOMAIN new.fields = DOMAIN doc.fields \cup {s} /\ new.fields[s] = i
      /\ \A q \in DOMAIN doc.fields \ {s} : new.fields[q] = doc.fields[q]
  BY AddFacts
<1> HIDE DEF new
<1>2. \A k \in C : k \in Nat /\ (k < i + 1 => k < i \/ k = i) /\ (k < i => k < i + 1 /\ k # i) /\ (k >= i => ~(k < i))
  OBVIOUS
<1>3. i < i + 1
  OBVIOUS
<1>4. CASE t \notin DOMAIN doc.fields
  <2>1. \A k \in C : k >= i
    BY <1>4 DEF Places
  <2>2. s \in DOMAIN new.fields /\ t \notin DOMAIN new.fields /\ new.fields[s] = i
    BY <1>1, <1>4
  <2>3. \A k \in C : k < i + 1 => k = i
    BY <1>2, <2>1
  <2>4. Places(C, s, t, new, i + 1)
    BY <1>3, <2>2, <2>3 DEF Places
  <2> QED
    BY <2>4 DEF new
<1>5. CASE t \in DOMAIN doc.fields
  <2> DEFINE u == doc.fields[t]
  <2>1. u \in C /\ u < i /\ \A k \in C : k < i => k = u
    BY <1>5 DEF Places
  <2>2. s \in DOMAIN new.fields /\ t \in DOMAIN new.fields /\ new.fields[s] = i /\ new.fields[t] = u
    BY <1>1, <1>5
  <2> HIDE DEF u
  <2>3. u # i /\ u < i + 1 /\ \A k \in C : k < i + 1 => k = i \/ k = u
    BY <1>2, <2>1
  <2>4. Places(C, s, t, new, i + 1)
    BY <1>3, <2>1, <2>2, <2>3 DEF Places
  <2> QED
    BY <2>4 DEF new
<1> QED
  BY <1>4, <1>5

\* The same of the second place.
LEMMA AddSecond ==
  ASSUME NEW doc, NEW cols, NEW i \in Nat, NEW C, C \subseteq Nat, NEW s, NEW t, s # t, i \in C,
         t \notin DOMAIN doc.fields, Places(C, s, t, doc, i)
  PROVE  Places(C, s, t, Add(doc, {t}, cols, i), i + 1)
<1>1. Places(C, t, s, doc, i)
  BY PlacesSwap
<1>2. Places(C, t, s, Add(doc, {t}, cols, i), i + 1)
  BY <1>1, AddFirst
<1> QED
  BY <1>2, PlacesSwap

\* A column of another meaning, or one that finds both places taken, changes nothing.
LEMMA PassedBy ==
  ASSUME NEW doc, NEW i \in Nat, NEW C, C \subseteq Nat, NEW s, NEW t, Places(C, s, t, doc, i),
         i \notin C \/ (s \in DOMAIN doc.fields /\ t \in DOMAIN doc.fields)
  PROVE  Places(C, s, t, doc, i + 1)
<1>1. \A k \in C : k \in Nat /\ (k >= i => k = i \/ k >= i + 1) /\ (k < i + 1 => k < i \/ k = i) /\ (k < i => k < i + 1)
  OBVIOUS
<1>2. \A k \in C : k < i => i > k
  BY <1>1
<1> QED
  BY <1>1, <1>2 DEF Places

\* The places of each meaning that has two.
Place1(m) == IF m = "port" THEN "src_endpoint.port" ELSE IF m = "byte_count" THEN "traffic.bytes_out" ELSE "src_endpoint.interface_name"
Place2(m) == IF m = "port" THEN "dst_endpoint.port" ELSE IF m = "byte_count" THEN "traffic.bytes_in" ELSE "dst_endpoint.interface_name"
Of(means, n, m) == {k \in 1..n : means[k] = m}
AllPlaces(means, n, doc, i) == \A m \in Slotted : Places(Of(means, n, m), Place1(m), Place2(m), doc, i)

\* The places of different meanings, and the other paths, are different.
LEMMA PlaceFacts ==
  /\ \A m \in Slotted : Slots(m) = <<Place1(m), Place2(m)>> /\ Place1(m) # Place2(m)
  /\ \A m, o \in Slotted : m # o => {Place1(m), Place2(m)} \cap {Place1(o), Place2(o)} = {}
  /\ \A m \in Slotted : {Place1(m), Place2(m)} \cap {"time", "protocol_num", "protocol_name", "action_id", "action",
                                                     "disposition", "src_endpoint.ip", "dst_endpoint.ip"} = {}
<1>1. \A m \in Slotted : Slots(m) = <<Place1(m), Place2(m)>> /\ Place1(m) # Place2(m)
  BY DEF Slotted, Slots, Place1, Place2
<1>2. \A m, o \in Slotted : m # o => {Place1(m), Place2(m)} \cap {Place1(o), Place2(o)} = {}
  BY DEF Slotted, Place1, Place2
<1>3. \A m \in Slotted : {Place1(m), Place2(m)} \cap {"time", "protocol_num", "protocol_name", "action_id", "action",
                                                     "disposition", "src_endpoint.ip", "dst_endpoint.ip"} = {}
  BY DEF Slotted, Place1, Place2
<1> QED
  BY <1>1, <1>2, <1>3

\* A column of a meaning that has places takes a free one, and leaves those of the other meanings.
LEMMA SlottedKeeps ==
  ASSUME NEW cols, NEW n \in Nat, NEW means \in [1..n -> Meanings], NEW i \in 1..n, NEW m \in Slotted, means[i] = m,
         NEW doc, Flagged(cols, doc), AllPlaces(means, n, doc, i), NEW hint
  PROVE  /\ Flagged(cols, AssignSlotted(doc, Slots(m), hint, cols, i))
         /\ AllPlaces(means, n, AssignSlotted(doc, Slots(m), hint, cols, i), i + 1)
<1> DEFINE s == Place1(m)
           t == Place2(m)
           new == AssignSlotted(doc, Slots(m), hint, cols, i)
<1>1. s # t /\ Slots(m)[1] = s /\ Slots(m)[2] = t
  BY PlaceFacts
<1>2. \/ new = doc /\ s \in DOMAIN doc.fields /\ t \in DOMAIN doc.fields
      \/ new = Add(doc, {s}, cols, i) /\ s \notin DOMAIN doc.fields
      \/ new = Add(doc, {t}, cols, i) /\ t \notin DOMAIN doc.fields
  BY <1>1 DEF AssignSlotted
<1>3. \A o \in Slotted : Of(means, n, o) \subseteq Nat /\ (i \in Of(means, n, o) <=> o = m) /\ Places(Of(means, n, o), Place1(o), Place2(o), doc, i)
  BY DEF Of, AllPlaces
<1>4. i \in Nat
  OBVIOUS
<1> HIDE DEF new, s, t
<1>5. Flagged(cols, new)
  BY <1>2, AddFlagged
<1>6. ASSUME NEW o \in Slotted, o # m
      PROVE  Places(Of(means, n, o), Place1(o), Place2(o), new, i + 1)
  <2>1. Place1(o) \notin {s, t} /\ Place2(o) \notin {s, t}
    BY <1>6, PlaceFacts DEF s, t
  <2>2. i \notin Of(means, n, o) /\ Of(means, n, o) \subseteq Nat /\ Places(Of(means, n, o), Place1(o), Place2(o), doc, i)
    BY <1>3, <1>6
  <2>3. CASE new = doc
    BY <1>4, <2>2, <2>3, PassedBy
  <2>4. ASSUME NEW p \in {s, t}, new = Add(doc, {p}, cols, i)
        PROVE  Places(Of(means, n, o), Place1(o), Place2(o), new, i + 1)
    <3>1. Place1(o) \notin {p} /\ Place2(o) \notin {p}
      BY <2>1, <2>4
    <3> QED
      BY <1>4, <2>2, <2>4, <3>1, AddElsewhere
  <2> QED
    BY <1>2, <2>3, <2>4
<1>7. Places(Of(means, n, m), s, t, new, i + 1)
  <2>1. i \in Of(means, n, m) /\ Of(means, n, m) \subseteq Nat /\ Places(Of(means, n, m), s, t, doc, i)
    BY <1>3 DEF s, t
  <2>2. CASE new = doc /\ s \in DOMAIN doc.fields /\ t \in DOMAIN doc.fields
    BY <1>4, <2>1, <2>2, PassedBy
  <2>3. CASE new = Add(doc, {s}, cols, i) /\ s \notin DOMAIN doc.fields
    BY <1>1, <1>4, <2>1, <2>3, AddFirst
  <2>4. CASE new = Add(doc, {t}, cols, i) /\ t \notin DOMAIN doc.fields
    BY <1>1, <1>4, <2>1, <2>4, AddSecond
  <2> QED
    BY <1>2, <2>2, <2>3, <2>4
<1>8. AllPlaces(means, n, new, i + 1)
  BY <1>6, <1>7 DEF AllPlaces, s, t
<1> QED
  BY <1>5, <1>8 DEF new

\* Any other column leaves the places alone.
LEMMA OtherKeeps ==
  ASSUME NEW cols, NEW n \in Nat, NEW means \in [1..n -> Meanings], NEW i \in 1..n, means[i] \notin Slotted,
         NEW doc, Flagged(cols, doc), AllPlaces(means, n, doc, i),
         NEW paths, paths \subseteq {"time", "protocol_num", "protocol_name", "action_id", "action", "disposition"},
         NEW new, new = doc \/ new = Add(doc, paths, cols, i)
  PROVE  Flagged(cols, new) /\ AllPlaces(means, n, new, i + 1)
<1>1. Flagged(cols, new)
  BY AddFlagged
<1>2. i \in Nat
  OBVIOUS
<1>3. ASSUME NEW o \in Slotted
      PROVE  Places(Of(means, n, o), Place1(o), Place2(o), new, i + 1)
  <2>1. Place1(o) \notin paths /\ Place2(o) \notin paths
    BY PlaceFacts
  <2>2. i \notin Of(means, n, o) /\ Of(means, n, o) \subseteq Nat /\ Places(Of(means, n, o), Place1(o), Place2(o), doc, i)
    BY <1>3 DEF Of, AllPlaces
  <2>3. CASE new = doc
    BY <1>2, <2>2, <2>3, PassedBy
  <2>4. CASE new = Add(doc, paths, cols, i)
    BY <1>2, <2>1, <2>2, <2>4, AddElsewhere
  <2> QED
    BY <2>3, <2>4
<1> QED
  BY <1>1, <1>3 DEF AllPlaces

\* A column is assigned: what is unsure is flagged, and the places go to the first two.
LEMMA AssignOneKeeps ==
  ASSUME NEW cols, NEW n \in Nat, NEW means \in [1..n -> Meanings], NEW i \in 1..n, NEW style,
         NEW doc, Flagged(cols, doc), AllPlaces(means, n, doc, i)
  PROVE  /\ Flagged(cols, AssignOne(doc, style, cols, means, i))
         /\ AllPlaces(means, n, AssignOne(doc, style, cols, means, i), i + 1)
<1> DEFINE new == AssignOne(doc, style, cols, means, i)
<1>1. CASE means[i] \in Slotted
  <2> DEFINE hint == IF means[i] = "port" THEN NearestIpRole(means, i) ELSE DirectionHint(style, cols[i])
  <2>1. new = AssignSlotted(doc, Slots(means[i]), hint, cols, i)
    BY <1>1 DEF AssignOne, Slotted
  <2> HIDE DEF hint, new
  <2>2. Flagged(cols, new) /\ AllPlaces(means, n, new, i + 1)
    BY <1>1, <2>1, SlottedKeeps
  <2> QED
    BY <2>2 DEF new
<1>2. CASE means[i] \notin Slotted
  <2>1. PICK paths \in SUBSET {"time", "protocol_num", "protocol_name", "action_id", "action", "disposition"} :
          new = doc \/ new = Add(doc, paths, cols, i)
    <3>1. CASE means[i] = "timestamp"
      BY <1>2, <3>1 DEF AssignOne, Slotted
    <3>2. CASE means[i] = "protocol"
      BY <1>2, <3>2 DEF AssignOne, Slotted
    <3>3. CASE means[i] = "action"
      BY <1>2, <3>3 DEF AssignOne, Slotted
    <3>4. CASE means[i] \notin {"timestamp", "protocol", "action"}
      BY <1>2, <3>4 DEF AssignOne
    <3> QED
      BY <3>1, <3>2, <3>3, <3>4
  <2> HIDE DEF new
  <2>2. Flagged(cols, new) /\ AllPlaces(means, n, new, i + 1)
    BY <1>2, <2>1, OtherKeeps
  <2> QED
    BY <2>2 DEF new
<1> QED
  BY <1>1, <1>2

\* The addresses take no place and are flagged when unsure.
LEMMA IpDocFacts ==
  ASSUME NEW cols, NEW n \in Nat, NEW means \in [1..n -> Meanings]
  PROVE  Flagged(cols, IpDoc(cols, means)) /\ AllPlaces(means, n, IpDoc(cols, means), 1)
<1> DEFINE doc == IpDoc(cols, means)
           I == IpColumns(means)
<1>1. DOMAIN doc.fields = {IpPath(means[i]) : i \in I}
  BY DEF IpDoc
<1>2. ASSUME NEW p \in DOMAIN doc.fields
      PROVE  doc.fields[p] \in I /\ IpPath(means[doc.fields[p]]) = p
  <2>1. doc.fields[p] = CHOOSE i \in I : IpPath(means[i]) = p
    BY <1>1, <1>2 DEF IpDoc
  <2>2. \E i \in I : IpPath(means[i]) = p
    BY <1>1, <1>2
  <2> HIDE DEF doc, I
  <2> QED
    BY <2>1, <2>2
<1>3. doc.review = {IpPath(means[i]) : i \in {j \in I : ~cols[j].sure}}
  BY DEF IpDoc
<1>4. \A p \in DOMAIN doc.fields : p \in {"src_endpoint.ip", "dst_endpoint.ip"}
  BY <1>1 DEF IpPath
<1> HIDE DEF doc, I
<1>5. Flagged(cols, doc)
  BY <1>2, <1>3 DEF Flagged
<1>6. ASSUME NEW m \in Slotted
      PROVE  Places(Of(means, n, m), Place1(m), Place2(m), doc, 1)
  <2>1. Place1(m) \notin DOMAIN doc.fields /\ Place2(m) \notin DOMAIN doc.fields
    BY <1>4, PlaceFacts
  <2>2. \A k \in Of(means, n, m) : k >= 1
    BY DEF Of
  <2> QED
    BY <2>1, <2>2 DEF Places
<1> QED
  BY <1>5, <1>6 DEF AllPlaces, doc

\* The time of the envelope is no column.
LEMMA SyslogTimeKeeps ==
  ASSUME NEW cols, NEW n, NEW means, NEW doc, NEW format, Flagged(cols, doc), AllPlaces(means, n, doc, n + 1)
  PROVE  Flagged(cols, SyslogTime(doc, format)) /\ AllPlaces(means, n, SyslogTime(doc, format), n + 1)
<1> DEFINE new == SyslogTime(doc, format)
<1>1. CASE "time" \notin DOMAIN doc.fields /\ format[1] = "syslog"
  <2>1. new = [fields |-> [p \in DOMAIN doc.fields \cup {"time"} |-> IF p = "time" THEN 0 ELSE doc.fields[p]], review |-> doc.review]
    BY <1>1 DEF SyslogTime
  <2>2. new.fields = [p \in DOMAIN doc.fields \cup {"time"} |-> IF p = "time" THEN 0 ELSE doc.fields[p]] /\ new.review = doc.review
    BY <2>1
  <2>3. /\ DOMAIN new.fields = DOMAIN doc.fields \cup {"time"} /\ new.fields["time"] = 0
        /\ \A p \in DOMAIN doc.fields : new.fields[p] = doc.fields[p]
    BY <1>1, <2>2
  <2> HIDE DEF new
  <2>4. Flagged(cols, new)
    BY <2>2, <2>3 DEF Flagged
  <2>5. ASSUME NEW m \in Slotted
        PROVE  Places(Of(means, n, m), Place1(m), Place2(m), new, n + 1)
    <3>1. Place1(m) # "time" /\ Place2(m) # "time"
      BY PlaceFacts
    <3>2. Places(Of(means, n, m), Place1(m), Place2(m), doc, n + 1)
      BY DEF AllPlaces
    <3>3. /\ Place1(m) \in DOMAIN new.fields <=> Place1(m) \in DOMAIN doc.fields
          /\ Place2(m) \in DOMAIN new.fields <=> Place2(m) \in DOMAIN doc.fields
          /\ Place1(m) \in DOMAIN doc.fields => new.fields[Place1(m)] = doc.fields[Place1(m)]
          /\ Place2(m) \in DOMAIN doc.fields => new.fields[Place2(m)] = doc.fields[Place2(m)]
      BY <2>3, <3>1
    <3> QED
      BY <3>2, <3>3 DEF Places
  <2> QED
    BY <2>4, <2>5 DEF AllPlaces, new
<1>2. CASE ~("time" \notin DOMAIN doc.fields /\ format[1] = "syslog")
  <2>1. new = doc
    BY <1>2 DEF SyslogTime
  <2> QED
    BY <2>1
<1> QED
  BY <1>1, <1>2

Before(C, i) == {j \in C : j < i}
Early(C) == {i \in C : Cardinality(Before(C, i)) < 2}
EarlyAre(C, a, b) == Early(C) = {a, b}
\* How many columns come before one.
LEMMA BeforeFacts ==
  ASSUME NEW n \in Nat, NEW C, C \subseteq 1..n, NEW i \in C
  PROVE  /\ Before(C, i) = {} => Cardinality(Before(C, i)) < 2
         /\ \A x : Before(C, i) = {x} => Cardinality(Before(C, i)) < 2
         /\ \A x, y : x \in Before(C, i) /\ y \in Before(C, i) /\ x # y => ~(Cardinality(Before(C, i)) < 2)
<1> DEFINE B == Before(C, i)
<1>1. IsFiniteSet(B) /\ Cardinality(B) \in Nat
  <2>1. IsFiniteSet(1..n)
    BY FS_Interval
  <2>2. B \subseteq 1..n
    BY DEF Before
  <2> HIDE DEF B
  <2> QED
    BY <2>1, <2>2, FS_Subset, FS_CardinalityType
<1> HIDE DEF B
<1>2. B = {} => Cardinality(B) < 2
  BY FS_EmptySet
<1>3. ASSUME NEW x, B = {x} PROVE Cardinality(B) < 2
  BY <1>3, FS_Singleton
<1>4. ASSUME NEW x \in B, NEW y \in B, x # y PROVE ~(Cardinality(B) < 2)
  <2>1. IsFiniteSet({x}) /\ Cardinality({x}) = 1 /\ y \notin {x}
    BY <1>4, FS_Singleton
  <2>2. IsFiniteSet({x} \cup {y}) /\ Cardinality({x} \cup {y}) = 2
    BY <2>1, FS_AddElement
  <2>3. ({x} \cup {y}) \subseteq B
    BY <1>4
  <2>4. Cardinality({x} \cup {y}) <= Cardinality(B)
    BY <1>1, <2>3, FS_Subset
  <2> QED
    BY <1>1, <2>2, <2>4
<1> QED
  BY <1>2, <1>3, <1>4 DEF B

\* Two columns before all others are the early ones.
LEMMA EarlyPair ==
  ASSUME NEW n \in Nat, NEW C, C \subseteq 1..n, NEW a \in C, NEW b \in C, a < b,
         \A k \in C : k = a \/ k = b \/ (k > a /\ k > b)
  PROVE  EarlyAre(C, a, b)
<1>1. \A k \in C : k \in Nat
  OBVIOUS
<1>2. Before(C, a) = {} /\ Before(C, b) = {a}
  <2>1. \A k \in C : ~(k < a) /\ (k < b <=> k = a)
    BY <1>1
  <2> QED
    BY <2>1 DEF Before
<1>3. \A k \in C : k # a /\ k # b => a \in Before(C, k) /\ b \in Before(C, k)
  BY <1>1 DEF Before
<1>4. a # b
  BY <1>1
<1>5. a \in Early(C) /\ b \in Early(C)
  BY <1>2, BeforeFacts DEF Early
<1>6. \A k \in Early(C) : k = a \/ k = b
  <2> SUFFICES ASSUME NEW k \in C, k # a, k # b PROVE ~(Cardinality(Before(C, k)) < 2)
    BY DEF Early
  <2>1. a \in Before(C, k) /\ b \in Before(C, k)
    BY <1>3
  <2> QED
    BY <1>4, <2>1, BeforeFacts
<1> QED
  BY <1>5, <1>6 DEF EarlyAre

\* Of the columns C, those with fewer than two before them: the ones in the places.
LEMMA FirstTwo ==
  ASSUME NEW n \in Nat, NEW C, C \subseteq 1..n, NEW s, NEW t, NEW doc, Places(C, s, t, doc, n + 1)
  PROVE  {doc.fields[p] : p \in DOMAIN doc.fields \cap {s, t}} = Early(C)
<1> DEFINE D == DOMAIN doc.fields
           P == {doc.fields[p] : p \in D \cap {s, t}}
<1>1. \A k \in C : k \in Nat /\ k < n + 1 /\ ~(k >= n + 1)
  OBVIOUS
<1>2. CASE s \notin D /\ t \notin D
  <2>1. C = {}
    BY <1>1, <1>2 DEF Places
  <2> QED
    BY <1>2, <2>1 DEF Early
<1>3. ASSUME NEW p \in D, P = {doc.fields[p]}, doc.fields[p] \in C, \A k \in C : k = doc.fields[p]
      PROVE  P = Early(C)
  <2> DEFINE a == doc.fields[p]
  <2>1. Before(C, a) = {}
    <3>1. \A k \in C : k \in Nat /\ k = a
      BY <1>1, <1>3
    <3> HIDE DEF a
    <3>2. \A k \in C : ~(k < a)
      BY <3>1
    <3> QED
      BY <3>2 DEF Before
  <2>2. a \in C /\ C = {a} /\ P = {a}
    BY <1>3
  <2> HIDE DEF a, P
  <2>3. Cardinality(Before(C, a)) < 2
    BY <2>1, <2>2, BeforeFacts
  <2> QED
    BY <2>2, <2>3 DEF Early
<1>4. CASE s \in D /\ t \notin D
  <2>1. doc.fields[s] \in C /\ \A k \in C : k = doc.fields[s]
    BY <1>1, <1>4 DEF Places
  <2>2. P = {doc.fields[s]}
    BY <1>4
  <2> QED
    BY <1>3, <1>4, <2>1, <2>2
<1>5. CASE s \notin D /\ t \in D
  <2>1. doc.fields[t] \in C /\ \A k \in C : k = doc.fields[t]
    BY <1>1, <1>5 DEF Places
  <2>2. P = {doc.fields[t]}
    BY <1>5
  <2> QED
    BY <1>3, <1>5, <2>1, <2>2
<1>6. CASE s \in D /\ t \in D
  <2> DEFINE a == doc.fields[s]
             b == doc.fields[t]
  <2>1. /\ a \in C /\ b \in C /\ a # b
        /\ \A k \in C : k = a \/ k = b \/ (k > a /\ k > b)
    BY <1>1, <1>6 DEF Places
  <2>2. P = {a, b}
    BY <1>6
  <2> HIDE DEF a, b, P
  <2>3. a < b \/ b < a
    BY <1>1, <2>1
  <2>4. Early(C) = {a, b}
    <3>1. CASE a < b
      <4>1. EarlyAre(C, a, b)
        BY <2>1, <3>1, EarlyPair
      <4> QED
        BY <4>1 DEF EarlyAre
    <3>2. CASE b < a
      <4>1. \A k \in C : k = b \/ k = a \/ (k > b /\ k > a)
        BY <2>1
      <4>2. EarlyAre(C, b, a)
        BY <2>1, <3>2, <4>1, EarlyPair
      <4> QED
        BY <4>2 DEF EarlyAre
    <3> QED
      BY <2>3, <3>1, <3>2
  <2> QED
    BY <2>2, <2>4 DEF P
<1> QED
  BY <1>2, <1>4, <1>5, <1>6

\* A set has a subset of the size of at most two that it can have.
LEMMA SmallSubset ==
  ASSUME NEW S, IsFiniteSet(S), NEW most \in {1, 2}
  PROVE  \E s \in SUBSET S : Cardinality(s) = (IF Cardinality(S) < most THEN Cardinality(S) ELSE most)
<1>1. Cardinality(S) \in Nat
  BY FS_CardinalityType
<1>2. CASE Cardinality(S) < most
  <2>1. S \in SUBSET S
    OBVIOUS
  <2> QED
    BY <1>2, <2>1
<1>3. CASE ~(Cardinality(S) < most)
  <2>1. S # {}
    BY <1>3, FS_EmptySet
  <2>2. PICK x \in S : TRUE
    BY <2>1
  <2>3. IsFiniteSet({x}) /\ Cardinality({x}) = 1 /\ {x} \in SUBSET S
    BY FS_Singleton
  <2>4. CASE most = 1
    BY <1>3, <2>3, <2>4
  <2>5. CASE most = 2
    <3>1. S # {x}
      BY <1>3, <2>3, <2>5
    <3>2. PICK y \in S : y # x
      BY <3>1
    <3>3. Cardinality({x} \cup {y}) = 2
      BY <2>3, <3>2, FS_AddElement
    <3>4. {x} \cup {y} \in SUBSET S
      BY <2>3, <3>2
    <3> QED
      BY <1>3, <2>5, <3>3, <3>4
  <2> QED
    BY <2>4, <2>5
<1> QED
  BY <1>2, <1>3

\* The detect rule finds every line it was built from, unless it counts more delimiters.
LEMMA DetectFacts ==
  ASSUME NEW s \in SampleSets, NEW i \in Kept(s), ~Detects(Detect(s), s[i])
  PROVE  Detect(s).width # 0 /\ s[i].delimiters + 1 > s[i].shape
<1> DEFINE style == Style(MajorityFormat(s))
           over == IF style = "keyed" THEN DOMAIN s ELSE Kept(s)
           shared == {w \in UNION {s[j].has : j \in over} : \A j \in over : w \in s[j].has}
           most == IF style = "delimited" THEN 1 ELSE 2
           rule == Detect(s)
<1>1. /\ rule.literals = CHOOSE x \in SUBSET shared :
                           Cardinality(x) = (IF Cardinality(shared) < most THEN Cardinality(shared) ELSE most)
      /\ rule.width = IF style = "delimited" THEN CommonShape(s) ELSE 0
  BY DEF Detect
<1>2. i \in DOMAIN s /\ i \in over /\ (style # "keyed" => s[i].shape = CommonShape(s))
  BY DEF Kept
<1>3. most \in {1, 2}
  OBVIOUS
<1>4. shared \subseteq s[i].has
  BY <1>2
<1>5. IsFiniteSet(s[i].has) /\ s[i].delimiters \in Nat /\ s[i].shape \in Nat /\ (style = "delimited" => s[i].delimiters + 1 >= s[i].shape)
  BY <1>2, SgAssumption
<1> HIDE DEF shared, most, rule, over
<1>6. IsFiniteSet(shared)
  BY <1>4, <1>5, FS_Subset
<1>7. \E x \in SUBSET shared : Cardinality(x) = (IF Cardinality(shared) < most THEN Cardinality(shared) ELSE most)
  BY <1>3, <1>6, SmallSubset
<1>8. rule.literals \in SUBSET shared
  BY <1>1, <1>7
<1>9. rule.width # 0 /\ s[i].delimiters + 1 # rule.width
  <2>1. ~Detects(rule, s[i])
    BY DEF rule
  <2> QED
    BY <1>4, <1>8, <2>1 DEF Detects
<1>10. style = "delimited"
  BY <1>1, <1>9
<1>11. rule.width = s[i].shape
  BY <1>1, <1>2, <1>10
<1> QED
  BY <1>5, <1>9, <1>10, <1>11 DEF rule

\* A rate rounded down that reaches the minimum means the share does.
LEMMA RateFacts ==
  ASSUME NEW c \in Nat, NEW l \in Nat \ {0}, NEW r \in Nat, (100 * c) \div l >= r
  PROVE  100 * c >= r * l
<1> DEFINE t == 100 * c
<1>1. t \in Nat
  OBVIOUS
<1>2. t \div l >= r
  OBVIOUS
<1> HIDE DEF t
<1>3. t = l * (t \div l) + (t % l) /\ 0 <= t % l /\ t \div l \in Int /\ t % l \in Int
  BY <1>1
<1> DEFINE q == t \div l
<1>4. q \in Int /\ q >= r /\ l * q <= t
  BY <1>1, <1>2, <1>3
<1> HIDE DEF q
<1>5. l * q >= l * r
  BY <1>4
<1>6. l * r = r * l /\ l * r \in Int /\ l * q \in Int
  BY <1>4
<1>7. t >= r * l
  BY <1>1, <1>4, <1>5, <1>6
<1> QED
  BY <1>7 DEF t

\* ---- the invariant
DraftWidth == Len(draft.columns)
DraftPhases == {"ports", "portsBack", "refine", "assign"}
\* A complete draft is sound.
Sound(d, n) == /\ IsDraft(d, n) /\ d.detect = Detect(samples) /\ Fixed(d.columns, d.means, n)
               /\ Flagged(d.columns, d.doc) /\ AllPlaces(d.means, n, d.doc, n + 1)
Building ==
  /\ sgAt \in {"draft"} \cup DraftPhases => ~draft.ok
  /\ sgAt \in DraftPhases => IsDraft(draft, DraftWidth) /\ draft.detect = Detect(samples) /\ Len(samples) \in Nat \ {0}
  /\ sgAt \in {"ports", "portsBack", "refine"} => draft.means \in [1..DraftWidth -> Primary]
  /\ sgAt \in {"ports", "portsBack", "assign"} => cursor \in 1..DraftWidth
  /\ sgAt = "ports" => SweptLeft(draft.columns, draft.means, DraftWidth, cursor)
  /\ sgAt = "portsBack" => SweptRight(draft.columns, draft.means, DraftWidth, cursor)
  /\ sgAt = "refine" => SweptRight(draft.columns, draft.means, DraftWidth, 0)
  /\ sgAt = "assign" => /\ Fixed(draft.columns, draft.means, DraftWidth) /\ Flagged(draft.columns, draft.doc)
                        /\ AllPlaces(draft.means, DraftWidth, draft.doc, cursor)
Scored ==
  /\ sgAt \in {"score", "write", "written"} => Len(samples) \in Nat \ {0}
  /\ sgAt \in {"write", "written"} => score = ParseRate
  /\ written => sgAt = "written" /\ (force \/ ~(score < MinRate))
SgInv == /\ samples \in SampleSets /\ columns \in ColumnSets
         /\ sgAt \in {"draft", "score", "write", "written", "refused"} \cup DraftPhases
         /\ Building /\ Scored /\ (draft.ok => Sound(draft, DraftWidth))

\* What an update of the draft leaves.
SameBut(d, e, n) == IsDraft(e, n) /\ e.columns = d.columns /\ e.detect = d.detect

\* The columns of a draft are a sequence.
LEMMA UsableFacts ==
  ASSUME NEW cols \in ColumnSets, NEW style
  PROVE  \E n \in Nat : DOMAIN Usable(style, cols) = 1..n /\ Len(Usable(style, cols)) = n
<1> DEFINE C == {i \in DOMAIN cols : cols[i].common}
           f == [k \in 1..Cardinality(C) |-> cols[CHOOSE i \in C : Cardinality({j \in C : j <= i}) = k]]
<1>1. cols \in Seq(Column)
  BY SgAssumption
<1>2. CASE style # "keyed"
  <2>1. Usable(style, cols) = cols
    BY <1>2 DEF Usable
  <2>2. DOMAIN cols = 1..Len(cols) /\ Len(cols) \in Nat
    BY <1>1
  <2> QED
    BY <2>1, <2>2
<1>3. CASE style = "keyed"
  <2>1. Usable(style, cols) = f
    BY <1>3 DEF Usable
  <2>2. Cardinality(C) \in Nat
    <3>1. C \subseteq 1..Len(cols) /\ Len(cols) \in Nat
      BY <1>1
    <3>2. IsFiniteSet(1..Len(cols))
      BY <3>1, FS_Interval
    <3> HIDE DEF C
    <3> QED
      BY <3>1, <3>2, FS_Subset, FS_CardinalityType
  <2>3. DOMAIN f = 1..Cardinality(C)
    OBVIOUS
  <2>4. Len(f) = Cardinality(C)
    <3> DEFINE m == Cardinality(C)
               g(k) == cols[CHOOSE i \in C : Cardinality({j \in C : j <= i}) = k]
    <3>1. f = [k \in 1..m |-> g(k)] /\ m \in Nat
      BY <2>2
    <3> HIDE DEF m, g, f, C
    <3>2. Len([k \in 1..m |-> g(k)]) = m
      BY <3>1
    <3> QED
      BY <3>1, <3>2 DEF m
  <2> HIDE DEF f, C
  <2> QED
    BY <2>1, <2>2, <2>3, <2>4
<1> QED
  BY <1>2, <1>3

\* ---- the steps
SgOthers == <<samples, columns, force, score, written>>
\* A step while the draft is built: the sample, the score and what is written stay.
LEMMA BuildStep ==
  ASSUME SgInv, sgAt \in {"draft"} \cup DraftPhases, UNCHANGED SgOthers, sgAt' \in DraftPhases \cup {"score", "refused"},
         Building', Len(samples) \in Nat \ {0} \/ sgAt' = "refused", draft.ok' => Sound(draft, DraftWidth)'
  PROVE  SgInv'
<1>1. samples' \in SampleSets /\ columns' \in ColumnSets
  BY DEF SgInv, SgOthers
<1>2. ~written' /\ samples' = samples
  BY DEF SgInv, Scored, SgOthers, DraftPhases
<1>3. sgAt' \notin {"write", "written"}
  BY DEF DraftPhases
<1>4. sgAt' = "score" => Len(samples') \in Nat \ {0}
  BY <1>2
<1>5. Scored'
  BY <1>2, <1>3, <1>4 DEF Scored
<1> QED
  BY <1>1, <1>5 DEF SgInv, DraftPhases

\* The first pass knows six meanings.
LEMMA PrimaryIs ==
  ASSUME NEW c PROVE ClassifyPrimary(c) \in Primary
BY DEF ClassifyPrimary, Primary

\* The draft begins: every column has a first meaning and nothing is swept.
LEMMA DraftKeeps ==
  ASSUME SgInv, Draft
  PROVE  SgInv'
<1> DEFINE used == Usable(Style(MajorityFormat(samples)), columns)
<1>1. UNCHANGED SgOthers /\ sgAt = "draft" /\ ~draft.ok
  BY DEF Draft, SgOthers, SgInv, Building
<1>2. CASE sgAt' = "refused"
  <2>1. draft' = draft
    BY <1>2 DEF Draft
  <2>2. Building'
    BY <1>2 DEF Building, DraftPhases
  <2> QED
    BY <1>1, <1>2, <2>1, <2>2, BuildStep
<1>3. CASE sgAt' # "refused"
  <2>1. /\ Len(samples) >= MinSamples /\ Len(used) > 0
        /\ draft' = [ok |-> FALSE, columns |-> used, means |-> [i \in DOMAIN used |-> ClassifyPrimary(used[i])],
                     detect |-> Detect(samples), doc |-> NoDoc]
        /\ sgAt' = "ports" /\ cursor' = 1
    BY <1>3 DEF Draft
  <2>2. PICK n \in Nat : DOMAIN used = 1..n /\ Len(used) = n
    BY UsableFacts DEF SgInv
  <2> HIDE DEF used
  <2>3. draft'.means \in [1..n -> Primary]
    BY <2>1, <2>2, PrimaryIs
  <2>4. draft'.means \in [1..n -> Meanings]
    BY <2>3 DEF Meanings
  <2>5. IsDraft(draft', n) /\ ~draft'.ok /\ draft'.columns = used
    BY <2>1, <2>2, <2>4 DEF IsDraft
  <2>6. Len(samples) \in Nat \ {0}
    <3>1. samples \in Seq(Range(samples)) /\ MinSamples \in Nat \ {0}
      BY SgAssumption DEF SgInv
    <3>2. Len(samples) \in Nat
      BY <3>1
    <3> QED
      BY <2>1, <3>1, <3>2
  <2>7. samples' = samples
    BY <1>1 DEF SgOthers
  <2>8. SweptLeft(draft'.columns, draft'.means, n, 1)
    BY DEF SweptLeft
  <2>9. DraftWidth' = n /\ n \in Nat \ {0}
    BY <2>1, <2>2, <2>5 DEF DraftWidth
  <2>10. draft'.detect = Detect(samples')
    BY <2>1, <2>7
  <2>11. Building'
    BY <2>1, <2>3, <2>5, <2>6, <2>7, <2>8, <2>9, <2>10 DEF Building
  <2> QED
    BY <1>1, <2>1, <2>5, <2>6, <2>11, BuildStep DEF DraftPhases
<1> QED
  BY <1>2, <1>3

\* Both sweeps try one column.
LEMMA SweepFacts ==
  ASSUME SgInv, sgAt \in {"ports", "portsBack"}, samples' = samples,
         draft' = [draft EXCEPT !.means = TryClaim(draft.columns, draft.means, cursor)]
  PROVE  /\ SameBut(draft, draft', DraftWidth) /\ ~draft'.ok /\ DraftWidth' = DraftWidth /\ DraftWidth \in Nat \ {0} /\ cursor \in 1..DraftWidth
         /\ draft'.columns = draft.columns /\ DOMAIN draft.columns = 1..DraftWidth
         /\ draft.means \in [1..DraftWidth -> Primary] /\ draft'.means \in [1..DraftWidth -> Primary]
         /\ Claimed(draft.columns, draft.means, DraftWidth, cursor, draft'.means)
         /\ draft'.detect = Detect(samples') /\ Len(samples') \in Nat \ {0} /\ IsDraft(draft', DraftWidth)
<1> DEFINE n == DraftWidth
           new == TryClaim(draft.columns, draft.means, cursor)
<1>1. /\ IsDraft(draft, n) /\ ~draft.ok /\ draft.means \in [1..n -> Primary] /\ cursor \in 1..n
      /\ draft.detect = Detect(samples) /\ Len(samples) \in Nat \ {0}
  BY DEF SgInv, Building, DraftPhases
<1>2. n \in Nat \ {0} /\ DOMAIN draft.columns = 1..n
  BY <1>1 DEF IsDraft
<1>3. Claimed(draft.columns, draft.means, n, cursor, new)
  <2> HIDE DEF n
  <2> QED
    BY <1>1, <1>2, ClaimFacts
<1>4. new \in [1..n -> Primary]
  BY <1>3 DEF Claimed
<1>5. new \in [1..n -> Meanings]
  BY <1>4 DEF Meanings
<1> HIDE DEF new, n
<1>6. draft' = [draft EXCEPT !.means = new]
  BY DEF new
<1>7. SameBut(draft, draft', n) /\ draft'.means = new /\ draft'.ok = draft.ok
  BY <1>1, <1>5, <1>6 DEF IsDraft, SameBut
<1>8. draft'.columns = draft.columns /\ draft'.detect = draft.detect /\ IsDraft(draft', n)
  BY <1>7 DEF SameBut
<1>9. DraftWidth' = DraftWidth
  BY <1>8 DEF DraftWidth
<1> QED
  BY <1>1, <1>2, <1>3, <1>4, <1>7, <1>8, <1>9 DEF n

\* A column further to the right; after the last one the sweep turns.
LEMMA LeftKeeps ==
  ASSUME SgInv, PortFromLeft
  PROVE  SgInv'
<1>1. /\ UNCHANGED SgOthers /\ sgAt = "ports" /\ samples' = samples
      /\ draft' = [draft EXCEPT !.means = TryClaim(draft.columns, draft.means, cursor)]
  BY DEF PortFromLeft, SgOthers
<1> DEFINE n == DraftWidth
<1>2. /\ SameBut(draft, draft', n) /\ ~draft'.ok /\ DraftWidth' = n /\ n \in Nat \ {0} /\ cursor \in 1..n
      /\ draft'.columns = draft.columns /\ DOMAIN draft.columns = 1..n
      /\ draft.means \in [1..n -> Primary] /\ draft'.means \in [1..n -> Primary]
      /\ Claimed(draft.columns, draft.means, n, cursor, draft'.means)
      /\ draft'.detect = Detect(samples') /\ Len(samples') \in Nat \ {0} /\ IsDraft(draft', n)
  BY <1>1, SweepFacts
<1>3. SweptLeft(draft.columns, draft.means, n, cursor)
  BY <1>1 DEF SgInv, Building
<1>4. IF cursor < n THEN cursor' = cursor + 1 /\ sgAt' = sgAt ELSE sgAt' = "portsBack" /\ cursor' = cursor
  BY DEF PortFromLeft, DraftWidth
<1> HIDE DEF n
<1>5. SweptLeft(draft'.columns, draft'.means, n, cursor + 1)
  BY <1>2, <1>3, LeftSweep
<1>6. CASE cursor < n
  <2>1. sgAt' = "ports" /\ cursor' = cursor + 1 /\ cursor' \in 1..n
    BY <1>1, <1>2, <1>4, <1>6
  <2>2. Building'
    BY <1>2, <1>5, <2>1 DEF Building
  <2> QED
    BY <1>1, <1>2, <2>1, <2>2, BuildStep DEF DraftPhases
<1>7. CASE ~(cursor < n)
  <2>1. sgAt' = "portsBack" /\ cursor' = n /\ cursor' \in 1..n /\ cursor = n
    BY <1>2, <1>4, <1>7
  <2>2. SweptRight(draft'.columns, draft'.means, n, n)
    <3>1. \A k \in 1..n : Behind(draft'.columns, draft'.means, n, k)
      BY <1>2, <1>5, <2>1 DEF SweptLeft
    <3>2. (n + 1)..n = {}
      BY <1>2
    <3> QED
      BY <3>1, <3>2 DEF SweptRight
  <2>3. Building'
    BY <1>2, <2>1, <2>2 DEF Building
  <2> QED
    BY <1>1, <1>2, <2>1, <2>3, BuildStep DEF DraftPhases
<1> QED
  BY <1>6, <1>7

\* A column further to the left; after the first one no column is left to claim.
LEMMA RightKeeps ==
  ASSUME SgInv, PortFromRight
  PROVE  SgInv'
<1>1. /\ UNCHANGED SgOthers /\ sgAt = "portsBack" /\ samples' = samples
      /\ draft' = [draft EXCEPT !.means = TryClaim(draft.columns, draft.means, cursor)]
  BY DEF PortFromRight, SgOthers
<1> DEFINE n == DraftWidth
<1>2. /\ SameBut(draft, draft', n) /\ ~draft'.ok /\ DraftWidth' = n /\ n \in Nat \ {0} /\ cursor \in 1..n
      /\ draft'.columns = draft.columns /\ DOMAIN draft.columns = 1..n
      /\ draft.means \in [1..n -> Primary] /\ draft'.means \in [1..n -> Primary]
      /\ Claimed(draft.columns, draft.means, n, cursor, draft'.means)
      /\ draft'.detect = Detect(samples') /\ Len(samples') \in Nat \ {0} /\ IsDraft(draft', n)
  BY <1>1, SweepFacts
<1>3. SweptRight(draft.columns, draft.means, n, cursor)
  BY <1>1 DEF SgInv, Building
<1>4. IF cursor > 1 THEN cursor' = cursor - 1 /\ sgAt' = sgAt ELSE sgAt' = "refine" /\ cursor' = cursor
  BY DEF PortFromRight
<1> HIDE DEF n
<1>5. SweptRight(draft'.columns, draft'.means, n, cursor - 1)
  BY <1>2, <1>3, RightSweep
<1>6. CASE cursor > 1
  <2>1. sgAt' = "portsBack" /\ cursor' = cursor - 1 /\ cursor' \in 1..n
    BY <1>1, <1>2, <1>4, <1>6
  <2>2. Building'
    BY <1>2, <1>5, <2>1 DEF Building
  <2> QED
    BY <1>1, <1>2, <2>1, <2>2, BuildStep DEF DraftPhases
<1>7. CASE ~(cursor > 1)
  <2>1. sgAt' = "refine" /\ cursor - 1 = 0
    BY <1>2, <1>4, <1>7
  <2>2. SweptRight(draft'.columns, draft'.means, n, 0)
    BY <1>5, <2>1
  <2>3. Building'
    BY <1>2, <2>1, <2>2 DEF Building
  <2> QED
    BY <1>1, <1>2, <2>1, <2>3, BuildStep DEF DraftPhases
<1> QED
  BY <1>6, <1>7

\* The other meanings, the roles of the addresses and their paths.
LEMMA RefineKeeps ==
  ASSUME SgInv, Refine
  PROVE  SgInv'
<1> DEFINE n == DraftWidth
           means == AssignIpRoles(RefineRest(draft.columns, draft.means))
           doc == IpDoc(draft.columns, means)
<1>1. /\ UNCHANGED SgOthers /\ sgAt = "refine" /\ samples' = samples /\ sgAt' = "assign" /\ cursor' = 1
      /\ draft' = [draft EXCEPT !.means = means, !.doc = doc]
  BY DEF Refine, SgOthers
<1>2. /\ IsDraft(draft, n) /\ ~draft.ok /\ draft.means \in [1..n -> Primary]
      /\ draft.detect = Detect(samples) /\ Len(samples) \in Nat \ {0}
      /\ SweptRight(draft.columns, draft.means, n, 0)
  BY <1>1 DEF SgInv, Building, DraftPhases
<1>3. n \in Nat \ {0} /\ DOMAIN draft.columns = 1..n
  BY <1>2 DEF IsDraft
<1> HIDE DEF n
<1>4. means \in [1..n -> Meanings] /\ Fixed(draft.columns, means, n)
  BY <1>2, <1>3, RefineFacts
<1> HIDE DEF means
<1>5. Flagged(draft.columns, doc) /\ AllPlaces(means, n, doc, 1)
  BY <1>3, <1>4, IpDocFacts
<1> HIDE DEF doc
<1>6. SameBut(draft, draft', n) /\ draft'.means = means /\ draft'.doc = doc /\ draft'.ok = draft.ok
  BY <1>1, <1>2, <1>4 DEF IsDraft, SameBut
<1>7. draft'.columns = draft.columns /\ draft'.detect = draft.detect /\ IsDraft(draft', n)
  BY <1>6 DEF SameBut
<1>8. DraftWidth' = n
  BY <1>7 DEF DraftWidth, n
<1>9. 1 \in 1..n
  BY <1>3
<1>10. Building'
  BY <1>1, <1>2, <1>4, <1>5, <1>6, <1>7, <1>8, <1>9 DEF Building
<1> QED
  BY <1>1, <1>2, <1>6, <1>10, BuildStep DEF DraftPhases

\* One more column has its path; after the last one the draft is complete and sound.
LEMMA AssignKeeps ==
  ASSUME SgInv, Assign
  PROVE  SgInv'
<1> DEFINE n == DraftWidth
           format == MajorityFormat(samples)
           doc == AssignOne(draft.doc, Style(format), draft.columns, draft.means, cursor)
           last == SyslogTime(doc, format)
<1>1. /\ UNCHANGED SgOthers /\ sgAt = "assign" /\ samples' = samples
      /\ IF cursor < n THEN draft' = [draft EXCEPT !.doc = doc] /\ cursor' = cursor + 1 /\ sgAt' = sgAt
         ELSE draft' = [draft EXCEPT !.doc = last, !.ok = TRUE] /\ sgAt' = "score" /\ cursor' = cursor
  BY DEF Assign, SgOthers, DraftWidth
<1>2. /\ IsDraft(draft, n) /\ ~draft.ok /\ cursor \in 1..n
      /\ draft.detect = Detect(samples) /\ Len(samples) \in Nat \ {0}
      /\ Fixed(draft.columns, draft.means, n) /\ Flagged(draft.columns, draft.doc) /\ AllPlaces(draft.means, n, draft.doc, cursor)
  BY <1>1 DEF SgInv, Building, DraftPhases
<1>3. n \in Nat \ {0} /\ DOMAIN draft.columns = 1..n /\ draft.means \in [1..n -> Meanings]
  BY <1>2 DEF IsDraft
<1> HIDE DEF n, format
<1>4. Flagged(draft.columns, doc) /\ AllPlaces(draft.means, n, doc, cursor + 1)
  BY <1>2, <1>3, AssignOneKeeps
<1> HIDE DEF doc
<1>5. CASE cursor < n
  <2>1. SameBut(draft, draft', n) /\ draft'.doc = doc /\ draft'.means = draft.means /\ draft'.ok = draft.ok
    BY <1>1, <1>2, <1>5 DEF IsDraft, SameBut
  <2>2. draft'.columns = draft.columns /\ draft'.detect = draft.detect /\ IsDraft(draft', n)
    BY <2>1 DEF SameBut
  <2>3. DraftWidth' = n
    BY <2>2 DEF DraftWidth, n
  <2>4. sgAt' = "assign" /\ cursor' = cursor + 1 /\ cursor' \in 1..n
    BY <1>1, <1>2, <1>3, <1>5
  <2>5. Building'
    BY <1>1, <1>2, <1>3, <1>4, <2>1, <2>2, <2>3, <2>4 DEF Building
  <2> QED
    BY <1>1, <1>2, <2>1, <2>4, <2>5, BuildStep DEF DraftPhases
<1>6. CASE ~(cursor < n)
  <2>1. cursor = n /\ sgAt' = "score" /\ draft' = [draft EXCEPT !.doc = last, !.ok = TRUE]
    BY <1>1, <1>2, <1>3, <1>6
  <2>2. Flagged(draft.columns, last) /\ AllPlaces(draft.means, n, last, n + 1)
    BY <1>4, <2>1, SyslogTimeKeeps
  <2> HIDE DEF last
  <2>3. SameBut(draft, draft', n) /\ draft'.doc = last /\ draft'.means = draft.means /\ draft'.ok = TRUE
    BY <1>2, <2>1 DEF IsDraft, SameBut
  <2>4. draft'.columns = draft.columns /\ draft'.detect = draft.detect /\ IsDraft(draft', n)
    BY <2>3 DEF SameBut
  <2>5. DraftWidth' = n
    BY <2>4 DEF DraftWidth, n
  <2>6. Sound(draft, DraftWidth)'
    BY <1>1, <1>2, <2>2, <2>3, <2>4, <2>5 DEF Sound
  <2>7. Building'
    BY <2>1 DEF Building, DraftPhases
  <2> QED
    BY <1>1, <1>2, <2>1, <2>6, <2>7, BuildStep DEF DraftPhases
<1> QED
  BY <1>5, <1>6

\* After the draft is complete only the score and the decision to write follow.
LEMMA ScoreKeeps ==
  ASSUME SgInv, ScoreSuggestion \/ Write
  PROVE  SgInv'
<1>1. samples' = samples /\ draft' = draft /\ columns' = columns /\ force' = force /\ sgAt \in {"score", "write"}
  BY DEF ScoreSuggestion, Write
<1>2. (draft.ok => Sound(draft, DraftWidth))' /\ samples' \in SampleSets /\ columns' \in ColumnSets
  BY <1>1 DEF SgInv, Sound, DraftWidth
<1>3. sgAt' \in {"write", "written", "refused"}
  BY DEF ScoreSuggestion, Write
<1>4. Building'
  BY <1>3 DEF Building, DraftPhases
<1>5. ParseRate' = ParseRate
  BY <1>1 DEF ParseRate, Passes
<1>6. Len(samples') \in Nat \ {0}
  BY <1>1 DEF SgInv, Scored
<1>7. CASE ScoreSuggestion
  <2>1. sgAt' = "write" /\ score' = ParseRate' /\ ~written'
    BY <1>5, <1>7 DEF ScoreSuggestion, SgInv, Scored
  <2> QED
    BY <1>2, <1>3, <1>4, <1>6, <2>1 DEF SgInv, Scored
<1>8. CASE Write
  <2>1. sgAt = "write" /\ score' = score /\ score = ParseRate /\ ~written
    BY <1>8 DEF Write, SgInv, Scored
  <2>2. score' = ParseRate'
    BY <1>5, <2>1
  <2>3. written' => sgAt' = "written" /\ (force' \/ ~(score' < MinRate))
    <3>1. CASE ~force /\ score < MinRate
      <4>1. written' = written
        BY <1>8, <3>1 DEF Write
      <4> QED
        BY <2>1, <4>1
    <3>2. CASE ~(~force /\ score < MinRate)
      <4>1. sgAt' = "written"
        BY <1>8, <3>2 DEF Write
      <4>2. force' \/ ~(score' < MinRate)
        BY <1>1, <2>1, <3>2
      <4> QED
        BY <4>1, <4>2
    <3> QED
      BY <3>1, <3>2
  <2> QED
    BY <1>2, <1>3, <1>4, <1>6, <2>2, <2>3 DEF SgInv, Scored
<1> QED
  BY <1>7, <1>8

\* Nothing is drafted at first.
LEMMA SgInitHolds ==
  ASSUME SgInit PROVE SgInv
<1>1. ~draft.ok /\ sgAt = "draft" /\ ~written /\ samples \in SampleSets /\ columns \in ColumnSets
  BY DEF SgInit, NoDraft
<1> QED
  BY <1>1 DEF SgInv, Building, Scored, DraftPhases

\* The invariant depends on the variables of the module only.
LEMMA SgStutterKeeps ==
  ASSUME SgInv, UNCHANGED sgVars PROVE SgInv'
BY DEF SgInv, sgVars, Building, Scored, Sound, DraftWidth, ParseRate, Passes

\* ---- the invariant gives the properties
LEMMA WrittenParses ==
  ASSUME SgInv PROVE WrittenMeansParses
<1> DEFINE c == Cardinality({i \in DOMAIN samples : Passes(samples[i])})
<1> SUFFICES ASSUME written, ~force PROVE 100 * c >= MinRate * Len(samples)
  BY DEF WrittenMeansParses
<1>1. score = ParseRate /\ ~(score < MinRate) /\ Len(samples) \in Nat \ {0}
  BY DEF SgInv, Scored
<1>2. MinRate \in Nat /\ samples \in Seq(Range(samples))
  BY SgAssumption DEF SgInv
<1>3. c \in Nat
  <2>1. IsFiniteSet(1..Len(samples)) /\ DOMAIN samples = 1..Len(samples)
    BY <1>2, FS_Interval
  <2> DEFINE S == {i \in DOMAIN samples : Passes(samples[i])}
  <2>2. S \subseteq 1..Len(samples)
    BY <2>1
  <2> HIDE DEF S
  <2>3. Cardinality(S) \in Nat
    BY <2>1, <2>2, FS_Subset, FS_CardinalityType
  <2> QED
    BY <2>3 DEF S
<1>4. score = (100 * c) \div Len(samples)
  BY <1>1 DEF ParseRate
<1> HIDE DEF c
<1>5. (100 * c) \div Len(samples) >= MinRate
  <2>1. (100 * c) \div Len(samples) \in Int
    BY <1>1, <1>3
  <2> QED
    BY <1>1, <1>2, <1>4, <2>1
<1> QED
  BY <1>1, <1>2, <1>3, <1>5, RateFacts

\* The columns in the two places are the first two.
LEMMA PlacesAreKept ==
  ASSUME SgInv PROVE FirstTwoKeepTheirPlaces
<1> SUFFICES ASSUME draft.ok, NEW m \in Slotted
             PROVE  LET cols == {i \in DOMAIN draft.means : draft.means[i] = m}
                        placed == {draft.doc.fields[p] : p \in DOMAIN draft.doc.fields \cap Range(Slots(m))}
                    IN placed = {i \in cols : Cardinality({j \in cols : j < i}) < 2}
  BY DEF FirstTwoKeepTheirPlaces, Drafted
<1> DEFINE n == DraftWidth
           C == Of(draft.means, n, m)
<1>1. n \in Nat /\ draft.means \in [1..n -> Meanings] /\ AllPlaces(draft.means, n, draft.doc, n + 1)
  BY DEF SgInv, Sound, IsDraft
<1> HIDE DEF n
<1>2. {i \in DOMAIN draft.means : draft.means[i] = m} = C /\ C \subseteq 1..n
  BY <1>1 DEF Of
<1>3. Places(C, Place1(m), Place2(m), draft.doc, n + 1)
  BY <1>1 DEF AllPlaces
<1> HIDE DEF C
<1>4. Range(Slots(m)) = {Place1(m), Place2(m)}
  <2>1. Slots(m) = <<Place1(m), Place2(m)>>
    BY PlaceFacts
  <2>2. DOMAIN <<Place1(m), Place2(m)>> = {1, 2}
    OBVIOUS
  <2> QED
    BY <2>1, <2>2 DEF Range
<1>5. {draft.doc.fields[p] : p \in DOMAIN draft.doc.fields \cap {Place1(m), Place2(m)}} = Early(C)
  BY <1>1, <1>2, <1>3, FirstTwo
<1>6. Early(C) = {i \in C : Cardinality({j \in C : j < i}) < 2}
  BY DEF Early, Before
<1> QED
  BY <1>2, <1>4, <1>5, <1>6

\* The invariant gives the property.
LEMMA SgInvIsSound ==
  ASSUME SgInv PROVE DraftIsSound
<1>1. DraftFindsItsLines
  <2> SUFFICES ASSUME draft.ok, NEW i \in Kept(samples), ~Detects(draft.detect, samples[i])
               PROVE  draft.detect.width # 0 /\ samples[i].delimiters + 1 > samples[i].shape
    BY DEF DraftFindsItsLines, Drafted
  <2>1. samples \in SampleSets /\ draft.detect = Detect(samples)
    BY DEF SgInv, Sound
  <2> QED
    BY <2>1, DetectFacts
<1>2. PortsReachFixpoint
  <2> SUFFICES ASSUME draft.ok PROVE PortsReachFixpoint
    BY DEF PortsReachFixpoint, Drafted
  <2>1. Fixed(draft.columns, draft.means, DraftWidth) /\ DOMAIN draft.columns = 1..DraftWidth /\ DOMAIN draft.means = 1..DraftWidth
    BY DEF SgInv, Sound, IsDraft
  <2> QED
    BY <2>1 DEF PortsReachFixpoint, Fixed
<1>3. UnsureIsFlagged
  BY DEF SgInv, Sound, Flagged, UnsureIsFlagged, Drafted
<1> QED
  BY <1>1, <1>2, <1>3, WrittenParses, PlacesAreKept DEF DraftIsSound

\* A definition that `ulpf suggest-parser` writes unforced reaches the parse rate on its own
\* samples; its detect rule finds the lines it was built from, two sweeps of the port rule
\* suffice, the first two columns of a kind keep its two places, and every unsure mapping is
\* flagged for review: for samples and columns of any number.
THEOREM DraftsAreSound == SgSpec => []DraftIsSound
<1>1. SgInit => SgInv
  BY SgInitHolds
<1>2. SgInv /\ [SgNext]_sgVars => SgInv'
  <2> SUFFICES ASSUME SgInv, [SgNext]_sgVars PROVE SgInv'
    OBVIOUS
  <2>1. CASE Draft
    BY <2>1, DraftKeeps
  <2>2. CASE PortFromLeft
    BY <2>2, LeftKeeps
  <2>3. CASE PortFromRight
    BY <2>3, RightKeeps
  <2>4. CASE Refine
    BY <2>4, RefineKeeps
  <2>5. CASE Assign
    BY <2>5, AssignKeeps
  <2>6. CASE ScoreSuggestion \/ Write
    BY <2>6, ScoreKeeps
  <2>7. CASE UNCHANGED sgVars
    BY <2>7, SgStutterKeeps
  <2> QED
    BY <2>1, <2>2, <2>3, <2>4, <2>5, <2>6, <2>7 DEF SgNext
<1>3. SgInv => DraftIsSound
  BY SgInvIsSound
<1> QED
  BY <1>1, <1>2, <1>3, PTL DEF SgSpec

=============================================================================
