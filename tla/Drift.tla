-------------------------------- MODULE Drift --------------------------------
(***************************************************************************)
(* Template drift: GET /anomalies/drift.  Each poll, in a thread of its own, *)
(* reads the baseline file, scores the last window of one template against   *)
(* it, folds the window into it unless it fired, and rewrites the file.      *)
(* Rates are events per step, scaled by Unit; z is compared squared.         *)
(***************************************************************************)
EXTENDS Integers, Sequences, FiniteSets

CONSTANTS Polls,       \* the polls that may be under way
          Spans,       \* the window lengths polls ask for, in steps
          PerStep,     \* events per step while the source is up
          Warmup,      \* warmup_windows
          ZThreshold,  \* z_threshold
          MaxSteps, MaxTurns, MaxPolls, MaxCrashes
\* A window is not empty, and warmup_windows is at least 1.
ASSUME DriftAssumption == /\ Spans \subseteq Nat \ {0} /\ PerStep \in Nat \ {0}
                          /\ Warmup \in Nat \ {0} /\ ZThreshold \in Nat

Unit == 1000
VARIABLES steps,    \* steps so far
          history,  \* step -> whether the source sent
          state,    \* the file: "none", "torn" or a baseline
          poll,     \* poll -> what it is doing
          fired,    \* the completed polls, in order
          crashes, clashed
driftVars == <<steps, history, state, poll, fired, crashes, clashed>>

None == [kind |-> "none"]
Torn == [kind |-> "torn"]
Base(rate, n) == [kind |-> "ok", rate |-> rate, windows |-> n]
Resting == [at |-> "idle"]

\* A step of time passes, in which the source sends or is silent.
Turns(h) == Cardinality({i \in 2..Len(h) : h[i] # h[i - 1]})
Step(up) == /\ steps < MaxSteps /\ steps' = steps + 1
            /\ history' = Append(history, up) /\ Turns(history') <= MaxTurns
            /\ UNCHANGED <<state, poll, fired, crashes, clashed>>

Observed(span) == PerStep * Cardinality({i \in DOMAIN history : i > steps - span /\ history[i]})

\* _score: |z| >= threshold; nothing expected is never a signal.
Fires(observed, rate, span) ==
  LET expected == rate * span   \* scaled
      off == observed * Unit - expected
  IN expected > 0 /\ off * off >= ZThreshold * ZThreshold * expected * Unit
Fold(observed, rate, span) == (3 * ((observed * Unit) \div span) + 7 * rate) \div 10   \* alpha = 0.3

UpdateUnfrozen(base, observed, span) ==
  IF base.kind = "none" THEN [fired |-> FALSE, next |-> Base((observed * Unit) \div span, 1)]
  ELSE [fired |-> base.windows >= Warmup /\ Fires(observed, base.rate, span),
        next |-> Base(Fold(observed, base.rate, span), base.windows + 1)]
\* update: the first sighting seeds; a window that fires leaves the baseline frozen.
Update(base, observed, span) ==
  IF base.kind = "none" THEN [fired |-> FALSE, next |-> Base((observed * Unit) \div span, 1)]
  ELSE LET fires == base.windows >= Warmup /\ Fires(observed, base.rate, span)
       IN [fired |-> fires,
           next |-> IF fires THEN base ELSE Base(Fold(observed, base.rate, span), base.windows + 1)]

\* run_template_drift.  A file that is half written is an error: the poll fails.
ReadState(p, span) ==
  /\ poll[p] = Resting /\ steps >= span /\ Len(fired) < MaxPolls
  /\ clashed' = (clashed \/ \E q \in Polls : poll[q] # Resting)
  /\ IF state = Torn THEN UNCHANGED poll
     ELSE poll' = [poll EXCEPT ![p] = [at |-> "scored", span |-> span, when |-> steps, result |-> Update(state, Observed(span), span)]]
  /\ fired' = IF state = Torn THEN Append(fired, [when |-> steps, span |-> span, fired |-> FALSE, failed |-> TRUE]) ELSE fired
  /\ UNCHANGED <<steps, history, state, crashes>>
\* write_text truncates the file and then fills it.
Truncate(p) ==
  /\ poll[p].at = "scored" /\ poll' = [poll EXCEPT ![p].at = "writing"] /\ state' = Torn
  /\ UNCHANGED <<steps, history, fired, crashes, clashed>>
WriteState(p) ==
  /\ poll[p].at = "writing" /\ state' = poll[p].result.next
  /\ poll' = [poll EXCEPT ![p] = Resting]
  /\ fired' = Append(fired, [when |-> poll[p].when, span |-> poll[p].span, fired |-> poll[p].result.fired, failed |-> FALSE])
  /\ UNCHANGED <<steps, history, crashes, clashed>>
CrashDrift == /\ crashes < MaxCrashes /\ crashes' = crashes + 1
              /\ poll' = [p \in Polls |-> Resting] /\ UNCHANGED <<steps, history, state, fired, clashed>>

DriftInit == /\ steps = 0 /\ history = <<>> /\ state = None /\ poll = [p \in Polls |-> Resting]
             /\ fired = <<>> /\ crashes = 0 /\ clashed = FALSE
DriftNext == \/ \E up \in BOOLEAN : Step(up)
             \/ \E p \in Polls : (\E span \in Spans : ReadState(p, span)) \/ Truncate(p) \/ WriteState(p)
             \/ CrashDrift
DriftSpec == DriftInit /\ [][DriftNext]_driftVars

\* ---- properties -------------------------------------------------------------
\* One outage: the source sends, and then is silent.
Sent == {i \in DOMAIN history : history[i]}
OneOutage == Sent = 1..Cardinality(Sent)
LastPoll == fired[Len(fired)]
Done == {i \in DOMAIN fired : ~fired[i].failed}
Silent(f) == f.when >= Cardinality(Sent) + f.span          \* its whole window is in the outage
Full(f) == f.when <= Cardinality(Sent)                     \* none of it is
WarmBefore == Cardinality({i \in Done : Full(fired[i])}) >= Warmup
\* A full window's silence is beyond the threshold.
Noticeable(span) == PerStep * span >= ZThreshold * ZThreshold

\* Polls one at a time, of one window length, none whose window straddles the start
\* of the outage: every poll of the silence reports the drop, for as long as it lasts.
OutageFlaggedWhenSpaced ==
  /\ ~clashed /\ crashes = 0 /\ OneOutage /\ WarmBefore
  /\ \A i \in Done : (Silent(fired[i]) \/ Full(fired[i])) /\ fired[i].span = LastPoll.span
  /\ Len(fired) > 0 /\ Silent(LastPoll) /\ Noticeable(LastPoll.span)
  => LastPoll.fired

\* A poll fails only when the file was torn: by a crash, or by another poll's write.
FailuresAreExplained == (\E i \in DOMAIN fired : fired[i].failed) => crashes > 0 \/ clashed
\* No poll reports a template before Warmup windows have been folded, across restarts
\* and lost updates of clashing polls.
NoEarlySignal == \A i \in DOMAIN fired : fired[i].fired => Cardinality({j \in Done : j < i}) >= Warmup

\* Drift polls flag an outage, never before the warm-up, and fail only on a torn file.
DriftIsFlagged == OutageFlaggedWhenSpaced /\ NoEarlySignal /\ FailuresAreExplained
=============================================================================
