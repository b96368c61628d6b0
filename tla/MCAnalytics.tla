----------------------------- MODULE MCAnalytics -----------------------------
(***************************************************************************)
(* What is learned from the events: templates and their catalogue           *)
(* (Templates), their rates (Drift), drafts of definitions (Suggestion) and  *)
(* anomaly scores (Scoring).  Each part runs alone.                          *)
(***************************************************************************)
EXTENDS Templates, Drift, Suggestion, Scoring

VARIABLE part
partVars == <<part, tplVars, driftVars, sgVars, scVars>>

MCSafeName == [s1 |-> "f1", s2 |-> "f2"]

Col(m, k, n, s, c) == [mask |-> m, kind |-> k, near |-> n, sure |-> s, common |-> c]
MCKinds == {Col("*", "ip", "nothing", TRUE, TRUE), Col("*", "port", "nothing", TRUE, TRUE), Col("PORT", "big", "in", FALSE, TRUE),
            Col("*", "big", "in", TRUE, TRUE), Col("*", "action", "nothing", TRUE, FALSE), Col("*", "action", "nothing", FALSE, TRUE),
            Col("*", "huge", "out", FALSE, TRUE), Col("*", "name", "interface", TRUE, TRUE), Col("TIMESTAMP", "text", "nothing", TRUE, TRUE)}
MCColumnSets == {<<>>} \cup UNION {[1..n -> MCKinds] : n \in {1, 4}}
SampleLine(f, sh, d, h, p) == [format |-> f, shape |-> sh, delimiters |-> d, has |-> h, parses |-> p, maps |-> TRUE]
MCSampleLines == {SampleLine(<<"raw", "csv">>, 4, 3, {"w"}, TRUE), SampleLine(<<"raw", "csv">>, 4, 4, {"w"}, TRUE),
                  SampleLine(<<"syslog", "kv">>, 1, 0, {"w", "v"}, TRUE), SampleLine(<<"syslog", "kv">>, 1, 0, {"v"}, FALSE),
                  SampleLine(<<"syslog", "unknown">>, 2, 1, {"v"}, TRUE)}
ThreeSamples == {<<s, s, s>> : s \in MCSampleLines}
MCSampleSets == {<<s>> : s \in MCSampleLines} \cup ThreeSamples \cup [1..4 -> MCSampleLines]

MCEvents == {[at |-> 2, src |-> "x"], [at |-> 3, src |-> "x"], [at |-> 4, src |-> "x"]}

\* A part runs alone: the others wait.
SgRest == samples = <<>> /\ columns = <<>> /\ force = FALSE /\ draft = NoDraft /\ cursor = 0 /\ score = 0 /\ written = FALSE /\ sgAt = "draft"
ScRest == ScInit /\ model.n = 0
Asked == columns = <<Col("*", "ip", "nothing", TRUE, TRUE)>> \/ samples \in ThreeSamples
MCInit ==
  \/ part \in {"templates", "drift"} /\ TplInit /\ DriftInit /\ SgRest /\ ScRest
  \/ part = "suggestion" /\ TplInit /\ DriftInit /\ ScRest /\ SgInit /\ Asked
  \/ part = "scoring" /\ TplInit /\ DriftInit /\ SgRest /\ ScInit
MCNext ==
  \/ part = "templates" /\ TplNext /\ UNCHANGED <<part, driftVars, sgVars, scVars>>
  \/ part = "drift" /\ DriftNext /\ UNCHANGED <<part, tplVars, sgVars, scVars>>
  \/ part = "suggestion" /\ SgNext /\ UNCHANGED <<part, tplVars, driftVars, scVars>>
  \/ part = "scoring" /\ ScNext /\ UNCHANGED <<part, tplVars, driftVars, sgVars>>
Spec == MCInit /\ [][MCNext]_partVars
=============================================================================
