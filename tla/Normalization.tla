----------------------------- MODULE Normalization -----------------------------
(***************************************************************************)
(* From a raw line to an OCSF record: the sniff-based parse, the match     *)
(* against the source definitions, the matched definition's own parse and  *)
(* mapping, and the validation, each a stage of the pipeline with a reload *)
(* of the definitions possible in between; and the tools that repeat these *)
(* steps outside the pipeline (inspect, sources verify, verify roundtrip,  *)
(* POST /sources/test, the score of a suggested definition).               *)
(*                                                                         *)
(* A line is what the steps look at: whether it starts with a BOM, where   *)
(* the definitions' marker is, which formats it looks like (as a whole and *)
(* inside a syslog envelope), which engines can read it, the value of the  *)
(* field a rule may ask for, and its syslog timestamp.                     *)
(***************************************************************************)
EXTENDS Naturals, Sequences, FiniteSets, SequencesExt

CONSTANTS Lines,        \* the lines considered
          Catalogues,   \* the lists of definitions considered, in priority order
          MaxReloads    \* bound on reloads while the event is under way

\* What a registry lists: _definitions is keyed by name, and the schema admits two
\* policies for a record that does not validate.
IsCatalogue(ds) ==
  /\ Len(ds) \in Nat /\ DOMAIN ds = 1..Len(ds)
  /\ \A k \in DOMAIN ds : /\ ds[k].name # "none" /\ ds[k].enabled \in BOOLEAN
                           /\ ds[k].on_failure \in {"warn", "dead_letter"}
  /\ \A j, k \in DOMAIN ds : ds[j].name = ds[k].name => j = k

ASSUME NormAssumption == /\ \A l \in Lines : l.bom \in BOOLEAN
                         /\ \A ds \in Catalogues : IsCatalogue(ds)

VARIABLES line, catalogue,   \* the event's line; the registry
          stage,             \* the next stage, or "done"
          parsed,            \* ParsedEvent
          out,               \* what the stages made of the event
          deadLetters,       \* dead letters written for it
          chosen,            \* the definition that matched, as it was then
          reloads
normVars == <<line, catalogue, stage, parsed, out, deadLetters, chosen, reloads>>

NoFields == [key |-> "absent", from |-> "nothing"]
NoDefinition == [name |-> "none"]
Pending == [kind |-> "none", by |-> "none", time |-> "none"]
Letter(step) == [kind |-> "letter", by |-> step, time |-> "none"]
Record(d) == [kind |-> "record", by |-> d.name, time |-> "event"]

\* sniff: the first format whose test holds; sniff_layered unwraps one syslog envelope
\* and glues the tag back on when the message looks like nothing.
SniffOrder == <<"syslog", "cef", "leef", "json", "tsv", "kv", "csv">>
Sniff(looks) ==
  LET hits == {k \in DOMAIN SniffOrder : SniffOrder[k] \in looks}
  IN IF hits = {} THEN "unknown" ELSE SniffOrder[Min(hits)]
Outer(l) == Sniff(l.looks)
Inner(l) == IF Outer(l) # "syslog" THEN Outer(l)
            ELSE IF Sniff(l.message) = "unknown" THEN Sniff(l.tagged) ELSE Sniff(l.message)

\* What an engine extracts, and whether it can.
Extract(l, engine) == [key |-> l.key, from |-> engine]
SelfDescribing == {"json", "kv", "cef", "leef"}
\* ParseCoordinator.parse: csv and tsv are never tried without a definition.
SniffRaises(l) == Inner(l) \in SelfDescribing /\ Inner(l) \notin l.reads
SniffPass(l) == [fields |-> IF Inner(l) \in SelfDescribing THEN Extract(l, Inner(l)) ELSE NoFields,
                 envelope |-> Outer(l) = "syslog",
                 mining |-> Inner(l) \notin SelfDescribing]
\* _unclassified
Unclassified == [fields |-> NoFields, envelope |-> FALSE, mining |-> TRUE]

\* evaluate_detect; the text still has the BOM unless the caller removed it.
Atom(a, l, bom, fields) ==
  CASE a = "contains" -> l.marker # "no"
    [] a = "starts_with" -> l.marker = "start" /\ ~bom
    [] a = "field_equals" -> fields.key = "alert"
    [] a = "field_count" -> l.columns > 2
Detect(d, l, bom, fields) ==
  IF d.all THEN \A a \in d.detect : Atom(a, l, bom, fields) ELSE \E a \in d.detect : Atom(a, l, bom, fields)
\* match_text: the first enabled definition, by priority.
MatchText(l, bom, fields, ds) ==
  LET hits == {k \in DOMAIN ds : ds[k].enabled /\ Detect(ds[k], l, bom, fields)}
  IN IF hits = {} THEN NoDefinition ELSE ds[Min(hits)]

\* parse_for_definition with the definition's engine; Mapper.to_ocsf and the validator,
\* on the fields parsed or on none.
Reads(d, l) == d.engine \in l.reads
Maps(d, fields) == IF fields = NoFields THEN "empty" \in d.maps ELSE "parsed" \in d.maps
Valid(d, fields) == IF fields = NoFields THEN "empty" \in d.valid ELSE "parsed" \in d.valid

\* ParseStage.process
ParseStep ==
  /\ stage = "parse" /\ stage' = "normalize"
  /\ parsed' = IF SniffRaises(line) THEN Unclassified ELSE SniffPass(line)
  /\ UNCHANGED <<line, catalogue, out, deadLetters, chosen, reloads>>

\* The time of the envelope when there is one that parses.
InferTime(p, l) == IF p.envelope /\ l.stamp = "good" THEN "event" ELSE "ingest"
\* _template_only: the line is mined and its skeleton kept.
TemplateOnly(p, l) == [kind |-> "template", by |-> "none", time |-> InferTime(p, l)]
\* NormalizeStage.process from the match on: a record, or a dead letter with its cause.
Normalized(l, p, d) ==
  IF d = NoDefinition THEN TemplateOnly(p, l)
  ELSE IF ~Reads(d, l) THEN Letter("parse")
  ELSE IF ~Maps(d, Extract(l, d.engine)) THEN Letter("mapping")
  ELSE Record(d)
NormalizeStep ==
  /\ stage = "normalize"
  /\ LET d == MatchText(line, line.bom, parsed.fields, catalogue)
         o == Normalized(line, parsed, d)
     IN /\ out' = o /\ chosen' = d
        /\ stage' = IF o.kind = "letter" THEN "done" ELSE "validate"
        /\ deadLetters' = IF o.kind = "letter" THEN deadLetters + 1 ELSE deadLetters
  /\ UNCHANGED <<line, catalogue, parsed, reloads>>

\* Mutant: the policy of the highest-priority definition, whatever the name.
OnFailureFirst(name, ds) == IF ds = <<>> THEN "dead_letter" ELSE ds[1].on_failure
\* ValidateStage: the policy of the definition that has the name by now.
OnFailure(name, ds) ==
  LET of == {k \in DOMAIN ds : ds[k].name = name} IN IF of = {} THEN "dead_letter" ELSE ds[Min(of)].on_failure
ValidateStep ==
  /\ stage = "validate" /\ stage' = "done"
  /\ IF out.kind = "template" \/ Valid(chosen, Extract(line, chosen.engine)) \/ OnFailure(out.by, catalogue) = "warn"
     THEN UNCHANGED <<out, deadLetters>>
     ELSE out' = Letter("validation") /\ deadLetters' = deadLetters + 1
  /\ UNCHANGED <<line, catalogue, parsed, chosen, reloads>>

\* The operator edits a definition, or removes it.
Edits(d) == {[d EXCEPT !.on_failure = "warn"], [d EXCEPT !.on_failure = "dead_letter"], [d EXCEPT !.enabled = ~@]}
Reload ==
  /\ stage \in {"normalize", "validate"} /\ reloads < MaxReloads /\ reloads' = reloads + 1
  /\ \E k \in DOMAIN catalogue : \/ \E d \in Edits(catalogue[k]) : catalogue' = [catalogue EXCEPT ![k] = d]
                                 \/ catalogue' = RemoveAt(catalogue, k)
  /\ UNCHANGED <<line, stage, parsed, out, deadLetters, chosen>>

NormInit == /\ line \in Lines /\ catalogue \in Catalogues /\ stage = "parse" /\ parsed = Unclassified
            /\ out = Pending /\ deadLetters = 0 /\ chosen = NoDefinition /\ reloads = 0
NormNext == ParseStep \/ NormalizeStep \/ ValidateStep \/ Reload
NormSpec == NormInit /\ [][NormNext]_normVars
-----------------------------------------------------------------------------
\* inspect: the text without its BOM for the match, and the mapping applied to no
\* fields when the matched engine fails.
SniffFields(l) == IF SniffRaises(l) THEN NoFields ELSE SniffPass(l).fields
Inspect(l, ds) ==
  LET d == MatchText(l, FALSE, SniffFields(l), ds)
      fields == IF Reads(d, l) THEN Extract(l, d.engine) ELSE NoFields
  IN IF d = NoDefinition THEN [match |-> "none", normalized |-> ~SniffRaises(l), valid |-> FALSE]
     ELSE [match |-> d.name, normalized |-> Maps(d, fields), valid |-> Maps(d, fields) /\ Valid(d, fields)]

\* Mutant: the name that matched is not compared.
CheckSourceLax(d, l, ds) ==
  /\ MatchText(l, l.bom, SniffFields(l), ds) # NoDefinition
  /\ Reads(d, l) /\ Maps(d, Extract(l, d.engine)) /\ Valid(d, Extract(l, d.engine))
\* sources verify: no problem found with a sample of the definition.
CheckSource(d, l, ds) ==
  LET hit == MatchText(l, l.bom, SniffFields(l), ds)
  IN hit # NoDefinition /\ hit.name = d.name /\ Reads(d, l)
     /\ Maps(d, Extract(l, d.engine)) /\ Valid(d, Extract(l, d.engine))

\* verify roundtrip: a line the sniff pass cannot read counts as unmatched.
Roundtrip(l, ds) ==
  LET d == IF SniffRaises(l) THEN NoDefinition ELSE MatchText(l, l.bom, SniffFields(l), ds)
      stable == IF d = NoDefinition THEN ~SniffRaises(l) ELSE Reads(d, l)
      normalized == d # NoDefinition /\ stable /\ Maps(d, Extract(l, d.engine))
  IN [unmatched |-> d = NoDefinition, stable |-> stable, normalized |-> normalized,
      dead |-> d # NoDefinition /\ stable /\ ~normalized]

\* POST /sources/test and score_suggestion: one definition, matched without fields.
TestSample(d, l) ==
  IF ~Detect(d, l, l.bom, NoFields) THEN "miss"
  ELSE IF ~Reads(d, l) THEN "parse" ELSE IF ~Maps(d, Extract(l, d.engine)) THEN "mapping"
  ELSE IF Valid(d, Extract(l, d.engine)) THEN "valid" ELSE "invalid"
-----------------------------------------------------------------------------
Done == stage = "done"
Undisturbed == Done /\ reloads = 0
Malformed(l) == SniffRaises(l)

\* Requirement (a): no event leaves the stages without a record or exactly one dead letter.
RecordOrLetter ==
  Done => /\ out.kind \in {"record", "template", "letter"}
          /\ deadLetters = IF out.kind = "letter" THEN 1 ELSE 0

\* A definition that says "warn" loses no record to validation, unless it was edited or
\* removed between the match and the validation.
WarnNeverDrops ==
  Done /\ out = Letter("validation") => chosen.on_failure = "dead_letter" \/ reloads > 0

\* An event is claimed by a definition that was enabled when it was matched, also when
\* that definition is edited under way; no enabled definition before it claims the line.
ClaimedByFirst ==
  Undisturbed /\ chosen # NoDefinition =>
    /\ chosen.enabled
    /\ \A k \in DOMAIN catalogue : catalogue[k].enabled /\ Detect(catalogue[k], line, line.bom, SniffFields(line))
         => \E j \in 1..k : catalogue[j] = chosen

\* An unmatched syslog line keeps its own time, unless the sniff pass failed on it.
UnmatchedKeepsTime ==
  Done /\ out.kind = "template" /\ line.stamp = "good" /\ Outer(line) = "syslog" /\ ~Malformed(line) => out.time = "event"

\* "exactly like the live pipeline": what verify roundtrip calls normalized or dead-lettered
\* is what the stages do, unless the sniff pass fails or validation decides.
RoundtripAgrees ==
  Undisturbed /\ ~Malformed(line) =>
    LET r == Roundtrip(line, catalogue)
    IN /\ r.unmatched <=> out.kind = "template"
       /\ r.normalized <=> out.kind = "record" \/ out = Letter("validation")
       /\ r.dead <=> out = Letter("mapping")
       /\ ~r.stable <=> out = Letter("parse")

\* A definition sources verify finds no fault with normalizes that sample in the pipeline,
\* under its own name.
GreenMeansNormalized ==
  Undisturbed => \A k \in DOMAIN catalogue : CheckSource(catalogue[k], line, catalogue) => out = Record(catalogue[k])

\* What the test endpoint calls valid the pipeline normalizes, when no definition before
\* it claims the line; and what the pipeline normalizes by a text rule the endpoint accepts.
TestAgrees ==
  Undisturbed => \A k \in DOMAIN catalogue :
    LET d == catalogue[k]
    IN /\ TestSample(d, line) = "valid" /\ chosen = d => out = Record(d)
       /\ out = Record(d) /\ d.detect \subseteq {"contains", "starts_with", "field_count"}
            => TestSample(d, line) \in {"valid", "invalid"}

\* inspect agrees with the pipeline on what it matches and shows, but for a BOM before a
\* starts_with marker and for an engine that fails.
InspectAgrees ==
  Undisturbed /\ ~line.bom /\ (chosen # NoDefinition => Reads(chosen, line)) =>
    LET i == Inspect(line, catalogue)
    IN /\ i.match = chosen.name
       /\ chosen # NoDefinition => (i.normalized <=> out # Letter("mapping"))

\* What the stages owe an event over every reload between them: a record or a letter, the
\* first definition that claims it, its policy, its time.
EventsAccounted == RecordOrLetter /\ WarnNeverDrops /\ ClaimedByFirst /\ UnmatchedKeepsTime

\* The four tools that repeat the stages' decisions agree with the stages.
ToolsAgree == RoundtripAgrees /\ GreenMeansNormalized /\ TestAgrees /\ InspectAgrees
=============================================================================
