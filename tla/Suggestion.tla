----------------------------- MODULE Suggestion -----------------------------
(***************************************************************************)
(* `ulpf suggest-parser`: a source definition drafted from sample lines.    *)
(* A format is voted, the values of every column are given a meaning, the   *)
(* meanings are given OCSF paths, the draft is scored on its own samples,    *)
(* and it is written unless it scores too low.  The loops over the columns   *)
(* are taken a column at a time.  What a column's values are is its kind; a  *)
(* fraction is whether it clears its threshold.                              *)
(***************************************************************************)
EXTENDS Integers, Sequences, FiniteSets, Functions

CONSTANTS SampleSets,   \* the sequences of lines a draft is asked for
          ColumnSets,   \* the columns the lines' fields form
          MinRate,      \* --min-parse-rate, in percent
          MinSamples    \* _MIN_SAMPLES

VARIABLES samples, columns, force, score, written,
          draft,    \* the draft, complete once it is ok
          cursor,   \* the column a loop has come to
          sgAt
sgVars == <<samples, columns, force, draft, cursor, score, written, sgAt>>

NoDraft == [ok |-> FALSE]
NoDoc == [fields |-> [p \in {} |-> 0], review |-> {}]

\* Counter.most_common(1): the most frequent value, the earliest of several.
Count(s, x) == Cardinality({i \in DOMAIN s : s[i] = x})
MostCommon(s) == s[CHOOSE i \in DOMAIN s :
                     /\ \A j \in DOMAIN s : Count(s, s[j]) <= Count(s, s[i])
                     /\ \A j \in 1..(i - 1) : Count(s, s[j]) < Count(s, s[i])]
MajorityFormat(lines) == MostCommon([i \in DOMAIN lines |-> lines[i].format])
Style(format) == CASE format[2] \in {"json", "kv", "cef", "leef"} -> "keyed"
                   [] format[2] \in {"csv", "tsv"} -> "delimited"
                   [] OTHER -> "unstructured"

\* The lines a draft is built from: those the keyed engine parses, those of the most
\* common width, those of the dominant template.
CommonShape(lines) == MostCommon([i \in DOMAIN lines |-> lines[i].shape])
Kept(lines) ==
  {i \in DOMAIN lines : IF Style(MajorityFormat(lines)) = "keyed" THEN lines[i].parses
                        ELSE lines[i].shape = CommonShape(lines)}
EnoughKept(lines) ==
  Cardinality(Kept(lines)) >= (IF Style(MajorityFormat(lines)) = "unstructured" THEN MinSamples ELSE 1)

\* ---- what a column means -------------------------------------------------
Column == [mask : {"PORT", "TIMESTAMP", "BYTES", "*"},
           kind : {"empty", "ip", "proto", "action", "stamp", "port", "big", "huge", "name", "text"},
           near : {"nothing", "out", "in", "interface"},   \* the words before it
           sure : BOOLEAN, common : BOOLEAN]
\* Samples are sequences of lines of finitely many words; a line of so many delimited
\* columns has a delimiter between every two of them, and perhaps more.
ASSUME SgAssumption ==
  /\ ColumnSets \subseteq Seq(Column) /\ MinRate \in Nat /\ MinSamples \in Nat \ {0}
  /\ \A s \in SampleSets :
       /\ s \in Seq(Range(s))
       /\ \A i \in DOMAIN s :
            /\ IsFiniteSet(s[i].has) /\ s[i].delimiters \in Nat /\ s[i].shape \in Nat
            /\ Style(MajorityFormat(s)) = "delimited" => s[i].delimiters + 1 >= s[i].shape

ClassifyPrimary(c) ==
  CASE c.kind = "empty" -> "unknown"
    [] c.kind = "ip" -> "ip_address"
    [] c.kind = "proto" -> "protocol"
    [] c.kind = "action" -> "action"
    [] OTHER -> IF c.kind = "stamp" \/ c.mask = "TIMESTAMP" THEN "timestamp" ELSE "unknown"

PortInt(c) == c.kind \in {"proto", "port", "big"}
ClaimsPort(cols, means, i) ==
  /\ means[i] = "unknown" /\ PortInt(cols[i])
  /\ \/ cols[i].mask = "PORT"
     \/ \E j \in {i - 1, i + 1} \cap DOMAIN cols : means[j] \in {"ip_address", "port"}
TryClaim(cols, means, i) == IF ClaimsPort(cols, means, i) THEN [means EXCEPT ![i] = "port"] ELSE means

ByteCount(c) == c.kind \in {"big", "huge"} \/ (c.mask = "BYTES" /\ c.kind = "port")
RefineRest(cols, means) ==
  [i \in DOMAIN cols |->
     IF means[i] # "unknown" THEN means[i]
     ELSE IF ByteCount(cols[i]) THEN "byte_count"
     ELSE IF cols[i].near = "interface" /\ cols[i].kind = "name" THEN "interface_name"
     ELSE "unknown"]
AssignIpRoles(means) ==
  LET Nth(i) == Cardinality({j \in 1..i : means[j] = "ip_address"})
  IN [i \in DOMAIN means |-> IF means[i] # "ip_address" THEN means[i]
                             ELSE CASE Nth(i) = 1 -> "source_ip" [] Nth(i) = 2 -> "destination_ip" [] OTHER -> "ip_address"]

\* ---- OCSF paths -----------------------------------------------------------
\* The role of the closest address column, the earlier of two as close.
Distance(i, j) == IF i < j THEN j - i ELSE i - j
IpColumns(means) == {i \in DOMAIN means : means[i] \in {"source_ip", "destination_ip"}}
NearestIpRole(means, i) ==
  IF IpColumns(means) = {} THEN "nothing"
  ELSE LET closest == CHOOSE j \in IpColumns(means) : \A k \in IpColumns(means) :
                        Distance(i, j) < Distance(i, k) \/ (Distance(i, j) = Distance(i, k) /\ j <= k)
       IN IF means[closest] = "source_ip" THEN "src" ELSE "dst"
\* keyed and unstructured columns carry the words before them, delimited ones none
DirectionHint(style, c) == IF style = "delimited" \/ c.near = "interface" THEN "nothing" ELSE c.near

Slots(meaning) ==
  CASE meaning = "port" -> <<"src_endpoint.port", "dst_endpoint.port">>
    [] meaning = "byte_count" -> <<"traffic.bytes_out", "traffic.bytes_in">>
    [] meaning = "interface_name" -> <<"src_endpoint.interface_name", "dst_endpoint.interface_name">>
    [] OTHER -> <<>>
Slotted == {"port", "byte_count", "interface_name"}

\* A draft's fields: path to column; review: the paths flagged as unsure.
Add(doc, paths, cols, i) ==
  [fields |-> [p \in DOMAIN doc.fields \cup paths |-> IF p \in paths THEN i ELSE doc.fields[p]],
   review |-> doc.review \cup (IF cols[i].sure THEN {} ELSE paths)]
\* The addresses come first.
IpPath(role) == IF role = "source_ip" THEN "src_endpoint.ip" ELSE "dst_endpoint.ip"
IpDoc(cols, means) ==
  [fields |-> [p \in {IpPath(means[i]) : i \in IpColumns(means)} |-> CHOOSE i \in IpColumns(means) : IpPath(means[i]) = p],
   review |-> {IpPath(means[i]) : i \in {j \in IpColumns(means) : ~cols[j].sure}}]

\* _assign_slotted: by the hint, else the first slot that is free; neither, unmapped.
AssignSlotted(doc, slots, hint, cols, i) ==
  LET free == {k \in {1, 2} : slots[k] \notin DOMAIN doc.fields}
      slot == IF hint = "in" /\ 2 \in free THEN 2 ELSE IF 1 \in free THEN 1 ELSE 2
  IN IF free = {} THEN doc ELSE Add(doc, {slots[slot]}, cols, i)
AssignOne(doc, style, cols, means, i) ==
  LET meaning == means[i]
  IN CASE meaning = "timestamp" -> IF "time" \in DOMAIN doc.fields THEN doc ELSE Add(doc, {"time"}, cols, i)
       [] meaning = "protocol" -> Add(doc, {"protocol_num", "protocol_name"}, cols, i)
       [] meaning = "action" -> Add(doc, {"action_id", "action", "disposition"}, cols, i)
       [] meaning \in Slotted ->
            AssignSlotted(doc, Slots(meaning),
                          IF meaning = "port" THEN NearestIpRole(means, i) ELSE DirectionHint(style, cols[i]), cols, i)
       [] OTHER -> doc

\* ---- the draft ------------------------------------------------------------
DetectFirstOnly(lines) == [literals |-> lines[1].has, width |-> 0]
\* Literals in every line the draft keeps (a keyed draft looks at every line), at
\* most two of them (one, for a delimited draft), and the width of a delimited one.
\* No literal and no width is the pattern that matches every line.
Detect(lines) ==
  LET style == Style(MajorityFormat(lines))
      over == IF style = "keyed" THEN DOMAIN lines ELSE Kept(lines)
      shared == {w \in UNION {lines[i].has : i \in over} : \A i \in over : w \in lines[i].has}
      most == IF style = "delimited" THEN 1 ELSE 2
  IN [literals |-> CHOOSE s \in SUBSET shared :
                     Cardinality(s) = (IF Cardinality(shared) < most THEN Cardinality(shared) ELSE most),
      width |-> IF style = "delimited" THEN CommonShape(lines) ELSE 0]
\* The rule counts the delimiters of the whole line, quoted ones and its header's too.
Detects(rule, line) == rule.literals \subseteq line.has /\ (rule.width # 0 => line.delimiters + 1 = rule.width)

SyslogTime(doc, format) ==
  IF "time" \notin DOMAIN doc.fields /\ format[1] = "syslog"
  THEN [fields |-> [p \in DOMAIN doc.fields \cup {"time"} |-> IF p = "time" THEN 0 ELSE doc.fields[p]], review |-> doc.review]
  ELSE doc
\* Columns of a keyed draft appear in at least _MIN_KEY_PRESENCE of its rows.
Usable(style, cols) ==
  LET common == {i \in DOMAIN cols : cols[i].common}
  IN IF style # "keyed" THEN cols
     ELSE [k \in 1..Cardinality(common) |-> cols[CHOOSE i \in common : Cardinality({j \in common : j <= i}) = k]]

\* ---- the command ------------------------------------------------------------
\* suggest_source_definition and the first pass of infer_field_types.  SuggestError: too
\* few lines, no line of one shape, no column.
Draft ==
  /\ sgAt = "draft"
  /\ LET used == Usable(Style(MajorityFormat(samples)), columns)
     IN IF Len(samples) >= MinSamples /\ EnoughKept(samples) /\ Len(used) > 0
        THEN /\ draft' = [ok |-> FALSE, columns |-> used, means |-> [i \in DOMAIN used |-> ClassifyPrimary(used[i])],
                          detect |-> Detect(samples), doc |-> NoDoc]
             /\ sgAt' = "ports" /\ cursor' = 1
        ELSE sgAt' = "refused" /\ UNCHANGED <<draft, cursor>>
  /\ UNCHANGED <<samples, columns, force, score, written>>

\* _refine_ports: once from the left, once from the right.
PortFromLeft ==
  /\ sgAt = "ports"
  /\ draft' = [draft EXCEPT !.means = TryClaim(draft.columns, draft.means, cursor)]
  /\ IF cursor < Len(draft.columns) THEN cursor' = cursor + 1 /\ UNCHANGED sgAt
     ELSE sgAt' = "portsBack" /\ UNCHANGED cursor
  /\ UNCHANGED <<samples, columns, force, score, written>>
PortFromRight ==
  /\ sgAt = "portsBack"
  /\ draft' = [draft EXCEPT !.means = TryClaim(draft.columns, draft.means, cursor)]
  /\ IF cursor > 1 THEN cursor' = cursor - 1 /\ UNCHANGED sgAt
     ELSE sgAt' = "refine" /\ UNCHANGED cursor
  /\ UNCHANGED <<samples, columns, force, score, written>>
\* The rest of infer_field_types, and the first loop of _assign_ocsf.
Refine ==
  /\ sgAt = "refine" /\ sgAt' = "assign" /\ cursor' = 1
  /\ LET means == AssignIpRoles(RefineRest(draft.columns, draft.means))
     IN draft' = [draft EXCEPT !.means = means, !.doc = IpDoc(draft.columns, means)]
  /\ UNCHANGED <<samples, columns, force, score, written>>
\* The second loop; after the last column the document is built.
Assign ==
  /\ sgAt = "assign"
  /\ LET format == MajorityFormat(samples)
         doc == AssignOne(draft.doc, Style(format), draft.columns, draft.means, cursor)
     IN IF cursor < Len(draft.columns)
        THEN /\ draft' = [draft EXCEPT !.doc = doc]
             /\ cursor' = cursor + 1 /\ UNCHANGED sgAt
        ELSE /\ draft' = [draft EXCEPT !.doc = SyslogTime(doc, format), !.ok = TRUE]
             /\ sgAt' = "score" /\ UNCHANGED cursor
  /\ UNCHANGED <<samples, columns, force, score, written>>

\* Detected, parsed and mapped, out of all the lines.
Passes(line) == Detects(draft.detect, line) /\ line.parses /\ line.maps
ParseRate == (100 * Cardinality({i \in DOMAIN samples : Passes(samples[i])})) \div Len(samples)
ScoreSuggestion ==
  /\ sgAt = "score" /\ sgAt' = "write"
  /\ score' = ParseRate
  /\ UNCHANGED <<samples, columns, force, draft, cursor, written>>

Write ==
  /\ sgAt = "write"
  /\ IF ~force /\ score < MinRate THEN sgAt' = "refused" /\ UNCHANGED written
     ELSE sgAt' = "written" /\ written' = TRUE
  /\ UNCHANGED <<samples, columns, force, draft, cursor, score>>

SgInit == /\ samples \in SampleSets /\ columns \in ColumnSets /\ force \in BOOLEAN
          /\ draft = NoDraft /\ cursor = 0 /\ score = 0 /\ written = FALSE /\ sgAt = "draft"
SgNext == Draft \/ PortFromLeft \/ PortFromRight \/ Refine \/ Assign \/ ScoreSuggestion \/ Write
SgSpec == SgInit /\ [][SgNext]_sgVars

\* ---- properties -------------------------------------------------------------
Drafted == draft.ok

\* A definition is written, unless forced, only when that share of ALL the sample
\* lines is found by its own detect rule, parses and maps: lines its rule misses
\* count against it (score.py, suggest_parser.py).
WrittenMeansParses ==
  written /\ ~force => 100 * Cardinality({i \in DOMAIN samples : Passes(samples[i])}) >= MinRate * Len(samples)

\* Two passes of the port rule suffice: no unclaimed column of port-sized numbers is
\* left beside an address or a port (inference.py, _refine_ports).
PortsReachFixpoint ==
  Drafted => \A i \in DOMAIN draft.columns :
    PortInt(draft.columns[i]) /\ draft.means[i] \in {"unknown", "byte_count"} =>
      ~\E j \in {i - 1, i + 1} \cap DOMAIN draft.means :
         draft.means[j] \in {"port", "source_ip", "destination_ip", "ip_address"}

\* The first two columns of a kind that has two places are both mapped, to different
\* places, and no later column displaces them (suggest.py, _assign_slotted).
FirstTwoKeepTheirPlaces ==
  Drafted => \A m \in Slotted :
    LET cols == {i \in DOMAIN draft.means : draft.means[i] = m}
        placed == {draft.doc.fields[p] : p \in DOMAIN draft.doc.fields \cap Range(Slots(m))}
    IN placed = {i \in cols : Cardinality({j \in cols : j < i}) < 2}

\* A mapping the inference is unsure of carries a REVIEW comment, also when it took
\* the place of an earlier one (suggest.py, _assign_ocsf and _annotate_review_lines).
UnsureIsFlagged ==
  Drafted => \A p \in DOMAIN draft.doc.fields :
    draft.doc.fields[p] # 0 /\ ~draft.columns[draft.doc.fields[p]].sure => p \in draft.doc.review

\* The draft's detect rule finds every line the draft was built from, except one
\* whose text holds more delimiters than columns.
DraftFindsItsLines ==
  Drafted => \A i \in DOMAIN samples :
    i \in Kept(samples) /\ ~Detects(draft.detect, samples[i]) =>
      draft.detect.width # 0 /\ samples[i].delimiters + 1 > samples[i].shape


\* A draft finds and parses its samples, gives out its places soundly and flags its doubts.
DraftIsSound == WrittenMeansParses /\ DraftFindsItsLines /\ PortsReachFixpoint /\ FirstTwoKeepTheirPlaces /\ UnsureIsFlagged
=============================================================================
