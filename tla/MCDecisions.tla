------------------------------ MODULE MCDecisions ------------------------------
(***************************************************************************)
(* What becomes of one event: the files the definitions come from          *)
(* (SourceFiles), their stages (Normalization), the mapping of its fields  *)
(* (Mapping), the enrichment (Enrichment), and the engines that read its   *)
(* text (Engines).                                                         *)
(***************************************************************************)
EXTENDS SourceFiles, Normalization, Mapping, Enrichment, Engines

VARIABLE decision   \* the part under way
decisionVars == <<decision, srcVars, normVars, mapVars, enrVars, engVars>>

MCFileOrder == <<"n", "m">>

\* Lines: a JSON alert, a CEF line inside syslog, a CSV line, an unknown line, one a
\* parser chokes on.
Line(b, m, lk, ms, tg, r, k, c, s) ==
  [bom |-> b, marker |-> m, looks |-> lk, message |-> ms, tagged |-> tg, reads |-> r, key |-> k, columns |-> c, stamp |-> s]
MCLines ==
  {Line(b, m, lk[1], lk[2], lk[3], r, k, c, "good") : b \in BOOLEAN, m \in {"no", "inside", "start"},
     lk \in {<<{"json"}, {}, {}>>, <<{"csv"}, {}, {}>>, <<{"syslog", "cef"}, {}, {"cef"}>>, <<{"syslog"}, {}, {}>>},
     r \in {{}, {"json"}, {"csv", "cef"}}, k \in {"absent", "alert"}, c \in {1, 9}}
Source(n, at, al, e, mp, v, p, en) ==
  [name |-> n, detect |-> at, all |-> al, engine |-> e, maps |-> mp, valid |-> v, on_failure |-> p, enabled |-> en]
MCCatalogues ==
  {<<Source("a", at, TRUE, e, mp, {"parsed"}, "dead_letter", en),
     Source("b", {"contains", "field_count"}, FALSE, "cef", {"parsed"}, v, "warn", TRUE)>> :
     at \in {{"starts_with"}, {"contains", "field_equals"}}, e \in {"json", "csv"}, mp \in {{}, {"parsed", "empty"}},
     en \in BOOLEAN, v \in {{}, {"parsed"}}}

M(p, f, j, t, mp, d, r) == [path |-> p, from |-> f, join |-> j, type |-> t, map |-> mp, default |-> d, required |-> r]
MCFirst ==
  {M(p, f[1], f[2], t, mp, d, r) : p \in {<<"src">>, <<"src", "ip">>, <<"activity_id">>, <<"metadata">>},
     f \in {<<<<"a">>, FALSE>>, <<<<"a", "b">>, FALSE>>, <<<<"b", "a">>, TRUE>>},
     t \in {"str", "int"}, mp \in {{}, {"7"}}, d \in {<<>>, <<"const">>}, r \in BOOLEAN}
MCSecond == {M(<<"src", "ip">>, <<"b">>, FALSE, "str", {}, <<>>, TRUE), M(<<"time">>, <<"a">>, FALSE, "int", {}, <<>>, FALSE)}
MCDefinitions ==
  {[constants |-> c, activity |-> a[1], otherwise |-> a[2], fields |-> <<m1, m2>>, unmapped |-> u] :
     c \in {<<<<"src", "ip">>, <<"src">>, <<"type_uid">>>>}, a \in {<<"absent", <<>>>>, <<"b", <<>>>>},
     m1 \in MCFirst, m2 \in MCSecond, u \in {"keep_all", "drop"}}

End(k, c) == [kind |-> k, canonical |-> c]
Observed(s, d, m, i) == [src |-> s, dst |-> d, direction |-> m, mapped |-> m, port |-> "known", ioc |-> i, location |-> {},
                        classed |-> i # "template"]
MCRecords == {Observed(End("private", TRUE), End("public", TRUE), "nothing", "f"),
              Observed(End("private", TRUE), End("documentation", TRUE), "inbound", "none"),
              Observed(End("public", TRUE), End("garbled", FALSE), "outbound", "none"),
              Observed(End("none", TRUE), End("none", TRUE), "nothing", "template")}
MCChain == <<"network_context", "geoip", "threat_intel", "attack_tagger">>

Words(chars, n) == UNION {[1..k -> chars] : k \in 0..n}
MCHeaderFields == Words({"|", "\\", "x"}, 2)
MCValues == Words({" ", "=", "\\", "x"}, 3)
MCSdValues == Words({"q", "\\", "]", " "}, 2)
MCSdTails == Words({"[", "-", " "}, 2) \cup {<<"[">> \o t : t \in Words({"[", "]", " ", "=", "q", "\\"}, 4)}
MCDissectTexts == Words({"x", " ", ":"}, 5)
Field(d, p) == [delim |-> d, pad |-> p]
MCDissectPatterns == {<<Field(" ", a), Field(":", b), Field(d, c)>> : a, b, c \in BOOLEAN, d \in {"", " "}}
MCLogLines == [a |-> <<[kind |-> "fields", n |-> 2], [kind |-> "types", n |-> 2], [kind |-> "row", n |-> 0],
                       [kind |-> "fields", n |-> 3], [kind |-> "types", n |-> 3], [kind |-> "row", n |-> 0]>>,
               b |-> <<[kind |-> "fields", n |-> 4], [kind |-> "types", n |-> 4], [kind |-> "row", n |-> 0]>>,
               c |-> <<[kind |-> "row", n |-> 0], [kind |-> "fields", n |-> 5], [kind |-> "types", n |-> 5], [kind |-> "row", n |-> 0]>>]
MCStreamOption == [a |-> "s1", b |-> "s2", c |-> "s2"]
MCTimes == 4..20
MCZones == -1..1

\* A part runs alone: the others wait in one of their initial states.
SomeLine == CHOOSE l \in MCLines : TRUE
Idle == line = SomeLine /\ catalogue = <<>> /\ stage = "parse" /\ parsed = Unclassified /\ out = Pending /\ deadLetters = 0 /\ chosen = NoDefinition /\ reloads = 0
SomeDefinition == CHOOSE d \in MCDefinitions : TRUE
Unmapped == definition = SomeDefinition /\ fields = [key \in MapKeys |-> NoText] /\ next = 1 /\ leaves = {} /\ consumed = {} /\ leftovers = {} /\ mapAt = "fields"
Unenriched == EnrInit /\ enrRecord = (CHOOSE r \in MCRecords : TRUE) /\ iocLoaded = [p \in IocPaths |-> 0] /\ watching
MCInit == /\ EngInit /\ SourceInit
          /\ \/ decision = "stages" /\ NormInit /\ Unmapped /\ Unenriched
             \/ decision = "mapping" /\ MapInit /\ Idle /\ Unenriched
             \/ decision = "enrichment" /\ EnrInit /\ iocFiles["g"] = "gone" /\ Idle /\ Unmapped
             \/ decision \in {"sources", "text", "zeek"} /\ Idle /\ Unmapped /\ Unenriched
MCNext == \/ decision = "stages" /\ NormNext /\ UNCHANGED <<decision, srcVars, mapVars, enrVars, engVars>>
          \/ decision = "mapping" /\ MapNext /\ UNCHANGED <<decision, srcVars, normVars, enrVars, engVars>>
          \/ decision = "enrichment" /\ EnrNext /\ UNCHANGED <<decision, srcVars, normVars, mapVars, engVars>>
          \/ decision = "text" /\ ReadText /\ UNCHANGED <<decision, srcVars, normVars, mapVars, enrVars>>
          \/ decision = "zeek" /\ ZeekNext /\ UNCHANGED <<decision, srcVars, normVars, mapVars, enrVars>>
          \/ decision = "sources" /\ SourceNext /\ UNCHANGED <<decision, normVars, mapVars, enrVars, engVars>>
Spec == MCInit /\ [][MCNext]_decisionVars
=============================================================================
