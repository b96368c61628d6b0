------------------------------- MODULE Enrichment -------------------------------
(***************************************************************************)
(* The enrichment stage (src/ulpf/enrich): the chain of enrichers, each    *)
(* run on a pool of threads under a timeout, what each makes of a record,  *)
(* the promotion of their results, and the indicator store of the threat   *)
(* intelligence enricher with its directory watcher.                       *)
(*                                                                         *)
(* A record is what the enrichers look at: the kind of each endpoint's     *)
(* address and whether it is written canonically, the direction the mapper *)
(* set, the port, the indicator its host or hash is, if any, and whether   *)
(* it has a class at all.                                                  *)
(***************************************************************************)
EXTENDS Naturals, Sequences, FiniteSets

CONSTANTS EnrRecords,     \* the records considered
          Chain,          \* the enrichers that are switched on, in order
          Watched,        \* the values start_watching may have: who starts the watcher decides
          IocPaths,       \* the files of the indicator directory
          MaxEnriched,    \* bound on events
          MaxIocChanges   \* bound on changes to the directory

\* build_enrichers switches each of these on or off.
Enrichers == {"network_context", "geoip", "threat_intel", "attack_tagger"}
Roles == {"src", "dst"}
Endpoint == [kind : STRING, canonical : BOOLEAN]
\* A record comes from the mapper: its direction is the mapped one, and nothing is located.
ASSUME EnrAssumption ==
  /\ Chain \in Seq(Enrichers) /\ \A j, k \in DOMAIN Chain : Chain[j] = Chain[k] => j = k
  /\ EnrRecords \subseteq [src : Endpoint, dst : Endpoint, direction : STRING, mapped : STRING, port : STRING,
                           ioc : STRING, location : {{}}, classed : BOOLEAN]
  /\ \A rec \in EnrRecords : rec.direction = rec.mapped

VARIABLES enrRecord,    \* the event's record
          enrAt,        \* the enricher that comes next; Len(Chain) + 1 is the promotion
          merged,       \* enricher -> the set of things it contributed
          answered,     \* enrichers that returned in time
          skipped,      \* enrichers that would have answered and were not waited for
          heldBefore,   \* workers held when this event came
          held,         \* workers that abandoned calls still hold
          enriched,     \* events through
          iocFiles,     \* path -> "good", "bad" or "gone"
          iocLoaded,    \* path -> the version loaded, 0 for none
          iocVersion,   \* path -> the version on disk
          iocEvents,    \* notifications not handled yet
          iocMoved,     \* paths some file was moved away from
          watching, iocChanges
chainVars == <<enrRecord, enrAt, merged, answered, skipped, heldBefore, held, enriched>>
storeVars == <<iocFiles, iocLoaded, iocVersion, iocEvents, iocMoved, watching, iocChanges>>
enrVars == <<chainVars, storeVars>>

NotYet == "nothing"

\* network_context: the documentation ranges count as public, whatever the library says.
Scope(kind) == IF kind = "private" THEN "private" ELSE "public"
Usable(kind) == kind \notin {"none", "garbled"}
InferDirection(rec) ==
  LET s == rec.src.kind  d == rec.dst.kind
  IN IF ~Usable(s) \/ ~Usable(d) THEN NotYet
     ELSE IF Scope(s) = "private" THEN IF Scope(d) = "public" THEN "outbound" ELSE "internal"
     ELSE IF Scope(d) = "private" THEN "inbound" ELSE "transit"
NetworkContext(rec) == IF \E r \in Roles : Usable(rec[r].kind) THEN InferDirection(rec) ELSE NotYet

\* geoip: the addresses the library calls public, and only with a city database.
Located(rec) == {r \in Roles : rec[r].kind = "public"}
\* threat_intel: the snapshot compiled from the loaded files; the first of address, host
\* and hash that it names.
IndicatorSet == {p \in IocPaths : iocLoaded[p] > 0}
Indicated(rec) == rec.ioc \in IndicatorSet
\* attack_tagger: a rule on the direction and one on the port; both read the record as
\* the mapper left it (_build_view).
RecordView(rec) == [by_direction |-> rec.direction = "outbound", by_port |-> rec.port = "known"]
Tags(rec) == {t \in {"by_direction", "by_port"} : RecordView(rec)[t]}

Answer(e, rec) ==
  CASE e = "network_context" -> {NetworkContext(rec)} \ {NotYet}
    [] e = "geoip" -> Located(rec)
    [] e = "threat_intel" -> IF Indicated(rec) THEN {rec.ioc} ELSE {}
    [] e = "attack_tagger" -> Tags(rec)

\* Mutant: a worker short.
WorkersShort == Len(Chain) - 1
\* EnrichmentPipeline.__init__
Workers == IF Len(Chain) < 8 THEN IF Len(Chain) = 0 THEN 1 ELSE Len(Chain) ELSE 8

\* _run_one: the enricher answers, fails, or is abandoned and keeps its worker; with every
\* worker held the call never starts, and is cancelled when its time is over.
RunOne ==
  /\ enrAt \in DOMAIN Chain /\ enrRecord.classed /\ enrAt' = enrAt + 1
  /\ LET e == Chain[enrAt]
     IN \/ /\ held < Workers /\ merged' = [merged EXCEPT ![e] = Answer(e, enrRecord)]
           /\ answered' = answered \cup {e} /\ UNCHANGED <<skipped, held>>
        \/ /\ held < Workers /\ UNCHANGED <<merged, answered, skipped, held>>
        \/ /\ held < Workers /\ held' = held + 1 /\ UNCHANGED <<merged, answered, skipped>>
        \/ /\ held >= Workers /\ skipped' = skipped \cup {e} /\ UNCHANGED <<merged, answered, held>>
  /\ UNCHANGED <<enrRecord, heldBefore, enriched, storeVars>>

\* An abandoned call returns: its result goes nowhere, its worker is free again.
HungReturns ==
  /\ held > 0 /\ held' = held - 1
  /\ UNCHANGED <<enrRecord, enrAt, merged, answered, skipped, heldBefore, enriched, storeVars>>

\* EnrichStage.process: with enrichment switched off, or no class, a record is passed
\* through as it is.
PassThrough ==
  /\ enrAt = 1 /\ ~enrRecord.classed /\ enrAt' = Len(Chain) + 2
  /\ UNCHANGED <<enrRecord, merged, answered, skipped, heldBefore, held, enriched, storeVars>>

\* EnrichStage: _promote_direction leaves a direction the mapper set; _promote_geoip looks
\* the address up as the record writes it, under the canonical form geoip answered with.
Promotable == merged["network_context"] \cap {"inbound", "outbound"}
PromoteDirection(rec) ==
  IF rec.direction # NotYet \/ Promotable = {} THEN rec.direction ELSE CHOOSE d \in Promotable : TRUE
PromoteGeo(rec) == {r \in merged["geoip"] : rec[r].canonical}
Promote ==
  /\ enrAt = Len(Chain) + 1 /\ enrAt' = enrAt + 1
  /\ enrRecord' = [enrRecord EXCEPT !.direction = PromoteDirection(enrRecord), !.location = PromoteGeo(enrRecord)]
  /\ UNCHANGED <<merged, answered, skipped, heldBefore, held, enriched, storeVars>>
NextRecord ==
  /\ enrAt = Len(Chain) + 2 /\ enriched + 1 < MaxEnriched /\ enriched' = enriched + 1
  /\ enrRecord' \in EnrRecords /\ enrAt' = 1 /\ merged' = [e \in DOMAIN merged |-> {}]
  /\ answered' = {} /\ skipped' = {}
  /\ heldBefore' = held /\ UNCHANGED <<held, storeVars>>
-----------------------------------------------------------------------------
\* The operator writes, breaks, removes or renames a file; the watcher is told, if there
\* is one.
Told(e) == iocEvents' = IF watching THEN Append(iocEvents, e) ELSE iocEvents
ChangeFile(p) ==
  /\ iocChanges < MaxIocChanges /\ iocChanges' = iocChanges + 1
  /\ \/ \E text \in {"good", "bad"} :
          /\ iocFiles' = [iocFiles EXCEPT ![p] = text] /\ iocVersion' = [iocVersion EXCEPT ![p] = iocChanges + 2]
          /\ Told([kind |-> "changed", path |-> p]) /\ UNCHANGED iocMoved
     \/ /\ iocFiles[p] # "gone" /\ iocFiles' = [iocFiles EXCEPT ![p] = "gone"]
        /\ Told([kind |-> "deleted", path |-> p]) /\ UNCHANGED <<iocVersion, iocMoved>>
     \/ \E q \in IocPaths \ {p} :
          /\ iocFiles[p] # "gone" /\ iocFiles' = [iocFiles EXCEPT ![p] = "gone", ![q] = iocFiles[p]]
          /\ iocVersion' = [iocVersion EXCEPT ![q] = iocVersion[p]]
          /\ Told([kind |-> "changed", path |-> q]) /\ iocMoved' = iocMoved \cup {p}
  /\ UNCHANGED <<chainVars, iocLoaded, watching>>

\* _on_file_changed, with the file as it is by now; _on_file_deleted.
Reread(p) == IF iocFiles[p] = "good" THEN iocVersion[p] ELSE iocLoaded[p]
HandleIoc ==
  /\ iocEvents # <<>> /\ iocEvents' = Tail(iocEvents)
  /\ LET e == Head(iocEvents)
     IN iocLoaded' = [iocLoaded EXCEPT ![e.path] = IF e.kind = "deleted" THEN 0 ELSE Reread(e.path)]
  /\ UNCHANGED <<chainVars, iocFiles, iocVersion, iocMoved, watching, iocChanges>>

\* load_all at the start, with what is there then.
EnrInit ==
  /\ enrRecord \in EnrRecords /\ enrAt = 1 /\ merged = [e \in Enrichers |-> {}]
  /\ answered = {} /\ skipped = {} /\ heldBefore = 0 /\ held = 0 /\ enriched = 0
  /\ iocFiles \in [IocPaths -> {"good", "gone"}] /\ iocVersion = [p \in IocPaths |-> 1]
  /\ iocLoaded = [p \in IocPaths |-> IF iocFiles[p] = "good" THEN 1 ELSE 0]
  /\ iocEvents = <<>> /\ iocMoved = {} /\ watching \in Watched /\ iocChanges = 0
EnrNext == RunOne \/ PassThrough \/ HungReturns \/ Promote \/ NextRecord \/ HandleIoc \/ \E p \in IocPaths : ChangeFile(p)
EnrSpec == EnrInit /\ [][EnrNext]_enrVars
-----------------------------------------------------------------------------
\* "A pool so a single hung enricher does not starve the rest within a call": an enricher
\* is left out for want of a worker only when calls of earlier events hold some.
StarvedOnlyByEarlierCalls == skipped # {} => heldBefore > 0

\* The direction a record leaves with is the mapper's when there is one, and otherwise
\* never contradicts where its located endpoints are: a located source is not outbound.
DirectionFits ==
  enrAt = Len(Chain) + 2 =>
    /\ "src" \in enrRecord.location /\ "dst" \notin enrRecord.location /\ enrRecord.mapped = NotYet
         => enrRecord.direction # "outbound"
    /\ enrRecord.mapped # NotYet => enrRecord.direction = enrRecord.mapped

\* A rule on the direction that holds of the finished record has tagged it, unless the
\* direction is one the stage inferred, which it promotes after the rules have run.
TagsMissOnlyInferred ==
  enrAt = Len(Chain) + 2 /\ "attack_tagger" \in answered /\ enrRecord.direction = "outbound" =>
    "by_direction" \in merged["attack_tagger"] \/ enrRecord.mapped = NotYet

\* Once the watcher has caught up, what is loaded of a path is its latest readable
\* version, or an older one because the file there does not read or was moved away.
LoadedIsExplained ==
  watching /\ iocEvents = <<>> => \A p \in IocPaths :
    \/ iocFiles[p] = "good" /\ iocLoaded[p] = iocVersion[p]
    \/ iocFiles[p] = "bad"
    \/ iocFiles[p] = "gone" /\ (iocLoaded[p] = 0 \/ p \in iocMoved)
\* A file that stops reading does not take its indicators with it: only a deletion does.
OnlyDeletionUnloads ==
  [][\A p \in IocPaths : iocLoaded[p] > 0 /\ iocLoaded'[p] = 0 =>
       Head(iocEvents).kind = "deleted" /\ Head(iocEvents).path = p]_iocLoaded

\* Hung calls, promotions and indicator files that change under way leave a record no worse
\* than each part says.
EnrichmentHolds ==
  [](StarvedOnlyByEarlierCalls /\ DirectionFits /\ TagsMissOnlyInferred /\ LoadedIsExplained) /\ OnlyDeletionUnloads
=============================================================================
