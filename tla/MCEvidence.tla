------------------------------ MODULE MCEvidence ------------------------------
(***************************************************************************)
(* What can be shown of stored events: the tree over a batch (Merkle), the    *)
(* verification commands (Verification) and the queries (EventQuery).  Each    *)
(* part runs alone.                                                            *)
(***************************************************************************)
EXTENDS Merkle, Verification, EventQuery

VARIABLE view
viewVars == <<view, merkleVars, verVars, eqVars>>

Ev(u, t, i, s, c, p, w) == [uid |-> u, time |-> t, ingest |-> i, src |-> s, class |-> c, ports |-> p, words |-> w]
MCQEvents == {Ev(1, 2, 2, "fw", "net", {22}, {"w"}), Ev(2, 3, 9, "fw", "none", {22, 53}, {}), Ev(3, 5, 5, "ids", "net", {}, {"%", "w"}),
              Ev(4, 0, 4, "fw", "net", {53}, {"w"}), Ev(5, 3, 3, "ids", "net", {22}, {"w"})}
NoFilter == [src |-> "any", port |-> 0, from |-> 0, to |-> 0, q |-> "any"]
MCQFilters == {NoFilter, [NoFilter EXCEPT !.src = "fw"], [NoFilter EXCEPT !.port = 22], [NoFilter EXCEPT !.from = 3, !.to = 5],
               [NoFilter EXCEPT !.q = "w", !.to = 5], [NoFilter EXCEPT !.q = "%"]}
MCQSpans == (1..3) \X (1..4)
Stored(t, sp, ep, x, u) ==
  [p \in {<<"time">>, <<"src_port">>, <<"src_endpoint", "port">>, <<"x">>, <<"unmapped">>} |->
     IF p = <<"time">> THEN t ELSE IF p = <<"src_port">> THEN sp ELSE IF p = <<"x">> THEN x ELSE IF p = <<"unmapped">> THEN u ELSE ep]
MCRecords == {Stored(t, sp, ep, x, u) : t \in {"int", "str"}, sp \in {"none", "str"}, ep \in {"digits", "zero"},
                x \in {"int", "zero", "str", "list", "empty"}, u \in {"dict", "empty"}}
MCRecordFiles == {<<r, s>> : r, s \in MCRecords}

MCInit == view \in {"tree", "verify", "pages", "stats", "rows"} /\ MerkleInit /\ VerInit /\ EqInit
          /\ (view \notin {"pages", "stats"} => backend = "lake")
MCNext ==
  \/ view = "tree" /\ MerkleNext /\ UNCHANGED <<view, verVars, eqVars>>
  \/ view = "verify" /\ VerNext /\ UNCHANGED <<view, merkleVars, eqVars>>
  \/ view = "pages" /\ WalkNext /\ UNCHANGED <<view, merkleVars, verVars>>
  \/ view = "stats" /\ StatsNext /\ UNCHANGED <<view, merkleVars, verVars>>
  \/ view = "rows" /\ RowNext /\ UNCHANGED <<view, merkleVars, verVars>>
Spec == MCInit /\ [][MCNext]_viewVars
=============================================================================
