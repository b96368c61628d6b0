-------------------------- MODULE MCKafkaPipeline --------------------------
(* Small instances of KafkaPipeline for TLC.                               *)
EXTENDS KafkaPipeline, TLC

CONSTANTS e1, e2, e3, p1, p2, w1, w2

MCEvents     == {e1, e2, e3}
MCPartitions == {p1, p2}
MCWorkers    == {w1, w2}

\* Two events of one source, one of another.
MCPartOf == (e1 :> p1) @@ (e2 :> p1) @@ (e3 :> p2)

Symm == Permutations(MCWorkers)
=============================================================================
