----------------------------- MODULE MCPipeline -----------------------------
(* Small instances of Pipeline for TLC.                                    *)
EXTENDS Pipeline, TLC

CONSTANTS e1, e2, e3, e4, rawStore, integrity, sinks

MCEvents == {e1, e2, e3, e4}

\* Liveness is checked without symmetry, on fewer events.
LiveEvents == {e1, e2, e3}

\* Two workers whose stage lists share the three flushable singletons.
MCFlushList == <<rawStore, integrity, sinks, rawStore, integrity, sinks>>

Symm == Permutations(MCEvents)
=============================================================================
