-------------------------------- MODULE MCIntake --------------------------------
(***************************************************************************)
(* How events get into the pipeline, on small instances: the file tailer,  *)
(* the stream framing and the process around the listeners.  A behaviour   *)
(* is about one of them and the others stand still.                        *)
(***************************************************************************)
EXTENDS FileTail, SyslogFraming, Runtime

CONSTANTS h1, h2, r1, r2

VARIABLE intake
vars == <<intake, tailVars, framingVars, rtVars>>

\* Every stream of at most five bytes over the bytes the framing looks at ("1", "2",
\* space, line feed, "a"), and those of four bytes with a carriage return.
MCStreams == UNION {[1..n -> {49, 50, SP, LF, 97}] : n \in 0..5} \cup [1..4 -> {50, SP, LF, CR, 97}]
MCRequests == <<h1, h2>>
MCReplayed == <<r1, r2>>

Init == /\ FileTailInit /\ RuntimeInit
        /\ \/ intake = "framing" /\ FramingInit
           \/ /\ intake \in {"tail", "runtime"}
              /\ stream = <<>> /\ fed = 0 /\ buf = <<>> /\ frames = <<>> /\ conn = "eof"

Next == /\ UNCHANGED intake
        /\ \/ intake = "tail" /\ FileTailNext /\ UNCHANGED <<framingVars, rtVars>>
           \/ intake = "framing" /\ FramingNext /\ UNCHANGED <<tailVars, rtVars>>
           \/ intake = "runtime" /\ RuntimeNext /\ UNCHANGED <<tailVars, framingVars>>

Spec == /\ Init /\ [][Next]_vars
        /\ WF_vars(intake = "tail" /\ TailStep /\ UNCHANGED <<intake, framingVars, rtVars>>)
        /\ WF_vars(intake = "runtime" /\ RtProgress /\ UNCHANGED <<intake, tailVars, framingVars>>)
=============================================================================
