-------------------------------- MODULE MCSinks --------------------------------
(***************************************************************************)
(* The sinks on small instances, one at a time: they share no state, so a  *)
(* behaviour picks the sink it is about and the others stand still.        *)
(***************************************************************************)
EXTENDS ParquetSink, Compaction, ClickHouseSink, BestEffortSink, TLC

CONSTANTS e1, e2, e3

VARIABLE sink
vars == <<sink, pqVars, cpVars, chVars, beVars>>

\* Two partitions, one with two events.
MCPartitionOf == e1 :> "firewall" @@ e2 :> "firewall" @@ e3 :> "dns"

Init == /\ sink \in {"parquet", "compaction", "clickhouse", "opensearch"}
        /\ ParquetInit /\ CompactionInit /\ ClickHouseInit /\ BestEffortInit

Next == /\ UNCHANGED sink
        /\ \/ sink = "parquet" /\ ParquetNext /\ UNCHANGED <<cpVars, chVars, beVars>>
           \/ sink = "compaction" /\ CompactionNext /\ UNCHANGED <<pqVars, chVars, beVars>>
           \/ sink = "clickhouse" /\ ClickHouseNext /\ UNCHANGED <<pqVars, cpVars, beVars>>
           \/ sink = "opensearch" /\ BestEffortNext /\ UNCHANGED <<pqVars, cpVars, chVars>>

Spec == /\ Init /\ [][Next]_vars
        /\ WF_vars(sink = "clickhouse" /\ ChProgress /\ UNCHANGED <<sink, pqVars, cpVars, beVars>>)
        /\ WF_vars(sink = "opensearch" /\ BeProgress /\ UNCHANGED <<sink, pqVars, cpVars, chVars>>)
=============================================================================
