---------------------------- MODULE BufferedDelivery ----------------------------
(***************************************************************************)
(* What a batching sink promises, whatever its buffers, files, timers and  *)
(* retries: a row it has accepted is held until it has reached the server; *)
(* a row goes away without reaching the server only in a step the sink     *)
(* counts as a fault.  A row may reach the server more than once.          *)
(***************************************************************************)
EXTENDS Naturals

CONSTANT Rows

VARIABLES held,      \* accepted rows the sink still answers for
          sent,      \* rows the server has
          discarded, \* rows given up
          faults     \* steps that could give rows up, so far

Init == held = {} /\ sent = {} /\ discarded = {} /\ faults = 0

Accept(r) ==
  /\ r \notin held \cup sent \cup discarded
  /\ held' = held \cup {r} /\ UNCHANGED <<sent, discarded, faults>>

\* Rows reach the server; the sink may not have learnt it yet and hold on to some.
Reach == sent \subseteq sent' /\ sent' \subseteq sent \cup held /\ held' \subseteq held

Land == /\ Reach /\ held \ held' \subseteq sent'
        /\ UNCHANGED <<discarded, faults>>

GiveUp == /\ Reach /\ held \ held' \subseteq sent' \cup discarded'
          /\ discarded \subseteq discarded' /\ discarded' \subseteq discarded \cup held
          /\ faults' = faults + 1

Next == (\E r \in Rows : Accept(r)) \/ Land \/ GiveUp

Spec == Init /\ [][Next]_<<held, sent, discarded, faults>>
=============================================================================
