---------------------------- MODULE MCIntegrity ----------------------------
(* Small instances of Integrity for TLC.                                   *)
EXTENDS Integrity, TLC

CONSTANTS e1, e2, e3

MCEvents == {e1, e2, e3}

\* One event may arrive twice.
MCDeliveries == e1 :> 2 @@ e2 :> 1 @@ e3 :> 1
=============================================================================
