------------------------------ MODULE MCOperations ------------------------------
(***************************************************************************)
(* What operators do to a running system, on a small instance: dead        *)
(* letters replayed and days reprocessed.                                  *)
(***************************************************************************)
EXTENDS Recovery

Spec == RecoveryInit /\ [][RecoveryNext]_recVars /\ WF_recVars(RecProgress)
=============================================================================
