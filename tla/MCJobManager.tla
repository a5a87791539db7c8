---------------------------- MODULE MCJobManager ----------------------------
(***************************************************************************)
(* JobManager on small instances: constants for the .cfg files.            *)
(***************************************************************************)
EXTENDS JobManager, TLC

CONSTANTS j1, j2

\* A coupling behaves at the gate as an ingest does.
MCJobType1 == j1 :> "benchmark"
MCJobType == (j1 :> "benchmark") @@ (j2 :> "ingest")
MCJobTypeCoupling == (j1 :> "benchmark") @@ (j2 :> "coupling")

=============================================================================
