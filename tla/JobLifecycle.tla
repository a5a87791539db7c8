---------------------------- MODULE JobLifecycle ----------------------------
(***************************************************************************)
(* What the API promises about the status of a job, seen through           *)
(* GET /jobs/{id}: a job is queued once, started at most once and never    *)
(* beside another one, and once it has ended it is never queued or started *)
(* again.  JobManager implements it; Uploads and the clients of the API    *)
(* rely on it.                                                             *)
(***************************************************************************)
CONSTANT Jobs

VARIABLE state

JobStates == {"absent", "queued", "running", "succeeded", "failed", "cancelled"}
Ended == {"succeeded", "failed", "cancelled"}

LInit == state = [j \in Jobs |-> "absent"]

Becomes(j, to) == state' = [state EXCEPT ![j] = to]

Submit(j) == state[j] = "absent" /\ Becomes(j, "queued")

Start(j) ==
  /\ state[j] = "queued"
  /\ \A k \in Jobs : state[k] # "running"
  /\ Becomes(j, "running")

End(j) == state[j] = "running" /\ \E to \in Ended : Becomes(j, to)

\* A cancellation may replace any status a job can show: the one that finds the
\* job queued decides on a status that may be out of date when it is written.
Cancel(j) == state[j] # "absent" /\ Becomes(j, "cancelled")

\* Start-up of the API after the previous process died.
Interrupt == state' = [j \in Jobs |-> IF state[j] = "running" THEN "failed" ELSE state[j]]

LNext == Interrupt \/ \E j \in Jobs : Submit(j) \/ Start(j) \/ End(j) \/ Cancel(j)

LSpec == LInit /\ [][LNext]_state

=============================================================================
