----------------------------- MODULE StateStore -----------------------------
(***************************************************************************)
(* The jobs table of the API adapter (api/cfd_bench_api/state.py).         *)
(*                                                                         *)
(* Every method of StateStore opens a connection, runs one statement in    *)
(* it and commits, so each SQL statement is one atomic action here.  A     *)
(* statement is an UPDATE ... WHERE: when no row matches it changes        *)
(* nothing.  Only the columns that control scheduling are kept; pid is     *)
(* TRUE when the column is not NULL, because a job is started at most once *)
(* (JobManager checks that) and so has at most one pid.                    *)
(***************************************************************************)
EXTENDS Naturals

CONSTANT Jobs       \* the job ids that create_job may hand out

VARIABLES
  status,           \* jobs.status; "absent" while the row does not exist
  cancelRequested,  \* jobs.cancel_requested
  pid,              \* jobs.pid IS NOT NULL
  rowid             \* SQLite rowid, the order in which rows were inserted

storeVars == <<status, cancelRequested, pid, rowid>>

Terminal == {"succeeded", "failed", "cancelled"}

StoreTypeOK ==
  /\ status \in [Jobs -> {"absent", "queued", "running"} \cup Terminal]
  /\ cancelRequested \in [Jobs -> BOOLEAN]
  /\ pid \in [Jobs -> BOOLEAN]
  /\ rowid \in [Jobs -> Nat]

StoreInit ==
  /\ status = [j \in Jobs |-> "absent"]
  /\ cancelRequested = [j \in Jobs |-> FALSE]
  /\ pid = [j \in Jobs |-> FALSE]
  /\ rowid = [j \in Jobs |-> 0]

-----------------------------------------------------------------------------
(* Statements that write.                                                  *)

\* INSERT of a queued row; rowid grows, so it orders rows by insertion.
InsertJob(j, n) ==
  /\ status[j] = "absent"
  /\ \A k \in Jobs : rowid[k] < n
  /\ status' = [status EXCEPT ![j] = "queued"]
  /\ rowid' = [rowid EXCEPT ![j] = n]
  /\ UNCHANGED <<cancelRequested, pid>>

\* The row claim_job's WHERE clause selects.
Claimable(j) == status[j] = "queued" /\ ~cancelRequested[j]

ClaimJob(j) ==
  /\ status' = IF Claimable(j) THEN [status EXCEPT ![j] = "running"] ELSE status
  /\ UNCHANGED <<cancelRequested, pid, rowid>>

\* No status guard: the pid is written whatever became of the row.
SetJobPid(j) ==
  /\ pid' = [pid EXCEPT ![j] = TRUE]
  /\ UNCHANGED <<status, cancelRequested, rowid>>

\* The one conditional UPDATE all three ways of ending a running job share.
EndRowIf(j, cond, final) ==
  /\ status' = IF cond THEN [status EXCEPT ![j] = final] ELSE status
  /\ pid' = IF cond THEN [pid EXCEPT ![j] = FALSE] ELSE pid
  /\ UNCHANGED <<cancelRequested, rowid>>

\* finish_job, which the worker does not use: no status guard.
FinishJobAnyStatus(j, final) == EndRowIf(j, TRUE, final)

FinishJobIfRunning(j, final) == EndRowIf(j, status[j] = "running", final)

CancelUnstartedJob(j) ==
  EndRowIf(j, status[j] = "running" /\ ~pid[j] /\ cancelRequested[j], "cancelled")

CancelRunningForPid(j) ==
  EndRowIf(j, status[j] = "running" /\ pid[j] /\ cancelRequested[j], "cancelled")

\* The UPDATE of request_cancel.  The branch was chosen by an earlier SELECT
\* whose result is seen: the SELECT runs in autocommit mode, so the row may have
\* moved on, and neither UPDATE repeats the status in its WHERE clause.
RequestCancelUpdate(j, seen) ==
  /\ status' = IF seen = "queued" THEN [status EXCEPT ![j] = "cancelled"] ELSE status
  /\ cancelRequested' = IF seen \in {"queued", "running"}
                          THEN [cancelRequested EXCEPT ![j] = TRUE]
                          ELSE cancelRequested
  /\ UNCHANGED <<pid, rowid>>

\* Mutant: start-up leaves the rows alone.
KeepInterruptedJobs == UNCHANGED storeVars

\* Mutant: start-up queues the interrupted jobs again.
RequeueInterruptedJobs ==
  /\ status' = [j \in Jobs |-> IF status[j] = "running" THEN "queued" ELSE status[j]]
  /\ UNCHANGED <<cancelRequested, pid, rowid>>

\* _init_schema at start-up: rows left running by the previous process.
FailInterruptedJobs ==
  /\ status' = [j \in Jobs |-> IF status[j] = "running" THEN "failed" ELSE status[j]]
  /\ UNCHANGED <<cancelRequested, pid, rowid>>

-----------------------------------------------------------------------------
(* Statements that read.                                                   *)

Queued == {j \in Jobs : status[j] = "queued"}

\* Mutant: no ORDER BY.
AnyQueuedJob(j) == j \in Queued

\* ORDER BY created_at, rowid LIMIT 1; created_at never decreases with rowid as
\* long as the wall clock does not step back.
NextQueuedJob(j) == j \in Queued /\ \A k \in Queued : rowid[j] <= rowid[k]

=============================================================================
