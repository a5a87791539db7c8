----------------------------- MODULE JobManager -----------------------------
(***************************************************************************)
(* The single-worker job scheduler (class JobManager,                      *)
(* api/cfd_bench_api/jobs.py) with the HTTP handlers that reach it: job    *)
(* creation, POST /jobs/{id}/cancel, PATCH upload chunks, interactive      *)
(* reads and dataset discovery.  It composes the jobs table (StateStore)   *)
(* and the gate (ExecutionGate) with the worker thread, the cancelling     *)
(* request threads, the kill timers, the subprocesses, and the shutdown,   *)
(* crash and restart of the API process.                                   *)
(*                                                                         *)
(* One step is one SQL statement, one gate method, or one section under    *)
(* _process_lock between two SQL statements.                               *)
(***************************************************************************)
EXTENDS StateStore, ExecutionGate, FiniteSets

CONSTANTS
  JobType,         \* the type each job is created with
  NoJob,           \* the worker holds no job
  Cancellers,      \* cancel requests, one call of JobManager.cancel each
  Uploads,         \* PATCH requests of one chunk each
  Reads,           \* interpolate and inspect-h5 requests
  Browses,         \* GET /datasets requests
  ClientsReturn,   \* TRUE: a finished PATCH, read or browse is followed by another
  HandlesGetLost,  \* TRUE: the "stale in-memory map" of _cancel_by_persisted_pid
  OrphansSurvive,  \* TRUE: subprocesses outlive the API process (own sessions)
  MaxRestarts,     \* bound on ends of the API process, each followed by a restart
  MaxFaults        \* bound on exceptions escaping the worker's own calls

ASSUME JobTypeAssumption == JobType \in [Jobs -> JobTypes]
ASSUME NoJobAssumption == NoJob \notin Jobs
ASSUME JobsFinite == IsFiniteSet(Jobs)
ASSUME ClientsFinite == IsFiniteSet(Uploads) /\ IsFiniteSet(Reads)
ASSUME ClientsDisjoint ==
  Uploads \cap Reads = {} /\ Uploads \cap Browses = {} /\ Reads \cap Browses = {}
ASSUME SwitchesAssumption ==
  /\ ClientsReturn \in BOOLEAN /\ HandlesGetLost \in BOOLEAN /\ OrphansSurvive \in BOOLEAN
  /\ MaxRestarts \in Nat /\ MaxFaults \in Nat
ASSUME CancellersAssumption == {"free", "worker"} \cap Cancellers = {}

VARIABLES
  api,             \* the process: "up", "stopRequested", "joining" (in stop()), "down"
  restarts,
  faults,
  workerPc,        \* where the worker thread is in _loop/_execute
  workerJob,       \* the job it picked
  workerResult,    \* the status computed after process.wait()
  workerRaised,    \* an exception is unwinding _execute
  lock,            \* owner of _process_lock: "free", "worker" or a canceller
  processes,       \* jobs with a Popen handle in _processes
  child,           \* the subprocess of each job
  killTimers,      \* running _kill_if_still_running threads
  pidTimers,       \* running _kill_persisted_pid_if_needed threads
  cancel,          \* per cancel request: pc, target and what it has read
  client           \* per upload, read or browse request: "new", "inside", "done"

workerVars == <<workerPc, workerJob, workerResult, workerRaised>>
processVars == <<processes, child, killTimers, pidTimers>>
apiVars == <<api, restarts, faults>>
vars == <<storeVars, gateVars, apiVars, workerVars, processVars, lock, cancel, client>>

Clients == Uploads \cup Reads \cup Browses
Live == {"alive", "signalled"}              \* signalled: SIGTERM delivered, still running
ChildStates == {"none", "exit0", "exit1"} \cup Live
IdleCancel == [pc |-> "idle", job |-> NoJob, seen |-> "absent", handle |-> FALSE, pid |-> FALSE]
Running(j) == child[j] \in Live

WorkerTypeOK ==
  /\ api \in {"up", "stopRequested", "joining", "down"}
  /\ restarts \in Nat /\ faults \in Nat
  /\ workerPc \in {"idle", "gate", "claim", "open", "start", "unstarted", "popen", "popenFailed",
                   "setPid", "wait", "finalRead", "finish", "pop", "leave", "dead"}
  /\ workerJob \in IF workerPc \in {"idle", "dead"} THEN {NoJob} ELSE Jobs
  /\ workerResult \in Terminal
  /\ workerRaised \in BOOLEAN
  /\ lock \in {"free", "worker"} \cup Cancellers

ProcessTypeOK ==
  /\ processes \in SUBSET Jobs /\ killTimers \in SUBSET Jobs /\ pidTimers \in SUBSET Jobs
  /\ child \in [Jobs -> ChildStates]

CancelRecords ==
  [pc : {"idle", "selected", "updated", "wantLock", "locked", "done"}, job : Jobs \cup {NoJob},
   seen : {"absent", "queued", "running"} \cup Terminal, handle : BOOLEAN, pid : BOOLEAN]

CancelTypeOK ==
  /\ cancel \in [Cancellers -> CancelRecords]
  /\ \A c \in Cancellers : cancel[c].pc # "idle" => cancel[c].job \in Jobs

ClientTypeOK == client \in [Clients -> {"new", "inside", "done"}]

\* One type invariant for the store, the gate and the scheduler together.
TypeOK ==
  StoreTypeOK /\ GateTypeOK /\ WorkerTypeOK /\ ProcessTypeOK /\ CancelTypeOK /\ ClientTypeOK

Init ==
  /\ StoreInit
  /\ GateInit
  /\ api = "up" /\ restarts = 0 /\ faults = 0
  /\ workerPc = "idle" /\ workerJob = NoJob /\ workerResult = "failed" /\ workerRaised = FALSE
  /\ lock = "free"
  /\ processes = {} /\ killTimers = {} /\ pidTimers = {}
  /\ child = [j \in Jobs |-> "none"]
  /\ cancel = [c \in Cancellers |-> IdleCancel]
  /\ client = [k \in Clients |-> "new"]

StopRequested == api \in {"stopRequested", "joining"}
ProcessUp == api # "down"

-----------------------------------------------------------------------------
(* HTTP handlers other than cancel.                                        *)

NextRowid == 1 + Cardinality({j \in Jobs : status[j] # "absent"})

CreateJob(j) ==
  /\ api = "up"
  /\ InsertJob(j, NextRowid)
  /\ UNCHANGED <<gateVars, apiVars, workerVars, processVars, lock, cancel, client>>

ClientMoves(k, to) ==
  /\ client' = [client EXCEPT ![k] = to]
  /\ UNCHANGED <<storeVars, apiVars, workerVars, processVars, lock, cancel>>

Finished == IF ClientsReturn THEN "new" ELSE "done"

\* PATCH of a chunk: admitted, or answered 423 at once.
UploadBegins(k) ==
  /\ api = "up" /\ client[k] = "new"
  /\ BeginUploadChunk
  /\ ClientMoves(k, "inside")

UploadEnds(k) ==
  /\ ProcessUp /\ client[k] = "inside"
  /\ EndUploadChunk
  /\ ClientMoves(k, Finished)

\* POST /interpolate and POST /uploads/{id}/inspect-h5.
ReadBegins(k) ==
  /\ api = "up" /\ client[k] = "new"
  /\ BeginInteractiveRead
  /\ ClientMoves(k, "inside")

ReadEnds(k) ==
  /\ ProcessUp /\ client[k] = "inside"
  /\ EndInteractiveRead
  /\ ClientMoves(k, Finished)

\* Mutant: the request is counted before the test and the rejection keeps it.
RejectedYetCounted(k, admitted) ==
  /\ api = "up" /\ client[k] = "new" /\ ~admitted
  /\ ClientMoves(k, Finished)
  /\ IF k \in Reads
       THEN /\ activeInteractiveReads' = activeInteractiveReads + 1
            /\ UNCHANGED <<activeJobType, activeUploadChunks>>
       ELSE UNCHANGED gateVars

Rejected(k, admitted) ==
  /\ api = "up" /\ client[k] = "new" /\ ~admitted
  /\ ClientMoves(k, Finished)
  /\ UNCHANGED gateVars

UploadRejected(k) == Rejected(k, UploadChunkAdmitted)
ReadRejected(k) == Rejected(k, InteractiveReadAdmitted)
BrowseRejected(k) == Rejected(k, activeJobType # "benchmark")

\* GET /datasets only looks at the gate, then works in a thread outside it.
BrowseBegins(k) ==
  /\ api = "up" /\ client[k] = "new" /\ activeJobType # "benchmark"
  /\ ClientMoves(k, "inside")
  /\ UNCHANGED gateVars

BrowseEnds(k) ==
  /\ ProcessUp /\ client[k] = "inside"
  /\ ClientMoves(k, Finished)
  /\ UNCHANGED gateVars

HandlerStep ==
  \/ \E j \in Jobs : CreateJob(j)
  \/ \E k \in Uploads : UploadBegins(k) \/ UploadEnds(k) \/ UploadRejected(k)
  \/ \E k \in Reads : ReadBegins(k) \/ ReadEnds(k) \/ ReadRejected(k)
  \/ \E k \in Browses : BrowseBegins(k) \/ BrowseEnds(k) \/ BrowseRejected(k)

-----------------------------------------------------------------------------
(* The worker thread: _loop and _execute.                                  *)

WorkerMoves(from, to) ==
  /\ ProcessUp /\ workerPc = from
  /\ workerPc' = to
  /\ UNCHANGED <<apiVars, cancel, client>>

\* Every step but the picking of a job keeps the worker's job; only the last
\* of them touches what an exception left behind.
WorkerKeeps == UNCHANGED <<workerJob, workerRaised>>

\* _loop: the oldest queued row, when stop() has not been called.
PickJob(j) ==
  /\ WorkerMoves("idle", "gate")
  /\ ~StopRequested /\ NextQueuedJob(j)
  /\ workerJob' = j
  /\ UNCHANGED <<storeVars, gateVars, processVars, lock, workerResult, workerRaised>>

JobNoLongerQueued(j) == status[j] # "queued" \/ cancelRequested[j]

\* enter_job returned False: stop() or a cancellation while waiting.
GiveUpAtGate ==
  /\ WorkerMoves("gate", "idle")
  /\ StopRequested \/ JobNoLongerQueued(workerJob)
  /\ workerJob' = NoJob
  /\ UNCHANGED <<storeVars, gateVars, processVars, lock, workerResult, workerRaised>>

PassGate ==
  /\ WorkerMoves("gate", "claim")
  /\ ~(StopRequested \/ JobNoLongerQueued(workerJob))
  /\ EnterJob(JobType[workerJob])
  /\ WorkerKeeps
  /\ UNCHANGED <<storeVars, processVars, lock, workerResult>>

Claim ==
  /\ WorkerMoves("claim", IF Claimable(workerJob) THEN "open" ELSE "pop")
  /\ ClaimJob(workerJob)
  /\ WorkerKeeps
  /\ UNCHANGED <<gateVars, processVars, lock, workerResult>>

\* The log files are open; the pre-start check begins under _process_lock.
TakeLock ==
  /\ WorkerMoves("open", "start")
  /\ lock = "free" /\ lock' = "worker"
  /\ WorkerKeeps
  /\ UNCHANGED <<storeVars, gateVars, processVars, workerResult>>

PreStartCheck ==
  /\ WorkerMoves("start", IF status[workerJob] # "running" \/ cancelRequested[workerJob]
                            THEN "unstarted" ELSE "popen")
  /\ WorkerKeeps
  /\ UNCHANGED <<storeVars, gateVars, processVars, lock, workerResult>>

ConvergeUnstarted ==
  /\ WorkerMoves("unstarted", "pop")
  /\ CancelUnstartedJob(workerJob)
  /\ lock' = "free"
  /\ WorkerKeeps
  /\ UNCHANGED <<gateVars, processVars, workerResult>>

Popen ==
  /\ WorkerMoves("popen", "setPid")
  /\ child' = [child EXCEPT ![workerJob] = "alive"]
  /\ processes' = processes \cup {workerJob}
  /\ WorkerKeeps
  /\ UNCHANGED <<storeVars, gateVars, lock, killTimers, pidTimers, workerResult>>

PopenRaises ==
  /\ WorkerMoves("popen", "popenFailed")
  /\ WorkerKeeps
  /\ UNCHANGED <<storeVars, gateVars, processVars, lock, workerResult>>

FailUnstartable ==
  /\ WorkerMoves("popenFailed", "pop")
  /\ FinishJobIfRunning(workerJob, "failed")
  /\ lock' = "free"
  /\ WorkerKeeps
  /\ UNCHANGED <<gateVars, processVars, workerResult>>

RecordPid ==
  /\ WorkerMoves("setPid", "wait")
  /\ SetJobPid(workerJob)
  /\ lock' = "free"
  /\ WorkerKeeps
  /\ UNCHANGED <<gateVars, processVars, workerResult>>

\* process.wait() returns.
ChildReaped ==
  /\ WorkerMoves("wait", "finalRead")
  /\ ~Running(workerJob)
  /\ WorkerKeeps
  /\ UNCHANGED <<storeVars, gateVars, processVars, lock, workerResult>>

\* Mutant: a command that failed is put back into the queue.
DecideResultRetrying ==
  /\ WorkerMoves("finalRead", "finish")
  /\ workerResult' = IF child[workerJob] = "exit0" THEN "succeeded" ELSE "queued"
  /\ WorkerKeeps
  /\ UNCHANGED <<storeVars, gateVars, processVars, lock>>

\* Mutant: the exit code is not looked at.
DecideResultIgnoringCode ==
  /\ WorkerMoves("finalRead", "finish")
  /\ workerResult' = IF cancelRequested[workerJob] THEN "cancelled" ELSE "succeeded"
  /\ WorkerKeeps
  /\ UNCHANGED <<storeVars, gateVars, processVars, lock>>

\* A cancellation seen here wins over the exit code.
DecideResult ==
  /\ WorkerMoves("finalRead", "finish")
  /\ workerResult' = CASE cancelRequested[workerJob]  -> "cancelled"
                       [] child[workerJob] = "exit0"  -> "succeeded"
                       [] OTHER                       -> "failed"
  /\ WorkerKeeps
  /\ UNCHANGED <<storeVars, gateVars, processVars, lock>>

RecordResult ==
  /\ WorkerMoves("finish", "pop")
  /\ FinishJobIfRunning(workerJob, workerResult)
  /\ WorkerKeeps
  /\ UNCHANGED <<gateVars, processVars, lock, workerResult>>

\* The finally block: forget the handle, leave the gate.
ForgetHandle ==
  /\ WorkerMoves("pop", "leave")
  /\ lock = "free"
  /\ processes' = processes \ {workerJob}
  /\ WorkerKeeps
  /\ UNCHANGED <<storeVars, gateVars, lock, child, killTimers, pidTimers, workerResult>>

\* Mutant: _loop catches what _execute raises and goes on with the next job.
LeaveGateAndContinue ==
  /\ WorkerMoves("leave", "idle")
  /\ LeaveJob
  /\ workerJob' = NoJob /\ workerRaised' = FALSE
  /\ UNCHANGED <<storeVars, processVars, lock, workerResult>>

LeaveGate ==
  /\ WorkerMoves("leave", IF workerRaised THEN "dead" ELSE "idle")
  /\ LeaveJob
  /\ workerJob' = NoJob /\ workerRaised' = FALSE
  /\ UNCHANGED <<storeVars, processVars, lock, workerResult>>

\* A SQLite or file error inside _execute: nothing catches it, so the finally
\* block runs and the thread ends.  Outside the try it ends at once.
WorkerRaises ==
  /\ ProcessUp /\ faults < MaxFaults
  /\ faults' = faults + 1
  /\ \/ /\ workerPc \in {"claim", "open", "start", "unstarted", "popenFailed", "setPid",
                         "finalRead", "finish"}
        /\ workerPc' = "pop" /\ workerRaised' = TRUE
        /\ lock' = IF lock = "worker" THEN "free" ELSE lock
        /\ UNCHANGED workerJob
     \/ /\ workerPc \in {"idle", "gate"}
        /\ workerPc' = "dead" /\ workerJob' = NoJob
        /\ UNCHANGED <<lock, workerRaised>>
  /\ UNCHANGED <<storeVars, gateVars, api, restarts, processVars, workerResult, cancel, client>>

WorkerStep ==
  \/ \E j \in Jobs : PickJob(j)
  \/ GiveUpAtGate \/ PassGate \/ Claim \/ TakeLock \/ PreStartCheck \/ ConvergeUnstarted
  \/ Popen \/ PopenRaises \/ FailUnstartable \/ RecordPid \/ ChildReaped \/ DecideResult
  \/ RecordResult \/ ForgetHandle \/ LeaveGate

-----------------------------------------------------------------------------
(* POST /jobs/{id}/cancel: JobManager.cancel.                              *)

CancelMoves(c, from, rec) ==
  /\ ProcessUp /\ cancel[c].pc = from
  /\ cancel' = [cancel EXCEPT ![c] = rec]
  /\ UNCHANGED <<gateVars, apiVars, workerVars, client>>

\* The SELECT of request_cancel; an unknown job is a 404 and changes nothing.
CancelSelects(c, j) ==
  /\ api = "up" /\ status[j] # "absent"
  /\ CancelMoves(c, "idle", [IdleCancel EXCEPT !.pc = "selected", !.job = j, !.seen = status[j]])
  /\ UNCHANGED <<storeVars, processVars, lock>>

CancelUpdates(c) ==
  /\ CancelMoves(c, "selected", [cancel[c] EXCEPT !.pc = "updated"])
  /\ RequestCancelUpdate(cancel[c].job, cancel[c].seen)
  /\ UNCHANGED <<processVars, lock>>

\* get_job after the commit, and the early return for a job that is not running.
CancelRereads(c) ==
  /\ CancelMoves(c, "updated",
       [cancel[c] EXCEPT !.pc = IF status[cancel[c].job] = "running" THEN "wantLock" ELSE "done"])
  /\ UNCHANGED <<storeVars, processVars, lock>>

\* Under _process_lock: the handle, and the pid of the latest row.
CancelLocks(c) ==
  /\ lock = "free" /\ lock' = c
  /\ CancelMoves(c, "wantLock",
       [cancel[c] EXCEPT !.pc = "locked", !.handle = cancel[c].job \in processes,
                         !.pid = pid[cancel[c].job]])
  /\ UNCHANGED <<storeVars, processVars>>

CancelEnds(c) ==
  /\ CancelMoves(c, "locked", [cancel[c] EXCEPT !.pc = "done"])
  /\ lock' = "free"

HandleRuns(c) == cancel[c].handle /\ Running(cancel[c].job)

\* SIGTERM to the group, and a thread that will SIGKILL it after the grace time.
CancelTerminates(c) ==
  /\ HandleRuns(c)
  /\ CancelEnds(c)
  /\ child' = [child EXCEPT ![cancel[c].job] = "signalled"]
  /\ killTimers' = killTimers \cup {cancel[c].job}
  /\ UNCHANGED <<storeVars, processes, pidTimers>>

\* Claimed, no handle, no pid: the row is converged at once.
CancelConverges(c) ==
  /\ ~HandleRuns(c) /\ ~cancel[c].pid
  /\ CancelEnds(c)
  /\ CancelUnstartedJob(cancel[c].job)
  /\ UNCHANGED processVars

\* _cancel_by_persisted_pid, the subprocess gone from /proc.
CancelFindsPidGone(c) ==
  /\ ~HandleRuns(c) /\ cancel[c].pid /\ ~Running(cancel[c].job)
  /\ CancelEnds(c)
  /\ CancelRunningForPid(cancel[c].job)
  /\ UNCHANGED processVars

\* ... the pid still listed (a zombie, or reused) but not this command.
CancelFindsOtherPid(c) ==
  /\ ~HandleRuns(c) /\ cancel[c].pid /\ ~Running(cancel[c].job)
  /\ CancelEnds(c)
  /\ UNCHANGED <<storeVars, processVars>>

\* ... the subprocess running although no handle is registered.
CancelSignalsPid(c) ==
  /\ ~HandleRuns(c) /\ cancel[c].pid /\ Running(cancel[c].job)
  /\ CancelEnds(c)
  /\ child' = [child EXCEPT ![cancel[c].job] = "signalled"]
  /\ pidTimers' = pidTimers \cup {cancel[c].job}
  /\ UNCHANGED <<storeVars, processes, killTimers>>

Killed(j) == IF Running(j) THEN [child EXCEPT ![j] = "exit1"] ELSE child

\* Mutant: the grace time passes and nothing follows the SIGTERM.
KillTimerIdles(j) ==
  /\ ProcessUp /\ j \in killTimers
  /\ killTimers' = killTimers \ {j}
  /\ UNCHANGED <<storeVars, gateVars, apiVars, workerVars, lock, processes, child, pidTimers,
                 cancel, client>>

\* _kill_if_still_running after the grace time.
KillTimerFires(j) ==
  /\ ProcessUp /\ j \in killTimers
  /\ killTimers' = killTimers \ {j}
  /\ child' = Killed(j)
  /\ UNCHANGED <<storeVars, gateVars, apiVars, workerVars, lock, processes, pidTimers, cancel, client>>

\* _kill_persisted_pid_if_needed after the grace time.
PidTimerFires(j) ==
  /\ ProcessUp /\ j \in pidTimers
  /\ pidTimers' = pidTimers \ {j}
  /\ LET due == status[j] = "running" /\ pid[j] /\ cancelRequested[j]
     IN  /\ child' = IF due THEN Killed(j) ELSE child
         /\ IF due THEN CancelRunningForPid(j) ELSE UNCHANGED storeVars
  /\ UNCHANGED <<gateVars, apiVars, workerVars, lock, processes, killTimers, cancel, client>>

CancelStep(c) ==
  \/ CancelUpdates(c) \/ CancelRereads(c) \/ CancelLocks(c) \/ CancelTerminates(c)
  \/ CancelConverges(c) \/ CancelFindsPidGone(c) \/ CancelFindsOtherPid(c) \/ CancelSignalsPid(c)

-----------------------------------------------------------------------------
(* Subprocesses, shutdown, crash and restart.                              *)

ChildExits(j) ==
  /\ Running(j)
  /\ \E code \in {"exit0", "exit1"} : child' = [child EXCEPT ![j] = code]
  /\ UNCHANGED <<storeVars, gateVars, apiVars, workerVars, lock, processes, killTimers, pidTimers,
                 cancel, client>>

\* What the docstring of _cancel_by_persisted_pid calls a stale in-memory map.
HandleIsLost(j) ==
  /\ HandlesGetLost /\ ProcessUp /\ lock = "free" /\ j \in processes
  /\ processes' = processes \ {j}
  /\ UNCHANGED <<storeVars, gateVars, apiVars, workerVars, lock, child, killTimers, pidTimers,
                 cancel, client>>

\* Lifespan shutdown begins once the HTTP server has drained its requests.
StopBegins ==
  /\ api = "up" /\ restarts < MaxRestarts
  /\ \A k \in Clients : client[k] # "inside"
  /\ \A c \in Cancellers : cancel[c].pc \in {"idle", "done"}
  /\ api' = "stopRequested"
  /\ UNCHANGED <<storeVars, gateVars, restarts, faults, workerVars, processVars, lock, cancel, client>>

\* stop() copies _processes under the lock and sends SIGTERM to each.
StopTerminates ==
  /\ api = "stopRequested" /\ lock = "free"
  /\ api' = "joining"
  /\ child' = [j \in Jobs |-> IF j \in processes /\ Running(j) THEN "signalled" ELSE child[j]]
  /\ UNCHANGED <<storeVars, gateVars, restarts, faults, workerVars, lock, processes, killTimers,
                 pidTimers, cancel, client>>

\* The process ends: the in-memory state, the daemon threads and the requests in
\* flight are gone.  Only the database and perhaps the subprocesses remain.
GoesDown ==
  /\ api' = "down"
  /\ activeJobType' = "none" /\ activeUploadChunks' = 0 /\ activeInteractiveReads' = 0
  /\ workerPc' = "idle" /\ workerJob' = NoJob /\ workerRaised' = FALSE
  /\ lock' = "free"
  /\ processes' = {} /\ killTimers' = {} /\ pidTimers' = {}
  /\ child' = [j \in Jobs |-> IF Running(j) /\ ~OrphansSurvive THEN "exit1" ELSE child[j]]
  /\ cancel' = [c \in Cancellers |-> IF cancel[c].pc = "idle" THEN cancel[c]
                                     ELSE [cancel[c] EXCEPT !.pc = "done"]]
  /\ client' = [k \in Clients |-> IF client[k] = "inside" THEN "done" ELSE client[k]]
  /\ UNCHANGED <<storeVars, restarts, faults, workerResult>>

\* The worker was joined, or the join timed out.
StopReturns == api = "joining" /\ GoesDown

Crash == api \in {"up", "stopRequested"} /\ restarts < MaxRestarts /\ GoesDown

Restart ==
  /\ api = "down" /\ restarts < MaxRestarts
  /\ api' = "up" /\ restarts' = restarts + 1
  /\ FailInterruptedJobs
  /\ UNCHANGED <<gateVars, faults, workerVars, processVars, lock, cancel, client>>

ProcessStep == StopBegins \/ StopTerminates \/ StopReturns \/ Crash \/ Restart

Next ==
  \/ HandlerStep
  \/ WorkerStep
  \/ WorkerRaises
  \/ \E c \in Cancellers : CancelStep(c) \/ \E j \in Jobs : CancelSelects(c, j)
  \/ \E j \in Jobs : KillTimerFires(j) \/ PidTimerFires(j) \/ ChildExits(j) \/ HandleIsLost(j)
  \/ ProcessStep

Spec == Init /\ [][Next]_vars

\* What the operating system and the server guarantee: threads run, sleeps end,
\* a request that was admitted ends.
ThreadFairness ==
  /\ WF_vars(WorkerStep)
  /\ \A c \in Cancellers : WF_vars(CancelStep(c))
  /\ \A j \in Jobs : WF_vars(KillTimerFires(j)) /\ WF_vars(PidTimerFires(j))
  /\ \A k \in Uploads : WF_vars(UploadEnds(k))
  /\ \A k \in Reads : WF_vars(ReadEnds(k))

FairSpec == Spec /\ ThreadFairness

-----------------------------------------------------------------------------
(* Safety.                                                                 *)

Inside(S) == {k \in S : client[k] = "inside"}

\* The gate's counters are the requests inside it: no path through a handler, a
\* rejection or a restart loses or duplicates an end_*, which the max(0, n - 1)
\* of the code would hide.
GateCountsMatch ==
  /\ activeUploadChunks = Cardinality(Inside(Uploads))
  /\ activeInteractiveReads = Cardinality(Inside(Reads))

\* "A benchmark waits for any active upload chunk/interpolation request to
\* finish, then runs exclusively": no chunk and no read overlaps the benchmark's
\* subprocess, and no read overlaps any heavy one, unless an exception has made
\* the worker leave the gate before its subprocess.
HeavyJobsUndisturbed ==
  \A j \in Jobs : Running(j) /\ workerPc # "dead" =>
    /\ Inside(Reads) = {}
    /\ JobType[j] = "benchmark" => Inside(Uploads) = {}

\* Heavy jobs are executed one at a time: two subprocesses never overlap,
\* cancellations, exceptions and restarts included.
OneSubprocess == \A i, j \in Jobs : Running(i) /\ Running(j) => i = j

\* No stale running row: while the process is up, a row says running only while
\* the worker is executing that very job, or an exception has taken the worker
\* away from it (the row then stays until the next start of the API).
RunningIsOwned ==
  \A j \in Jobs : status[j] = "running" /\ api # "down" =>
    \/ /\ workerJob = j
       /\ workerPc \in {"open", "start", "unstarted", "popen", "popenFailed", "setPid", "wait",
                        "finalRead", "finish"}
    \/ workerRaised \/ workerPc = "dead"

\* A job reported succeeded ran, and its command exited with 0: no interleaving
\* of cancellation, shutdown and restart reports a success that did not happen.
SucceededIsHonest == \A j \in Jobs : status[j] = "succeeded" => child[j] = "exit0"

\* Jobs are claimed in the order they were created, although the worker picked
\* the job before it waited at the gate.
ClaimedInOrder ==
  [][\A j, k \in Jobs : status[j] = "queued" /\ status'[j] = "running" /\ status[k] = "queued"
       => rowid[j] <= rowid[k]]_status

\* A job's command is started at most once, whatever is cancelled or restarted.
StartedOnce ==
  [][\A j \in Jobs : child[j] # "none" /\ child[j] # "alive" => child'[j] # "alive"]_child

\* Every step of the scheduler is a step of JobLifecycle or leaves status alone.
Lifecycle == INSTANCE JobLifecycle WITH state <- status
ImplementsLifecycle == Lifecycle!LSpec

-----------------------------------------------------------------------------
(* Liveness.                                                               *)

\* A cancelled job never stays a zombie "running" row: every recorded
\* cancellation reaches an ended status, even if the command ignores SIGTERM
\* and never ends by itself.
CancellationConverges ==
  \A j \in Jobs : cancelRequested[j] ~> status[j] \in Terminal

\* Every queued job is eventually started or cancelled, provided that the
\* commands before it come to an end.
QueueDrains ==
  (\A j \in Jobs : []<>~Running(j)) => \A j \in Jobs : status[j] = "queued" ~> status[j] # "queued"

-----------------------------------------------------------------------------
(* What the documentation says and the code does not do (see the findings  *)
(* in the README).                                                         *)

\* cancel() and the worker share _process_lock, "closing the race where a
\* cancellation could otherwise arrive between the pre-start check and process
\* registration" (jobs.py:122): a job whose row is cancelled is not started.
CancelledNeverStarts ==
  [][\A j \in Jobs : status[j] = "cancelled" /\ child[j] = "none" => child'[j] = "none"]_child

\* "A process that died cannot still own a child job" (state.py:86): a row the
\* start-up declared failed has no subprocess left.
InterruptedIsGone == \A j \in Jobs : api = "up" /\ status[j] = "failed" => ~Running(j)

=============================================================================
