-------------------------- MODULE JobManagerProofs --------------------------
(***************************************************************************)
(* Theorems about JobManager, for any set of jobs, cancellations and       *)
(* clients and any bounds.                                                 *)
(***************************************************************************)
EXTENDS JobManager, FiniteSetTheorems, TLAPS

USE JobTypeAssumption, NoJobAssumption, SwitchesAssumption, CancellersAssumption

-----------------------------------------------------------------------------
(* Type correctness.                                                       *)

LEMMA NextRowidType == NextRowid \in Nat
<1>1. IsFiniteSet({j \in Jobs : status[j] # "absent"})
  BY JobsFinite, FS_Subset
<1> QED
  BY <1>1, FS_CardinalityType DEF NextRowid

LEMMA InitType == Init => TypeOK
<1> SUFFICES ASSUME Init PROVE TypeOK
  OBVIOUS
<1>1. StoreTypeOK
  BY DEF Init, StoreInit, StoreTypeOK
<1>2. GateTypeOK
  BY DEF Init, GateInit, GateTypeOK
<1>3. WorkerTypeOK
  BY DEF Init, WorkerTypeOK, Terminal
<1>4. ProcessTypeOK
  BY DEF Init, ProcessTypeOK, ChildStates
<1>5. CancelTypeOK
  BY DEF Init, CancelTypeOK, CancelRecords, IdleCancel
<1>6. ClientTypeOK
  BY DEF Init, ClientTypeOK
<1> QED
  BY <1>1, <1>2, <1>3, <1>4, <1>5, <1>6 DEF TypeOK

\* What a step leaves alone keeps its type.
LEMMA Framed ==
  ASSUME TypeOK
  PROVE  /\ UNCHANGED storeVars => StoreTypeOK'
         /\ UNCHANGED gateVars => GateTypeOK'
         /\ UNCHANGED <<apiVars, workerVars, lock>> => WorkerTypeOK'
         /\ UNCHANGED processVars => ProcessTypeOK'
         /\ UNCHANGED cancel => CancelTypeOK'
         /\ UNCHANGED client => ClientTypeOK'
<1>1. UNCHANGED storeVars => StoreTypeOK'
  BY DEF TypeOK, storeVars, StoreTypeOK
<1>2. UNCHANGED gateVars => GateTypeOK'
  BY DEF TypeOK, gateVars, GateTypeOK
<1>3. UNCHANGED <<apiVars, workerVars, lock>> => WorkerTypeOK'
  BY DEF TypeOK, apiVars, workerVars, WorkerTypeOK
<1>4. UNCHANGED processVars => ProcessTypeOK'
  BY DEF TypeOK, processVars, ProcessTypeOK
<1>5. (UNCHANGED cancel => CancelTypeOK') /\ (UNCHANGED client => ClientTypeOK')
  BY DEF TypeOK, CancelTypeOK, ClientTypeOK
<1> QED
  BY <1>1, <1>2, <1>3, <1>4, <1>5

\* The statements of the jobs table, for any job.
LEMMA StatementsType ==
  ASSUME TypeOK, NEW j \in Jobs \cup {NoJob}
  PROVE  /\ \A n \in Nat : InsertJob(j, n) => StoreTypeOK'
         /\ \A final \in Terminal : FinishJobIfRunning(j, final) => StoreTypeOK'
         /\ CancelUnstartedJob(j) \/ CancelRunningForPid(j) => StoreTypeOK'
         /\ ClaimJob(j) \/ SetJobPid(j) => StoreTypeOK'
         /\ \A seen : RequestCancelUpdate(j, seen) => StoreTypeOK'
<1> USE DEF TypeOK, StoreTypeOK, Terminal
<1>1. \A n \in Nat : InsertJob(j, n) => StoreTypeOK'
  BY DEF InsertJob
<1>2. \A final \in Terminal : FinishJobIfRunning(j, final) => StoreTypeOK'
  BY DEF FinishJobIfRunning, EndRowIf
<1>3. CancelUnstartedJob(j) \/ CancelRunningForPid(j) => StoreTypeOK'
  BY DEF CancelUnstartedJob, CancelRunningForPid, EndRowIf
<1>4. ClaimJob(j) \/ SetJobPid(j) => StoreTypeOK'
  BY DEF ClaimJob, SetJobPid
<1>5. \A seen : RequestCancelUpdate(j, seen) => StoreTypeOK'
  BY DEF RequestCancelUpdate
<1> QED
  BY <1>1, <1>2, <1>3, <1>4, <1>5

LEMMA ClientType ==
  ASSUME TypeOK, NEW k, NEW to \in {"new", "inside", "done"}, ClientMoves(k, to), GateTypeOK'
  PROVE  TypeOK'
<1>1. ClientTypeOK'
  BY DEF TypeOK, ClientTypeOK, ClientMoves
<1> QED
  BY <1>1, Framed DEF ClientMoves, TypeOK, workerVars, processVars

LEMMA HandlerType == TypeOK /\ HandlerStep => TypeOK'
<1> SUFFICES ASSUME TypeOK, HandlerStep PROVE TypeOK'
  OBVIOUS
<1>0. Finished \in {"new", "inside", "done"}
  BY DEF Finished
<1>1. ASSUME NEW j \in Jobs, CreateJob(j) PROVE TypeOK'
  BY <1>1, NextRowidType, StatementsType, Framed DEF CreateJob, TypeOK, Terminal
<1>2. ASSUME NEW k, UploadBegins(k) \/ UploadEnds(k) \/ ReadBegins(k) \/ ReadEnds(k)
      PROVE TypeOK'
  <2>1. GateTypeOK'
    BY <1>2 DEF TypeOK, GateTypeOK, UploadBegins, BeginUploadChunk, UploadEnds, EndUploadChunk,
                ReadBegins, BeginInteractiveRead, ReadEnds, EndInteractiveRead, Decremented
  <2> QED
    BY <1>0, <1>2, <2>1, ClientType DEF UploadBegins, UploadEnds, ReadBegins, ReadEnds
<1>3. ASSUME NEW k, NEW ok, Rejected(k, ok) PROVE TypeOK'
  BY <1>0, <1>3, ClientType, Framed DEF Rejected
<1>4. ASSUME NEW k, BrowseBegins(k) \/ BrowseEnds(k) PROVE TypeOK'
  BY <1>0, <1>4, ClientType, Framed DEF BrowseBegins, BrowseEnds
<1> QED
  BY <1>1, <1>2, <1>3, <1>4 DEF HandlerStep, UploadRejected, ReadRejected, BrowseRejected

\* A worker step keeps its types when the four parts it may touch keep theirs.
LEMMA WorkerMoveType ==
  ASSUME TypeOK, NEW from, NEW to \in {"idle", "gate", "claim", "open", "start", "unstarted",
           "popen", "popenFailed", "setPid", "wait", "finalRead", "finish", "pop", "leave", "dead"},
         WorkerMoves(from, to),
         workerJob' \in IF to \in {"idle", "dead"} THEN {NoJob} ELSE Jobs,
         workerResult' \in Terminal, workerRaised' \in BOOLEAN,
         lock' \in {"free", "worker", lock},
         StoreTypeOK', GateTypeOK', ProcessTypeOK'
  PROVE  TypeOK'
<1>1. WorkerTypeOK'
  BY DEF WorkerMoves, TypeOK, WorkerTypeOK, apiVars
<1> QED
  BY <1>1, Framed DEF WorkerMoves, TypeOK

PCs == {"gate", "claim", "open", "start", "unstarted", "popen", "popenFailed", "setPid", "wait",
        "finalRead", "finish", "pop", "leave"}

LEMMA WorkerKeepsType ==
  ASSUME TypeOK, NEW from \in PCs, NEW to \in PCs, WorkerMoves(from, to), WorkerKeeps,
         workerResult' \in Terminal, lock' \in {"free", "worker", lock},
         StoreTypeOK', GateTypeOK', ProcessTypeOK'
  PROVE  TypeOK'
<1>1. WorkerTypeOK'
  BY DEF WorkerMoves, WorkerKeeps, TypeOK, WorkerTypeOK, apiVars, PCs
<1> QED
  BY <1>1, Framed DEF WorkerMoves, TypeOK

LEMMA WorkerType == TypeOK /\ WorkerStep => TypeOK'
<1> SUFFICES ASSUME TypeOK, WorkerStep PROVE TypeOK'
  OBVIOUS
<1>0. /\ workerPc \in PCs => workerJob \in Jobs
      /\ workerJob \in Jobs \cup {NoJob}
      /\ workerResult \in Terminal /\ workerRaised \in BOOLEAN
      /\ "failed" \in Terminal
  BY DEF TypeOK, WorkerTypeOK, Terminal, PCs
<1>1. ASSUME NEW j \in Jobs, PickJob(j) PROVE TypeOK'
  BY <1>0, <1>1, WorkerMoveType, Framed DEF PickJob
<1>2. CASE GiveUpAtGate
  BY <1>0, <1>2, WorkerMoveType, Framed DEF GiveUpAtGate
<1>3. CASE PassGate
  <2>1. GateTypeOK'
    BY <1>0, <1>3, JobTypeAssumption
       DEF PassGate, WorkerMoves, PCs, EnterJob, TypeOK, GateTypeOK
  <2> QED
    BY <1>0, <1>3, <2>1, WorkerKeepsType, Framed DEF PassGate, PCs
<1>4. CASE Claim
  BY <1>0, <1>4, WorkerKeepsType, StatementsType, Framed DEF Claim, PCs
<1>5. CASE TakeLock \/ PreStartCheck \/ PopenRaises \/ ChildReaped
  BY <1>0, <1>5, WorkerKeepsType, Framed
     DEF TakeLock, PreStartCheck, PopenRaises, ChildReaped, PCs
<1>6. CASE ConvergeUnstarted \/ FailUnstartable \/ RecordPid \/ RecordResult
  BY <1>0, <1>6, WorkerKeepsType, StatementsType, Framed
     DEF ConvergeUnstarted, FailUnstartable, RecordPid, RecordResult, PCs
<1>7. CASE Popen \/ ForgetHandle
  <2>1. ProcessTypeOK'
    BY <1>0, <1>7 DEF Popen, ForgetHandle, TypeOK, ProcessTypeOK, ChildStates, Live, WorkerMoves, PCs
  <2> QED
    BY <1>0, <1>7, <2>1, WorkerKeepsType, Framed DEF Popen, ForgetHandle, PCs
<1>8. CASE DecideResult
  <2>1. workerResult' \in Terminal
    BY <1>8 DEF DecideResult, Terminal
  <2> QED
    BY <1>0, <1>8, <2>1, WorkerKeepsType, Framed DEF DecideResult, PCs
<1>9. CASE LeaveGate
  <2>1. GateTypeOK'
    BY <1>9 DEF LeaveGate, LeaveJob, TypeOK, GateTypeOK
  <2> QED
    BY <1>0, <1>9, <2>1, WorkerMoveType, Framed DEF LeaveGate
<1> QED
  BY <1>1, <1>2, <1>3, <1>4, <1>5, <1>6, <1>7, <1>8, <1>9 DEF WorkerStep

\* The record a cancellation leaves, and the parts it may touch.
LEMMA CancelMoveType ==
  ASSUME TypeOK, NEW c \in Cancellers, NEW from, NEW rec \in CancelRecords, rec.job \in Jobs,
         CancelMoves(c, from, rec), lock' \in {"free", c, lock}, StoreTypeOK', ProcessTypeOK'
  PROVE  TypeOK'
<1>1. CancelTypeOK'
  BY DEF CancelMoves, TypeOK, CancelTypeOK
<1>2. WorkerTypeOK'
  BY DEF CancelMoves, TypeOK, WorkerTypeOK, apiVars, workerVars
<1> QED
  BY <1>1, <1>2, Framed DEF CancelMoves, TypeOK

LEMMA CancelSelectsType ==
  ASSUME TypeOK, NEW c \in Cancellers, NEW j \in Jobs, CancelSelects(c, j)
  PROVE  TypeOK'
<1> DEFINE rec == [IdleCancel EXCEPT !.pc = "selected", !.job = j, !.seen = status[j]]
<1>1. rec \in CancelRecords /\ rec.job \in Jobs
  BY DEF CancelRecords, IdleCancel, TypeOK, StoreTypeOK
<1> HIDE DEF rec
<1>2. CancelMoves(c, "idle", rec)
  BY DEF CancelSelects, rec
<1> QED
  BY <1>1, <1>2, CancelMoveType, Framed DEF CancelSelects

LEMMA CancelEndsType ==
  ASSUME TypeOK, NEW c \in Cancellers, CancelEnds(c), StoreTypeOK', ProcessTypeOK'
  PROVE  TypeOK'
<1> DEFINE rec == [cancel[c] EXCEPT !.pc = "done"]
<1>1. cancel[c] \in CancelRecords /\ cancel[c].pc # "idle"
  BY DEF TypeOK, CancelTypeOK, CancelEnds, CancelMoves
<1>2. rec \in CancelRecords /\ rec.job \in Jobs
  BY <1>1 DEF CancelRecords, TypeOK, CancelTypeOK
<1> HIDE DEF rec
<1>3. CancelMoves(c, "locked", rec) /\ lock' = "free"
  BY DEF CancelEnds, rec
<1> QED
  BY <1>2, <1>3, CancelMoveType

LEMMA CancelType ==
  ASSUME TypeOK, NEW c \in Cancellers, CancelStep(c)
  PROVE  TypeOK'
<1>0. /\ cancel[c] \in CancelRecords
      /\ cancel[c].pc # "idle"
      /\ cancel[c].job \in Jobs
      /\ pid[cancel[c].job] \in BOOLEAN
  BY DEF CancelStep, CancelUpdates, CancelRereads, CancelLocks, CancelTerminates, CancelConverges,
         CancelFindsPidGone, CancelFindsOtherPid, CancelSignalsPid, CancelEnds, CancelMoves,
         TypeOK, CancelTypeOK, StoreTypeOK
<1>1. CASE CancelUpdates(c)
  <2> DEFINE rec == [cancel[c] EXCEPT !.pc = "updated"]
  <2>1. rec \in CancelRecords /\ rec.job \in Jobs
    BY <1>0 DEF CancelRecords
  <2> HIDE DEF rec
  <2>2. CancelMoves(c, "selected", rec)
    BY <1>1 DEF CancelUpdates, rec
  <2> QED
    BY <1>0, <1>1, <2>1, <2>2, CancelMoveType, StatementsType, Framed DEF CancelUpdates
<1>2. CASE CancelRereads(c)
  <2> DEFINE rec == [cancel[c] EXCEPT !.pc = IF status[cancel[c].job] = "running"
                                               THEN "wantLock" ELSE "done"]
  <2>1. rec \in CancelRecords /\ rec.job \in Jobs
    BY <1>0 DEF CancelRecords
  <2> HIDE DEF rec
  <2>2. CancelMoves(c, "updated", rec)
    BY <1>2 DEF CancelRereads, rec
  <2> QED
    BY <1>2, <2>1, <2>2, CancelMoveType, Framed DEF CancelRereads
<1>3. CASE CancelLocks(c)
  <2> DEFINE held == cancel[c].job \in processes
             rec == [cancel[c] EXCEPT !.pc = "locked", !.handle = held,
                                      !.pid = pid[cancel[c].job]]
  <2>0. held \in BOOLEAN
    OBVIOUS
  <2> HIDE DEF held
  <2>1. rec \in CancelRecords /\ rec.job \in Jobs
    BY <1>0, <2>0 DEF CancelRecords
  <2> HIDE DEF rec
  <2>2. CancelMoves(c, "wantLock", rec)
    BY <1>3 DEF CancelLocks, rec, held
  <2> QED
    BY <1>3, <2>1, <2>2, CancelMoveType, Framed DEF CancelLocks
<1>4. CASE CancelTerminates(c) \/ CancelSignalsPid(c)
  <2>1. ProcessTypeOK /\ "signalled" \in ChildStates
    BY DEF TypeOK, ChildStates, Live
  <2>2. child' \in [Jobs -> ChildStates]
    BY <1>0, <1>4, <2>1 DEF CancelTerminates, CancelSignalsPid, ProcessTypeOK
  <2>3. ProcessTypeOK'
    BY <1>0, <1>4, <2>1, <2>2 DEF CancelTerminates, CancelSignalsPid, ProcessTypeOK
  <2> QED
    BY <1>4, <2>3, CancelEndsType, Framed DEF CancelTerminates, CancelSignalsPid
<1>5. CASE CancelConverges(c) \/ CancelFindsPidGone(c) \/ CancelFindsOtherPid(c)
  <2>1. StoreTypeOK'
    BY <1>0, <1>5, StatementsType, Framed
       DEF CancelConverges, CancelFindsPidGone, CancelFindsOtherPid
  <2>2. ProcessTypeOK' /\ CancelEnds(c)
    BY <1>5, Framed DEF CancelConverges, CancelFindsPidGone, CancelFindsOtherPid
  <2> QED
    BY <2>1, <2>2, CancelEndsType
<1> QED
  BY <1>1, <1>2, <1>3, <1>4, <1>5 DEF CancelStep

LEMMA TimersType ==
  ASSUME TypeOK, NEW j \in Jobs,
         KillTimerFires(j) \/ PidTimerFires(j) \/ ChildExits(j) \/ HandleIsLost(j)
  PROVE  TypeOK'
<1>1. ProcessTypeOK'
  BY DEF KillTimerFires, PidTimerFires, ChildExits, HandleIsLost, Killed, TypeOK, ProcessTypeOK,
         ChildStates, Live
<1>2. StoreTypeOK'
  <2>1. ASSUME PidTimerFires(j) PROVE CancelRunningForPid(j) \/ UNCHANGED storeVars
    BY <2>1 DEF PidTimerFires
  <2> QED
    BY <2>1, StatementsType, Framed DEF KillTimerFires, ChildExits, HandleIsLost
<1> QED
  BY <1>1, <1>2, Framed DEF KillTimerFires, PidTimerFires, ChildExits, HandleIsLost, TypeOK

LEMMA RaisesType == TypeOK /\ WorkerRaises => TypeOK'
<1> SUFFICES ASSUME TypeOK, WorkerRaises PROVE TypeOK'
  OBVIOUS
<1>1. WorkerTypeOK'
  <2>1. faults' \in Nat
    BY DEF WorkerRaises, TypeOK, WorkerTypeOK
  <2>2. CASE workerPc \in PCs /\ workerPc # "gate"
    BY <2>1, <2>2 DEF WorkerRaises, TypeOK, WorkerTypeOK, PCs
  <2>3. CASE workerPc \in {"idle", "gate"}
    BY <2>1, <2>3 DEF WorkerRaises, TypeOK, WorkerTypeOK
  <2> QED
    BY <2>2, <2>3 DEF WorkerRaises, PCs
<1> QED
  BY <1>1, Framed DEF WorkerRaises, TypeOK

LEMMA GoesDownType == TypeOK /\ GoesDown => TypeOK'
<1> SUFFICES ASSUME TypeOK, GoesDown PROVE TypeOK'
  OBVIOUS
<1>1. GateTypeOK'
  BY DEF GoesDown, GateTypeOK
<1>2. WorkerTypeOK'
  BY DEF GoesDown, TypeOK, WorkerTypeOK
<1>3. ProcessTypeOK'
  BY DEF GoesDown, TypeOK, ProcessTypeOK, ChildStates, Live
<1>4. CancelTypeOK'
  BY DEF GoesDown, TypeOK, CancelTypeOK, CancelRecords
<1>5. ClientTypeOK'
  BY DEF GoesDown, TypeOK, ClientTypeOK
<1> QED
  BY <1>1, <1>2, <1>3, <1>4, <1>5, Framed DEF GoesDown, TypeOK

LEMMA ProcessType == TypeOK /\ ProcessStep => TypeOK'
<1> SUFFICES ASSUME TypeOK, ProcessStep PROVE TypeOK'
  OBVIOUS
<1>1. CASE StopBegins
  <2>1. WorkerTypeOK'
    BY <1>1 DEF StopBegins, TypeOK, WorkerTypeOK, workerVars
  <2> QED
    BY <1>1, <2>1, Framed DEF StopBegins, TypeOK
<1>2. CASE StopTerminates
  <2>1. WorkerTypeOK'
    BY <1>2 DEF StopTerminates, TypeOK, WorkerTypeOK, workerVars
  <2>2. ProcessTypeOK'
    BY <1>2 DEF StopTerminates, TypeOK, ProcessTypeOK, ChildStates, Live
  <2> QED
    BY <1>2, <2>1, <2>2, Framed DEF StopTerminates, TypeOK
<1>3. CASE StopReturns \/ Crash
  BY <1>3, GoesDownType DEF StopReturns, Crash
<1>4. CASE Restart
  <2>1. WorkerTypeOK'
    BY <1>4 DEF Restart, TypeOK, WorkerTypeOK, workerVars
  <2>2. StoreTypeOK'
    BY <1>4 DEF Restart, FailInterruptedJobs, TypeOK, StoreTypeOK, Terminal
  <2> QED
    BY <1>4, <2>1, <2>2, Framed DEF Restart, TypeOK
<1> QED
  BY <1>1, <1>2, <1>3, <1>4 DEF ProcessStep

LEMMA TypeStep == TypeOK /\ [Next]_vars => TypeOK'
<1> SUFFICES ASSUME TypeOK, [Next]_vars PROVE TypeOK'
  OBVIOUS
<1>1. CASE UNCHANGED vars
  BY <1>1, Framed DEF vars, TypeOK
<1> QED
  BY <1>1, HandlerType, WorkerType, RaisesType, CancelType, CancelSelectsType, TimersType,
     ProcessType DEF Next

\* Every variable of the scheduler keeps its type, for any number of jobs,
\* cancellations, clients, restarts and faults.
THEOREM TypeCorrect == Spec => []TypeOK
<1>1. Init => TypeOK
  BY InitType
<1>2. TypeOK /\ [Next]_vars => TypeOK'
  BY TypeStep
<1> QED
  BY <1>1, <1>2, PTL DEF Spec

-----------------------------------------------------------------------------
(* The inductive invariant: what the rows, the worker and the subprocesses *)
(* know of each other.                                                     *)

Executing == {"open", "start", "unstarted", "popen", "popenFailed", "setPid", "wait",
              "finalRead", "finish"}
BeforeStart == {"gate", "claim", "open", "start", "unstarted", "popen", "popenFailed"}

\* An exception unwinds through the finally block; a process that is down has
\* no worker.
RaisedInv ==
  /\ workerRaised => workerPc \in {"pop", "leave"}
  /\ api = "down" => workerPc = "idle"

\* RunningIsOwned, with the ways in which a row may be left behind.
OwnedInv == \A j \in Jobs : status[j] = "running" =>
  \/ api = "down" \/ workerPc = "dead" \/ workerRaised
  \/ workerJob = j /\ workerPc \in Executing

\* A job that was not claimed, or not started yet, has no pid and no child.
FreshInv ==
  /\ \A j \in Jobs : status[j] \in {"absent", "queued"} => ~pid[j] /\ child[j] = "none"
  /\ workerPc \in BeforeStart => ~pid[workerJob] /\ child[workerJob] = "none"

\* The pre-start check gave up because of a cancellation, so the UPDATE of
\* cancel_unstarted_job will match the row.
UnstartedInv ==
  workerPc = "unstarted" /\ status[workerJob] = "running" => cancelRequested[workerJob]

\* What process.wait() returned stays true.
EndedInv ==
  /\ workerPc \in {"finalRead", "finish"} => ~Running(workerJob)
  /\ workerPc = "finish" /\ workerResult = "succeeded" => child[workerJob] = "exit0"

\* The worker and the cancellations work on rows that exist.
KnownInv ==
  /\ \A c \in Cancellers : cancel[c].pc # "idle" => status[cancel[c].job] # "absent"
  /\ workerPc \notin {"idle", "dead"} => status[workerJob] # "absent"
  /\ workerPc \in Executing => status[workerJob] # "queued"

\* The job picked is still the oldest: later rows have larger rowids.
OrderInv ==
  workerPc \in {"gate", "claim"} =>
    \A k \in Jobs : status[k] = "queued" => rowid[workerJob] <= rowid[k]

IInv ==
  TypeOK /\ RaisedInv /\ OwnedInv /\ FreshInv /\ UnstartedInv /\ EndedInv /\ KnownInv /\ OrderInv
    /\ SucceededIsHonest

\* What every step does that is neither the worker's nor create_job nor the end
\* or start of the process.
Bystander ==
  /\ UNCHANGED <<workerVars, rowid>>
  /\ (api' = "down") <=> (api = "down")
  /\ \/ UNCHANGED status
     \/ \E j \in Jobs : status[j] # "absent" /\ status' = [status EXCEPT ![j] = "cancelled"]
  /\ \A j \in Jobs : (cancelRequested[j] => cancelRequested'[j]) /\ (pid'[j] => pid[j])
  /\ \A j \in Jobs : child'[j] = child[j] \/ (Running(j) /\ child'[j] # "none" /\ child'[j] # "alive")
  /\ \A c \in Cancellers : cancel'[c].pc # "idle" => status[cancel'[c].job] # "absent"

LEMMA HandlerBystander ==
  ASSUME IInv, HandlerStep
  PROVE  Bystander \/ \E j \in Jobs : CreateJob(j)
<1>1. ASSUME NEW k, NEW to, ClientMoves(k, to) PROVE Bystander
  BY <1>1 DEF Bystander, ClientMoves, storeVars, workerVars, processVars, apiVars, IInv, KnownInv
<1> QED
  BY <1>1 DEF HandlerStep, UploadBegins, UploadEnds, ReadBegins, ReadEnds, UploadRejected,
              ReadRejected, BrowseRejected, Rejected, BrowseBegins, BrowseEnds

\* A cancellation under way keeps to its job and leaves the others alone.
LEMMA CancelKeepsJob ==
  ASSUME TypeOK, NEW c \in Cancellers, CancelStep(c)
  PROVE  /\ cancel'[c].job = cancel[c].job /\ cancel[c].pc # "idle"
         /\ \A d \in Cancellers : d # c => cancel'[d] = cancel[d]
         /\ UNCHANGED <<workerVars, apiVars, gateVars, client>>
<1>0. cancel \in [Cancellers -> CancelRecords] /\ cancel[c] \in CancelRecords
  BY DEF TypeOK, CancelTypeOK
<1>1. ASSUME NEW from, NEW rec, CancelMoves(c, from, rec), from # "idle", rec.job = cancel[c].job
      PROVE  /\ cancel'[c].job = cancel[c].job /\ cancel[c].pc # "idle"
             /\ \A d \in Cancellers : d # c => cancel'[d] = cancel[d]
             /\ UNCHANGED <<workerVars, apiVars, gateVars, client>>
  BY <1>0, <1>1 DEF CancelMoves, workerVars, apiVars
<1>2. \A x, y, z : /\ [cancel[c] EXCEPT !.pc = x].job = cancel[c].job
                  /\ [cancel[c] EXCEPT !.pc = x, !.handle = y, !.pid = z].job = cancel[c].job
  BY <1>0 DEF CancelRecords
<1>3. CASE CancelUpdates(c)
  BY <1>1, <1>2, <1>3 DEF CancelUpdates
<1>4. CASE CancelRereads(c)
  BY <1>1, <1>2, <1>4 DEF CancelRereads
<1>5. CASE CancelLocks(c)
  <2> DEFINE held == cancel[c].job \in processes
             known == pid[cancel[c].job]
             rec == [cancel[c] EXCEPT !.pc = "locked", !.handle = held, !.pid = known]
  <2>1. CancelMoves(c, "wantLock", rec)
    BY <1>5 DEF CancelLocks
  <2> HIDE DEF held, known
  <2>2. rec.job = cancel[c].job
    BY <1>2
  <2> HIDE DEF rec
  <2> QED
    BY <1>1, <2>1, <2>2
<1>6. CASE CancelEnds(c)
  BY <1>1, <1>2, <1>6 DEF CancelEnds
<1> QED
  BY <1>3, <1>4, <1>5, <1>6 DEF CancelStep, CancelTerminates, CancelConverges,
     CancelFindsPidGone, CancelFindsOtherPid, CancelSignalsPid

\* The statements other requests run on a row that exists, as bystanders see them.
RowEffect ==
  /\ UNCHANGED rowid
  /\ \/ UNCHANGED status
     \/ \E j \in Jobs : status[j] # "absent" /\ status' = [status EXCEPT ![j] = "cancelled"]
  /\ \A j \in Jobs : (cancelRequested[j] => cancelRequested'[j]) /\ (pid'[j] => pid[j])

LEMMA CancelRowEffect ==
  ASSUME TypeOK, NEW j \in Jobs
  PROVE  /\ CancelUnstartedJob(j) \/ CancelRunningForPid(j) => RowEffect
         /\ status[j] # "absent" => \A seen : RequestCancelUpdate(j, seen) => RowEffect
         /\ UNCHANGED storeVars => RowEffect
BY DEF CancelUnstartedJob, CancelRunningForPid, EndRowIf, RequestCancelUpdate, RowEffect, storeVars,
       TypeOK, StoreTypeOK

ChildEffect ==
  \A j \in Jobs : child'[j] = child[j] \/ (Running(j) /\ child'[j] # "none" /\ child'[j] # "alive")

LEMMA SignalEffect ==
  ASSUME TypeOK, NEW j \in Jobs, Running(j), NEW to, to # "none", to # "alive",
         child' = [child EXCEPT ![j] = to]
  PROVE  ChildEffect
BY DEF ChildEffect, TypeOK, ProcessTypeOK

LEMMA CancelBystander ==
  ASSUME IInv, NEW c \in Cancellers, CancelStep(c) \/ \E j \in Jobs : CancelSelects(c, j)
  PROVE  Bystander
<1>0. TypeOK /\ KnownInv
  BY DEF IInv
<1>1. ASSUME NEW j \in Jobs, CancelSelects(c, j) PROVE Bystander
  <2>1. cancel'[c].job = j \/ cancel'[c].pc = "idle"
    BY <1>0, <1>1 DEF CancelSelects, CancelMoves, IdleCancel, TypeOK, CancelTypeOK
  <2>2. \A d \in Cancellers : d # c => cancel'[d] = cancel[d]
    BY <1>0, <1>1 DEF CancelSelects, CancelMoves, TypeOK, CancelTypeOK
  <2>3. \A d \in Cancellers : cancel'[d].pc # "idle" => status[cancel'[d].job] # "absent"
    BY <1>0, <1>1, <2>1, <2>2 DEF CancelSelects, KnownInv
  <2> QED
    BY <1>1, <2>3
       DEF CancelSelects, CancelMoves, Bystander, storeVars, workerVars, processVars, apiVars
<1>2. CASE CancelStep(c)
  <2>1. cancel[c].job \in Jobs /\ status[cancel[c].job] # "absent"
    BY <1>0, <1>2, CancelKeepsJob DEF KnownInv, TypeOK, CancelTypeOK
  <2>2. \A d \in Cancellers : cancel'[d].pc # "idle" => status[cancel'[d].job] # "absent"
    BY <1>0, <1>2, <2>1, CancelKeepsJob DEF KnownInv
  <2>3. RowEffect
    BY <1>0, <1>2, <2>1, CancelRowEffect DEF CancelStep, CancelUpdates, CancelRereads, CancelLocks,
       CancelTerminates, CancelConverges, CancelFindsPidGone, CancelFindsOtherPid, CancelSignalsPid
  <2>4. ChildEffect
    <3>1. CASE UNCHANGED processVars
      BY <3>1 DEF processVars, ChildEffect
    <3>2. CASE CancelTerminates(c) \/ CancelSignalsPid(c)
      BY <1>0, <2>1, <3>2, SignalEffect DEF CancelTerminates, CancelSignalsPid, HandleRuns
    <3> QED
      BY <1>2, <3>1, <3>2 DEF CancelStep, CancelUpdates, CancelRereads, CancelLocks,
         CancelConverges, CancelFindsPidGone, CancelFindsOtherPid
  <2> QED
    BY <1>0, <1>2, <2>2, <2>3, <2>4, CancelKeepsJob DEF Bystander, RowEffect, ChildEffect, apiVars
<1> QED
  BY <1>1, <1>2

LEMMA TimersBystander ==
  ASSUME IInv, NEW j \in Jobs,
         KillTimerFires(j) \/ PidTimerFires(j) \/ ChildExits(j) \/ HandleIsLost(j)
  PROVE  Bystander
<1>0. TypeOK /\ KnownInv
  BY DEF IInv
<1>1. RowEffect
  BY <1>0, CancelRowEffect DEF KillTimerFires, PidTimerFires, ChildExits, HandleIsLost
<1>2. ChildEffect
  <2>1. CASE UNCHANGED child
    BY <2>1 DEF ChildEffect
  <2>2. ASSUME Running(j), child' = [child EXCEPT ![j] = "exit1"] PROVE ChildEffect
    BY <1>0, <2>2, SignalEffect
  <2>3. ASSUME ChildExits(j) PROVE ChildEffect
    BY <1>0, <2>3, SignalEffect DEF ChildExits
  <2> QED
    BY <2>1, <2>2, <2>3 DEF KillTimerFires, PidTimerFires, HandleIsLost, Killed
<1> QED
  BY <1>0, <1>1, <1>2 DEF Bystander, RowEffect, ChildEffect, KnownInv, apiVars, KillTimerFires,
     PidTimerFires, ChildExits, HandleIsLost

LEMMA StopBystander == IInv /\ (StopBegins \/ StopTerminates) => Bystander
<1> SUFFICES ASSUME IInv, StopBegins \/ StopTerminates PROVE Bystander
  OBVIOUS
<1>1. ChildEffect
  BY DEF StopBegins, StopTerminates, ChildEffect, processVars, IInv, TypeOK, ProcessTypeOK
<1> QED
  BY <1>1 DEF Bystander, ChildEffect, StopBegins, StopTerminates, storeVars, IInv, KnownInv

InvParts == RaisedInv /\ OwnedInv /\ FreshInv /\ UnstartedInv /\ EndedInv /\ KnownInv /\ OrderInv
              /\ SucceededIsHonest

LEMMA BystanderInv ==
  ASSUME IInv, Bystander, TypeOK'
  PROVE  InvParts'
<1> USE DEF IInv, Bystander, workerVars
<1>0. \A j \in Jobs : status'[j] = status[j] \/ (status[j] # "absent" /\ status'[j] = "cancelled")
  BY DEF TypeOK, StoreTypeOK
<1>1. workerPc \notin {"idle", "dead"} => workerJob \in Jobs
  BY DEF TypeOK, WorkerTypeOK
<1>2. RaisedInv'
  BY DEF RaisedInv
<1>3. OwnedInv'
  BY <1>0 DEF OwnedInv
<1>4. FreshInv'
  BY <1>0, <1>1 DEF FreshInv, BeforeStart, Running, Live
<1>5. UnstartedInv'
  BY <1>0, <1>1 DEF UnstartedInv
<1>6. EndedInv'
  BY <1>1 DEF EndedInv, Running, Live
<1>7. KnownInv'
  <2>1. \A c \in Cancellers : cancel'[c].pc # "idle" => cancel'[c].job \in Jobs
    BY DEF TypeOK, CancelTypeOK
  <2> QED
    BY <1>0, <1>1, <2>1 DEF KnownInv, Executing
<1>8. OrderInv'
  BY <1>0 DEF OrderInv
<1>9. SucceededIsHonest'
  BY <1>0 DEF SucceededIsHonest, Running, Live
<1> QED
  BY <1>2, <1>3, <1>4, <1>5, <1>6, <1>7, <1>8, <1>9 DEF InvParts

LEMMA CreateInv ==
  ASSUME IInv, NEW j \in Jobs, CreateJob(j), TypeOK'
  PROVE  InvParts'
<1> USE DEF IInv, CreateJob, InsertJob, workerVars, apiVars, processVars
<1>1. workerPc \notin {"idle", "dead"} => workerJob \in Jobs
  BY DEF TypeOK, WorkerTypeOK
<1>2. RaisedInv'
  BY DEF RaisedInv
<1>3. OwnedInv'
  BY DEF OwnedInv, TypeOK, StoreTypeOK
<1>4. FreshInv'
  BY <1>1 DEF FreshInv, TypeOK, StoreTypeOK
<1>5. UnstartedInv'
  BY <1>1 DEF UnstartedInv, TypeOK, StoreTypeOK
<1>6. EndedInv'
  BY <1>1 DEF EndedInv, Running
<1>7. KnownInv'
  BY <1>1 DEF KnownInv, TypeOK, StoreTypeOK, CancelTypeOK, Executing
<1>8. OrderInv'
  <2> SUFFICES ASSUME workerPc \in {"gate", "claim"}, NEW k \in Jobs, status'[k] = "queued"
               PROVE  rowid'[workerJob] <= rowid'[k]
    BY DEF OrderInv
  <2>1. NextRowid \in Nat /\ \A i \in Jobs : rowid[i] \in Nat /\ rowid[i] < NextRowid
    BY NextRowidType DEF TypeOK, StoreTypeOK
  <2>2. \A i \in Jobs : rowid'[i] = IF i = j THEN NextRowid ELSE rowid[i]
    BY DEF TypeOK, StoreTypeOK
  <2>3. CASE k = j
    BY <1>1, <2>1, <2>2, <2>3
  <2>4. CASE k # j
    <3>1. status[k] = "queued"
      BY <2>4 DEF TypeOK, StoreTypeOK
    <3>2. rowid[workerJob] <= rowid[k]
      BY <3>1 DEF OrderInv
    <3>3. workerJob # j
      BY DEF KnownInv
    <3> QED
      BY <1>1, <2>1, <2>2, <2>4, <3>2, <3>3
  <2> QED
    BY <2>3, <2>4
<1>9. SucceededIsHonest'
  BY DEF SucceededIsHonest, TypeOK, StoreTypeOK
<1> QED
  BY <1>2, <1>3, <1>4, <1>5, <1>6, <1>7, <1>8, <1>9 DEF InvParts

\* The worker's steps that touch neither a row nor a subprocess.
Walk ==
  /\ UNCHANGED <<status, cancelRequested, pid, rowid, child, api, cancel>> /\ api # "down"
  /\ \/ /\ workerPc = "idle" /\ workerPc' = "gate" /\ UNCHANGED workerRaised
        /\ NextQueuedJob(workerJob')
     \/ workerPc = "gate" /\ workerPc' = "idle" /\ UNCHANGED workerRaised
     \/ /\ workerPc = "leave" /\ ~workerRaised'
        /\ workerPc' = IF workerRaised THEN "dead" ELSE "idle"
     \/ /\ UNCHANGED <<workerJob, workerRaised>>
        /\ \/ workerPc = "gate" /\ workerPc' = "claim"
           \/ workerPc = "open" /\ workerPc' = "start"
           \/ /\ workerPc = "start" /\ workerPc' \in {"unstarted", "popen"}
              /\ (workerPc' = "unstarted" =>
                    status[workerJob] # "running" \/ cancelRequested[workerJob])
           \/ workerPc = "popen" /\ workerPc' = "popenFailed"
           \/ workerPc = "wait" /\ workerPc' = "finalRead" /\ ~Running(workerJob)
           \/ /\ workerPc = "finalRead" /\ workerPc' = "finish"
              /\ (workerResult' = "succeeded" => child[workerJob] = "exit0")
           \/ workerPc = "pop" /\ workerPc' = "leave"

LEMMA WorkerWalks ==
  ASSUME TypeOK, WorkerStep
  PROVE  Walk \/ Claim \/ ConvergeUnstarted \/ Popen \/ FailUnstartable \/ RecordPid \/ RecordResult
<1> USE DEF Walk, WorkerMoves, WorkerKeeps, ProcessUp, storeVars, processVars, apiVars
<1>1. ASSUME NEW j \in Jobs, PickJob(j) PROVE Walk
  BY <1>1 DEF PickJob
<1>2. CASE GiveUpAtGate \/ PassGate \/ TakeLock
  BY <1>2 DEF GiveUpAtGate, PassGate, TakeLock
<1>3. CASE PreStartCheck \/ PopenRaises \/ ChildReaped
  BY <1>3 DEF PreStartCheck, PopenRaises, ChildReaped
<1>4. CASE DecideResult
  BY <1>4 DEF DecideResult
<1>5. CASE ForgetHandle \/ LeaveGate
  BY <1>5 DEF ForgetHandle, LeaveGate, TypeOK, WorkerTypeOK
<1> QED
  BY <1>1, <1>2, <1>3, <1>4, <1>5 DEF WorkerStep

LEMMA WalkInv ==
  ASSUME IInv, Walk, TypeOK'
  PROVE  InvParts'
<1> USE DEF IInv, Walk
<1>1. workerPc' \notin {"idle", "dead"} => workerJob' \in Jobs
  BY DEF TypeOK, WorkerTypeOK
<1>2. RaisedInv'
  BY DEF RaisedInv
<1>3. OwnedInv'
  BY DEF OwnedInv, RaisedInv, Executing
<1>4. FreshInv'
  BY <1>1 DEF FreshInv, BeforeStart, NextQueuedJob, Queued
<1>5. UnstartedInv'
  BY DEF UnstartedInv
<1>6. EndedInv'
  BY DEF EndedInv, Running
<1>7. KnownInv'
  BY <1>1 DEF KnownInv, NextQueuedJob, Queued, Executing
<1>8. OrderInv'
  BY <1>1 DEF OrderInv, NextQueuedJob, Queued
<1>9. SucceededIsHonest'
  BY DEF SucceededIsHonest
<1> QED
  BY <1>2, <1>3, <1>4, <1>5, <1>6, <1>7, <1>8, <1>9 DEF InvParts

\* The worker's steps that end or change the row of its own job.
LEMMA WorkerRowInv ==
  ASSUME IInv, Claim \/ ConvergeUnstarted \/ FailUnstartable \/ RecordPid \/ RecordResult, TypeOK'
  PROVE  InvParts'
<1> DEFINE j == workerJob
<1>0. /\ j \in Jobs /\ workerJob' = j /\ workerRaised' = workerRaised /\ ~workerRaised
      /\ workerPc' \in {"open", "pop", "wait"} /\ api # "down"
      /\ UNCHANGED <<cancelRequested, rowid, child, api, cancel>>
      /\ \A k \in Jobs : k # j => status'[k] = status[k] /\ pid'[k] = pid[k]
      /\ status[j] # "absent" /\ status'[j] # "absent"
  BY DEF IInv, TypeOK, WorkerTypeOK, StoreTypeOK, RaisedInv, KnownInv, Claim, ConvergeUnstarted,
     FailUnstartable, RecordPid, RecordResult, WorkerMoves, WorkerKeeps, ProcessUp, processVars, apiVars,
     ClaimJob, CancelUnstartedJob, FinishJobIfRunning, SetJobPid, EndRowIf, Terminal
<1>1. /\ status'[j] = "running" => workerPc' \in {"open", "wait"}
      /\ workerPc' \in {"open", "wait"} => status'[j] # "queued"
      /\ status'[j] = "queued" => status[j] = "queued" /\ ~pid'[j]
      /\ workerPc' = "open" => ~pid'[j] /\ child[j] = "none"
      /\ status'[j] = "succeeded" => child[j] = "exit0"
  <2> USE DEF IInv, TypeOK, StoreTypeOK, WorkerMoves
  <2>1. CASE Claim
    BY <1>0, <2>1 DEF Claim, ClaimJob, Claimable, FreshInv, OwnedInv, SucceededIsHonest, Executing,
       BeforeStart
  <2>2. CASE ConvergeUnstarted
    BY <1>0, <2>2 DEF ConvergeUnstarted, CancelUnstartedJob, EndRowIf, UnstartedInv, FreshInv,
       BeforeStart, SucceededIsHonest
  <2>3. CASE FailUnstartable
    BY <1>0, <2>3 DEF FailUnstartable, FinishJobIfRunning, EndRowIf, FreshInv, BeforeStart,
       SucceededIsHonest
  <2>4. CASE RecordPid
    BY <1>0, <2>4 DEF RecordPid, SetJobPid, KnownInv, Executing, SucceededIsHonest
  <2>5. CASE RecordResult
    BY <1>0, <2>5 DEF RecordResult, FinishJobIfRunning, EndRowIf, FreshInv, EndedInv,
       SucceededIsHonest, WorkerTypeOK, Terminal
  <2> QED
    BY <2>1, <2>2, <2>3, <2>4, <2>5
<1>2. \A k \in Jobs : k # j => status[k] # "running"
  BY <1>0 DEF IInv, OwnedInv, Claim, ConvergeUnstarted, FailUnstartable, RecordPid, RecordResult,
              WorkerMoves
<1>3. RaisedInv' /\ UnstartedInv' /\ EndedInv' /\ OrderInv'
  BY <1>0 DEF RaisedInv, UnstartedInv, EndedInv, OrderInv
<1>4. OwnedInv'
  BY <1>0, <1>1, <1>2 DEF OwnedInv, Executing
<1>5. FreshInv'
  BY <1>0, <1>1 DEF IInv, FreshInv, BeforeStart
<1>6. KnownInv'
  <2>1. \A k \in Jobs : status[k] # "absent" => status'[k] # "absent"
    BY <1>0
  <2>2. \A c \in Cancellers : cancel[c].pc # "idle" => cancel[c].job \in Jobs
    BY DEF IInv, TypeOK, CancelTypeOK
  <2> QED
    BY <1>0, <1>1, <2>1, <2>2 DEF IInv, KnownInv, Executing
<1>7. SucceededIsHonest'
  BY <1>0, <1>1 DEF IInv, SucceededIsHonest
<1> QED
  BY <1>3, <1>4, <1>5, <1>6, <1>7 DEF InvParts

LEMMA PopenInv ==
  ASSUME IInv, Popen, TypeOK'
  PROVE  InvParts'
<1> DEFINE j == workerJob
<1>0. /\ j \in Jobs /\ workerJob' = j /\ workerPc = "popen" /\ workerPc' = "setPid"
      /\ api # "down" /\ UNCHANGED <<storeVars, api, cancel, workerRaised>>
      /\ child[j] = "none" /\ child'[j] = "alive"
      /\ \A k \in Jobs : k # j => child'[k] = child[k]
  BY DEF IInv, TypeOK, WorkerTypeOK, ProcessTypeOK, FreshInv, BeforeStart, Popen, WorkerMoves,
         WorkerKeeps, ProcessUp, apiVars
<1>1. RaisedInv' /\ UnstartedInv' /\ EndedInv' /\ OrderInv'
  BY <1>0 DEF IInv, RaisedInv, UnstartedInv, EndedInv, OrderInv
<1>2. OwnedInv' /\ KnownInv'
  BY <1>0 DEF IInv, OwnedInv, KnownInv, Executing, storeVars
<1>3. FreshInv'
  BY <1>0 DEF IInv, FreshInv, KnownInv, Executing, BeforeStart, storeVars
<1>4. SucceededIsHonest'
  BY <1>0 DEF IInv, SucceededIsHonest, storeVars
<1> QED
  BY <1>1, <1>2, <1>3, <1>4 DEF InvParts

LEMMA RaisesInv ==
  ASSUME IInv, WorkerRaises, TypeOK'
  PROVE  InvParts'
<1>0. /\ UNCHANGED <<storeVars, api, child, cancel, workerResult>> /\ api # "down"
      /\ \/ workerPc' = "pop" /\ workerRaised' /\ workerJob' = workerJob
            /\ workerPc \notin {"idle", "dead"}
         \/ workerPc' = "dead" /\ workerRaised' = workerRaised /\ workerPc \in {"idle", "gate"}
  BY DEF WorkerRaises, ProcessUp, processVars
<1>1. RaisedInv' /\ OwnedInv'
  BY <1>0 DEF IInv, RaisedInv, OwnedInv, storeVars
<1>2. FreshInv' /\ UnstartedInv' /\ EndedInv' /\ OrderInv' /\ SucceededIsHonest'
  BY <1>0 DEF IInv, FreshInv, UnstartedInv, EndedInv, OrderInv, SucceededIsHonest, BeforeStart,
              storeVars
<1>3. KnownInv'
  BY <1>0 DEF IInv, KnownInv, Executing, storeVars
<1> QED
  BY <1>1, <1>2, <1>3 DEF InvParts

LEMMA GoesDownInv ==
  ASSUME IInv, GoesDown, TypeOK'
  PROVE  InvParts'
<1>0. /\ UNCHANGED storeVars /\ api' = "down" /\ workerPc' = "idle" /\ ~workerRaised'
      /\ \A j \in Jobs : child'[j] = child[j] \/ Running(j)
      /\ \A c \in Cancellers : cancel'[c].pc # "idle" =>
           cancel[c].pc # "idle" /\ cancel'[c].job = cancel[c].job
  BY DEF GoesDown, IInv, TypeOK, CancelTypeOK, CancelRecords
<1>1. RaisedInv' /\ OwnedInv' /\ UnstartedInv' /\ EndedInv' /\ OrderInv'
  BY <1>0 DEF RaisedInv, OwnedInv, UnstartedInv, EndedInv, OrderInv
<1>2. FreshInv' /\ SucceededIsHonest'
  BY <1>0 DEF IInv, FreshInv, SucceededIsHonest, BeforeStart, Running, Live, storeVars
<1>3. KnownInv'
  BY <1>0 DEF IInv, KnownInv, Executing, storeVars
<1> QED
  BY <1>1, <1>2, <1>3 DEF InvParts

LEMMA RestartInv ==
  ASSUME IInv, Restart, TypeOK'
  PROVE  InvParts'
<1>0. /\ api = "down" /\ api' = "up" /\ workerPc = "idle"
      /\ UNCHANGED <<workerVars, child, cancel, cancelRequested, pid, rowid>>
      /\ \A j \in Jobs : status'[j] = IF status[j] = "running" THEN "failed" ELSE status[j]
  BY DEF Restart, FailInterruptedJobs, processVars, IInv, RaisedInv
<1>1. RaisedInv' /\ OwnedInv' /\ UnstartedInv' /\ EndedInv' /\ OrderInv'
  BY <1>0 DEF IInv, RaisedInv, OwnedInv, UnstartedInv, EndedInv, OrderInv, workerVars
<1>2. FreshInv' /\ SucceededIsHonest'
  BY <1>0 DEF IInv, FreshInv, SucceededIsHonest, BeforeStart, workerVars
<1>3. KnownInv'
  BY <1>0 DEF IInv, KnownInv, Executing, workerVars, TypeOK, CancelTypeOK
<1> QED
  BY <1>1, <1>2, <1>3 DEF InvParts

LEMMA InitInv == Init => IInv
<1> SUFFICES ASSUME Init PROVE IInv
  OBVIOUS
<1> QED
  BY InitType DEF Init, StoreInit, IInv, RaisedInv, OwnedInv, FreshInv, UnstartedInv, EndedInv,
     KnownInv, OrderInv, SucceededIsHonest, BeforeStart, Executing, IdleCancel

LEMMA StepInv == IInv /\ [Next]_vars => IInv'
<1> SUFFICES ASSUME IInv, [Next]_vars PROVE IInv'
  OBVIOUS
<1>0. TypeOK'
  BY TypeStep DEF IInv
<1>1. CASE UNCHANGED vars
  <2>1. Bystander
    BY <1>1 DEF vars, Bystander, storeVars, workerVars, apiVars, processVars, IInv, KnownInv
  <2> QED
    BY <1>0, <2>1, BystanderInv DEF IInv, InvParts
<1>2. CASE Next
  <2>1. CASE HandlerStep
    BY <1>0, <2>1, HandlerBystander, BystanderInv, CreateInv DEF IInv, InvParts
  <2>2. CASE WorkerStep
    BY <1>0, <2>2, WorkerWalks, WalkInv, WorkerRowInv, PopenInv DEF IInv, InvParts
  <2>3. CASE WorkerRaises
    BY <1>0, <2>3, RaisesInv DEF IInv, InvParts
  <2>4. ASSUME NEW c \in Cancellers, CancelStep(c) \/ \E j \in Jobs : CancelSelects(c, j)
        PROVE  InvParts'
    BY <1>0, <2>4, CancelBystander, BystanderInv
  <2>5. ASSUME NEW j \in Jobs,
               KillTimerFires(j) \/ PidTimerFires(j) \/ ChildExits(j) \/ HandleIsLost(j)
        PROVE  InvParts'
    BY <1>0, <2>5, TimersBystander, BystanderInv
  <2>6. CASE ProcessStep
    BY <1>0, <2>6, StopBystander, BystanderInv, GoesDownInv, RestartInv
       DEF ProcessStep, StopReturns, Crash, IInv, InvParts
  <2> QED
    BY <1>0, <1>2, <2>1, <2>2, <2>3, <2>4, <2>5, <2>6 DEF Next, IInv, InvParts
<1> QED
  BY <1>1, <1>2

\* Every reachable state of the scheduler satisfies the inductive invariant: types,
\* the worker's ownership of the running row, the children, the order of the rows
\* and the gate's counters, from which the theorems below are read off.
THEOREM InvariantHolds == Spec => []IInv
<1> QED
  BY InitInv, StepInv, PTL DEF Spec

\* A job the API reports as succeeded was started and its command exited with 0.
THEOREM SuccessIsHonest == Spec => []SucceededIsHonest
<1>1. IInv => SucceededIsHonest
  BY DEF IInv
<1> QED
  BY <1>1, InvariantHolds, PTL

-----------------------------------------------------------------------------
(* Steps: the start of a subprocess, the claim of a row, the lifecycle.    *)

\* What a step can be, seen from the rows and the subprocesses.
LEMMA StepCases ==
  ASSUME IInv, [Next]_vars
  PROVE  \/ Bystander \/ Walk \/ GoesDown \/ Restart \/ Popen
         \/ \E j \in Jobs : CreateJob(j)
         \/ Claim \/ ConvergeUnstarted \/ FailUnstartable \/ RecordPid \/ RecordResult
         \/ WorkerRaises
<1>1. CASE UNCHANGED vars
  BY <1>1 DEF vars, Bystander, storeVars, workerVars, apiVars, processVars, IInv, KnownInv
<1>2. CASE HandlerStep
  BY <1>2, HandlerBystander
<1>3. CASE WorkerStep
  BY <1>3, WorkerWalks DEF IInv
<1>4. ASSUME NEW c \in Cancellers, CancelStep(c) \/ \E j \in Jobs : CancelSelects(c, j)
      PROVE  Bystander
  BY <1>4, CancelBystander
<1>5. ASSUME NEW j \in Jobs,
             KillTimerFires(j) \/ PidTimerFires(j) \/ ChildExits(j) \/ HandleIsLost(j)
      PROVE  Bystander
  BY <1>5, TimersBystander
<1>6. CASE ProcessStep
  BY <1>6, StopBystander DEF ProcessStep, StopReturns, Crash
<1> QED
  BY <1>1, <1>2, <1>3, <1>4, <1>5, <1>6 DEF Next

LEMMA StartedOnceStep ==
  ASSUME IInv, [Next]_vars, NEW j \in Jobs, child[j] # "none", child[j] # "alive"
  PROVE  child'[j] # "alive"
<1> USE DEF IInv, TypeOK, ProcessTypeOK, WorkerTypeOK
<1>1. CASE Bystander
  BY <1>1 DEF Bystander
<1>2. CASE Popen
  BY <1>2 DEF Popen, FreshInv, BeforeStart, WorkerMoves
<1>3. CASE GoesDown
  BY <1>3 DEF GoesDown
<1>4. CASE UNCHANGED child
  BY <1>4
<1> QED
  BY <1>1, <1>2, <1>3, <1>4, StepCases DEF Walk, Restart, CreateJob, Claim, ConvergeUnstarted,
     FailUnstartable, RecordPid, RecordResult, WorkerRaises, processVars

\* No job's command is started twice, not even after a cancellation, a failure
\* of the worker or a restart of the API.
THEOREM StartsOnce == Spec => StartedOnce
<1>1. IInv /\ [Next]_vars =>
        [\A j \in Jobs : child[j] # "none" /\ child[j] # "alive" => child'[j] # "alive"]_child
  BY StartedOnceStep
<1> QED
  BY <1>1, InvariantHolds, PTL DEF Spec, StartedOnce

\* Only Claim makes a row run, and only the worker's own.
LEMMA OnlyClaimRuns ==
  ASSUME IInv, [Next]_vars, NEW j \in Jobs, status[j] # "running", status'[j] = "running"
  PROVE  Claim /\ j = workerJob /\ workerPc = "claim" /\ status' = [status EXCEPT ![j] = "running"]
<1> USE DEF IInv, TypeOK, StoreTypeOK
<1>1. CASE Bystander
  BY <1>1 DEF Bystander
<1>2. ASSUME NEW k \in Jobs, CreateJob(k) PROVE FALSE
  BY <1>2 DEF CreateJob, InsertJob
<1>3. CASE Claim
  BY <1>3 DEF Claim, ClaimJob, WorkerMoves
<1>4. CASE ConvergeUnstarted \/ FailUnstartable \/ RecordPid \/ RecordResult
  BY <1>4 DEF ConvergeUnstarted, FailUnstartable, RecordPid, RecordResult, CancelUnstartedJob,
     FinishJobIfRunning, SetJobPid, EndRowIf, WorkerTypeOK, Terminal
<1>5. CASE Restart
  BY <1>5 DEF Restart, FailInterruptedJobs
<1>6. CASE UNCHANGED status
  BY <1>6
<1> QED
  BY <1>1, <1>2, <1>3, <1>4, <1>5, <1>6, StepCases DEF Walk, GoesDown, Popen, WorkerRaises, storeVars

\* The job claimed is the oldest one queued, although it was picked before the
\* wait at the gate.
THEOREM ClaimsInOrder == Spec => ClaimedInOrder
<1>1. ASSUME IInv, [Next]_vars, NEW j \in Jobs, NEW k \in Jobs,
             status[j] = "queued", status'[j] = "running", status[k] = "queued"
      PROVE  rowid[j] <= rowid[k]
  BY <1>1, OnlyClaimRuns DEF IInv, OrderInv
<1>2. IInv /\ [Next]_vars =>
        [\A j, k \in Jobs : status[j] = "queued" /\ status'[j] = "running" /\ status[k] = "queued"
           => rowid[j] <= rowid[k]]_status
  BY <1>1
<1> QED
  BY <1>2, InvariantHolds, PTL DEF Spec, ClaimedInOrder

LEMMA LifecycleStep == IInv /\ [Next]_vars => [Lifecycle!LNext]_status
<1> SUFFICES ASSUME IInv, [Next]_vars, status' # status PROVE Lifecycle!LNext
  OBVIOUS
<1> USE DEF Lifecycle!LNext, Lifecycle!Becomes
<1>0. /\ workerPc \notin {"idle", "dead"} => workerJob \in Jobs
      /\ workerResult \in Lifecycle!Ended
  BY DEF IInv, TypeOK, WorkerTypeOK, Terminal, Lifecycle!Ended
<1>1. CASE Bystander
  BY <1>1 DEF Bystander, Lifecycle!Cancel
<1>2. ASSUME NEW j \in Jobs, CreateJob(j) PROVE Lifecycle!LNext
  BY <1>2 DEF CreateJob, InsertJob, Lifecycle!Submit
<1>3. CASE Claim
  <2>1. \A k \in Jobs : status[k] # "running"
    BY <1>3 DEF IInv, OwnedInv, RaisedInv, Claim, WorkerMoves, ProcessUp, Executing
  <2> QED
    BY <1>0, <1>3, <2>1 DEF Claim, ClaimJob, Claimable, WorkerMoves, Lifecycle!Start
<1>4. CASE ConvergeUnstarted \/ FailUnstartable \/ RecordResult
  BY <1>0, <1>4 DEF ConvergeUnstarted, FailUnstartable, RecordResult, CancelUnstartedJob,
     FinishJobIfRunning, EndRowIf, WorkerMoves, Lifecycle!End, Lifecycle!Ended
<1>5. CASE Restart
  BY <1>5 DEF Restart, FailInterruptedJobs, Lifecycle!Interrupt
<1> QED
  BY <1>1, <1>2, <1>3, <1>4, <1>5, StepCases DEF Walk, GoesDown, Popen, RecordPid, SetJobPid,
     WorkerRaises, storeVars

\* The scheduler implements JobLifecycle for any constants: whatever fails, a row
\* is queued once, claimed only while no other row is running, and never revived.
THEOREM LifecycleImplemented == Spec => ImplementsLifecycle
<1>1. Init => Lifecycle!LInit
  BY DEF Init, StoreInit, Lifecycle!LInit
<1> QED
  BY <1>1, LifecycleStep, InvariantHolds, PTL DEF Spec, ImplementsLifecycle, Lifecycle!LSpec

-----------------------------------------------------------------------------
(* Subprocesses: whose they are, and that there is one.                    *)

\* A subprocess that runs is the one the worker waits for, or one that an
\* exception made the worker abandon.
ChildInv ==
  \A j \in Jobs : Running(j) =>
    workerPc = "dead" \/ (workerJob = j /\ (workerPc \in {"setPid", "wait"} \/ workerRaised))

LEMMA ChildStep ==
  ASSUME ~OrphansSurvive, IInv, ChildInv, OneSubprocess, [Next]_vars
  PROVE  ChildInv' /\ OneSubprocess'
<1> USE DEF ChildInv, OneSubprocess, Running, Live
<1>0. /\ workerPc \notin {"idle", "dead"} => workerJob \in Jobs
      /\ child \in [Jobs -> ChildStates]
      /\ workerRaised => workerPc \in {"pop", "leave"}
      /\ api = "down" => workerPc = "idle"
  BY DEF IInv, TypeOK, WorkerTypeOK, ProcessTypeOK, RaisedInv
<1>1. CASE Bystander
  BY <1>1 DEF Bystander, workerVars
<1>2. CASE Walk
  BY <1>0, <1>2 DEF Walk
<1>3. CASE GoesDown
  BY <1>0, <1>3 DEF GoesDown
<1>4. CASE Restart
  BY <1>4 DEF Restart, workerVars, processVars
<1>5. CASE Popen
  BY <1>0, <1>5 DEF Popen, WorkerMoves, WorkerKeeps
<1>6. ASSUME NEW j \in Jobs, CreateJob(j) PROVE ChildInv' /\ OneSubprocess'
  BY <1>6 DEF CreateJob, workerVars, processVars
<1>7. CASE Claim \/ ConvergeUnstarted \/ FailUnstartable \/ RecordPid \/ RecordResult
  BY <1>0, <1>7 DEF Claim, ConvergeUnstarted, FailUnstartable, RecordPid, RecordResult, WorkerMoves,
     WorkerKeeps, processVars
<1>8. CASE WorkerRaises
  BY <1>0, <1>8 DEF WorkerRaises, processVars
<1> QED
  BY <1>1, <1>2, <1>3, <1>4, <1>5, <1>6, <1>7, <1>8, StepCases

LEMMA ChildrenOwned == ASSUME ~OrphansSurvive PROVE Spec => [](ChildInv /\ OneSubprocess)
<1>1. Init => ChildInv /\ OneSubprocess
  BY DEF Init, ChildInv, OneSubprocess, Running, Live
<1>2. IInv /\ (ChildInv /\ OneSubprocess) /\ [Next]_vars => (ChildInv /\ OneSubprocess)'
  BY ChildStep
<1> QED
  BY <1>1, <1>2, InvariantHolds, PTL DEF Spec

\* Where subprocesses end with the API process, two of them never overlap,
\* whatever is cancelled, raised or restarted.
THEOREM OneAtATime == ASSUME ~OrphansSurvive PROVE Spec => []OneSubprocess
BY ChildrenOwned, PTL

\* No row says running behind the worker's back, unless one of the worker's own
\* calls has failed.
THEOREM RunningRowsOwned == Spec => []RunningIsOwned
<1>1. IInv => RunningIsOwned
  BY DEF IInv, OwnedInv, RunningIsOwned, Executing
<1> QED
  BY <1>1, InvariantHolds, PTL

-----------------------------------------------------------------------------
(* The gate.                                                               *)

InsideGate == Executing \cup {"claim", "pop", "leave"}

GateInv ==
  /\ GateCountsMatch
  /\ activeJobType = IF workerPc \in InsideGate THEN JobType[workerJob] ELSE "none"
  /\ activeJobType \in JobTypes => activeInteractiveReads = 0
  /\ activeJobType = "benchmark" => activeUploadChunks = 0

LEMMA InsideFinite == IsFiniteSet(Inside(Uploads)) /\ IsFiniteSet(Inside(Reads))
BY ClientsFinite, FS_Subset DEF Inside

\* A request that enters or leaves is counted.
LEMMA Counting ==
  ASSUME NEW S, IsFiniteSet(S), NEW k
  PROVE  /\ k \notin S => Cardinality(S \cup {k}) = Cardinality(S) + 1
         /\ k \in S => Cardinality(S \ {k}) = Decremented(Cardinality(S))
<1>1. k \notin S => Cardinality(S \cup {k}) = Cardinality(S) + 1
  BY FS_AddElement
<1>2. ASSUME k \in S PROVE Cardinality(S \ {k}) = Decremented(Cardinality(S))
  <2>1. Cardinality(S \ {k}) = Cardinality(S) - 1 /\ IsFiniteSet(S \ {k})
    BY <1>2, FS_RemoveElement
  <2>2. Cardinality(S) \in Nat /\ Cardinality(S \ {k}) \in Nat
    BY <2>1, FS_CardinalityType
  <2> QED
    BY <2>1, <2>2 DEF Decremented
<1> QED
  BY <1>1, <1>2

LEMMA HandlerGate ==
  ASSUME IInv, GateInv, HandlerStep
  PROVE  GateInv'
<1> USE DEF GateInv, GateCountsMatch
<1>0. client \in [Clients -> {"new", "inside", "done"}] /\ Finished \in {"new", "done"}
  BY DEF IInv, TypeOK, ClientTypeOK, Finished
<1>w. UNCHANGED <<workerPc, workerJob>>
  BY DEF HandlerStep, CreateJob, UploadBegins, UploadEnds, UploadRejected, ReadBegins, ReadEnds,
     ReadRejected, BrowseBegins, BrowseEnds, BrowseRejected, Rejected, ClientMoves, workerVars
<1>1. ASSUME NEW j \in Jobs, CreateJob(j) PROVE GateInv'
  BY <1>w, <1>1 DEF CreateJob, gateVars, Inside
<1>2. ASSUME NEW k \in Uploads, UploadBegins(k) PROVE GateInv'
  <2>1. /\ k \notin Inside(Uploads) /\ Inside(Uploads)' = Inside(Uploads) \cup {k}
        /\ Inside(Reads)' = Inside(Reads)
    BY <1>0, <1>2, ClientsDisjoint DEF UploadBegins, ClientMoves, Inside, Clients
  <2> QED
    BY <1>w, <1>2, <2>1, InsideFinite, Counting DEF UploadBegins, BeginUploadChunk, UploadChunkAdmitted
<1>3. ASSUME NEW k \in Uploads, UploadEnds(k) PROVE GateInv'
  <2>1. /\ k \in Inside(Uploads) /\ Inside(Uploads)' = Inside(Uploads) \ {k}
        /\ Inside(Reads)' = Inside(Reads)
    BY <1>0, <1>3, ClientsDisjoint DEF UploadEnds, ClientMoves, Inside, Clients
  <2>2. activeUploadChunks = 0 => Decremented(activeUploadChunks) = 0
    BY DEF Decremented
  <2> QED
    BY <1>w, <1>3, <2>1, <2>2, InsideFinite, Counting DEF UploadEnds, EndUploadChunk
<1>4. ASSUME NEW k \in Reads, ReadBegins(k) PROVE GateInv'
  <2>1. /\ k \notin Inside(Reads) /\ Inside(Reads)' = Inside(Reads) \cup {k}
        /\ Inside(Uploads)' = Inside(Uploads)
    BY <1>0, <1>4, ClientsDisjoint DEF ReadBegins, ClientMoves, Inside, Clients
  <2> QED
    BY <1>w, <1>4, <2>1, InsideFinite, Counting
       DEF ReadBegins, BeginInteractiveRead, InteractiveReadAdmitted
<1>5. ASSUME NEW k \in Reads, ReadEnds(k) PROVE GateInv'
  <2>1. /\ k \in Inside(Reads) /\ Inside(Reads)' = Inside(Reads) \ {k}
        /\ Inside(Uploads)' = Inside(Uploads)
    BY <1>0, <1>5, ClientsDisjoint DEF ReadEnds, ClientMoves, Inside, Clients
  <2>2. activeInteractiveReads = 0 => Decremented(activeInteractiveReads) = 0
    BY DEF Decremented
  <2> QED
    BY <1>w, <1>5, <2>1, <2>2, InsideFinite, Counting DEF ReadEnds, EndInteractiveRead
<1>6. ASSUME NEW k, NEW admitted, Rejected(k, admitted) PROVE GateInv'
  <2>1. Inside(Uploads)' = Inside(Uploads) /\ Inside(Reads)' = Inside(Reads)
    BY <1>0, <1>6 DEF Rejected, ClientMoves, Inside, Clients
  <2> QED
    BY <1>w, <1>6, <2>1 DEF Rejected, gateVars
<1>7. ASSUME NEW k \in Browses, BrowseBegins(k) \/ BrowseEnds(k) PROVE GateInv'
  <2>1. Inside(Uploads)' = Inside(Uploads) /\ Inside(Reads)' = Inside(Reads)
    BY <1>0, <1>7, ClientsDisjoint DEF BrowseBegins, BrowseEnds, ClientMoves, Inside, Clients
  <2> QED
    BY <1>w, <1>7, <2>1 DEF BrowseBegins, BrowseEnds, gateVars
<1> QED
  BY <1>1, <1>2, <1>3, <1>4, <1>5, <1>6, <1>7
     DEF HandlerStep, UploadRejected, ReadRejected, BrowseRejected

\* Only requests, the worker at the gate and the end of the process touch it.
LEMMA GateStep ==
  ASSUME IInv, GateInv, [Next]_vars
  PROVE  GateInv'
<1> USE DEF GateInv, GateCountsMatch
<1>0. workerPc \in InsideGate => workerJob \in Jobs
  BY DEF IInv, TypeOK, WorkerTypeOK, InsideGate, Executing
<1>1. ASSUME UNCHANGED <<gateVars, client>>,
             workerPc' \in InsideGate <=> workerPc \in InsideGate,
             workerPc \in InsideGate => workerJob' = workerJob
      PROVE  GateInv'
  BY <1>1 DEF gateVars, Inside
<1>2. CASE WorkerStep
  <2>1. CASE PassGate
    <3>1. JobType[workerJob] \in JobTypes
      BY <2>1, JobTypeAssumption DEF PassGate, WorkerMoves, IInv, TypeOK, WorkerTypeOK
    <3>2. /\ workerPc = "gate" /\ workerPc' = "claim" /\ workerJob' = workerJob
          /\ EnterJob(JobType[workerJob]) /\ client' = client
      BY <2>1 DEF PassGate, WorkerMoves, WorkerKeeps
    <3>3. Inside(Uploads)' = Inside(Uploads) /\ Inside(Reads)' = Inside(Reads)
      BY <3>2 DEF Inside
    <3>4. ~Blocked(JobType[workerJob]) => /\ activeInteractiveReads = 0
                                          /\ \/ JobType[workerJob] # "benchmark"
                                             \/ activeUploadChunks = 0
      BY DEF Blocked, IInv, TypeOK, GateTypeOK
    <3> QED
      BY <3>1, <3>2, <3>3, <3>4 DEF EnterJob, InsideGate, Executing
  <2>2. CASE LeaveGate
    BY <2>2 DEF LeaveGate, LeaveJob, WorkerMoves, Inside, InsideGate, Executing, JobTypes
  <2>3. ASSUME NEW j \in Jobs, PickJob(j) PROVE GateInv'
    BY <1>1, <2>3 DEF PickJob, WorkerMoves, InsideGate, Executing
  <2>4. CASE GiveUpAtGate
    BY <1>1, <2>4 DEF GiveUpAtGate, WorkerMoves, InsideGate, Executing
  <2>5. CASE \/ Claim \/ TakeLock \/ PreStartCheck \/ ConvergeUnstarted \/ Popen \/ PopenRaises
             \/ FailUnstartable
    BY <1>1, <2>5 DEF Claim, TakeLock, PreStartCheck, ConvergeUnstarted, Popen, PopenRaises,
       FailUnstartable, WorkerMoves, WorkerKeeps, InsideGate, Executing
  <2>6. CASE RecordPid \/ ChildReaped \/ DecideResult \/ RecordResult \/ ForgetHandle
    BY <1>1, <2>6 DEF RecordPid, ChildReaped, DecideResult, RecordResult, ForgetHandle,
       WorkerMoves, WorkerKeeps, InsideGate, Executing
  <2> QED
    BY <1>2, <2>1, <2>2, <2>3, <2>4, <2>5, <2>6 DEF WorkerStep
<1>3. CASE WorkerRaises
  BY <1>1, <1>3 DEF WorkerRaises, InsideGate, Executing
<1>4. ASSUME NEW c \in Cancellers, CancelStep(c) \/ \E j \in Jobs : CancelSelects(c, j)
      PROVE  GateInv'
  <2>1. UNCHANGED <<gateVars, client, workerPc, workerJob>>
    BY <1>4, CancelKeepsJob DEF IInv, CancelSelects, CancelMoves, workerVars
  <2> QED
    BY <1>1, <2>1
<1>5. ASSUME NEW j \in Jobs,
             KillTimerFires(j) \/ PidTimerFires(j) \/ ChildExits(j) \/ HandleIsLost(j)
      PROVE  GateInv'
  BY <1>1, <1>5 DEF KillTimerFires, PidTimerFires, ChildExits, HandleIsLost, workerVars
<1>6. CASE StopBegins \/ StopTerminates \/ Restart
  BY <1>1, <1>6 DEF StopBegins, StopTerminates, Restart, workerVars
<1>7. CASE GoesDown
  <2>1. Inside(Uploads)' = {} /\ Inside(Reads)' = {}
    BY <1>7 DEF GoesDown, Inside, Clients, IInv, TypeOK, ClientTypeOK
  <2> QED
    BY <1>7, <2>1, FS_EmptySet DEF GoesDown, InsideGate, Executing, JobTypes
<1>8. CASE UNCHANGED vars
  BY <1>1, <1>8 DEF vars, workerVars
<1> QED
  BY <1>2, <1>3, <1>4, <1>5, <1>6, <1>7, <1>8, HandlerGate DEF Next, ProcessStep, StopReturns, Crash

LEMMA GateHolds == Spec => []GateInv
<1>1. Init => GateInv
  <2> SUFFICES ASSUME Init PROVE GateInv
    OBVIOUS
  <2>1. Inside(Uploads) = {} /\ Inside(Reads) = {}
    BY DEF Init, Inside, Clients
  <2> QED
    BY <2>1, FS_EmptySet DEF Init, GateInit, GateInv, GateCountsMatch, InsideGate, Executing, JobTypes
<1>2. IInv /\ GateInv /\ [Next]_vars => GateInv'
  BY GateStep
<1> QED
  BY <1>1, <1>2, InvariantHolds, PTL DEF Spec

\* The counters of the gate are exact for any number of concurrent requests, so
\* the max(0, n - 1) of the code never hides a lost or repeated end.
THEOREM GateCountsExact == Spec => []GateCountsMatch
<1>1. GateInv => GateCountsMatch
  BY DEF GateInv
<1> QED
  BY <1>1, GateHolds, PTL

\* Exclusion at the gate reaches the subprocess: none runs beside an interactive
\* read, and no benchmark beside an upload chunk, unless the worker has died and
\* left it, when subprocesses end with the API process.
THEOREM HeavyJobsRunUndisturbed == ASSUME ~OrphansSurvive PROVE Spec => []HeavyJobsUndisturbed
<1>1. IInv /\ GateInv /\ ChildInv => HeavyJobsUndisturbed
  <2> SUFFICES ASSUME IInv, GateInv, ChildInv, NEW j \in Jobs, Running(j), workerPc # "dead"
               PROVE  Inside(Reads) = {} /\ (JobType[j] = "benchmark" => Inside(Uploads) = {})
    BY DEF HeavyJobsUndisturbed
  <2>1. workerJob = j /\ workerPc \in InsideGate
    BY DEF ChildInv, IInv, RaisedInv, InsideGate, Executing
  <2>2. activeJobType = JobType[j] /\ JobType[j] \in JobTypes
    BY <2>1, JobTypeAssumption DEF GateInv
  <2> QED
    BY <2>2, InsideFinite, FS_EmptySet DEF GateInv, GateCountsMatch
<1> QED
  BY <1>1, InvariantHolds, GateHolds, ChildrenOwned, PTL

=============================================================================
