------------------------------- MODULE Uploads -------------------------------
(***************************************************************************)
(* One resumable upload session (class UploadService,                      *)
(* api/cfd_bench_api/uploads.py): its row and its files' rows in the state *)
(* database, its staging directory, the PATCH, complete and delete         *)
(* requests on it, and the ingest jobs created from it (create_ingest,     *)
(* api/cfd_bench_api/main.py).                                             *)
(*                                                                         *)
(* append_chunk is a coroutine; complete, delete and create_ingest run on  *)
(* pool threads beside it.  A step is one SQL statement or one access to   *)
(* the staging directory; the jobs follow JobLifecycle, which JobManager   *)
(* implements.  A file is its length: which bytes it holds is told by the  *)
(* position each piece is written at.                                      *)
(***************************************************************************)
EXTENDS Naturals

CONSTANTS
  Files,        \* the files of the session
  Size,         \* their declared sizes, in pieces
  MaxChunk,     \* config.max_chunk_size, in pieces
  Patches,      \* concurrent PATCH requests
  Threads,      \* concurrent complete, delete and create_ingest requests
  Ingests,      \* the ingest jobs that may be created from this upload
  MaxCrashes    \* bound on crashes of the API process

ASSUME SizeAssumption == Size \in [Files -> Nat]
ASSUME BoundsAssumption == MaxChunk \in Nat /\ MaxCrashes \in Nat
ASSUME PatchesAssumption == "free" \notin Patches

VARIABLES
  upload,       \* uploads.status, "absent" before create and "deleted" after DELETE
  offset,       \* upload_files.offset_bytes
  directory,    \* the staging directory exists
  present,      \* the staged file exists
  staged,       \* its length
  fileLock,     \* the asyncio.Lock of each file: "free" or the PATCH holding it
  patch,        \* per PATCH: pc, file, the offset it names and what it has written
  thread,       \* per pool thread: pc and the job it creates
  job,          \* the ingest jobs' status
  crashes

uploadVars == <<upload, offset>>
stagingVars == <<directory, present, staged>>
vars == <<uploadVars, stagingVars, fileLock, patch, thread, job, crashes>>

Lifecycle == INSTANCE JobLifecycle WITH Jobs <- Ingests, state <- job

UploadStates == {"absent", "uploading", "completed", "deleted"}
RowExists == upload \in {"uploading", "completed"}
Idle(r) == patch[r].pc = "idle"

\* Its own parts of the state; job is typed by JobLifecycle.
TypeOK ==
  /\ upload \in UploadStates
  /\ offset \in [Files -> Nat] /\ staged \in [Files -> Nat]
  /\ directory \in BOOLEAN /\ present \in [Files -> BOOLEAN]
  /\ \A f \in Files : fileLock[f] = "free" \/ fileLock[f] \in Patches
  /\ \A r \in Patches :
       /\ patch[r].pc \in {"idle", "locking", "reading", "staging", "opening", "streaming",
                           "storing", "stale"}
       /\ patch[r].file \in Files /\ patch[r].from \in Nat /\ patch[r].written \in 0..MaxChunk
  /\ \A t \in Threads : thread[t] \in {"idle", "complete", "delete", "unlink", "rmdir", "ingest"}
  /\ job \in [Ingests -> Lifecycle!JobStates]
  /\ crashes \in 0..MaxCrashes

Init ==
  /\ upload = "absent"
  /\ offset = [f \in Files |-> 0]
  /\ directory = FALSE /\ present = [f \in Files |-> FALSE] /\ staged = [f \in Files |-> 0]
  /\ fileLock = [f \in Files |-> "free"]
  /\ patch \in [Patches -> {[pc |-> "idle", file |-> f, from |-> 0, written |-> 0] : f \in Files}]
  /\ thread = [t \in Threads |-> "idle"]
  /\ Lifecycle!LInit
  /\ crashes = 0

\* POST /uploads: mkdir, then both INSERTs in one transaction.
Create ==
  /\ upload = "absent" /\ ~directory
  /\ directory' = TRUE /\ upload' = "uploading"
  /\ UNCHANGED <<offset, present, staged, fileLock, patch, thread, job, crashes>>

-----------------------------------------------------------------------------
(* PATCH: append_chunk.                                                    *)

\* The request leaves the lock (async with) and is answered.
Answered(r) ==
  /\ patch' = [patch EXCEPT ![r].pc = "idle", ![r].from = 0, ![r].written = 0]
  /\ fileLock' = [fileLock EXCEPT ![patch[r].file] = "free"]

PatchGoes(r, from, to) ==
  /\ patch[r].pc = from
  /\ patch' = [patch EXCEPT ![r].pc = to]
  /\ UNCHANGED fileLock

\* Nothing outside the PATCH and the staged files changes.
PatchOnly == UNCHANGED <<upload, directory, thread, job, crashes>>

\* The status is read here, before the wait for the file's lock.
PatchBegins(r, f, n) ==
  /\ Idle(r) /\ upload = "uploading"
  /\ patch' = [patch EXCEPT ![r] = [pc |-> "locking", file |-> f, from |-> n, written |-> 0]]
  /\ UNCHANGED <<fileLock, offset, present, staged>> /\ PatchOnly

\* Mutant: no lock, or one that is not shared between requests.
PatchSkipsLock(r) ==
  /\ patch[r].pc = "locking"
  /\ patch' = [patch EXCEPT ![r].pc = "reading"]
  /\ UNCHANGED <<fileLock, offset, present, staged>> /\ PatchOnly

PatchLocks(r) ==
  /\ patch[r].pc = "locking" /\ fileLock[patch[r].file] = "free"
  /\ patch' = [patch EXCEPT ![r].pc = "reading"]
  /\ fileLock' = [fileLock EXCEPT ![patch[r].file] = r]
  /\ UNCHANGED <<offset, present, staged>> /\ PatchOnly

\* Row gone (the assert), offset mismatch, or nothing left to upload.
NothingToAppend(r) ==
  LET f == patch[r].file IN ~RowExists \/ patch[r].from # offset[f] \/ offset[f] >= Size[f]

PatchReads(r) ==
  /\ patch[r].pc = "reading"
  /\ IF NothingToAppend(r)
       THEN Answered(r)
       ELSE PatchGoes(r, "reading", "staging")
  /\ UNCHANGED <<offset, present, staged>> /\ PatchOnly

StagedSize(f) == IF present[f] THEN staged[f] ELSE 0

\* mkdir(exist_ok) and stat: a file of another length is a 409.
PatchStats(r) ==
  /\ patch[r].pc = "staging"
  /\ directory' = TRUE
  /\ IF StagedSize(patch[r].file) # patch[r].from
       THEN Answered(r)
       ELSE PatchGoes(r, "staging", "opening")
  /\ UNCHANGED <<uploadVars, present, staged, thread, job, crashes>>

\* open("ab") creates the file unless rmtree has removed the directory.
PatchOpens(r) ==
  LET f == patch[r].file IN
  /\ patch[r].pc = "opening"
  /\ IF directory
       THEN /\ PatchGoes(r, "opening", "streaming")
            /\ present' = [present EXCEPT ![f] = TRUE]
            /\ staged' = [staged EXCEPT ![f] = StagedSize(f)]
       ELSE Answered(r) /\ UNCHANGED <<present, staged>>
  /\ UNCHANGED offset
  /\ PatchOnly

\* Mutant: the limit on one request's body is not enforced.
PieceFitsFile(r) ==
  LET p == patch[r] IN p.from + p.written < Size[p.file]

\* A piece that breaks neither limit.  Once rmtree has unlinked the file the
\* bytes go to an inode without a name.
PieceFits(r) ==
  LET p == patch[r] IN p.written < MaxChunk /\ p.from + p.written < Size[p.file]

PatchWrites(r) ==
  LET f == patch[r].file IN
  /\ patch[r].pc = "streaming" /\ PieceFits(r)
  /\ patch' = [patch EXCEPT ![r].written = @ + 1]
  /\ staged' = IF present[f] THEN [staged EXCEPT ![f] = @ + 1] ELSE staged
  /\ UNCHANGED <<fileLock, offset, present>> /\ PatchOnly

TruncateStaged(r) ==
  staged' = IF present[patch[r].file] THEN [staged EXCEPT ![patch[r].file] = patch[r].from]
                                      ELSE staged

\* Mutant: the pieces of a refused chunk stay in the file.
PatchAbortsUntruncated(r) ==
  /\ patch[r].pc = "streaming"
  /\ Answered(r)
  /\ UNCHANGED <<offset, present, staged>> /\ PatchOnly

\* A piece over a limit, or the client's disconnect: back to the old length.
PatchAborts(r) ==
  /\ patch[r].pc = "streaming"
  /\ TruncateStaged(r)
  /\ Answered(r)
  /\ UNCHANGED <<offset, present>> /\ PatchOnly

PatchStreamEnds(r) ==
  /\ PatchGoes(r, "streaming", "storing")
  /\ UNCHANGED <<offset, present, staged>> /\ PatchOnly

\* set_upload_offset: an UPDATE that repeats the offset read under the lock.
PatchStores(r) ==
  LET f == patch[r].file IN
  /\ patch[r].pc = "storing"
  /\ IF RowExists /\ offset[f] = patch[r].from
       THEN /\ Answered(r)
            /\ offset' = [offset EXCEPT ![f] = patch[r].from + patch[r].written]
       ELSE PatchGoes(r, "storing", "stale") /\ UNCHANGED offset
  /\ UNCHANGED <<present, staged>> /\ PatchOnly

\* The row was deleted meanwhile: truncate (an error when the file is gone).
PatchFindsStale(r) ==
  /\ patch[r].pc = "stale"
  /\ TruncateStaged(r)
  /\ Answered(r)
  /\ UNCHANGED <<offset, present>> /\ PatchOnly

PatchStep(r) ==
  \/ PatchLocks(r) \/ PatchReads(r) \/ PatchStats(r) \/ PatchOpens(r) \/ PatchWrites(r)
  \/ PatchAborts(r) \/ PatchStreamEnds(r) \/ PatchStores(r) \/ PatchFindsStale(r)

-----------------------------------------------------------------------------
(* complete, delete and create_ingest, each on a pool thread.              *)

ThreadGoes(t, from, to) ==
  /\ thread[t] = from
  /\ thread' = [thread EXCEPT ![t] = to]
  /\ UNCHANGED <<offset, fileLock, patch, crashes>>

\* Mutant: one whole file is enough.
AnyWhole == \E f \in Files : offset[f] = Size[f]

AllWhole == \A f \in Files : offset[f] = Size[f]

CompleteChecks(t) ==
  /\ upload = "uploading" /\ AllWhole
  /\ ThreadGoes(t, "idle", "complete")
  /\ UNCHANGED <<upload, stagingVars, job>>

\* complete_upload has no guard but the row's existence.
CompleteWrites(t) ==
  /\ ThreadGoes(t, "complete", "idle")
  /\ upload' = IF RowExists THEN "completed" ELSE upload
  /\ UNCHANGED <<stagingVars, job>>

\* has_active_job_for_upload
HasActiveJob == \E j \in Ingests : job[j] \in {"queued", "running"}

DeleteChecks(t) ==
  /\ RowExists /\ ~HasActiveJob
  /\ ThreadGoes(t, "idle", "delete")
  /\ UNCHANGED <<upload, stagingVars, job>>

\* DELETE with ON DELETE CASCADE; a second delete finds no row and is a 404.
DeleteRow(t) ==
  /\ ThreadGoes(t, "delete", IF RowExists THEN "unlink" ELSE "idle")
  /\ upload' = IF RowExists THEN "deleted" ELSE upload
  /\ UNCHANGED <<stagingVars, job>>

\* rmtree: unlink what the listing showed ...
DeleteUnlinks(t) ==
  /\ ThreadGoes(t, "unlink", "rmdir")
  /\ present' = [f \in Files |-> FALSE]
  /\ UNCHANGED <<upload, directory, staged, job>>

\* ... and remove the directory, unless something was created in it meanwhile.
DeleteRmdir(t) ==
  /\ ThreadGoes(t, "rmdir", "idle")
  /\ directory' = (\E f \in Files : present[f])
  /\ UNCHANGED <<upload, present, staged, job>>

\* _require_completed_upload
IngestChecks(t) ==
  /\ upload = "completed" /\ \E j \in Ingests : job[j] = "absent"
  /\ ThreadGoes(t, "idle", "ingest")
  /\ UNCHANGED <<upload, stagingVars, job>>

\* create_job: no foreign key ties the job to the upload.
IngestSubmits(t) ==
  /\ ThreadGoes(t, "ingest", "idle")
  /\ \E j \in Ingests : Lifecycle!Submit(j)
  /\ UNCHANGED <<upload, stagingVars>>

ThreadStep(t) ==
  \/ CompleteChecks(t) \/ CompleteWrites(t) \/ DeleteChecks(t) \/ DeleteRow(t)
  \/ DeleteUnlinks(t) \/ DeleteRmdir(t) \/ IngestChecks(t) \/ IngestSubmits(t)

-----------------------------------------------------------------------------

JobStep ==
  /\ \E j \in Ingests : Lifecycle!Start(j) \/ Lifecycle!End(j) \/ Lifecycle!Cancel(j)
  /\ UNCHANGED <<uploadVars, stagingVars, fileLock, patch, thread, crashes>>

\* The process ends and starts again: every request in flight is gone, the
\* database and the staging directory stay.
Crash ==
  /\ crashes < MaxCrashes /\ crashes' = crashes + 1
  /\ fileLock' = [f \in Files |-> "free"]
  /\ patch' = [r \in Patches |-> [patch[r] EXCEPT !.pc = "idle", !.from = 0, !.written = 0]]
  /\ thread' = [t \in Threads |-> "idle"]
  /\ Lifecycle!Interrupt
  /\ UNCHANGED <<uploadVars, stagingVars>>

Next ==
  \/ Create
  \/ \E r \in Patches : PatchStep(r)
  \/ \E r \in Patches, f \in Files : \E n \in 0..Size[f] : PatchBegins(r, f, n)
  \/ \E t \in Threads : ThreadStep(t)
  \/ JobStep
  \/ Crash

Spec == Init /\ [][Next]_vars

-----------------------------------------------------------------------------
(* Properties.                                                             *)

\* The offset a client is told never runs ahead of the bytes on disk, and outside
\* an append, as long as the process has not died, it is exactly their number:
\* a refused, aborted or overtaken chunk leaves nothing behind (uploads.py:124).
StagingInSync ==
  RowExists => \A f \in Files :
    /\ offset[f] <= StagedSize(f)
    /\ fileLock[f] = "free" /\ crashes = 0 => offset[f] = StagedSize(f)

\* The bytes a request appends stand right after the ones it knows of: its n-th
\* piece is at position from + n of the file, whoever else is patching it.
PiecesInPlace ==
  \A r \in Patches : RowExists /\ patch[r].pc \in {"streaming", "storing"} =>
    StagedSize(patch[r].file) = patch[r].from + patch[r].written

\* A completed upload is whole on disk, whatever was retried, refused or
\* interrupted before, and no later request changes it.
CompletedIsWhole ==
  upload = "completed" => \A f \in Files : offset[f] = Size[f] /\ StagedSize(f) = Size[f]

\* After a crash too the upload can be resumed from the offset HEAD returns
\* ("Create a resumable upload session", api/README.md:60).
Resumable ==
  upload = "uploading" => \A f \in Files : fileLock[f] = "free" => StagedSize(f) = offset[f]

=============================================================================
