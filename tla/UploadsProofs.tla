---------------------------- MODULE UploadsProofs ----------------------------
(***************************************************************************)
(* Theorems about Uploads, for any files and sizes, any limit on a chunk,  *)
(* and any number of concurrent requests, ingests and crashes.             *)
(***************************************************************************)
EXTENDS Uploads, TLAPS

USE SizeAssumption, BoundsAssumption, PatchesAssumption

PatchStates == {"idle", "locking", "reading", "staging", "opening", "streaming", "storing", "stale"}
PatchType == [pc : PatchStates, file : Files, from : Nat, written : 0..MaxChunk]

Typed ==
  /\ upload \in UploadStates
  /\ offset \in [Files -> Nat] /\ staged \in [Files -> Nat]
  /\ directory \in BOOLEAN /\ present \in [Files -> BOOLEAN]
  /\ fileLock \in [Files -> Patches \cup {"free"}]
  /\ patch \in [Patches -> PatchType]
  /\ thread \in [Threads -> {"idle", "complete", "delete", "unlink", "rmdir", "ingest"}]
  /\ job \in [Ingests -> Lifecycle!JobStates]
  /\ crashes \in 0..MaxCrashes

Writing == {"streaming", "storing"}
Appending == {"staging", "opening", "streaming", "storing"}
Holding == {"reading", "stale"} \cup Appending

\* A request past the lock holds the lock of its file.
Locked == \A r \in Patches : patch[r].pc \in Holding => fileLock[patch[r].file] = r

\* Nothing happens before the session exists, and only a deleted one is removed from the disk.
Ordered ==
  /\ upload = "absent" =>
       /\ \A f \in Files : offset[f] = 0 /\ ~present[f]
       /\ \A r \in Patches : Idle(r)
       /\ \A t \in Threads : thread[t] = "idle"
  /\ \A t \in Threads : thread[t] \in {"unlink", "rmdir"} => upload = "deleted"

\* A request that appends knows the offset, there is room for more, and what it has written stands
\* after the bytes that the offset counts.
Appends(r) ==
  LET f == patch[r].file IN
  /\ patch[r].pc # "stale"
  /\ patch[r].pc \in {"locking", "reading", "staging", "opening"} => patch[r].written = 0
  /\ patch[r].pc \in Appending => patch[r].from = offset[f] /\ patch[r].from < Size[f]
  /\ patch[r].pc = "opening" => StagedSize(f) = patch[r].from
  /\ patch[r].pc \in Writing =>
       /\ present[f] /\ staged[f] = patch[r].from + patch[r].written
       /\ staged[f] <= Size[f]

Quiet(f) == \A r \in Patches : patch[r].pc \in Writing => patch[r].file # f

\* The staged file has what the offset counts, and no more where nobody writes and none has died.
Synced(f) ==
  /\ offset[f] <= StagedSize(f) /\ StagedSize(f) <= Size[f]
  /\ Quiet(f) /\ crashes = 0 => offset[f] = StagedSize(f)

\* Once the files are whole they stay so, as nothing is left to append.
Completing == (\E t \in Threads : thread[t] = "complete") \/ upload = "completed"

InStep ==
  RowExists => /\ \A r \in Patches : Appends(r)
               /\ \A f \in Files : Synced(f)
               /\ Completing => AllWhole

IInv == Typed /\ Locked /\ Ordered /\ InStep

\* The record of a request that has been answered, or that died with the process.
LEMMA AnsweredType ==
  ASSUME NEW p \in PatchType
  PROVE  /\ [p EXCEPT !.pc = "idle", !.from = 0, !.written = 0] \in PatchType
         /\ [p EXCEPT !.pc = "idle", !.from = 0, !.written = 0].pc = "idle"
<1> DEFINE one == [p EXCEPT !.pc = "idle"]
           two == [one EXCEPT !.from = 0]
           three == [two EXCEPT !.written = 0]
<1>1. 0 \in Nat /\ 0 \in 0..MaxChunk /\ "idle" \in PatchStates
  BY DEF PatchStates
<1>2. one \in PatchType /\ one.pc = "idle"
  BY <1>1 DEF PatchType
<1> HIDE DEF one
<1>3. two \in PatchType /\ two.pc = "idle"
  BY <1>1, <1>2 DEF PatchType
<1> HIDE DEF two
<1>4. three \in PatchType /\ three.pc = "idle"
  BY <1>1, <1>3 DEF PatchType
<1>5. three = [p EXCEPT !.pc = "idle", !.from = 0, !.written = 0]
  BY DEF two, one
<1>6. QED
  BY <1>4, <1>5

LEMMA InitHolds == Init => IInv
<1> SUFFICES ASSUME Init PROVE IInv
  OBVIOUS
<1>1. Typed
  <2>1. \A f \in Files : [pc |-> "idle", file |-> f, from |-> 0, written |-> 0] \in PatchType
    BY DEF PatchType, PatchStates
  <2>2. patch \in [Patches -> PatchType]
    BY <2>1 DEF Init
  <2>3. job \in [Ingests -> Lifecycle!JobStates]
    BY DEF Init, Lifecycle!LInit, Lifecycle!JobStates
  <2>4. fileLock \in [Files -> Patches \cup {"free"}]
        /\ thread \in [Threads -> {"idle", "complete", "delete", "unlink", "rmdir", "ingest"}]
    BY DEF Init
  <2>5. upload \in UploadStates /\ directory \in BOOLEAN /\ crashes \in 0..MaxCrashes
    <3>1. upload = "absent" /\ directory = FALSE /\ crashes = 0
      BY DEF Init
    <3>2. crashes \in 0..MaxCrashes
      BY <3>1
    <3>3. QED
      BY <3>1, <3>2, Zenon DEF UploadStates
  <2>6. offset \in [Files -> Nat] /\ staged \in [Files -> Nat] /\ present \in [Files -> BOOLEAN]
    BY DEF Init
  <2>7. QED
    BY <2>2, <2>3, <2>4, <2>5, <2>6 DEF Typed
<1>2. \A r \in Patches : patch[r].pc = "idle"
  BY DEF Init
<1>3. Locked /\ Ordered
  BY <1>2 DEF Init, Locked, Ordered, Holding, Appending, Idle
<1>4. InStep
  BY DEF Init, InStep, RowExists
<1>5. QED
  BY <1>1, <1>3, <1>4 DEF IInv

-----------------------------------------------------------------------------
(* Types and locks.                                                        *)

LEMMA TypeStep == ASSUME Typed, Next PROVE Typed'
<1> USE DEF Typed
<1>1. CASE Create
  BY <1>1 DEF Create, UploadStates
<1>2. ASSUME NEW r \in Patches, PatchStep(r) PROVE Typed'
  <2>1. patch[r] \in PatchType /\ patch[r].file \in Files /\ patch[r].from \in Nat
        /\ patch[r].written \in 0..MaxChunk /\ patch[r].pc \in PatchStates
    BY DEF PatchType
  <2>2. ASSUME NEW to \in PatchStates
        PROVE  [patch EXCEPT ![r].pc = to] \in [Patches -> PatchType]
    BY <2>1 DEF PatchType
  <2>3. [patch EXCEPT ![r].pc = "idle", ![r].from = 0, ![r].written = 0] \in [Patches -> PatchType]
    <3>1. [patch EXCEPT ![r].pc = "idle", ![r].from = 0, ![r].written = 0]
            = [patch EXCEPT ![r] = [patch[r] EXCEPT !.pc = "idle", !.from = 0, !.written = 0]]
      OBVIOUS
    <3>2. QED
      BY <2>1, <3>1, AnsweredType
  <2>4. Answered(r) => patch' \in [Patches -> PatchType]
                       /\ fileLock' \in [Files -> Patches \cup {"free"}]
    BY <2>1, <2>3 DEF Answered
  <2>5. \A from, to \in PatchStates :
          PatchGoes(r, from, to) => patch' \in [Patches -> PatchType]
                                    /\ fileLock' \in [Files -> Patches \cup {"free"}]
    BY <2>2 DEF PatchGoes
  <2>6. \A f \in Files : StagedSize(f) \in Nat
    BY DEF StagedSize
  <2>7. CASE PatchLocks(r)
    BY <2>1, <2>2, <2>7 DEF PatchLocks, PatchOnly, PatchStates
  <2>8. CASE PatchReads(r)
    BY <2>4, <2>5, <2>8 DEF PatchReads, PatchOnly, PatchStates
  <2>9. CASE PatchStats(r)
    BY <2>4, <2>5, <2>9 DEF PatchStats, PatchStates, uploadVars
  <2>10. CASE PatchOpens(r)
    BY <2>1, <2>4, <2>5, <2>6, <2>10 DEF PatchOpens, PatchOnly, PatchStates
  <2>11. CASE PatchWrites(r)
    <3>1. patch[r].written + 1 \in 0..MaxChunk
      BY <2>1, <2>11 DEF PatchWrites, PieceFits
    <3>2. [patch EXCEPT ![r].written = @ + 1] \in [Patches -> PatchType]
      BY <2>1, <3>1 DEF PatchType
    <3>3. QED
      BY <2>1, <2>11, <3>2 DEF PatchWrites, PatchOnly
  <2>12. CASE PatchAborts(r)
    BY <2>1, <2>4, <2>12 DEF PatchAborts, TruncateStaged, PatchOnly
  <2>13. CASE PatchStreamEnds(r)
    BY <2>5, <2>13 DEF PatchStreamEnds, PatchOnly, PatchStates
  <2>14. CASE PatchStores(r)
    <3>1. patch[r].from + patch[r].written \in Nat
      BY <2>1
    <3>2. QED
      BY <2>1, <2>4, <2>5, <2>14, <3>1 DEF PatchStores, PatchOnly, PatchStates
  <2>15. CASE PatchFindsStale(r)
    BY <2>1, <2>4, <2>15 DEF PatchFindsStale, TruncateStaged, PatchOnly
  <2>16. QED
    BY <1>2, <2>7, <2>8, <2>9, <2>10, <2>11, <2>12, <2>13, <2>14, <2>15 DEF PatchStep
<1>3. ASSUME NEW r \in Patches, NEW f \in Files, NEW n \in 0..Size[f], PatchBegins(r, f, n)
      PROVE  Typed'
  <2>1. n \in Nat
    OBVIOUS
  <2>2. [pc |-> "locking", file |-> f, from |-> n, written |-> 0] \in PatchType
    BY <2>1 DEF PatchType, PatchStates
  <2>3. QED
    BY <1>3, <2>2 DEF PatchBegins, PatchOnly
<1>4. ASSUME NEW t \in Threads, ThreadStep(t) PROVE Typed'
  <2>1. CASE CompleteChecks(t) \/ CompleteWrites(t) \/ DeleteChecks(t) \/ DeleteRow(t)
    BY <2>1 DEF CompleteChecks, CompleteWrites, DeleteChecks, DeleteRow, ThreadGoes, UploadStates,
                stagingVars
  <2>2. CASE DeleteUnlinks(t) \/ DeleteRmdir(t) \/ IngestChecks(t)
    BY <2>2 DEF DeleteUnlinks, DeleteRmdir, IngestChecks, ThreadGoes, stagingVars
  <2>3. CASE IngestSubmits(t)
    BY <2>3 DEF IngestSubmits, ThreadGoes, stagingVars, Lifecycle!Submit, Lifecycle!Becomes,
                Lifecycle!JobStates
  <2>4. QED
    BY <1>4, <2>1, <2>2, <2>3 DEF ThreadStep
<1>5. CASE JobStep
  BY <1>5 DEF JobStep, uploadVars, stagingVars, Lifecycle!Start, Lifecycle!End, Lifecycle!Cancel,
              Lifecycle!Becomes, Lifecycle!JobStates, Lifecycle!Ended
<1>6. CASE Crash
  <2>1. \A r \in Patches :
          [patch[r] EXCEPT !.pc = "idle", !.from = 0, !.written = 0] \in PatchType
    BY AnsweredType
  <2>2. job' \in [Ingests -> Lifecycle!JobStates]
    BY <1>6 DEF Crash, Lifecycle!Interrupt, Lifecycle!JobStates
  <2>3. patch' \in [Patches -> PatchType]
    BY <1>6, <2>1 DEF Crash
  <2>4. fileLock' \in [Files -> Patches \cup {"free"}]
        /\ thread' \in [Threads -> {"idle", "complete", "delete", "unlink", "rmdir", "ingest"}]
    BY <1>6 DEF Crash
  <2>5. crashes' \in 0..MaxCrashes
    <3>1. crashes < MaxCrashes /\ crashes' = crashes + 1
      BY <1>6 DEF Crash
    <3>2. QED
      BY <3>1
  <2>6. UNCHANGED <<upload, offset, directory, present, staged>>
    BY <1>6 DEF Crash, uploadVars, stagingVars
  <2>7. QED
    BY <2>2, <2>3, <2>4, <2>5, <2>6 DEF Typed
<1>7. QED
  BY <1>1, <1>2, <1>3, <1>4, <1>5, <1>6 DEF Next

\* What a step of a PATCH does to the request and to the lock of its file.
LEMMA PatchMoves ==
  ASSUME Typed, NEW r \in Patches, PatchStep(r)
  PROVE  /\ \A q \in Patches \ {r} : patch'[q] = patch[q]
         /\ patch'[r].file = patch[r].file
         /\ \A f \in Files : f # patch[r].file => fileLock'[f] = fileLock[f]
         /\ patch[r].pc # "idle"
         /\ UNCHANGED <<upload, thread, job, crashes>>
         /\ \/ PatchLocks(r)
            \/ Answered(r) /\ patch'[r].pc = "idle" /\ patch[r].pc # "locking"
            \/ UNCHANGED fileLock /\ patch[r].pc \in Holding
<1>1. patch[r] \in PatchType /\ patch[r].file \in Files
  BY DEF Typed, PatchType
<1>2. Answered(r) => /\ \A q \in Patches \ {r} : patch'[q] = patch[q]
                     /\ patch'[r].file = patch[r].file /\ patch'[r].pc = "idle"
                     /\ \A f \in Files : f # patch[r].file => fileLock'[f] = fileLock[f]
  BY <1>1 DEF Answered, Typed, PatchType
<1>3. \A from, to : PatchGoes(r, from, to) =>
         /\ \A q \in Patches \ {r} : patch'[q] = patch[q]
         /\ patch'[r].file = patch[r].file /\ UNCHANGED fileLock
  BY <1>1 DEF PatchGoes, Typed, PatchType
<1> USE DEF PatchOnly, uploadVars, Holding, Appending
<1>4. CASE PatchLocks(r)
  BY <1>1, <1>4 DEF PatchLocks, Typed, PatchType
<1>5. CASE PatchReads(r)
  BY <1>2, <1>3, <1>5 DEF PatchReads
<1>6. CASE PatchStats(r)
  BY <1>2, <1>3, <1>6 DEF PatchStats
<1>7. CASE PatchOpens(r)
  BY <1>2, <1>3, <1>7 DEF PatchOpens
<1>8. CASE PatchWrites(r)
  BY <1>1, <1>8 DEF PatchWrites, Typed, PatchType
<1>9. CASE PatchAborts(r)
  BY <1>2, <1>9 DEF PatchAborts
<1>10. CASE PatchStreamEnds(r)
  BY <1>3, <1>10 DEF PatchStreamEnds, PatchGoes
<1>11. CASE PatchStores(r)
  BY <1>2, <1>3, <1>11 DEF PatchStores
<1>12. CASE PatchFindsStale(r)
  BY <1>2, <1>12 DEF PatchFindsStale
<1>13. QED
  BY <1>4, <1>5, <1>6, <1>7, <1>8, <1>9, <1>10, <1>11, <1>12 DEF PatchStep

LEMMA LockedStep == ASSUME Typed, Locked, Next PROVE Locked'
<1> USE DEF Holding, Appending
<1>1. CASE Create \/ JobStep \/ \E t \in Threads : ThreadStep(t)
  BY <1>1 DEF Locked, Create, JobStep, ThreadStep, CompleteChecks, CompleteWrites, DeleteChecks,
              DeleteRow, DeleteUnlinks, DeleteRmdir, IngestChecks, IngestSubmits, ThreadGoes
<1>2. ASSUME NEW r \in Patches, PatchStep(r) PROVE Locked'
  <2>1. \A q \in Patches : patch[q].file \in Files
    BY DEF Typed, PatchType
  <2>2. fileLock \in [Files -> Patches \cup {"free"}]
    BY DEF Typed
  <2>3. CASE PatchLocks(r)
    <3>1. \A q \in Patches \ {r} : patch[q].pc \in Holding => patch[q].file # patch[r].file
      BY <2>3 DEF Locked, PatchLocks
    <3>2. fileLock'[patch[r].file] = r
      BY <2>1, <2>2, <2>3 DEF PatchLocks
    <3>3. QED
      BY <1>2, <2>1, <3>1, <3>2, PatchMoves DEF Locked
  <2>4. CASE Answered(r) /\ patch'[r].pc = "idle" /\ patch[r].pc # "locking"
    <3>1. patch[r].pc \in Holding
      <4>1. patch[r].pc \in PatchStates /\ patch[r].pc # "idle"
        BY <1>2, PatchMoves DEF Typed, PatchType
      <4>2. QED
        BY <2>4, <4>1 DEF PatchStates
    <3>2. \A q \in Patches \ {r} : patch[q].pc \in Holding => patch[q].file # patch[r].file
      BY <3>1 DEF Locked
    <3>3. QED
      BY <1>2, <2>1, <2>4, <3>2, PatchMoves DEF Locked
  <2>5. CASE UNCHANGED fileLock /\ patch[r].pc \in Holding
    BY <1>2, <2>5, PatchMoves DEF Locked
  <2>6. QED
    BY <1>2, <2>3, <2>4, <2>5, PatchMoves
<1>3. ASSUME NEW r \in Patches, NEW f \in Files, NEW n \in 0..Size[f], PatchBegins(r, f, n)
      PROVE  Locked'
  BY <1>3 DEF PatchBegins, Locked, Typed
<1>4. CASE Crash
  <2>1. \A r \in Patches : patch'[r].pc = "idle"
    BY <1>4, AnsweredType DEF Crash, Typed
  <2>2. QED
    BY <2>1 DEF Locked
<1>5. QED
  BY <1>1, <1>2, <1>3, <1>4 DEF Next

LEMMA OrderedStep == ASSUME Typed, Ordered, Next PROVE Ordered'
<1>1. CASE Create
  BY <1>1 DEF Create, Ordered
<1>2. ASSUME NEW r \in Patches, PatchStep(r) PROVE Ordered'
  BY <1>2, PatchMoves DEF Ordered, Idle
<1>3. ASSUME NEW r \in Patches, NEW f \in Files, NEW n \in 0..Size[f], PatchBegins(r, f, n)
      PROVE  Ordered'
  BY <1>3 DEF PatchBegins, PatchOnly, Ordered
<1>4. ASSUME NEW t \in Threads, ThreadStep(t) PROVE Ordered'
  <2>1. thread \in [Threads -> {"idle", "complete", "delete", "unlink", "rmdir", "ingest"}]
    BY DEF Typed
  <2>2. upload # "absent"
    BY <1>4, <2>1 DEF Ordered, ThreadStep, CompleteChecks, CompleteWrites, DeleteChecks, DeleteRow,
                      DeleteUnlinks, DeleteRmdir, IngestChecks, IngestSubmits, ThreadGoes, RowExists
  <2>3. upload' # "absent" /\ (upload = "deleted" => upload' = "deleted")
    BY <1>4, <2>2 DEF ThreadStep, CompleteChecks, CompleteWrites, DeleteChecks, DeleteRow,
                      DeleteUnlinks, DeleteRmdir, IngestChecks, IngestSubmits, ThreadGoes, RowExists
  <2>4. \A u \in Threads \ {t} : thread'[u] = thread[u]
    BY <1>4, <2>1 DEF ThreadStep, CompleteChecks, CompleteWrites, DeleteChecks, DeleteRow,
                      DeleteUnlinks, DeleteRmdir, IngestChecks, IngestSubmits, ThreadGoes
  <2>5. thread'[t] \in {"unlink", "rmdir"} => upload' = "deleted"
    BY <1>4, <2>1, <2>3 DEF Ordered, ThreadStep, CompleteChecks, CompleteWrites, DeleteChecks,
                      DeleteRow, DeleteUnlinks, DeleteRmdir, IngestChecks, IngestSubmits, ThreadGoes
  <2>6. QED
    BY <2>3, <2>4, <2>5 DEF Ordered
<1>5. CASE JobStep
  BY <1>5 DEF JobStep, uploadVars, stagingVars, Ordered, Idle
<1>6. CASE Crash
  <2>1. \A r \in Patches : patch'[r].pc = "idle"
    BY <1>6, AnsweredType DEF Crash, Typed
  <2>2. (\A t \in Threads : thread'[t] = "idle") /\ UNCHANGED <<upload, offset, present>>
    BY <1>6 DEF Crash, uploadVars, stagingVars
  <2>3. QED
    BY <2>1, <2>2 DEF Ordered, Idle
<1>7. QED
  BY <1>1, <1>2, <1>3, <1>4, <1>5, <1>6 DEF Next

-----------------------------------------------------------------------------
(* The offsets and the staged files.                                       *)

\* A step of a PATCH reaches the offset and the staged file of its own file only.
LEMMA PatchReaches ==
  ASSUME Typed, NEW r \in Patches, PatchStep(r)
  PROVE  \A g \in Files : g # patch[r].file =>
           offset'[g] = offset[g] /\ present'[g] = present[g] /\ staged'[g] = staged[g]
<1>1. patch[r].file \in Files
  BY DEF Typed, PatchType
<1> USE DEF Typed, PatchOnly, uploadVars
<1>2. CASE PatchLocks(r) \/ PatchReads(r) \/ PatchStats(r) \/ PatchStreamEnds(r)
  BY <1>2 DEF PatchLocks, PatchReads, PatchStats, PatchStreamEnds
<1>3. CASE PatchOpens(r)
  BY <1>1, <1>3 DEF PatchOpens
<1>4. CASE PatchWrites(r)
  BY <1>1, <1>4 DEF PatchWrites
<1>5. CASE PatchAborts(r) \/ PatchFindsStale(r)
  BY <1>1, <1>5 DEF PatchAborts, PatchFindsStale, TruncateStaged
<1>6. CASE PatchStores(r)
  BY <1>1, <1>6 DEF PatchStores
<1>7. QED
  BY <1>2, <1>3, <1>4, <1>5, <1>6, PatchMoves DEF PatchStep

\* What a step of a PATCH does to its own file while the session exists.
LEMMA PatchOwn ==
  ASSUME Typed, NEW r \in Patches, PatchStep(r), RowExists, Appends(r), Synced(patch[r].file),
         \A q \in Patches \ {r} : patch[q].pc \in Writing => patch[q].file # patch[r].file,
         patch[r].pc \in Writing \/ Quiet(patch[r].file)
  PROVE  /\ Appends(r)' /\ Synced(patch[r].file)'
         /\ patch[r].pc \notin Appending => offset' = offset
<1> DEFINE f == patch[r].file
<1>1. /\ patch[r] \in PatchType /\ f \in Files /\ patch[r].from \in Nat
      /\ patch[r].written \in 0..MaxChunk /\ offset[f] \in Nat /\ staged[f] \in Nat
      /\ present[f] \in BOOLEAN /\ Size[f] \in Nat /\ crashes \in Nat
  BY DEF Typed, PatchType
<1>2. patch'[r].file = f /\ crashes' = crashes
      /\ \A q \in Patches \ {r} : patch'[q] = patch[q]
  BY PatchMoves
<1>3. Quiet(f)' <=> patch'[r].pc \notin Writing
  BY <1>2 DEF Quiet
<1>4. Quiet(f) <=> patch[r].pc \notin Writing
  BY DEF Quiet
<1> DEFINE Own == Appends(r)' /\ Synced(f)' /\ (patch[r].pc \notin Appending => offset' = offset)
<1> USE DEF Writing, Appending, PatchOnly
<1>5. Answered(r) => patch'[r].pc = "idle"
  BY <1>1, AnsweredType, ZenonT(60) DEF Answered, Typed
<1>6. \A from, to : PatchGoes(r, from, to) =>
        /\ patch[r].pc = from /\ patch'[r].pc = to
        /\ patch'[r].from = patch[r].from /\ patch'[r].written = patch[r].written
  <2> SUFFICES ASSUME NEW from, NEW to, PatchGoes(r, from, to)
               PROVE  /\ patch[r].pc = from /\ patch'[r].pc = to
                      /\ patch'[r].from = patch[r].from /\ patch'[r].written = patch[r].written
    OBVIOUS
  <2>1. patch[r].pc = from /\ patch'[r] = [patch[r] EXCEPT !.pc = to]
    BY <1>1 DEF PatchGoes, Typed
  <2>2. QED
    BY <1>1, <2>1 DEF PatchType
<1>7. ASSUME UNCHANGED <<offset, present, staged>>, patch[r].pc \notin Writing,
             patch'[r].pc \notin Writing
      PROVE  Synced(f)'
  BY <1>2, <1>3, <1>4, <1>7 DEF Synced, StagedSize
<1>8. CASE PatchLocks(r)
  <2>1. patch'[r].pc = "reading" /\ patch[r].pc = "locking" /\ patch'[r].written = patch[r].written
    BY <1>1, <1>8 DEF PatchLocks, Typed, PatchType
  <2>2. QED
    BY <1>7, <1>8, <2>1 DEF PatchLocks, Appends
<1>9. CASE PatchReads(r)
  <2>1. patch[r].pc = "reading" /\ UNCHANGED <<offset, present, staged>>
    BY <1>9 DEF PatchReads
  <2>2. CASE NothingToAppend(r)
    BY <1>5, <1>7, <1>9, <2>1, <2>2 DEF PatchReads, Appends
  <2>3. CASE ~NothingToAppend(r)
    <3>1. patch'[r].pc = "staging" /\ patch'[r].from = patch[r].from
          /\ patch'[r].written = patch[r].written
      BY <1>1, <1>6, <1>9, <2>3 DEF PatchReads, PatchType
    <3>2. patch[r].from = offset[f] /\ patch[r].from < Size[f]
      BY <1>1, <2>3 DEF NothingToAppend
    <3>3. QED
      BY <1>2, <1>7, <2>1, <3>1, <3>2 DEF Appends
  <2>4. QED
    BY <2>2, <2>3
<1>10. CASE PatchStats(r)
  <2>1. patch[r].pc = "staging" /\ UNCHANGED <<offset, present, staged>>
    BY <1>10 DEF PatchStats, uploadVars
  <2>2. CASE StagedSize(f) # patch[r].from
    BY <1>5, <1>7, <1>10, <2>1, <2>2 DEF PatchStats, Appends
  <2>3. CASE StagedSize(f) = patch[r].from
    <3>1. patch'[r].pc = "opening" /\ patch'[r].from = patch[r].from
          /\ patch'[r].written = patch[r].written
      BY <1>1, <1>6, <1>10, <2>3 DEF PatchStats, PatchType
    <3>2. QED
      BY <1>2, <1>7, <2>1, <2>3, <3>1 DEF Appends, StagedSize
  <2>4. QED
    BY <2>2, <2>3
<1>11. CASE PatchOpens(r)
  <2>1. patch[r].pc = "opening" /\ UNCHANGED offset
    BY <1>11 DEF PatchOpens
  <2>2. CASE ~directory
    BY <1>5, <1>7, <1>11, <2>1, <2>2 DEF PatchOpens, Appends
  <2>3. CASE directory
    <3>1. patch'[r].pc = "streaming" /\ patch'[r].from = patch[r].from
          /\ patch'[r].written = patch[r].written
      BY <1>1, <1>6, <1>11, <2>3 DEF PatchOpens, PatchType
    <3>2. present'[f] /\ staged'[f] = StagedSize(f)
      BY <1>1, <1>11, <2>3 DEF PatchOpens, Typed
    <3>3. QED
      BY <1>1, <1>2, <1>3, <2>1, <3>1, <3>2 DEF Appends, Synced, StagedSize
  <2>4. QED
    BY <2>2, <2>3
<1>12. CASE PatchWrites(r)
  <2>1. patch[r].pc = "streaming" /\ UNCHANGED <<offset, present>>
    BY <1>12 DEF PatchWrites
  <2>2. patch'[r].pc = "streaming" /\ patch'[r].from = patch[r].from
        /\ patch'[r].written = patch[r].written + 1
    BY <1>1, <1>12 DEF PatchWrites, Typed, PatchType
  <2>3. present[f] /\ staged[f] = patch[r].from + patch[r].written
    BY <2>1 DEF Appends
  <2>4. staged'[f] = staged[f] + 1
    BY <1>1, <1>12, <2>3 DEF PatchWrites, Typed
  <2>5. patch[r].from + patch[r].written < Size[f]
    BY <1>12 DEF PatchWrites, PieceFits
  <2>6. QED
    BY <1>1, <1>2, <1>3, <2>1, <2>2, <2>3, <2>4, <2>5 DEF Appends, Synced, StagedSize
<1>13. CASE PatchAborts(r)
  <2>1. patch[r].pc = "streaming" /\ UNCHANGED <<offset, present>> /\ patch'[r].pc = "idle"
    BY <1>5, <1>13 DEF PatchAborts
  <2>2. present[f] /\ staged'[f] = patch[r].from
    BY <1>1, <1>13, <2>1 DEF PatchAborts, TruncateStaged, Appends, Typed
  <2>3. QED
    BY <1>1, <1>2, <1>3, <2>1, <2>2 DEF Appends, Synced, StagedSize
<1>14. CASE PatchStreamEnds(r)
  <2>1. patch[r].pc = "streaming" /\ UNCHANGED <<offset, present, staged>>
    BY <1>14 DEF PatchStreamEnds, PatchGoes
  <2>2. patch'[r].pc = "storing" /\ patch'[r].from = patch[r].from
        /\ patch'[r].written = patch[r].written
    BY <1>1, <1>6, <1>14 DEF PatchStreamEnds, PatchType
  <2>3. QED
    BY <1>1, <1>2, <1>3, <2>1, <2>2 DEF Appends, Synced, StagedSize
<1>15. CASE PatchStores(r)
  <2>1. patch[r].pc = "storing" /\ UNCHANGED <<present, staged>> /\ offset[f] = patch[r].from
    BY <1>15 DEF PatchStores, Appends
  <2>2. patch'[r].pc = "idle" /\ offset'[f] = patch[r].from + patch[r].written
    BY <1>1, <1>5, <1>15, <2>1 DEF PatchStores, Typed
  <2>3. QED
    BY <1>1, <1>2, <1>3, <2>1, <2>2 DEF Appends, Synced, StagedSize
<1>16. CASE PatchFindsStale(r)
  BY <1>16 DEF PatchFindsStale, Appends
<1>17. QED
  BY <1>8, <1>9, <1>10, <1>11, <1>12, <1>13, <1>14, <1>15, <1>16 DEF PatchStep

LEMMA InStepStep == ASSUME Typed, Locked, Ordered, InStep, Next PROVE InStep'
<1> USE DEF Writing, Appending, Holding
<1>1. CASE Create
  <2>1. \A f \in Files : offset[f] = 0 /\ ~present[f]
    BY <1>1 DEF Create, Ordered
  <2>2. (\A r \in Patches : patch[r].pc = "idle") /\ \A t \in Threads : thread[t] = "idle"
    BY <1>1 DEF Create, Ordered, Idle
  <2>3. UNCHANGED <<offset, present, staged, patch, thread>> /\ upload' = "uploading"
    BY <1>1 DEF Create
  <2>4. \A f \in Files : Size[f] \in Nat
    OBVIOUS
  <2>5. QED
    BY <2>1, <2>2, <2>3, <2>4 DEF InStep, Appends, Synced, StagedSize, Completing
<1>2. ASSUME NEW r \in Patches, PatchStep(r) PROVE InStep'
  <2> SUFFICES ASSUME RowExists
               PROVE  /\ \A q \in Patches : Appends(q)'
                      /\ \A f \in Files : Synced(f)'
                      /\ Completing' => AllWhole'
    BY <1>2, PatchMoves DEF InStep, RowExists
  <2>1. \A q \in Patches : patch[q].file \in Files /\ patch[q].pc \in PatchStates
    BY DEF Typed, PatchType
  <2>2. /\ \A q \in Patches \ {r} : patch'[q] = patch[q]
        /\ patch'[r].file = patch[r].file /\ UNCHANGED <<upload, thread, crashes>>
    BY <1>2, PatchMoves
  <2>3. patch[r].pc \in Holding =>
          \A q \in Patches \ {r} : patch[q].pc \in Holding => patch[q].file # patch[r].file
    BY DEF Locked
  <2>4. (patch[r].pc = "locking" /\ PatchLocks(r)) \/ patch[r].pc \in Holding
    BY <1>2, <2>1, PatchMoves DEF PatchStates, PatchLocks
  <2>5. \A q \in Patches \ {r} : patch[q].pc \in Holding => patch[q].file # patch[r].file
    <3>1. CASE patch[r].pc = "locking" /\ PatchLocks(r)
      BY <3>1 DEF PatchLocks, Locked
    <3>2. QED
      BY <2>3, <2>4, <3>1
  <2>6. patch[r].pc \in Writing \/ Quiet(patch[r].file)
    BY <2>5 DEF Quiet
  <2>7. /\ Appends(r)' /\ Synced(patch[r].file)'
        /\ patch[r].pc \notin Appending => offset' = offset
    BY <1>2, <2>1, <2>5, <2>6, PatchOwn DEF InStep
  <2>8. ASSUME NEW q \in Patches \ {r} PROVE Appends(q)'
    <3>1. CASE patch[q].pc \in Holding
      <4>1. LET g == patch[q].file IN
              offset'[g] = offset[g] /\ present'[g] = present[g] /\ staged'[g] = staged[g]
        BY <1>2, <2>1, <2>5, <3>1, PatchReaches
      <4>2. QED
        BY <2>2, <4>1 DEF InStep, Appends, StagedSize
    <3>2. CASE patch[q].pc \notin Holding
      BY <2>2, <3>2 DEF InStep, Appends
    <3>3. QED
      BY <3>1, <3>2
  <2>9. ASSUME NEW g \in Files, g # patch[r].file PROVE Synced(g)'
    <3>1. offset'[g] = offset[g] /\ present'[g] = present[g] /\ staged'[g] = staged[g]
      BY <1>2, <2>9, PatchReaches
    <3>2. Quiet(g)' <=> Quiet(g)
      BY <2>2, <2>9 DEF Quiet
    <3>3. QED
      BY <2>2, <3>1, <3>2 DEF InStep, Synced, StagedSize
  <2>10. ASSUME Completing' PROVE AllWhole'
    <3>1. AllWhole
      BY <2>2, <2>10 DEF InStep, Completing
    <3>2. patch[r].pc \notin Appending
      <4>1. offset[patch[r].file] = Size[patch[r].file] /\ Size[patch[r].file] \in Nat
        BY <2>1, <3>1 DEF AllWhole
      <4>2. QED
        BY <4>1 DEF InStep, Appends
    <3>3. QED
      BY <2>7, <3>1, <3>2 DEF AllWhole
  <2>11. \A q \in Patches : Appends(q)'
    BY <2>7, <2>8
  <2>12. \A f \in Files : Synced(f)'
    <3>1. ASSUME NEW f \in Files, f = patch[r].file PROVE Synced(f)'
      <4>1. f = patch'[r].file
        BY <2>2, <3>1
      <4>2. QED
        BY <2>7, <4>1 DEF Synced, StagedSize, Quiet
    <3>2. QED
      BY <2>9, <3>1
  <2>13. QED
    BY <2>10, <2>11, <2>12
<1>3. ASSUME NEW r \in Patches, NEW f \in Files, NEW n \in 0..Size[f], PatchBegins(r, f, n)
      PROVE  InStep'
  <2>1. /\ patch'[r] = [pc |-> "locking", file |-> f, from |-> n, written |-> 0]
        /\ \A q \in Patches \ {r} : patch'[q] = patch[q]
        /\ UNCHANGED <<upload, offset, present, staged, thread, crashes>>
        /\ patch[r].pc = "idle"
    BY <1>3 DEF PatchBegins, PatchOnly, Typed, Idle
  <2>2. \A g \in Files : Quiet(g)' <=> Quiet(g)
    BY <2>1 DEF Quiet
  <2>3. \A q \in Patches : RowExists => Appends(q)'
    BY <2>1 DEF InStep, Appends, StagedSize
  <2>4. QED
    BY <2>1, <2>2, <2>3 DEF InStep, Synced, StagedSize, Completing, AllWhole, RowExists
<1>4. ASSUME NEW t \in Threads, ThreadStep(t) PROVE InStep'
  <2> SUFFICES ASSUME RowExists' PROVE InStep'
    BY DEF InStep
  <2>1. thread \in [Threads -> {"idle", "complete", "delete", "unlink", "rmdir", "ingest"}]
    BY DEF Typed
  <2>2. RowExists
    BY <1>4 DEF RowExists, ThreadStep, CompleteChecks, CompleteWrites, DeleteChecks, DeleteRow,
                DeleteUnlinks, DeleteRmdir, IngestChecks, IngestSubmits
  <2>3. thread[t] \notin {"unlink", "rmdir"}
    BY <2>2 DEF Ordered, RowExists
  <2>4. UNCHANGED <<offset, present, staged, patch, crashes>>
    BY <1>4, <2>3 DEF ThreadStep, CompleteChecks, CompleteWrites, DeleteChecks, DeleteRow,
                      DeleteUnlinks, DeleteRmdir, IngestChecks, IngestSubmits, ThreadGoes, stagingVars
  <2>5. \A u \in Threads \ {t} : thread'[u] = thread[u]
    BY <1>4, <2>1 DEF ThreadStep, CompleteChecks, CompleteWrites, DeleteChecks, DeleteRow,
                      DeleteUnlinks, DeleteRmdir, IngestChecks, IngestSubmits, ThreadGoes
  <2>6. Completing' => Completing \/ AllWhole
    <3>1. CASE CompleteChecks(t)
      BY <3>1 DEF CompleteChecks
    <3>2. CASE CompleteWrites(t)
      BY <3>2 DEF CompleteWrites, ThreadGoes, Completing
    <3>3. CASE DeleteChecks(t) \/ DeleteRow(t) \/ IngestChecks(t) \/ IngestSubmits(t)
      <4>1. upload' = "completed" => upload = "completed"
        BY <3>3 DEF DeleteChecks, DeleteRow, IngestChecks, IngestSubmits
      <4>2. thread'[t] # "complete"
        BY <2>1, <3>3 DEF DeleteChecks, DeleteRow, IngestChecks, IngestSubmits, ThreadGoes
      <4>3. QED
        BY <2>5, <4>1, <4>2 DEF Completing
    <3>4. QED
      BY <1>4, <2>3, <3>1, <3>2, <3>3 DEF ThreadStep, DeleteUnlinks, DeleteRmdir, ThreadGoes
  <2>7. Completing' => AllWhole'
    BY <2>2, <2>4, <2>6 DEF InStep, AllWhole
  <2>8. \A r \in Patches : Appends(r)'
    BY <2>2, <2>4 DEF InStep, Appends, StagedSize
  <2>9. \A f \in Files : Synced(f)'
    BY <2>2, <2>4 DEF InStep, Synced, StagedSize, Quiet
  <2>10. QED
    BY <2>7, <2>8, <2>9 DEF InStep
<1>5. CASE JobStep
  BY <1>5 DEF JobStep, uploadVars, stagingVars, InStep, RowExists, Appends, Synced, StagedSize, Quiet,
              Completing, AllWhole
<1>6. CASE Crash
  <2>1. \A r \in Patches : patch'[r].pc = "idle"
    BY <1>6, AnsweredType DEF Crash, Typed
  <2>2. (\A t \in Threads : thread'[t] = "idle") /\ UNCHANGED <<upload, offset, present, staged>>
    BY <1>6 DEF Crash, uploadVars, stagingVars
  <2>3. crashes' # 0
    <3>1. crashes \in 0..MaxCrashes
      BY DEF Typed
    <3>2. crashes' = crashes + 1
      BY <1>6 DEF Crash
    <3>3. QED
      BY <3>1, <3>2
  <2>4. QED
    BY <2>1, <2>2, <2>3 DEF InStep, RowExists, Appends, Synced, StagedSize, Completing, AllWhole
<1>7. QED
  BY <1>1, <1>2, <1>3, <1>4, <1>5, <1>6 DEF Next

-----------------------------------------------------------------------------
(* The theorems.                                                           *)

LEMMA InductiveStep == IInv /\ [Next]_vars => IInv'
<1> SUFFICES ASSUME IInv, [Next]_vars PROVE IInv'
  OBVIOUS
<1>1. CASE Next
  BY <1>1, TypeStep, LockedStep, OrderedStep, InStepStep DEF IInv
<1>2. CASE UNCHANGED vars
  BY <1>2 DEF vars, uploadVars, stagingVars, IInv, Typed, Locked, Ordered, InStep, Idle, RowExists,
              Appends, Synced, StagedSize, Quiet, Completing, AllWhole
<1>3. QED
  BY <1>1, <1>2

LEMMA Inductive == Spec => []IInv
  BY InitHolds, InductiveStep, PTL DEF Spec

\* The session's rows, its staging directory and the requests on it keep their types.
THEOREM TypeCorrect == Spec => []TypeOK
<1>1. IInv => TypeOK
  BY DEF IInv, Typed, TypeOK, PatchType, PatchStates
<1>2. QED
  BY <1>1, Inductive, PTL

\* The offset a client is told is never ahead of the staged bytes, and outside an append, as long
\* as the process has not died, it is exactly their number.
THEOREM OffsetInSync == Spec => []StagingInSync
<1>1. IInv => StagingInSync
  <2> SUFFICES ASSUME IInv, RowExists, NEW f \in Files
               PROVE  /\ offset[f] <= StagedSize(f)
                      /\ fileLock[f] = "free" /\ crashes = 0 => offset[f] = StagedSize(f)
    BY DEF StagingInSync
  <2>1. Synced(f)
    BY DEF IInv, InStep
  <2>2. fileLock[f] = "free" => Quiet(f)
    BY DEF IInv, Locked, Holding, Appending, Writing, Quiet
  <2>3. QED
    BY <2>1, <2>2 DEF Synced
<1>2. QED
  BY <1>1, Inductive, PTL

\* The n-th piece of a request stands at position from + n of its file, whoever else is patching it.
THEOREM AppendsInPlace == Spec => []PiecesInPlace
<1>1. IInv => PiecesInPlace
  BY DEF IInv, InStep, PiecesInPlace, Appends, StagedSize, Writing
<1>2. QED
  BY <1>1, Inductive, PTL

\* A completed upload is whole on disk, whatever was retried, refused or interrupted.
THEOREM CompletedOnDisk == Spec => []CompletedIsWhole
<1>1. IInv => CompletedIsWhole
  <2> SUFFICES ASSUME IInv, upload = "completed", NEW f \in Files
               PROVE  offset[f] = Size[f] /\ StagedSize(f) = Size[f]
    BY DEF CompletedIsWhole
  <2>1. AllWhole /\ Synced(f)
    BY DEF IInv, InStep, RowExists, Completing
  <2>2. offset[f] \in Nat /\ StagedSize(f) \in Nat /\ Size[f] \in Nat
    BY DEF IInv, Typed, StagedSize
  <2>3. QED
    BY <2>1, <2>2 DEF AllWhole, Synced
<1>2. QED
  BY <1>1, Inductive, PTL
=============================================================================
