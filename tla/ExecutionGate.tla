---------------------------- MODULE ExecutionGate ----------------------------
(***************************************************************************)
(* The in-process gate between heavy jobs, upload chunks and interactive   *)
(* reads (class ExecutionGate, api/cfd_bench_api/jobs.py).  Each method    *)
(* runs under one condition variable, so each is atomic; a waiter in       *)
(* enter_job polls with a timeout, so a missed notification only delays it *)
(* and the wait is the action being disabled.                              *)
(***************************************************************************)
EXTENDS Naturals

VARIABLES
  activeJobType,          \* "none", or the type of the job inside the gate
  activeUploadChunks,
  activeInteractiveReads

gateVars == <<activeJobType, activeUploadChunks, activeInteractiveReads>>

JobTypes == {"ingest", "benchmark", "coupling"}

GateTypeOK ==
  /\ activeJobType \in JobTypes \cup {"none"}
  /\ activeUploadChunks \in Nat
  /\ activeInteractiveReads \in Nat

GateInit ==
  /\ activeJobType = "none"
  /\ activeUploadChunks = 0
  /\ activeInteractiveReads = 0

\* Mutant: chunks do not hold up a benchmark.
BlockedByReads(kind) == activeInteractiveReads > 0

\* Why a job of this type has to wait: a benchmark for chunks and reads, any
\* other heavy job for reads alone.
Blocked(kind) ==
  \/ activeInteractiveReads > 0
  \/ kind = "benchmark" /\ activeUploadChunks > 0

EnterJob(kind) ==
  /\ ~Blocked(kind)
  /\ activeJobType' = kind
  /\ UNCHANGED <<activeUploadChunks, activeInteractiveReads>>

LeaveJob ==
  /\ activeJobType' = "none"
  /\ UNCHANGED <<activeUploadChunks, activeInteractiveReads>>

UploadChunkAdmitted == activeJobType # "benchmark"

BeginUploadChunk ==
  /\ UploadChunkAdmitted
  /\ activeUploadChunks' = activeUploadChunks + 1
  /\ UNCHANGED <<activeJobType, activeInteractiveReads>>

\* max(0, n - 1)
Decremented(n) == IF n = 0 THEN 0 ELSE n - 1

\* Mutant: a path that leaves without end_upload_chunk.
ForgetUploadChunk == UNCHANGED gateVars

EndUploadChunk ==
  /\ activeUploadChunks' = Decremented(activeUploadChunks)
  /\ UNCHANGED <<activeJobType, activeInteractiveReads>>

\* Mutant: reads keep out of the way of benchmarks only.
ReadsAvoidBenchmarks == activeJobType # "benchmark"

InteractiveReadAdmitted == activeJobType \notin JobTypes

BeginInteractiveRead ==
  /\ InteractiveReadAdmitted
  /\ activeInteractiveReads' = activeInteractiveReads + 1
  /\ UNCHANGED <<activeJobType, activeUploadChunks>>

EndInteractiveRead ==
  /\ activeInteractiveReads' = Decremented(activeInteractiveReads)
  /\ UNCHANGED <<activeJobType, activeUploadChunks>>

=============================================================================
