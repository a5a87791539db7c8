\* A benchmark and an ingest, a cancellation, a chunk, a read, a discovery, an exception, a restart.
CONSTANTS
  j1 = j1
  j2 = j2
  NoJob = NoJob
  Jobs = {j1, j2}
  JobType <- MCJobType
  Cancellers = {c1}
  Uploads = {u1}
  Reads = {r1}
  Browses = {b1}
  ClientsReturn = FALSE
  HandlesGetLost = FALSE
  OrphansSurvive = FALSE
  MaxRestarts = 1
  MaxFaults = 1
SPECIFICATION Spec
CHECK_DEADLOCK FALSE
INVARIANTS
  TypeOK
  GateCountsMatch
  HeavyJobsUndisturbed
  RunningIsOwned
  SucceededIsHonest
