\* Subprocesses outlive the API process.
CONSTANTS
  j1 = j1
  j2 = j2
  NoJob = NoJob
  Jobs = {j1}
  JobType <- MCJobType1
  Cancellers = {}
  Uploads = {}
  Reads = {}
  Browses = {}
  ClientsReturn = FALSE
  HandlesGetLost = FALSE
  OrphansSurvive = TRUE
  MaxRestarts = 1
  MaxFaults = 0
SPECIFICATION Spec
CHECK_DEADLOCK FALSE
INVARIANTS
  InterruptedIsGone
