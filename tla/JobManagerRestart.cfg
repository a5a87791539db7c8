\* Two jobs, a cancellation, lost handles, two exceptions, two restarts.
CONSTANTS
  j1 = j1
  j2 = j2
  NoJob = NoJob
  Jobs = {j1, j2}
  JobType <- MCJobType
  Cancellers = {c1}
  Uploads = {}
  Reads = {}
  Browses = {}
  ClientsReturn = FALSE
  HandlesGetLost = TRUE
  OrphansSurvive = FALSE
  MaxRestarts = 2
  MaxFaults = 2
SPECIFICATION Spec
CHECK_DEADLOCK FALSE
INVARIANTS
  OneSubprocess
PROPERTIES
  StartedOnce
  ClaimedInOrder
  ImplementsLifecycle
