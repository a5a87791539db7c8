\* A cancellation decided on a row that has since been claimed.
CONSTANTS
  j1 = j1
  j2 = j2
  NoJob = NoJob
  Jobs = {j1}
  JobType <- MCJobType1
  Cancellers = {c1}
  Uploads = {}
  Reads = {}
  Browses = {}
  ClientsReturn = FALSE
  HandlesGetLost = FALSE
  OrphansSurvive = FALSE
  MaxRestarts = 0
  MaxFaults = 0
SPECIFICATION Spec
CHECK_DEADLOCK FALSE
PROPERTIES
  CancelledNeverStarts
