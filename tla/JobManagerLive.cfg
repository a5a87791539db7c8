\* Fair threads: cancellations converge and the queue drains.
CONSTANTS
  j1 = j1
  j2 = j2
  NoJob = NoJob
  Jobs = {j1, j2}
  JobType <- MCJobType
  Cancellers = {c1}
  Uploads = {u1}
  Reads = {r1}
  Browses = {}
  ClientsReturn = FALSE
  HandlesGetLost = TRUE
  OrphansSurvive = FALSE
  MaxRestarts = 0
  MaxFaults = 0
SPECIFICATION FairSpec
CHECK_DEADLOCK FALSE
PROPERTIES
  CancellationConverges
  QueueDrains
