\* The coupling of a mesh that is too large for the bucket index.
SPECIFICATION MCSpec
CONSTANTS
  Cells <- MCCells
  Span = 6
  TargetDim = 6
  MaxBucketsPerCell = 5
  MaxIncidences = 1
  Runs = {j1}
  Jobs = {j1}
  Nodes = 3
  BatchSize = 2
  Overlap = FALSE
  NoFile = NoFile
CHECK_DEADLOCK FALSE
INVARIANT AgreesWithInterpolation
