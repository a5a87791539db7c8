\* The coupling over a bucket index, one job and two shell runs on one path.
SPECIFICATION MCSpec
CONSTANTS
  Cells <- MCCells
  Span = 6
  TargetDim = 6
  MaxBucketsPerCell = 5
  MaxIncidences = 100
  Runs = {j1, s1, s2}
  Jobs = {j1}
  Nodes = 3
  BatchSize = 2
  Overlap = FALSE
  NoFile = NoFile
CONSTRAINT FewShared
CHECK_DEADLOCK FALSE
INVARIANTS TypeOK OutputIsWhole AgreesWithInterpolation ProgressIsHonest
PROPERTY OutputKept
