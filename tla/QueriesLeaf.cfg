SPECIFICATION SpecAll
CONSTANTS
  FileSets <- OutletFiles
  Indices <- TestIndices
  InLimit = 1
  RunsLimit = 1
  RunsPerQuery = 1
  Dense <- SevenTenths
  ManyChunks = 1
  SpanLimit = 4
  Chunk = 2
  AggregateChunk = 3
  MinNeighbours = 2
  PointLists <- TestLists
  Thresholds <- TestThresholds
  MaxIngests = 2
  DefaultZone <- Fluid
  ChangeZones = FALSE
INVARIANT ScalarsAreTheFiles
