\* Three requests for two datasets, a cache of one mesh, re-ingests.
CONSTANTS
  r1 = r1
  r2 = r2
  r3 = r3
  d1 = d1
  d2 = d2
  Requests = {r1, r2, r3}
  Datasets = {d1, d2}
  CacheLimit = 1
  MaxVersion = 2
SPECIFICATION Spec
SYMMETRY Symmetry
INVARIANTS
  TypeOK
  ArraysAgree
  SoleRequestIsAnswered
