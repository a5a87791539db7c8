\* Two requests load one dataset.
CONSTANTS
  r1 = r1
  r2 = r2
  r3 = r3
  d1 = d1
  d2 = d2
  Requests = {r1, r2}
  Datasets = {d1}
  CacheLimit = 2
  MaxVersion = 2
SPECIFICATION Spec
INVARIANTS
  RequestSeesWholeMesh
