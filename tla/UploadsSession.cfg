\* Two files, two concurrent chunks, two threads, an ingest, a crash.
CONSTANTS
  f1 = f1
  f2 = f2
  r1 = r1
  r2 = r2
  Files = {f1, f2}
  Size <- MCSize
  MaxChunk = 2
  Patches = {r1, r2}
  Threads = {t1, t2}
  Ingests = {i1}
  MaxCrashes = 1
SPECIFICATION Spec
CHECK_DEADLOCK FALSE
INVARIANTS
  TypeOK
  StagingInSync
  PiecesInPlace
  CompletedIsWhole
