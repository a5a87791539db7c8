\* A crash while a chunk is streamed.
CONSTANTS
  f1 = f1
  f2 = f2
  r1 = r1
  r2 = r2
  Files = {f1}
  Size <- MCSize1
  MaxChunk = 2
  Patches = {r1}
  Threads = {}
  Ingests = {i1}
  MaxCrashes = 1
SPECIFICATION Spec
CHECK_DEADLOCK FALSE
INVARIANTS
  Resumable
