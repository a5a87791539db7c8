---------------------------- MODULE Interpolation ----------------------------
(***************************************************************************)
(* POST /interpolate in the long-lived API process: requests on pool       *)
(* threads share the process-wide cache of static meshes                   *)
(* (infra/iotdb/mesh_runtime.py; the TileDB runtime is the same code),     *)
(* while the gate (ExecutionGate) keeps them apart from the ingests that   *)
(* rewrite a dataset.                                                      *)
(*                                                                         *)
(* A step is one operation on the shared OrderedDict or on a field of a    *)
(* mesh another thread can see.  The contents of a mesh are the version of *)
(* the dataset they were read from, 0 for a field that still has its       *)
(* default.  A request asks for one point, inside the mesh.                *)
(***************************************************************************)
EXTENDS ExecutionGate, Sequences, FiniteSets

CONSTANTS
  Requests,      \* interpolation requests, each made once
  Datasets,
  CacheLimit,    \* _SHARED_CACHE_LIMIT
  MaxVersion     \* bound on ingests of a dataset

ASSUME RequestsFinite == IsFiniteSet(Requests)
ASSUME LimitsAssumption == CacheLimit \in Nat /\ MaxVersion \in Nat \ {0}

VARIABLES
  sharedCache,   \* _SHARED_CACHE, least recently used first
  mesh,          \* the RuntimeMeshData a request creates: the version of each field
  version,       \* how often each dataset has been ingested
  request        \* per request: pc, dataset, its mesh, what it loads, what came of it

vars == <<gateVars, sharedCache, mesh, version, request>>

\* The arrays in the order ensure_cells assigns them.
FieldOrder == <<"cells", "ids", "centroids", "mins", "maxs">>
Fields == {"cells", "ids", "centroids", "mins", "maxs"}

Outcomes == {"none", "answered", "refused", "keyError", "failed"}
Steps == {"new", "lookup", "pop", "reinsert", "insert", "trim", "evict", "ensure", "fetch",
          "assign", "read", "leave", "done"}

Inside == {r \in Requests : request[r].pc \notin {"new", "done"}}
Cached(d) == \E i \in DOMAIN sharedCache : sharedCache[i].dataset = d

RequestType == [pc : Steps, dataset : Datasets, mesh : Requests, fetched : 0..MaxVersion,
                next : 1..5, used : 0..MaxVersion, company : {"alone", "others"},
                outcome : Outcomes]

TypeOK ==
  /\ GateTypeOK
  /\ \A i \in DOMAIN sharedCache :
       /\ sharedCache[i] \in [dataset : Datasets, mesh : Requests]
       /\ \A k \in 1..(i - 1) : sharedCache[k].dataset # sharedCache[i].dataset
  /\ mesh \in [Requests -> [Fields -> 0..MaxVersion]]
  /\ version \in [Datasets -> 0..MaxVersion]
  /\ request \in [Requests -> RequestType]

Init ==
  /\ GateInit
  /\ sharedCache = <<>>
  /\ mesh = [r \in Requests |-> [f \in Fields |-> 0]]
  /\ version \in [Datasets -> 0..1]
  /\ \E asked \in [Requests -> Datasets] :
       request = [r \in Requests |->
                    [pc |-> "new", dataset |-> asked[r], mesh |-> r, fetched |-> 0, next |-> 1,
                     used |-> 0, company |-> "alone", outcome |-> "none"]]

-----------------------------------------------------------------------------
(* The shared cache.                                                       *)

\* Mutant: the cache is a list of entries and the key is not looked up.
Appended(d, m) == Append(sharedCache, [dataset |-> d, mesh |-> m])

\* Assignment to a key of an OrderedDict: in place when the key is there.
With(d, m) ==
  LET entry == [dataset |-> d, mesh |-> m] IN
  IF Cached(d)
    THEN [i \in DOMAIN sharedCache |-> IF sharedCache[i].dataset = d THEN entry ELSE sharedCache[i]]
    ELSE Append(sharedCache, entry)

Moves(r, from, rec) ==
  /\ request[r].pc = from
  /\ request' = [request EXCEPT ![r] = rec]

Goes(r, from, to) == Moves(r, from, [request[r] EXCEPT !.pc = to])

\* The request is answered; its finally block has still to leave the gate.
Ends(r, from, outcome) ==
  Moves(r, from, [request[r] EXCEPT !.pc = "leave", !.outcome = outcome])

Company == IF Inside = {} THEN "alone" ELSE "others"

\* A rejected request (423) changes nothing and is not made here.
Begin(r) ==
  /\ request[r].pc = "new"
  /\ BeginInteractiveRead
  /\ request' = [q \in Requests |->
                   IF q = r THEN [request[q] EXCEPT !.pc = "lookup", !.company = Company]
                   ELSE IF q \in Inside THEN [request[q] EXCEPT !.company = "others"]
                   ELSE request[q]]
  /\ UNCHANGED <<sharedCache, mesh, version>>

\* The metadata query (of a dataset that is there), then the test for the key.
Lookup(r) ==
  /\ version[request[r].dataset] # 0
  /\ Goes(r, "lookup", IF Cached(request[r].dataset) THEN "pop" ELSE "insert")
  /\ UNCHANGED <<gateVars, sharedCache, mesh, version>>

\* pop raises when another thread has popped or evicted the key meanwhile.
Pop(r) ==
  /\ \/ \E i \in DOMAIN sharedCache :
          /\ sharedCache[i].dataset = request[r].dataset
          /\ Moves(r, "pop", [request[r] EXCEPT !.pc = "reinsert", !.mesh = sharedCache[i].mesh])
          /\ sharedCache' = SubSeq(sharedCache, 1, i - 1) \o SubSeq(sharedCache, i + 1, Len(sharedCache))
     \/ /\ ~Cached(request[r].dataset)
        /\ Ends(r, "pop", "keyError")
        /\ UNCHANGED sharedCache
  /\ UNCHANGED <<gateVars, mesh, version>>

\* A hit is re-inserted as the most recent one; this path never evicts.
Reinsert(r) ==
  /\ Goes(r, "reinsert", "ensure")
  /\ sharedCache' = With(request[r].dataset, request[r].mesh)
  /\ UNCHANGED <<gateVars, mesh, version>>

\* A miss: a new RuntimeMeshData, shared before it is loaded.
Insert(r) ==
  /\ Goes(r, "insert", "trim")
  /\ sharedCache' = With(request[r].dataset, r)
  /\ UNCHANGED <<gateVars, mesh, version>>

Trim(r) ==
  /\ Goes(r, "trim", IF Len(sharedCache) > CacheLimit THEN "evict" ELSE "ensure")
  /\ UNCHANGED <<gateVars, sharedCache, mesh, version>>

\* popitem(last=False): raises on a dictionary that others have emptied.
Evict(r) ==
  /\ IF sharedCache = <<>>
       THEN Ends(r, "evict", "keyError") /\ UNCHANGED sharedCache
       ELSE Goes(r, "evict", "trim") /\ sharedCache' = Tail(sharedCache)
  /\ UNCHANGED <<gateVars, mesh, version>>

-----------------------------------------------------------------------------
(* Loading and reading the mesh: ensure_cells and _candidate_cells.        *)

MeshOf(r) == mesh[request[r].mesh]

\* Mutant: cells is assigned before the query has returned.
EnsureMarksFirst(r) ==
  /\ Goes(r, "ensure", IF MeshOf(r).cells # 0 THEN "read" ELSE "fetch")
  /\ mesh' = [mesh EXCEPT ![request[r].mesh].cells =
                IF @ # 0 THEN @ ELSE version[request[r].dataset]]
  /\ UNCHANGED <<gateVars, sharedCache, version>>

\* "if not data.cells": the only test of whether the mesh is loaded.
Ensure(r) ==
  /\ Goes(r, "ensure", IF MeshOf(r).cells # 0 THEN "read" ELSE "fetch")
  /\ UNCHANGED <<gateVars, sharedCache, mesh, version>>

\* fetch_cells_arrays.
Fetch(r) ==
  /\ Moves(r, "fetch", [request[r] EXCEPT !.pc = "assign", !.next = 1,
                                          !.fetched = version[request[r].dataset]])
  /\ UNCHANGED <<gateVars, sharedCache, mesh, version>>

\* One field after the other; the index built from them adds nothing a request
\* reads.
Assign(r) ==
  LET f == FieldOrder[request[r].next] IN
  /\ IF request[r].next = 5
       THEN Goes(r, "assign", "read")
       ELSE Moves(r, "assign", [request[r] EXCEPT !.next = @ + 1])
  /\ mesh' = [mesh EXCEPT ![request[r].mesh][f] = request[r].fetched]
  /\ UNCHANGED <<gateVars, sharedCache, version>>

\* The ids, then the boxes; a field still empty is a 422 ("outside the mesh AABB",
\* or the error NumPy raises on an empty array).  Fields are only ever set, so one
\* look at the three shows every combination that three looks can.
Read(r) ==
  /\ IF \E f \in {"ids", "mins", "maxs"} : MeshOf(r)[f] = 0
       THEN Ends(r, "read", "refused")
       ELSE Moves(r, "read", [request[r] EXCEPT !.pc = "leave", !.outcome = "answered",
                                                !.used = MeshOf(r).ids])
  /\ UNCHANGED <<gateVars, sharedCache, mesh, version>>

\* A query of the repository fails: metadata, cells, connectivity or values.
QueryFails(r) ==
  /\ \E from \in {"lookup", "fetch", "read"} : Ends(r, from, "failed")
  /\ UNCHANGED <<gateVars, sharedCache, mesh, version>>

Leave(r) ==
  /\ Goes(r, "leave", "done")
  /\ EndInteractiveRead
  /\ UNCHANGED <<sharedCache, mesh, version>>

RequestStep(r) ==
  \/ Begin(r) \/ Lookup(r) \/ Pop(r) \/ Reinsert(r) \/ Insert(r) \/ Trim(r) \/ Evict(r)
  \/ Ensure(r) \/ Fetch(r) \/ Assign(r) \/ Read(r) \/ QueryFails(r) \/ Leave(r)

-----------------------------------------------------------------------------
(* An ingest job: enters the gate, replaces the dataset, leaves.           *)

IngestEnters ==
  /\ activeJobType = "none"
  /\ EnterJob("ingest")
  /\ UNCHANGED <<sharedCache, mesh, version, request>>

\* The subprocess deletes the dataset's prefix and exports it again.
IngestReplaces(d) ==
  /\ activeJobType = "ingest" /\ version[d] < MaxVersion
  /\ version' = [version EXCEPT ![d] = @ + 1]
  /\ UNCHANGED <<gateVars, sharedCache, mesh, request>>

IngestLeaves ==
  /\ activeJobType = "ingest"
  /\ LeaveJob
  /\ UNCHANGED <<sharedCache, mesh, version, request>>

IngestStep == IngestEnters \/ IngestLeaves \/ \E d \in Datasets : IngestReplaces(d)

Next == IngestStep \/ \E r \in Requests : RequestStep(r)

Spec == Init /\ [][Next]_vars

-----------------------------------------------------------------------------
(* Properties.                                                             *)

\* The arrays of a mesh never mix two versions of the dataset, however many
\* requests load it at once: ensure_cells takes no lock, so this rests on the
\* gate keeping every ingest away from requests that are still loading.
ArraysAgree ==
  \A r \in Requests : \A f, g \in Fields :
    mesh[r][f] # 0 /\ mesh[r][g] # 0 => mesh[r][f] = mesh[r][g]

\* A request nobody overlapped gets its answer unless one of its own queries
\* failed: no earlier race, eviction or failed load leaves the process-wide cache
\* in a state that spoils a later request.
SoleRequestIsAnswered ==
  \A r \in Requests : request[r].pc \in {"leave", "done"} /\ request[r].company = "alone" =>
    request[r].outcome \in {"answered", "failed"}

-----------------------------------------------------------------------------
(* What the documentation says and the code does not do.                   *)

\* The cache "survives client.close() so the next workload can reuse the immutable
\* static topology" (mesh_runtime.py:103), and "re-ingest [...] replaces stale
\* static rows" (README.md:82): a request is answered on the topology the dataset
\* has now.
TopologyIsCurrent ==
  \A r \in Requests : request[r].pc = "leave" /\ request[r].outcome = "answered" =>
    request[r].used = version[request[r].dataset]

\* A point inside the mesh is not refused as "outside the mesh AABB"
\* (features/fluid_interpolation/engine.py:213), whoever else is loading it.
RequestSeesWholeMesh == \A r \in Requests : request[r].outcome # "refused"

=============================================================================
