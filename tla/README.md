# cfd_bench in TLA+

A verification development for cfd_bench: TLA+ modules for the parts of the program that
run concurrently, survive crashes, hand data to one another over several steps, or decide
by arithmetic which data an answer is made of; TLC configurations that check them on small
instances; and TLAPS proofs of the properties that matter most, for every value of the
constants. Line references are to the repository at the commit beside this directory
(`src/` is the root of the repository there).

## 1. The system and what can go wrong in it

cfd_bench ingests CFD (Tecplot DAT) and structural (HDF5) results into four storage
backends (PostgreSQL, IoTDB, TileDB, VTK files), runs eleven workloads W1-W11 on them,
interpolates fluid values at points, and couples a structure to a fluid. A FastAPI service
puts a job queue, uploads and interactive requests in front of the command line.

| Component | State it keeps | Operations | Interacts with | Hard behaviour | What makes it correct |
|---|---|---|---|---|---|
| Job state store, `api/cfd_bench_api/state.py` | SQLite tables `jobs`, `uploads`, `upload_files` | one statement or transaction per method; start-up repair | called by the worker thread, request threads, kill timers | a method that SELECTs and then UPDATEs in a transaction that begins at the UPDATE; crash between statements | a row's status follows the life cycle; nothing leaves an ended status |
| Execution gate, `jobs.py:20-110` | active job type, two counters | enter/leave a job, begin/end a chunk, begin/end a read | worker thread, all HTTP handlers | condition variable, counters clamped at zero, admission without announcement | counters are exact; heavy jobs are undisturbed |
| Job manager, `jobs.py:113-425` | worker thread, `_processes`, `_process_lock`, kill timers, subprocesses | create, cancel, worker loop, stop, timers | store, gate, operating system | cancellation against claim/Popen/result; subprocess that ignores SIGTERM; exception in the worker; crash and restart | one subprocess; FIFO; no stale running row; honest results; cancellations converge |
| Resumable uploads, `uploads.py` | staging directory, per-file asyncio locks, offset rows | create, PATCH, complete, delete, create_ingest | store, gate (chunks), job manager | a coroutine suspended between pieces beside pool threads; crash between file and database | offset, staged bytes and status agree |
| Interpolation and mesh cache, `features/fluid_interpolation`, `infra/*/mesh_runtime.py` | process-wide LRU of meshes | get-or-init, load, read | gate (reads), ingest jobs, IoTDB | unlocked shared objects in a thread pool; cached data that outlives its source | a mesh is one version of its dataset; no race spoils later requests |
| Ingest pipelines, `ingest/` | rows, devices, arrays or files in four backends, metadata that announces a dataset | delete and rewrite topology, values, metadata, derived tables | orchestrator, backends, discovery | failure or kill between steps; re-ingest over the remains, also by the other kind of source; the order of data and announcement | a backend reported done serves exactly that ingest; readers never see two ingests mixed where the backend can help it |
| Topology of an ingest, `ingest/common`, `ingest/cfd`, `ETL` | none: a function of the files | faces to cells, nodes, centres, neighbours, boundary; frames checked against it | loaders | one-based ids, polygons that turn to either side, later files of another size | what is stored is the mesh of the files |
| Point location, `structure_cfd_coupling/engine.py`, `mesh_runtime.py` | bucket lists per cell, or centroid buckets | build, candidates, choice among them | coupling, interpolation | floats at bucket borders, cells larger than buckets, the fallback without an index | the candidates contain every containing cell |
| Coupling, `features/structure_cfd_coupling` | partial H5 output, counts, progress log | map batches of nodes, finalise or abort | job manager (as a heavy job), result endpoints | failure or kill between partial and final file; a result or log read while it is written; a second run on the path | a result shown is whole, kept, and agrees with the interpolation service |
| Benchmark runner and results, `workloads/`, `core/results.py`, `cli/run_cmd.py` | rows of a CSV file, clients, clocks | discover steps, visit dataset by workload by step by backend, measure, write | job manager, backends, result endpoint | one backend of several failing; searches at random places; rows served while written | rows follow the plan; complete means complete; a backend is measured alone; a run ends |
| Backend clients and repositories, `API/`, `infra/` | zone and step, remembered surfaces, node lists and ranges, a temporary table, a transaction | scalar, range, surface, mesh and point queries, by plans of IN lists, ranges, windows and chunks | workloads, storage | plan boundaries, memory kept across `connect()`, failing statements with another way to the answer | every plan of every backend answers what the files say |
| Dataset discovery and results, `datasets.py`, `main.py` | none | list, download | backends, log files | overlaps a benchmark; reads a row and then a file | partial answers say so |
| Commands, schemas, config, core helpers | none | validation, argument lists, formatting | | none | |

Parts interact by calls inside the API process (handlers to gate, store and services), by
shared state (the database between threads, `_process_lock`, the mesh cache), by signals
and exit codes (job manager to subprocess), through files that one process writes and another
serves (results and logs), and through the backends (an ingest job rewrites what an
interpolation request, a coupling or a workload reads).

`PROJECT.json` lists every component with its status, and under `hazards` the places where
this code is hard to test, each at its line with the properties that cover it.

## 2. Modules

| Module | Models | State and actions in terms of the code |
|---|---|---|
| `StateStore` | the statements on table `jobs` | a variable per column the scheduler branches on (`status`, `rowid`, `cancelRequested`, `hasPid`); one operator per method of `StateStore`, its WHERE clause the guard |
| `ExecutionGate` | `ExecutionGate` | its three attributes; one operator per method; each runs under the condition's lock, hence one step |
| `JobLifecycle` | what the jobs table promises | the abstract specification: `absent -> queued -> running -> ended`, cancellation from queued and running, interruption at start-up |
| `JobManager` | `JobManager` composed with `StateStore` and `ExecutionGate`, the handlers of `main.py` that enter the gate, the process | `workerPc` is the position of the worker in `_loop`/`_execute`; `cancel[c]` is one call of `cancel()` with what it has read; `processes`, `lock`, `child`, the kill timers; `api` is the process. One step is one SQL statement, one gate method, or a stretch under `_process_lock` |
| `Uploads` | `UploadService`, `create_ingest` | `upload`, `offset` are the rows; `directory`, `present`, `staged` the disk; `patch[r]` a suspended `append_chunk`; `thread[t]` a complete, delete or create_ingest on a pool thread; jobs follow `JobLifecycle` |
| `Interpolation` | `POST /interpolate`, `mesh_runtime.py`, ingests as its environment, composed with `ExecutionGate` | `sharedCache` is the OrderedDict; `mesh[r]` the `RuntimeMeshData` request `r` creates, each field by the version of the data it holds; `request[r]` the thread's position and locals |
| `Publication` | what a backend should promise of a dataset that is ingested again | the abstract specification: nothing, or one whole ingest, and the latest in the place of nothing |
| `Ingest` | `ingest_all`, `run_ingest_h5`, the CFD and H5 loaders of the four backends, discovery | `store[b][part]` is the ingest that wrote the part (a zone's mesh, a step's values, metadata, a manifest, a spatial layer); a loader is the sequence of its writes, one per transaction, deletion or created array, and `position` where it is; one action for a write, one for each way to stop |
| `Locate` | bucket and centroid indices, candidates, the choice of a cell; the scan of the interpolation service | operators on a mesh (box and shape of each cell) and a point; no state |
| `Coupling` | `couple_to_h5`, `CouplingH5Writer`, the progress log, coupling jobs and their two endpoints, composed with `Locate` | `run[r]` is the position of a run in the code, its next node, counts and last log line; `file[r]` the H5 file it writes; `partial`, `output` what the two paths link to; one step per dataset written |
| `Benchmark` | `cfd-bench run`: step discovery, the runner, W1-W11, `core/results.py`, the endpoint | `itinerary` is the list of visits, `visit`/`turn`/`reading` the position in it; `open` the connected clients; `limit`, `tries`, `left` a search and its clock; `row`, `csv` the row not flushed and the file; `status`, `seen`, `served` the job's row and the endpoint |
| `Topology` | decoding of a zone, `export_zone_topology`, `load_cfd_topology`, `validate_frame_topology`, `max_neighbor_diffs` | operators on files; no state |
| `Queries` | what the database clients answer about a CFD dataset, composed with `Topology` | `store[b]` holds meshes, values and metadata under the keys the code writes and reads; `client` what a client remembers; `answer` the last call and its value, computed by the plan the repository picks; `Connect` moves a client to another zone or step |
| `VtkClient` | the VTK backend beside those databases: an ingest into files, and the client that reads them; composed with `Queries` | `disk` is a directory: the manifest, and a frame per zone and step; `vtk` the open client with the zone, the step, the manifest it read and the cells of each node it made; one action `Tell...` per query, whose `answer` is that of `Queries` |
| `MCJobManager`, `MCUploads`, `MCInterpolation`, `MCIngest`, `MCCoupling`, `MCBenchmark`, `MCQueries` | | constants, inputs and symmetry for TLC |
| `JobManagerProofs`, `UploadsProofs`, `InterpolationProofs`, `CouplingProofs`, `BenchmarkProofs`, `IngestProofs`, `QueriesProofs` | | the theorems of section 5 |
| `SequenceLemmas` | | facts about sequences of any length, `FlattenSeq` among them, that the proofs of several components need |

`JobManager` implements `JobLifecycle` (property `ImplementsLifecycle`, theorem
`LifecycleImplemented`); `Uploads` and its ingest jobs rely on it. The VTK backend of `Ingest`
implements `Publication` (property `VtkPublishesWhole`); the others do not and do not claim
to. `Coupling` is checked against another implementation of the same function: the scan of the
interpolation service. `Queries` is checked against the files: `Position`, `PointsAt`, `Beside`
and `Given` read them by Tecplot's numbering, without the topology, storage and plans between, for the VTK client as well; `SpecAll` of
`VtkClient` has all four backends.

Definitions whose comment begins "Mutant:" belong to no specification. Each is a plausible
bug in place of the definition after it; `PROJECT.json` pairs each checked property with one
that breaks it.

## 3. Runs

Passing runs, with their number of distinct states:

| Run | Instance | States | Shows |
|---|---|---|---|
| `JobManagerSafety` | a benchmark and an ingest, one cancel, chunk, read and discovery, one exception in the worker, one restart | 1.1 M | gate counters are exact; subprocesses are undisturbed; no stale running row; no invented success |
| `JobManagerRestart` | two jobs, one cancel, lost handles, two exceptions, two restarts | 300 k | one subprocess at a time; nothing started twice; FIFO; the refinement of `JobLifecycle` |
| `JobManagerLive` | two jobs, one cancel, chunk and read, lost handles, fair threads | 58 k | cancellations converge; the queue drains |
| `UploadsSession` | two files of 3 and 1 pieces, two PATCHes, two pool threads, one ingest, one crash | 404 k | offset, disk and status agree |
| `InterpolationCache` | three requests, two datasets, a cache of one, up to two ingests each, with symmetry | 331 k | meshes never mix versions; a request alone is answered whatever raced before |
| `IngestServes` | three ingests out of five sources (CFD and H5, two zones, two steps, a directory or one file, with and without spatial layers) into pairs of backends, one exception or kill | 740 k | a backend reported done serves that ingest; the exit code tells a failure; H5 zones of PostgreSQL change at once; spatial layers belong to their mesh; the refinement of `Publication` |
| `CouplingMaps` | three cells of five shapes over six buckets, three nodes in batches of two, a job and two shell runs on one path, failures and kills anywhere | 69 k | a result shown is whole and kept; the log is honest; every node is mapped as the interpolation service would |
| `BenchmarkRun` | seven programs covering W1-W11, two backends out of four, two datasets, five worlds, failures and kills anywhere, one endpoint | 562 k | rows follow the plan; complete is complete; backends are measured alone; runs end |
| `QueriesAnswer` | four inputs of one or two zones and two steps ingested over one another, four backends, failing statements, reconnections | 159 k | scalars, surfaces, elements, nodes and neighbours are those of the files, by every plan; a VTK directory that is announced is one whole ingest |

Runs that TLC refutes, each a disagreement between the code and what the repository says of
it (the `findings` of `PROJECT.json` quote both):

| Run | Refuted | Why |
|---|---|---|
| `JobManagerStaleCancel` | `CancelledNeverStarts` | `request_cancel` writes `cancelled` on a status it read earlier; the worker has claimed the job and starts it |
| `InterpolationStale` | `TopologyIsCurrent` | the mesh cache is never invalidated, a re-ingest included |
| `CouplingFallback` | `AgreesWithInterpolation` | above the limit of the bucket index, a point in the box of a near cell that does not contain it is not looked up in the large cell that does |

Further configurations reproduce known limits of the code. They are kept beside the listed
runs, and TLC refutes each:

| Configuration | Module | Refuted | Why |
|---|---|---|---|
| `JobManagerOrphan.cfg` | `MCJobManager` | `InterruptedIsGone` | subprocesses are session leaders and outlive a crash; start-up fails their rows only |
| `UploadsResume.cfg` | `MCUploads` | `Resumable` | after a crash in a chunk the staged file is longer than the offset; every PATCH gets 409 |
| `InterpolationRace.cfg` | `MCInterpolation` | `RequestSeesWholeMesh` | `cells` is assigned before the arrays a concurrent request reads |
| `IngestLocator.cfg` | `MCIngest` | `LocatorIsCurrent` | an H5 ingest over a CFD one keeps `cell_bounds`, and the point buckets are built from it |
| `QueriesLeaf.cfg` | `MCQueries` | `ScalarsAreTheFiles` | values of a zone at index 1 that is not a hull by name are written to the hull's leaf and read from the fluid's (IoTDB and TileDB) |
| `QueriesProjection.cfg` | `MCQueries` | `MeshIsTheFiles` | a VTK client keeps the cells of each node when it is connected to another zone |

Two more disagreements are within the models' reach and have no configuration: clients
whose chunks overlap starve a waiting benchmark (`ClientsReturn`; jobs.py:23 has it wait for
the chunks already active), and an ingest can be queued for an upload whose deletion has
passed its check (uploads.py:174).

**Bounds.** Two jobs are the least that can overlap, overtake or be started out of order, and
the worker holds one at a time; the proofs remove the bound. One cancellation in the safety
runs reaches every point of the worker's path; two cancellations of one job differ only in
who finds the row ended. Restarts are bounded at two so that a row interrupted twice and a
restart after a crash during shutdown occur. In `Uploads` a file of three pieces with
chunks of two needs two PATCHes, and the last is filled by a short one; the proofs remove the
bound. In `Interpolation` a cache of one and two datasets make every hit compete with an
eviction; three requests let one evict while another has tested and a third loads; the proofs
remove the bound. In `Ingest`, three ingests are a dataset, one that fails over it, and one over
the remains; backends share no parts, so pairs of them are enough for the exit code, and an
unknown one is in the middle of a selection. `MaxFaults`, `MaxRestarts`, `MaxCrashes`,
`MaxVersion`, `MaxIngests` and `MaxChunk` are the only caps on behaviour there.
`InterpolationCache` uses symmetry in requests and datasets, which no definition tells
apart; no temporal property is checked there.

In `Coupling` the shapes make boxes that overlap where cells do not, that end on a bucket border
(a bucket is at most a unit wide), that touch more buckets than `MaxBucketsPerCell`, and that no
simplex can be solved for; every triple of them is a mesh, each with and without a cell of
values that are not finite, and the first and last node go over all coordinates. Three nodes in
batches of two need a full and a short batch. The constraint `FewShared` lets several runs
interleave over one mesh and one set of points only: runs share paths, never arithmetic, and
every mesh is mapped by the job. `MaxIncidences` is above all meshes in `CouplingMaps`, below them
in `CouplingFallback`. `Overlap` is FALSE: two runs at once on one path rename each other's
file, which is left to whoever starts them.

In `Benchmark` a clock of one tick is spent or not, two tries are a first and a last. A program is
one or two workloads, so that a second begins after each end of a first; between them the
programs have all eleven. The worlds pair a full dataset with one that has no bounds, hits or
frames, an H5 one without a step, and one nobody can hit, so that the two backends of a
run differ in what they have. `Requests` and `Worlds` are inputs, not caps: a run has no other bound.

In `Queries` the limits of the planner are as small as they can be without making a plan
unreachable: a selection of one id is an IN list (`InLimit`), one run of ids is a range
(`RunsLimit`, `RunsPerQuery`), more are a window when it is dense (`Dense`, 7 of 10) and no longer than
`SpanLimit`, else chunks of two (`Chunk`); aggregations are split at three (`AggregateChunk`). The
selections asked for include an unordered one, one with a gap, all cells and a single one. A
zone has four cells and then three in the other direction, so that an id or a step of the former
mesh is wrong in the latter, and the third input has a step with a cell too many, which
the ingest refuses half-way. Two ingests (`MaxIngests`) are a dataset and one over it.
The fourth input has a hull alone, so that the default zone of the VTK client
(`DefaultZone`) falls back to another. `ChangeZones` is FALSE: `make_vtk` makes a client per zone, so one
is moved to other steps only (`QueriesProjection.cfg` has it TRUE). `MinNeighbours` is two, since cells in a row have at most two.

**Deadlock.** `JobManager`, `Uploads`, `Ingest`, `Coupling` and `Benchmark` are run with deadlock
checking off: with the clients finished, the jobs and runs ended, and the restarts or the
ingests used up, the system has nothing left to do. `Interpolation` and `Queries` are checked
for deadlock.

**Fairness.** `JobManager` (`ThreadFairness`): weak fairness of the worker, of each cancelling
request and of each kill timer: threads of a live process run, and `time.sleep` ends. Weak
fairness of the end of an admitted chunk or read: its handler's `finally` runs. Nothing is
assumed of clients (they need not come, or stop coming), and a subprocess need never exit:
`CancellationConverges` holds even for one that ignores SIGTERM. `QueueDrains` assumes in
the formula that commands end, and is checked where each client comes once; with clients
that keep coming (`ClientsReturn`) it fails, as said above.

`Benchmark`: weak fairness of the process (`Runs`) and of the clock (`Tick`), and strong fairness of
`SearchHits`: the places of a search are drawn at random, and one that can be hit is, with
probability one. Nothing makes a search hit that cannot: `RunEnds` holds because searches have a
bound or a deadline, and says nothing (`CanHit`) of the ones of H5 datasets that have
neither and can find nothing: they never end. The other modules have safety properties only.

## 4. What is abstracted

- Rows, names and payloads are model values or small numbers. Log files other than the progress
  of a coupling, wording, timestamps and exit codes other than zero and non-zero are left out.
- `cfd-bench` subprocesses do nothing in `JobManager` but exit, or stay. `/proc` checks of a pid
  find the right process or none: the reuse of a pid by a stranger is not modelled.
- SQLite: each method is atomic unless it reads before its transaction begins; then reading
  and writing are two steps. `database is locked` is one of the exceptions of `WorkerRaises`.
- An exception of the worker's own calls (SQLite, `open`) can come at any of its steps,
  unwinds through the `finally` blocks and ends the thread, as in the code.
- `finally` blocks that only log, and listing queries, are left out.
- Uploads count pieces, not bytes: which bytes a piece holds is told by the position at
  which it is written.
- In `Interpolation` a request asks for one point, which lies inside the mesh. Geometry,
  weights, the CSR of a single engine (no thread shares it) and the per-engine cache are
  left out. The TileDB runtime has the same code as the IoTDB one; the API reaches the
  latter alone.
- In `Ingest` a part stands for the rows or files that are deleted and written together. One
  that takes several calls (the devices of a mesh, the batches of an array) is there after the
  last of them; a TileDB array that was created and not filled counts as absent. `rmtree` that
  is stopped leaves any of the directories; while it runs, readers see what it would leave.
  The sources are decoded before the first backend is touched, so a decoding error changes
  nothing. IoTDB and TileDB keep the values of all zones that are not hulls in one leaf:
  sources have one fluid zone and hulls, as the data of the repository do. Every H5 frame has
  cell and node values. Failing IoTDB deletes, which the code swallows, are left out, as are
  the W3 sidecar files and dry runs. Ingests run one after the other, as the job manager has
  them; nothing stops two from a terminal.
- In `Locate` one axis stands for three: the code makes every test per axis and conjoins them.
  Coordinates are integers, the eps of the code is less than a unit, and float arithmetic is
  exact. A cell fills its box, half of it, or has no simplex that can be solved for; the
  weights of a simplex are told by its margin, which is what the choice among cells compares.
- In `Coupling` a row is whether a value is there, a status and a cell; the reads before there is a
  writer change nothing and may raise. A read of a result is one step: a reader that keeps an
  open file keeps the inode, which no run writes after its rename.
- In `Benchmark` a reading is a row with its workload, dataset, step, backend and name; its numbers
  are left out. What a backend holds is a few facts (steps, bounds, hits, maximal differences,
  zones). Any call may raise. Printed tables and the progress thread are left out.
- In `Topology` and `Queries` a node is a coordinate on one axis, a value is an integer, there is
  one variable, a mean is a sum with the number of its terms. A face has an area and the side its
  polygon turns to; a normal is a sign. A query is one step, since ingests and runs take turns at
  the gate; a failing statement makes it raise or takes the other way the code has to the answer.
  A table after an ingest is what the last write of each key left (`Put`), not a loop over
  the writes; ids that are read some at a time are told apart by their rank; a cache is a set with
  at most one element.
  An answer that took the other way because a failure was read as an absence (`Doubts`:
  boundary faces, adjacency, metadata) is excluded by the properties, and listed as a hazard.
- In `VtkClient` the files stand still while a client is open: which frames it keeps in memory, and
  whether it reads them again for each query (`baseline_fidelity`), then changes no answer and is
  left out. It takes every cell for a piece of the surface (`TellSurface`); the properties of the
  surface are about the databases.

## 5. Proofs

The theorems hold for all constants that satisfy the `ASSUME`s of the modules, which TLC
evaluates in the runs. `JobManagerProofs` (any finite set of jobs and clients, any
number of cancellations, faults and restarts):

| Theorem | Says |
|---|---|
| `TypeCorrect` | `Spec => []TypeOK` |
| `InvariantHolds` | the inductive invariant |
| `SuccessIsHonest` | `[]SucceededIsHonest` |
| `StartsOnce`, `ClaimsInOrder` | the action properties `StartedOnce`, `ClaimedInOrder` |
| `LifecycleImplemented` | `Spec` implements `JobLifecycle` |
| `RunningRowsOwned` | `[]RunningIsOwned` |
| `GateCountsExact` | `[]GateCountsMatch` |
| `OneAtATime`, `HeavyJobsRunUndisturbed` | `[]OneSubprocess`, `[]HeavyJobsUndisturbed`, assuming `~OrphansSurvive` |

The argument. None of the properties is inductive: whether a row may say running depends on
where the worker stands and on what an exception has unwound. The invariant conjoins, beside
the types: `OwnedInv` (a running row belongs to the worker's job at the right steps, or an
exception is unwinding), `RaisedInv` (where an exception can leave the worker),
`FreshInv`/`UnstartedInv` (a job before Popen has no subprocess, so starting it is a first
start), `EndedInv` (what `workerResult` says about the subprocess once it was reaped),
`KnownInv` (what a cancelling request has read was true of the row and rows only move
forward), `OrderInv` (the job the worker picked was created before everything still queued),
`ChildInv` (a live subprocess is the worker's) and `GateInv` (the counters are cardinalities
of the sets of requests inside, and the active type is the worker's). The first group is
preserved step by step; order and refinement are read off as action properties; the gate's
part needs the finite-set theorems. `ChildInv` assumes that subprocesses end with the API
process (`~OrphansSurvive`): otherwise `JobManagerOrphan.cfg` is the counterexample.

`UploadsProofs` (any files and sizes, any number of PATCHes, threads, ingests and crashes):

| Theorem | Says |
|---|---|
| `TypeCorrect` | `Spec => []TypeOK` |
| `OffsetInSync` | `[]StagingInSync` |
| `AppendsInPlace` | `[]PiecesInPlace` |
| `CompletedOnDisk` | `[]CompletedIsWhole` |

The invariant is `Typed /\ Locked /\ Ordered /\ InStep`. `Locked`: a PATCH past the lock holds it,
so two never append to one file. `Ordered`: nothing happens before the session exists, and only a
deleted upload is removed from the disk. `InStep`: what a PATCH under way has written stands right
after the offset it has read, and fits the file (`Appends`); where nobody writes, the offset is the
staged length until a crash, and never more than it (`Synced`); once an upload completes its files
are whole and there is nothing left to append (`Completing`). `PatchesAssumption` says that the name for a free lock is no PATCH.

`InterpolationProofs` (any finite set of requests, any cache limit, any number of ingests):

| Theorem | Says |
|---|---|
| `LoadingInvariant` | the inductive invariant `LInv` |
| `ArraysAlwaysAgree` | `[]ArraysAgree` |
| `AloneIsAnswered` | `[]SoleRequestIsAnswered` |
| `TypeCorrect` | `Spec => []TypeOK` |

`LInv` ties three things together: a mesh is cached only under the dataset of the request
that created it (`Keyed`), the counter of the gate is the number of requests inside and is
zero while an ingest is (`Gated`), so the version of a dataset stands still for as long as a
request loads it, and therefore all fields set in a mesh being loaded are of the current
version (`Loading`). `AloneIsAnswered` adds `SInv`: a request alone is the only one inside
(`ByItself`); fields of a mesh are assigned in order, so what a failed load leaves is a
prefix (`Prefix`); a mesh that has cells and lacks another field has a request that is
assigning it (`Attended`), hence none when a request is alone; and so such a request finds a mesh
that is whole or empty, loads the latter, and meets neither of the errors (`Serene`). The type
invariant needs that the cache has each dataset once (`Distinct`), the one fact about
positions in the sequence.

`CouplingProofs` (any finite mesh and grid, any runs, nodes and batch size):

| Theorem | Says |
|---|---|
| `IndexFindsAll` | when the bucket index is ready, its list for a point has every cell whose box has the point |
| `TypeCorrect` | `Spec => []TypeOK` |
| `LogIsHonest` | `[]ProgressIsHonest`, overlapping runs included |
| `ShownIsWhole` | `[]OutputIsWhole`, assuming `~Overlap` |
| `ShownIsKept` | the action property `OutputKept`, assuming `~Overlap` |
| `CouplingAgrees` | `AgreesWithInterpolation`, assuming `~Overlap` and that the index is ready |

`IndexFindsAll` is arithmetic: division and clipping are monotonic, so the bucket of a point of
a box lies between those of its ends (`BoxTouchesBucket`). With it, candidates filtered by box are
what the interpolation service scans, and both pick the same among them (`MapAgrees`). The invariant of
the runs is `TypeOK`, `Progress` (rows up to the next node are mapped, counts are the
cardinalities of their statuses, the log is not ahead), `Exclusive` (one live run per path, and
`.partial` links to its file while it has a writer) and `Published` (what a path shows or the API
served is closed, fully mapped, with its counts). `CouplingFallback` shows why the index has
to be ready.

`IngestProofs` (any zones, steps, sources and selections of backends, any number of ingests
and of exceptions and kills):

| Theorem | Says |
|---|---|
| `TypeCorrect` | `Spec => []TypeOK` |
| `SuccessServes` | `[]SuccessIsServed` |
| `ExitHonest` | `[]ExitIsHonest` |
| `ZonesAreWhole` | `[]H5ZoneIsWhole` |
| `SpatialIsCurrent` | `[]SpatialLayersCurrent` |
| `VtkPublishes` | `Spec => VtkPublishesWhole`: the VTK backend implements `Publication` |

A loader is a sequence of writes that a few nested loops over zones and steps flatten into, so the
first half of the module is about such sequences, with no state: a write that is put and not
taken away again is *left* at a position (`LeftBefore`), a sequence that touches a part only
to renew it *keeps* it, and both go through concatenation and flattening
(`ConcatKeeps`, `Fills`, `Brings`). `Needed(b, src)` is what backend `b` has to have of a source
when its loader is done; for each of the eight loaders it is proved that running the whole
sequence leaves all of it, over any store: neither an earlier ingest nor a later write
of the same loader can be in the way. The invariants tie that to the run: `Performed` (what the
writes made so far leave is there), `Served` (what is reported done is still there, untouched by
loaders of other backends), `Accounted` (a selected backend is to do, done, or something failed).
`ZonesAreWhole` needs that every transaction of PostgreSQL that renews a mesh of an H5 ingest
drops or renews all values of its zone with it (`FirstWrites`, `LateWrites`).
`SpatialIsCurrent` needs that a layer is computed of the mesh stored then, and goes when the mesh
does. For `VtkPublishes`, `ManifestLast` says that the frames a manifest names are of its ingest
or gone and that there is no manifest while frames are written; each step then begins an
ingest, loses the manifest or a frame of it (`Lost`), writes where no manifest looks (`Filled`), or
completes a whole ingest in the place of nothing (`Completed`), which are steps of `Publication` or
stutters. `SourceAssumption` gives the sources their types and says that an H5 source has one
zone and no `--step`, as its command has it; `SelectionAssumption` that a selection is a sequence.

`BenchmarkProofs` (any programs over any datasets and backends, any worlds, clocks and bounds):

| Theorem | Says |
|---|---|
| `AlwaysMeasuredAlone` | `[]MeasuredAlone` |
| `TypeCorrect` | `Spec => []TypeOK` |
| `RowsFollow` | `[]RowsFollowPlan` |
| `CompleteIsWhole` | `[]WholeWhenNotPartial` |

`AlwaysMeasuredAlone` is from `OpenInv`: between turns only clients of the geometry are connected,
and in a turn that of its backend as well. The rest is from four invariants. `TypeInv` adds to the
types where each position is used: a turn that is taken is of a selected backend, a reading is one
the workload has. `SharedInv` is the heart of it: the bounds a visit shares are those of
PostgreSQL's mesh, none before PostgreSQL's turn and, for a workload that skips a backend without
bounds, always there after it when there are any. So the decision a backend takes when it asks for bounds
(`Usable`, which reads a local of the visit) agrees with what the plan owes it (`Owed`, which does not):
`BoundsDecide`. `RowsInv` says what the file holds at each point of the program: the rows of the visits before
(`Visited`), of the turns before (`Turned`), of the readings before; a prefix of the whole result is
then a matter of the lemmas on `FlattenSeq` (`FlattenPrefix`, `FlattenStep`). `OutcomeInv` says that
success, wherever it is read from, is of a run that ended well, after which the file stands still.
`RequestAssumption` and `WorldAssumption` give the command lines and the backends' data their types (the
workloads are the ones that exist), `StepAssumption` keeps None apart from steps and from statuses.

`QueriesProofs` (any files, zone indices, limits of the planner, cells and bounds asked for, and any
number of ingests):

| Theorem | Says |
|---|---|
| `StoredInvariant` | `SpecAll => []IInv` |
| `TypeCorrect` | `SpecAll => []TypeOK` |
| `ValuesFit` | `[]ValuesFitTheMesh`, if the names of zones tell their series apart (`LeavesTell`) |
| `FramesFaithful` | `[]FramesAreTheFiles` |
| `ScalarsFaithful` | `[]ScalarsAreTheFiles`, under `LeavesTell` |
| `SurfaceFaithful` | `[]SurfaceIsTheSkin`, under `LeavesTell` |
| `MeshFaithful` | `[]MeshIsTheFiles`, under `LeavesTell`, `FramesAlike` and `~ChangeZones` |

It begins with sums and extremes over finite sets. `SumFunction` folds a set in an order that
nothing is known of, so the lemmas show that such a fold exists for every finite domain
(`AdderExists`), that the sum does not depend on what is taken first (`PartTake`), that terms
may be renamed (`SumMoved`) and added in disjoint groups (`SumGrouped`). Then comes `Topology`:
the payload of a zone has as the nodes around a cell those of the faces that name the cell,
less one (`NodesAround`), only nodes and neighbours that are there (`PayloadSound`), and of
several zones of one name the last (`LoadedFacts`); the loops that number cells and faces by
position are what the properties say of faces without positions.

Then tables: `TableHolds` says that after the writes of an ingest, over whatever the table
held, what is read under the key of a zone and step is what the last frame of that step has,
provided no other zone of the ingest writes that key. That is where `LeavesTell` comes in:
PostgreSQL keys by the zone and needs nothing; IoTDB and TileDB have a series for hulls and one
for the rest (`KeysTell`). `ValuesFit` assumes it of all inputs, and cannot do without:
`QueriesLeaf` is an ingest that succeeds with two zones that share a series. TLC evaluates it
for the inputs of `QueriesAnswer` (`TestAssumption`).

`IInv` says that the files of the last ingest loaded and fitted (`FilesGood`), that every
backend has their meshes, but for boundary faces TileDB keeps of an earlier one, their values,
differences and metadata (`MeshesHold`, `ScalarsHold`, `DiffsHold`, `MetaHolds`), no steps but
those of inputs (`StepsHold`), that meshes of earlier ingests are sound (`StoresTyped`), that
the directory is what an ingest of those files makes or announces nothing (`DiskGood`), and
that an open VTK client is at a zone and step the directory announces and holds the manifest
that is there (`VtkGood`). So the frame it reads is known (`HereFacts`), and `FramesFaithful`
follows for the cells it finds.

The answers need a second invariant (`Remembers`), since a client answers from what it
remembers: its value ranges are those of the values in the store under each key, a surface that
is not doubtful is that of its zone and PostgreSQL's normals are the surface, the cells of the
nodes are those of its mesh (`Remembered`), and for a VTK client of its zone while it keeps to
one (`VtkRemembers`). A reconnection has to forget the right part of that. With it, each
operation is proved to give the right answer for a client at a zone and step of the last files
(`Served`, `Attached`): the IN lists, runs and windows of a selection cover it and no more is
kept (`SelectionsCover`, `FetchedAll`); chunks are disjoint and together the selection, so sums,
counts and extremes of them, whichever of them failed and were read row by row, are those of the
whole (`ListsCover`, `ListsAddUp`); the mean of the dense nodes of a cell is that of its points
(`MeanIs`); a face is on the boundary exactly if it is outside one cell (`OutsideIs`), and its
normal looks where it lies (`OutwardIsAway`); the table of the cells of nodes is long enough for
every point of a zone (`CellsOfAPoint`). `Answered` says that a step answers nothing, or is such
an operation, or leaves the last answer and the files as they are.

The hypotheses are those of the code. Without `LeavesTell` `QueriesLeaf` refutes
`ScalarsAreTheFiles`; PostgreSQL needs none of it, the theorem is about all four backends.
Extrema run over all steps a backend knows, and a table of the nodes as long as the metadata of
IoTDB and TileDB say: `FramesAlike` asks that an ingest over another has the same steps, that
every frame has every zone (for a missing one a backend answers 0 or what an earlier ingest
left, the VTK client raises), and that the primary zone, whose nodes are counted, has the most.
With `ChangeZones` `QueriesProjection` refutes `MeshIsTheFiles`. TLC evaluates both predicates
for the inputs of `QueriesAnswer`, which include two zones in a file and meshes of different
sizes over one another. `FilesAssumption` says that a file has zones whose faces name cells and
nodes by numbers, and that an ingest has at least one file; `PlannerAssumption` gives the limits
their types.

What `FlattenSeq` computes for a sequence of any length is proved without an induction theorem, which
no installed prover can instantiate: the least length at which a claim fails does not exist
(`SmallestOf`, from the well-foundedness of the naturals), and the recursive function behind it is
constructed step by step (`AccumulatorExists`, `AccumulatorUnique`).

Only model-checked: the liveness properties (no prover here treats fairness or `ENABLED`). No module here
declares a RECURSIVE operator.

## 6. Not modelled

- The numerics: alignment by rotations, scales and nearest neighbours (`alignment.py`: in
  `Coupling` a step that may raise), simplex solving and weights, least-squares gradients,
  intersections and isosurfaces (`mesh_ops`). They are functions of arrays of reals, with no state
  and no order of steps. `Queries` has which cells and neighbours they are given.
- The H5 paths of the clients: `Benchmark` visits them and `Ingest` writes what they read, but their
  answers are not in `Queries`. Neither is the spatial SQL of PostgreSQL, nor intersections and
  legacy single files of the VTK client, nor what TileDB keeps of boundary faces when an ingest over it has none.
- Warning filters of overlapping interpolations (`core/warnings_state.py`): no answer depends on them.
- The text of Tecplot and the HDF5 layout: `Topology` begins with the numbers read.
- W11's steps that PostgreSQL keeps from a longer former ingest, ranges whose bounds are in the
  wrong order, and the halo of the TileDB Q-criterion are reached by the models and excluded by
  the properties: no text of the repository says what the answer should be.
- Array schemas, request schemas, command building, argument parsing, printing, dry runs, the W3
  sidecar files, docker files and scripts: no state that another step reads.
