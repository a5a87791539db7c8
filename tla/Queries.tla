------------------------------ MODULE Queries -------------------------------
(***************************************************************************)
(* What a workload gets from a storage backend: a CFD dataset ingested     *)
(* from its files, and the client of one backend (API/*_api/client.py,     *)
(* infra/*/repository.py, spatial.py, qc_ops.py) that answers queries about *)
(* one zone and step of it.                                                *)
(*                                                                         *)
(* Ingests and runs take turns (ExecutionGate), a run is a process, and it *)
(* has one client at a time.  A database statement may fail: the client    *)
(* raises, or has another way to the answer.  What an ingest leaves when   *)
(* it fails is modelled in Ingest; here it fails only over its files.      *)
(***************************************************************************)
EXTENDS Topology, TLC

CONSTANTS
  FileSets,      \* inputs of ingests: sequences of files, the lowest step first
  Indices,       \* --zone-indices, a sequence
  InLimit,       \* planner of IoTDB selections: ids in one IN list, 256 in the code
  RunsLimit,     \* runs of consecutive ids read as ranges, 128
  RunsPerQuery,  \* of them in one query, 64
  Dense,         \* <<a, b>>: a window is read whole if a cells of b are selected, 2 of 100
  ManyChunks,    \* or the IN lists were more than this, 4
  SpanLimit,     \* and the window no longer than this, 5 000 000
  Chunk,         \* ids per IN list, 2000
  AggregateChunk,\* ids per aggregation, 10 000
  MinNeighbours, \* of a least-squares gradient, 3
  PointLists,    \* what is asked for: sequences of cells
  Thresholds,    \* bounds of values and of coordinates
  MaxIngests

ASSUME PlannerAssumption ==
  /\ {InLimit, RunsLimit, ManyChunks, SpanLimit, MinNeighbours, MaxIngests} \subseteq Nat
  /\ {RunsPerQuery, Chunk, AggregateChunk} \subseteq Nat \ {0}

ASSUME FilesAssumption ==
  /\ Indices \in Seq(Nat) /\ Thresholds \subseteq Int /\ PointLists \subseteq Seq(Nat)
  /\ \A input \in FileSets :
       input # <<>> /\ input \in Seq(ToSet(input)) /\ \A file \in ToSet(input) : IsFile(file)

Backends == {"postgresql", "iotdb", "tiledb"}
NoFiles == <<>>
NoClient == [backend |-> "none"]
NoAnswer == [op |-> "none"]
Raised == "raised"
Missing == "nan"

VARIABLES
  files,    \* the input of the last ingest that succeeded, NoFiles before and after a failed one
  ingests,  \* ingests so far
  store,    \* per backend: meshes by zone, values and max_diffs by their keys, metadata
  client,   \* the open client, if any
  answer    \* the last call and what it returned

vars == <<files, ingests, store, client, answer>>

NoMeta == [zones |-> {}, steps |-> {}, nodeCount |-> 0]
EmptyStore == [mesh |-> <<>>, scalar |-> <<>>, diff |-> <<>>, meta |-> NoMeta]

Init ==
  /\ files = NoFiles /\ ingests = 0
  /\ store = [b \in Backends |-> EmptyStore]
  /\ client = NoClient /\ answer = NoAnswer

-----------------------------------------------------------------------------
(* Ingest.                                                                 *)

\* Whether a zone's name tells that it is a hull is a field of the name here.
HullName(name) == name.hull
FluidName(name) == name.fluid

\* _leaf of the loaders, and cell_vars_leaf_for_zone, path_cell_vars of the readers.
LeafWritten(name, index) == IF HullName(name) \/ index = 1 THEN "cell_vars_hull" ELSE "cell_vars"
LeafRead(name) == IF HullName(name) THEN "cell_vars_hull" ELSE "cell_vars"

\* The key of a zone's values: PostgreSQL has a column for the zone.
WriteKey(b, zone, step) ==
  IF b = "postgresql" THEN <<zone.name, step>> ELSE <<LeafWritten(zone.name, zone.index), step>>
ReadKey(b, name, step) == IF b = "postgresql" THEN <<name, step>> ELSE <<LeafRead(name), step>>

\* max_diff is kept per zone by PostgreSQL, else per step for what is not a hull.
HasDiff(b, zone) == b = "postgresql" \/ LeafWritten(zone.name, zone.index) = "cell_vars"
DiffKey(b, name, step) == IF b = "postgresql" THEN <<name, step>> ELSE <<"max_diff", step>>

PrimaryZone(names) ==
  IF \E n \in names : FluidName(n) THEN CHOOSE n \in names : FluidName(n) ELSE CHOOSE n \in names : TRUE

\* The frames written before the first that does not fit the topology.
Fitting(input, topology) ==
  CHOOSE n \in 0..Len(input) :
    /\ \A i \in 1..n : FrameFits(input[i], Indices, topology)
    /\ n = Len(input) \/ ~FrameFits(input[n + 1], Indices, topology)

\* The zones of the first n frames are written frame by frame, and in each in the order of the
\* indices: a write is the number of the frame and the place of the index in it.
Writes(input, n) == UNION {{<<i, k>> : k \in Requested(input[i], Indices)} : i \in 1..n}
ZoneOf(input, w) == Frame(input[w[1]], Indices)[w[2]]
StepOf(input, w) == input[w[1]].step
Precedes(v, w) == v[1] < w[1] \/ (v[1] = w[1] /\ v[2] < w[2])
Latest(writes) == CHOOSE w \in writes : \A v \in writes : v = w \/ Precedes(v, w)

\* What a table holds after writes, each a key and a value: the latest for every key.
Put(table, key, value) ==
  [k \in DOMAIN table \cup Range(key) |->
     IF k \in Range(key) THEN value[Latest({w \in DOMAIN key : key[w] = k})] ELSE table[k]]

PutScalars(b, table, input, n) ==
  LET writes == Writes(input, n) IN
  Put(table, [w \in writes |-> WriteKey(b, ZoneOf(input, w), StepOf(input, w))],
      [w \in writes |-> ZoneOf(input, w).values])

PutDiffs(b, table, input, n, topology) ==
  LET writes == {w \in Writes(input, n) : HasDiff(b, ZoneOf(input, w))} IN
  Put(table, [w \in writes |-> DiffKey(b, ZoneOf(input, w).name, StepOf(input, w))],
      [w \in writes |-> MaxDiff(topology[ZoneOf(input, w).name], ZoneOf(input, w).values)])

Meta(input, topology) ==
  [zones |-> DOMAIN topology, steps |-> {input[i].step : i \in DOMAIN input},
   nodeCount |-> topology[PrimaryZone(DOMAIN topology)].nodeCount]

\* TileDB leaves the boundary faces of an earlier mesh if the new one has none.
PutMesh(b, mesh, topology) ==
  [z \in DOMAIN mesh \cup DOMAIN topology |->
     IF z \notin DOMAIN topology THEN mesh[z]
     ELSE IF b = "tiledb" /\ DOMAIN topology[z].boundary = {} /\ z \in DOMAIN mesh
     THEN [topology[z] EXCEPT !.boundary = mesh[z].boundary] ELSE topology[z]]

Loaded(b, input, topology) ==
  LET n == Fitting(input, topology) IN
  [mesh |-> PutMesh(b, store[b].mesh, topology),
   scalar |-> PutScalars(b, store[b].scalar, input, n),
   diff |-> PutDiffs(b, store[b].diff, input, n, topology),
   meta |-> IF n = Len(input) /\ b # "postgresql" THEN Meta(input, topology) ELSE store[b].meta]

\* ingest_all: the topology of the first file, then the frames, for each backend.
IngestFiles(input) ==
  /\ client = NoClient /\ ingests < MaxIngests
  /\ ingests' = ingests + 1
  /\ IF TopologyLoads(input[1], Indices)
     THEN LET topology == LoadTopology(input[1], Indices) IN
          /\ store' = [b \in Backends |-> Loaded(b, input, topology)]
          /\ files' = IF Fitting(input, topology) = Len(input) THEN input ELSE NoFiles
     ELSE UNCHANGED <<store, files>>
  /\ answer' = NoAnswer
  /\ UNCHANGED client

-----------------------------------------------------------------------------
(* Clients.                                                                *)

\* What a client remembers: of its zone the surface and the cells of each node, value ranges,
\* PostgreSQL the normals in its temporary table and whether its transaction is aborted. The
\* surface is doubtful if it was made because a statement had failed. A cache is a set of at most
\* one element.
FreshClient(b, zone, step) ==
  [backend |-> b, zone |-> zone, step |-> step, surface |-> {}, csr |-> {},
   ranges |-> <<>>, normals |-> {}, aborted |-> FALSE, doubtful |-> FALSE]

Kept(cache) == CHOOSE x \in cache : TRUE

\* What discovery finds in a backend.
StepsFound(b) ==
  IF b = "postgresql" THEN {key[2] : key \in DOMAIN store[b].scalar} ELSE store[b].meta.steps

\* make_pg, make_iotdb, make_tiledb
Open(b, zone, step) ==
  /\ client = NoClient
  /\ zone \in DOMAIN store[b].mesh /\ step \in StepsFound(b)
  /\ client' = FreshClient(b, zone, step)
  /\ answer' = NoAnswer
  /\ UNCHANGED <<files, ingests, store>>

\* Mutant: the surface is kept.
ReconnectKeepsSurface(zone, step) ==
  [FreshClient(client.backend, zone, step) EXCEPT
     !.ranges = IF client.backend = "postgresql" THEN @ ELSE client.ranges,
     !.surface = client.surface]

\* The value ranges of a repository are kept by their step and zone, PostgreSQL makes a new
\* connection.
Reconnected(zone, step) ==
  [FreshClient(client.backend, zone, step) EXCEPT
     !.ranges = IF client.backend = "postgresql" THEN @ ELSE client.ranges]

Connect(zone, step) ==
  /\ client # NoClient
  /\ zone \in DOMAIN store[client.backend].mesh /\ step \in StepsFound(client.backend)
  /\ client' = Reconnected(zone, step)
  /\ answer' = NoAnswer
  /\ UNCHANGED <<files, ingests, store>>

Close ==
  /\ client # NoClient
  /\ client' = NoClient /\ answer' = NoAnswer
  /\ UNCHANGED <<files, ingests, store>>

Db == store[client.backend]
IsPg == client.backend = "postgresql"

MeshRows == Db.mesh[client.zone]
Cells == CellsOf(MeshRows)

\* A backend without values of the zone at the step raises, PostgreSQL finds no rows.
HasRows == ReadKey(client.backend, client.zone, client.step) \in DOMAIN Db.scalar
RowsAt(step) ==
  LET key == ReadKey(client.backend, client.zone, step) IN
  IF key \in DOMAIN Db.scalar THEN Db.scalar[key] ELSE <<>>
Rows == RowsAt(client.step)
RowIds(step) == 0..Len(RowsAt(step)) - 1

-----------------------------------------------------------------------------
(* Selections of cells.                                                    *)

\* Ids in ascending order, so many at a time.
Rank(ids, i) == Cardinality({j \in ids : j < i})
InLists(ids, size) ==
  {{i \in ids : Rank(ids, i) \div size = k} : k \in {Rank(ids, i) \div size : i \in ids}}

\* _time_runs: the first ids of the runs of consecutive ids, and their runs.
RunStarts(ids) == {i \in ids : i - 1 \notin ids}
RunFrom(ids, i) == {j \in ids : i..j \subseteq ids /\ j >= i}

RunQueries(ids) ==
  {UNION {RunFrom(ids, i) : i \in starts} : starts \in InLists(RunStarts(ids), RunsPerQuery)}

Window(ids) == Min(ids)..Max(ids)
ReadWhole(ids) ==
  LET span == Max(ids) - Min(ids) + 1
      lists == (Cardinality(ids) + Chunk - 1) \div Chunk
  IN \/ Cardinality(ids) * Dense[2] >= span * Dense[1]
     \/ lists > ManyChunks /\ span <= SpanLimit


\* _selection_predicates: the sets of ids that the queries of a selection ask for.
Selections(ids) ==
  IF Cardinality(ids) <= InLimit THEN {ids}
  ELSE IF Cardinality(RunStarts(ids)) <= RunsLimit THEN RunQueries(ids)
  ELSE IF ReadWhole(ids) THEN {Window(ids)}
  ELSE InLists(ids, Chunk)

\* Mutant: what a window holds besides the selection is not filtered out.
FetchedUnfiltered(ids, step) ==
  LET read == UNION Selections(ids) \cap RowIds(step)
  IN [c \in read |-> RowsAt(step)[c + 1]]

\* _fetch_selected_numeric, _read_dense_attrs_at_ids, cell_id = ANY: the rows of the selection.
Fetched(ids, step) ==
  LET read == (IF client.backend = "iotdb" THEN UNION Selections(ids) ELSE ids) \cap RowIds(step)
  IN [c \in read \cap ids |-> RowsAt(step)[c + 1]]

-----------------------------------------------------------------------------
(* The operations, as what they return if no statement fails.              *)

\* point_query, bulk_point_query, velocity_query: a value for every id, in the order asked.
PointQuery(ids) ==
  LET rows == Fetched(ToSet(ids), client.step) IN
  [i \in DOMAIN ids |-> IF ids[i] \in DOMAIN rows THEN rows[ids[i]] ELSE Missing]

Summary(rows) ==
  IF DOMAIN rows = {} THEN [count |-> 0, sum |-> 0]
  ELSE [count |-> Cardinality(DOMAIN rows), sum |-> SumFunction(rows), min |-> Min(Range(rows)), max |-> Max(Range(rows))]

\* A contiguous chunk is aggregated over its window.
ServerChunk(part) == [c \in part \cap RowIds(client.step) |-> Rows[c + 1]]

\* aggregate_cell_scalar_selection: chunk by chunk; of failing chunks the rows are read.
Aggregate(ids, failing) ==
  LET parts == InLists(ids, AggregateChunk)
      of == [p \in parts |-> Summary(IF p \in failing THEN Fetched(p, client.step) ELSE ServerChunk(p))]
      counted == {p \in parts : of[p].count > 0}
  IN IF counted = {} THEN [count |-> 0, sum |-> 0]
     ELSE [count |-> SumFunction([p \in counted |-> of[p].count]),
           sum |-> SumFunction([p \in counted |-> of[p].sum]),
           min |-> Min({of[p].min : p \in counted}), max |-> Max({of[p].max : p \in counted})]

\* fetch_cell_ids_by_var_range, range_query_var; TileDB puts the bounds in order.
RangeIds(lo, hi) ==
  LET low == IF client.backend = "tiledb" THEN Min({lo, hi}) ELSE lo
      high == IF client.backend = "tiledb" THEN Max({lo, hi}) ELSE hi
  IN {c \in RowIds(client.step) : low <= Rows[c + 1] /\ Rows[c + 1] <= high}

\* fetch_var_value_range: PostgreSQL answers 0, 1 for a variable without rows.
ValueRange == IF Rows = <<>> THEN <<0, 1>> ELSE <<Min(Range(Rows)), Max(Range(Rows))>>

\* Directions of the boundary faces of a cell, by their areas.
Weighted(rows, c) ==
  SumFunction([i \in {j \in DOMAIN rows : rows[j].cell = c} |-> rows[i].normal * rows[i].area])
Unit(x) == IF x > 0 THEN 1 ELSE IF x < 0 THEN -1 ELSE 0

\* surface_cells_and_normals of boundary rows: faces that cancel out leave PostgreSQL no
\* direction, the others an arbitrary one.
BoundaryNormals(rows) ==
  [c \in {rows[i].cell : i \in DOMAIN rows} |->
     IF Weighted(rows, c) = 0 /\ ~IsPg THEN 1 ELSE Unit(Weighted(rows, c))]

\* _normal_from_points: of the nodes of a cell, whatever the cell is; on one axis 1 is as good.
CellNormals == [c \in Cells |-> 1]

Surface == IF DOMAIN MeshRows.boundary = {} THEN CellNormals ELSE BoundaryNormals(MeshRows.boundary)

\* calculate_force, surface_force_query: the scalars of the cells along their normals. A cell
\* without a scalar is left out by PostgreSQL's join.
SurfaceForce(normals) ==
  LET cells == DOMAIN normals
      present == cells \cap RowIds(client.step)
  IN IF cells = present \/ IsPg
     THEN SumFunction([c \in present |-> normals[c] * Rows[c + 1]])
     ELSE Missing

\* cfd_element_ids_in_coordinate_range: one-based ids.
Elements(lo, hi) ==
  {c + 1 : c \in {d \in Cells :
     MeshRows.centre[d].sum >= lo * MeshRows.centre[d].n /\ MeshRows.centre[d].sum <= hi * MeshRows.centre[d].n}}

\* extract_submesh, by the subset or from the whole mesh.
Submesh(ids) == [c \in ids \cap Cells |-> MeshRows.nodes[c]]

\* build_node_cell_csr: the cells of every node the dataset is said to have.
NodeCells ==
  LET count == IF IsPg THEN MeshRows.nodeCount ELSE Db.meta.nodeCount IN
  [n \in 0..count - 1 |-> {c \in Cells : n \in MeshRows.nodes[c]}]

StepsWithRows ==
  IF IsPg THEN {key[2] : key \in {k \in DOMAIN Db.scalar : k[1] = client.zone}} ELSE Db.meta.steps

\* Mutant: a point is looked up by its one-based id.
DenseAsAsked(point) == point

\* Tecplot numbers the points from 1.
DenseNode(point) == point - 1

\* cfd_point_frame_extrema: the mean over the cells of a point, its extrema over the steps.
Extrema(csr, point) ==
  LET node == DenseNode(point)
      cells == IF node \in DOMAIN csr THEN csr[node] ELSE {}
      sums == {SumFunction(Fetched(cells, s)) : s \in StepsWithRows}
  IN IF cells = {} THEN {} ELSE {[n |-> Cardinality(cells), min |-> Min(sums), max |-> Max(sums)]}

\* get_max_diffs
MaxDiffs ==
  LET key == DiffKey(client.backend, client.zone, client.step) IN
  IF key \in DOMAIN Db.diff THEN {Db.diff[key]} ELSE {}

\* compute_qcriterion_roi: the neighbours each cell of the region is fitted to. TileDB fetches
\* no velocities outside the region, IoTDB fits to any number of neighbours.
Fitted(roi) ==
  LET halo == IF client.backend = "tiledb" THEN roi
              ELSE roi \cup UNION {MeshRows.adjacency[c] : c \in roi}
      enough == IF client.backend = "iotdb" THEN 0 ELSE MinNeighbours
      used == [c \in roi |-> MeshRows.adjacency[c] \cap DOMAIN Fetched(halo, client.step)]
  IN [c \in {d \in roi : Cardinality(used[d]) >= enough} |-> used[c]]

\* w6_zone_candidates: the zones of the metadata, or of the meshes there are.
ZoneCandidates == IF client.backend = "iotdb" THEN Db.meta.zones ELSE DOMAIN Db.mesh

-----------------------------------------------------------------------------
(* Calls.                                                                  *)

Replies(op, arg, value) ==
  /\ answer' = [op |-> op, arg |-> arg, value |-> value, zone |-> client.zone, step |-> client.step,
                backend |-> client.backend, doubtful |-> FALSE]
  /\ UNCHANGED <<files, ingests, store>>

\* An answer made in spite of a failed statement.
Doubts(op, arg, value) ==
  /\ answer' = [op |-> op, arg |-> arg, value |-> value, zone |-> client.zone, step |-> client.step,
                backend |-> client.backend, doubtful |-> TRUE]
  /\ UNCHANGED <<files, ingests, store>>

\* Mutant: no backend goes on after a failed statement.
AbortsAnyBackend == TRUE

\* psycopg2 refuses statements after one that failed, until a rollback.
Aborts == IsPg

\* A statement fails, or is refused because one before it failed.
StatementFails(op) ==
  /\ client # NoClient
  /\ Replies(op, <<>>, Raised)
  /\ client' = [client EXCEPT !.aborted = Aborts]

Ready == client # NoClient /\ ~client.aborted
Readable == Ready /\ (HasRows \/ IsPg)

\* A call that runs its statements and changes nothing in the client.
Reads(op, arg, value) == Replies(op, arg, value) /\ UNCHANGED client

ReadPoints(ids) ==
  /\ Readable /\ ToSet(ids) \subseteq Cells
  /\ Reads("points", ids, PointQuery(ids))

\* Aggregation of a selection is IoTDB's.
ReadAggregate(ids) ==
  /\ Readable /\ client.backend = "iotdb" /\ ids \subseteq Cells
  /\ \E failing \in SUBSET InLists(ids, AggregateChunk) :
       Reads("aggregate", ids, Aggregate(ids, failing))

ReadRange(lo, hi) ==
  /\ Readable
  /\ Reads("range", <<lo, hi>>, RangeIds(lo, hi))

\* Mutant: value ranges are remembered by their step.
RangeKeyByStep == <<client.step>>

RangeKey == <<client.zone, client.step>>

RangesThen ==
  [k \in DOMAIN client.ranges \cup {RangeKey} |-> IF k = RangeKey THEN ValueRange ELSE client.ranges[k]]

\* var_value_range, remembered: no statement is needed the second time.
ReadValueRange ==
  \/ /\ client # NoClient /\ RangeKey \in DOMAIN client.ranges
     /\ Reads("value_range", <<>>, client.ranges[RangeKey])
  \/ /\ Readable /\ RangeKey \notin DOMAIN client.ranges
     /\ Replies("value_range", <<>>, ValueRange)
     /\ client' = [client EXCEPT !.ranges = RangesThen]

\* surface_cells_and_normals, remembered. IoTDB takes a failed statement for no boundary faces.
ReadSurface ==
  \/ /\ client # NoClient /\ client.surface # {}
     /\ IF client.doubtful THEN Doubts("surface", <<>>, Kept(client.surface))
                           ELSE Replies("surface", <<>>, Kept(client.surface))
     /\ UNCHANGED client
  \/ /\ Ready /\ client.surface = {}
     /\ Replies("surface", <<>>, Surface)
     /\ client' = [client EXCEPT !.surface = {Surface}]
  \/ /\ Ready /\ client.surface = {} /\ client.backend = "iotdb"
     /\ Doubts("surface", <<>>, CellNormals)
     /\ client' = [client EXCEPT !.surface = {CellNormals}, !.doubtful = TRUE]

\* prepare_surface_force_query: a failure rolls back and leaves the transaction usable.
PrepareForce ==
  /\ client # NoClient /\ IsPg /\ client.surface # {}
  /\ \/ ~client.aborted /\ client' = [client EXCEPT !.normals = client.surface]
     \/ client' = [client EXCEPT !.normals = {}, !.aborted = FALSE]
  /\ answer' = NoAnswer
  /\ UNCHANGED <<files, ingests, store>>

\* W6: the sum over the temporary table, or over the surface remembered.
ReadForce ==
  /\ Readable /\ client.surface # {}
  /\ LET value == SurfaceForce(Kept(IF client.normals # {} THEN client.normals ELSE client.surface)) IN
     IF client.doubtful THEN Doubts("force", <<>>, value) ELSE Replies("force", <<>>, value)
  /\ UNCHANGED client

ReadElements(lo, hi) == Ready /\ Reads("elements", <<lo, hi>>, Elements(lo, hi))

ReadSubmesh(ids) ==
  /\ Ready /\ ids \subseteq Cells
  /\ Reads("submesh", ids, Submesh(ids))

\* cfd_point_frame_extrema over the remembered cells of the nodes. Without its metadata IoTDB
\* knows of no steps.
ReadExtrema(point) ==
  /\ Ready
  /\ LET csr == IF client.csr # {} THEN Kept(client.csr) ELSE NodeCells IN
     /\ \/ Replies("extrema", point, Extrema(csr, point))
        \/ client.backend = "iotdb" /\ Doubts("extrema", point, {})
     /\ client' = [client EXCEPT !.csr = {csr}]

\* get_max_diffs: IoTDB takes a failed statement for no rows.
ReadMaxDiffs ==
  /\ Ready
  /\ \/ Replies("max_diffs", <<>>, MaxDiffs)
     \/ client.backend = "iotdb" /\ Doubts("max_diffs", <<>>, {})
  /\ UNCHANGED client

\* cfd_frame_statistics: of all the rows of a frame.
ReadStatistics ==
  /\ Readable /\ Rows # <<>>
  /\ Reads("statistics", <<>>, Summary([c \in RowIds(client.step) |-> Rows[c + 1]]))

\* compute_qcriterion_roi: IoTDB takes a failed statement for no adjacency.
ReadGradients(ids) ==
  /\ Readable /\ ids \subseteq Cells
  /\ \/ Replies("gradients", ids, Fitted(ids))
     \/ client.backend = "iotdb" /\ Doubts("gradients", ids, [c \in ids |-> {}])
  /\ UNCHANGED client

\* w6_zone_candidates
ReadZones == Ready /\ Reads("zones", <<>>, ZoneCandidates)

ZonesKnown == UNION {DOMAIN store[b].mesh : b \in Backends}
StepsKnown == UNION {StepsFound(b) : b \in Backends}
Points == UNION {Range(l) : l \in PointLists}

Reading ==
  \/ \E ids \in PointLists :
       ReadPoints(ids) \/ ReadAggregate(ToSet(ids)) \/ ReadSubmesh(ToSet(ids)) \/ ReadGradients(ToSet(ids))
  \/ \E lo, hi \in Thresholds : ReadRange(lo, hi) \/ ReadElements(lo, hi)
  \/ ReadValueRange \/ ReadSurface \/ PrepareForce \/ ReadForce
  \/ \E point \in Points : ReadExtrema(point)
  \/ ReadMaxDiffs \/ ReadStatistics \/ ReadZones
  \/ StatementFails("any")

Using ==
  \/ \E b \in Backends, zone \in ZonesKnown, step \in StepsKnown : Open(b, zone, step)
  \/ \E zone \in ZonesKnown, step \in StepsKnown : Connect(zone, step)
  \/ Close
  \/ Reading

Next == (\E input \in FileSets : IngestFiles(input)) \/ Using

Spec == Init /\ [][Next]_vars

-----------------------------------------------------------------------------
(* Properties.  What the answers should be is said of the input, without   *)
(* meshes, rows and clients.                                               *)

\* The zone whose geometry counts, and the values of a step.
GivenZone(name) == LastNamed(files[1], Indices, name)
FilesOf(name, step) == {i \in DOMAIN files : files[i].step = step /\ name \in Names(files[i], Indices)}
Given(name, step) == LastNamed(files[Max(FilesOf(name, step))], Indices, name).values
IsGiven(name, step) == files # NoFiles /\ name \in Names(files[1], Indices) /\ FilesOf(name, step) # {}

FacesAt(zone, c) == {i \in DOMAIN zone.faces : c + 1 \in {zone.faces[i].le, zone.faces[i].re}}
PointsAt(zone, c) == UNION {Range(zone.faces[i].nodes) : i \in FacesAt(zone, c)}
Position(zone, points) == [sum |-> SumFunction([p \in points |-> zone.nodes[p]]), n |-> Cardinality(points)]
Beside(zone, c) ==
  {d \in CellIds(zone) : d # c /\ \E i \in DOMAIN zone.faces : {zone.faces[i].le, zone.faces[i].re} = {c + 1, d + 1}}
Outside(zone, c) == {i \in FacesAt(zone, c) : 0 \in {zone.faces[i].le, zone.faces[i].re} /\ zone.faces[i].area > 0}

\* Where a face lies, seen from a cell, and where the boundary of the cell lies, by area.
Away(zone, c, i) == Side(Position(zone, Range(zone.faces[i].nodes)), Position(zone, PointsAt(zone, c)))
Facing(zone, c) == SumFunction([i \in Outside(zone, c) |-> zone.faces[i].area * Away(zone, c, i)])
Skin(zone) == {c \in CellIds(zone) : Outside(zone, c) # {}}

\* Cells whose boundary has a side: no face is level with the cell, and they do not cancel out.
Clear(zone) == {c \in Skin(zone) : Facing(zone, c) # 0 /\ \A i \in Outside(zone, c) : Away(zone, c, i) # 0}

\* A backend with one series for all zones but hulls keeps them apart if every name tells the
\* series and no two share it.
LeavesTell(input) ==
  \A v, w \in Writes(input, Len(input)) :
    /\ LeafWritten(ZoneOf(input, w).name, ZoneOf(input, w).index) = LeafRead(ZoneOf(input, w).name)
    /\ LeafRead(ZoneOf(input, v).name) = LeafRead(ZoneOf(input, w).name) =>
         ZoneOf(input, v).name = ZoneOf(input, w).name

\* Answers over all steps are of the last files alone if every input has the same steps, with all
\* zones in each, and the primary zone has the most nodes.
StepsOf(input) == {input[i].step : i \in DOMAIN input}
NodesOf(input, name) == Len(LastNamed(input[1], Indices, name).nodes)
FramesAlike(input) ==
  /\ \A other \in FileSets : StepsOf(other) = StepsOf(input)
  /\ \A i \in DOMAIN input : Names(input[i], Indices) = Names(input[1], Indices)
  /\ \A name \in Names(input[1], Indices) :
       NodesOf(input, name) <= NodesOf(input, PrimaryZone(Names(input[1], Indices)))

Claimed(op) ==
  /\ answer.op = op /\ ~answer.doubtful
  /\ IsGiven(answer.zone, answer.step)

Asked == answer.arg
Truth == Given(answer.zone, answer.step)
Of(cells) == Summary([c \in cells |-> Truth[c + 1]])
Ordered == Asked[1] <= Asked[2]

TypeOK ==
  /\ files \in FileSets \cup {NoFiles} /\ ingests \in 0..MaxIngests
  /\ \A b \in Backends :
       /\ DOMAIN store[b] = DOMAIN EmptyStore
       /\ \A z \in DOMAIN store[b].mesh : \A c \in CellsOf(store[b].mesh[z]) :
            /\ store[b].mesh[z].nodes[c] \subseteq 0..store[b].mesh[z].nodeCount - 1
            /\ store[b].mesh[z].adjacency[c] \subseteq CellsOf(store[b].mesh[z])
  /\ client # NoClient =>
       /\ client.backend \in Backends /\ client.zone \in DOMAIN Db.mesh
       /\ client.normals # {} \/ client.aborted => IsPg
       /\ client.doubtful => client.backend = "iotdb" /\ client.surface # {}

\* Whatever selection is read in whichever way (ranges, windows that hold more, lists, chunks that
\* the server or the client adds up), remembered or not, of a mesh that was ingested before or not:
\* the scalars answered are those of the cells asked for in the files of the last ingest
\* (fetch_cell_scalar_values, aggregate_cell_scalar_selection, fetch_var_value_range, ...).
ScalarsAreTheFiles ==
  /\ Claimed("points") => answer.value = [i \in DOMAIN Asked |-> Truth[Asked[i] + 1]]
  /\ Claimed("aggregate") => answer.value = Of(Asked)
  /\ Claimed("range") /\ Ordered =>
       answer.value = {c \in 0..Len(Truth) - 1 : Truth[c + 1] \in Asked[1]..Asked[2]}
  /\ Claimed("value_range") => answer.value = <<Min(Range(Truth)), Max(Range(Truth))>>
  /\ Claimed("statistics") => answer.value = Of(0..Len(Truth) - 1)
  /\ Claimed("max_diffs") /\ (answer.backend \in {"postgresql", "vtk"} \/ ~HullName(answer.zone)) =>
       LET zone == GivenZone(answer.zone) IN
       answer.value = {Max({0} \cup UNION {{AbsDiff(Truth[c + 1], Truth[d + 1]) : d \in Beside(zone, c)} : c \in CellIds(zone)})}

\* The surface that W6 integrates over is the skin of the zone of the client: every cell with a
\* face on the boundary, its normal looking away from the mesh however the file turns its faces,
\* and the force is the sum over it (face_plane_for_zone, surface_cells_and_normals,
\* surface_force_query).  A cell with a face level with it, or whose faces cancel out, has no such
\* normal.
SurfaceIsTheSkin ==
  LET zone == GivenZone(answer.zone) IN
  /\ Claimed("surface") /\ Skin(zone) # {} =>
       /\ DOMAIN answer.value = Skin(zone)
       /\ \A c \in Clear(zone) : answer.value[c] = Unit(Facing(zone, c))
  /\ Claimed("force") /\ Skin(zone) # {} /\ Clear(zone) = Skin(zone) =>
       answer.value = SumFunction([c \in Skin(zone) |-> Unit(Facing(zone, c)) * Truth[c + 1]])

GeometryIsTheFiles ==
  LET zone == GivenZone(answer.zone) IN
  /\ Claimed("elements") /\ Ordered =>
       answer.value = {c + 1 : c \in {d \in CellIds(zone) :
         LET at == Position(zone, PointsAt(zone, d)) IN Asked[1] * at.n <= at.sum /\ at.sum <= Asked[2] * at.n}}
  /\ Claimed("submesh") => answer.value = [c \in Asked |-> {p - 1 : p \in PointsAt(zone, c)}]
  /\ Claimed("gradients") =>
       LET enough == IF answer.backend = "iotdb" THEN 0 ELSE MinNeighbours IN
       IF answer.backend = "tiledb"
       THEN \A c \in DOMAIN answer.value : answer.value[c] = Beside(zone, c) \cap Asked
       ELSE answer.value = [c \in {d \in Asked : Cardinality(Beside(zone, d)) >= enough} |-> Beside(zone, c)]
  /\ Claimed("zones") => Names(files[1], Indices) \subseteq answer.value

ExtremaAreTheFiles ==
  LET around == {c \in CellIds(GivenZone(answer.zone)) : Asked \in PointsAt(GivenZone(answer.zone), c)}
      sums == {SumFunction([c \in around |-> Given(answer.zone, s)[c + 1]]) : s \in StepsOf(files)}
  IN Claimed("extrema") =>
       answer.value = IF around = {} THEN {}
                      ELSE {[n |-> Cardinality(around), min |-> Min(sums), max |-> Max(sums)]}

\* Elements and points keep the numbers of the file, from 1, and cells, nodes and neighbours those
\* of the mesh, from 0, through ingest, topology and the cells remembered per node: answers about
\* the mesh are those of the file (cfd_element_ids_in_coordinate_range, extract_submesh,
\* cfd_point_frame_extrema, compute_qcriterion_roi).
MeshIsTheFiles == GeometryIsTheFiles /\ ExtremaAreTheFiles

\* After an ingest that succeeded, over whatever was there before, every backend has for each zone
\* and step of the files as many values as the zone it stores has cells (validate_frame_topology).
ValuesFitTheMesh ==
  files # NoFiles =>
    \A b \in Backends, i \in DOMAIN files : \A name \in Names(files[i], Indices) :
      /\ name \in DOMAIN store[b].mesh
      /\ ReadKey(b, name, files[i].step) \in DOMAIN store[b].scalar
      /\ Len(store[b].scalar[ReadKey(b, name, files[i].step)]) = Cardinality(CellsOf(store[b].mesh[name]))

=============================================================================
