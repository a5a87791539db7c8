----------------------------- MODULE VtkClient ------------------------------
(***************************************************************************)
(* The VTK backend beside the databases of Queries: an ingest writes a     *)
(* file per zone and step, with the mesh in each, and a manifest           *)
(* (ingest/vtk/load_vtk.py, infra/vtk/storage.py), and a client reads them *)
(* (API/vtk_api/client.py).                                                *)
(*                                                                         *)
(* While a client is open the files stand still: which frames it keeps in  *)
(* memory, and whether it reads them again for each query                  *)
(* (baseline_fidelity), then changes no answer and is left out.            *)
(***************************************************************************)
EXTENDS Queries

CONSTANTS
  DefaultZone,   \* "0_Fluid"
  ChangeZones    \* whether a client is moved to another zone; make_vtk makes a new client

ASSUME ChangeAssumption == ChangeZones \in BOOLEAN

VARIABLES
  disk,   \* the dataset's directory: the manifest, and the frames by zone and step
  vtk     \* the open VTK client, if any

every == <<vars, disk, vtk>>

NoManifest == [none |-> TRUE]
EmptyDirectory == [manifest |-> NoManifest, frames |-> <<>>]

InitAll == Init /\ disk = EmptyDirectory /\ vtk = NoClient

-----------------------------------------------------------------------------
(* Ingest.                                                                 *)

\* build_grid: the points and cells of the topology, the values of the frame.
Grid(payload, values) == [points |-> payload.points, nodes |-> payload.nodes, values |-> values]

WriteFrames(topology, input, n) ==
  LET writes == Writes(input, n) IN
  Put(<<>>, [w \in writes |-> <<ZoneOf(input, w).name, StepOf(input, w)>>],
      [w \in writes |-> Grid(topology[ZoneOf(input, w).name], ZoneOf(input, w).values)])

\* The differences of a zone by the steps it has a frame of.
Diffs(input, topology, name) ==
  LET with == {i \in DOMAIN input : name \in Names(input[i], Indices)} IN
  [s \in {input[i].step : i \in with} |->
     MaxDiff(topology[name],
             LastNamed(input[Max({i \in with : input[i].step = s})], Indices, name).values)]

Manifest(input, topology) ==
  [primary |-> PrimaryZone(DOMAIN topology), steps |-> {input[i].step : i \in DOMAIN input},
   zones |-> [name \in DOMAIN topology |->
                [diffs |-> Diffs(input, topology, name), nodeCount |-> topology[name].nodeCount]]]

\* Mutant: the dataset is announced even if a frame was refused.
DirectoryAnnounced(input, topology) ==
  [manifest |-> Manifest(SubSeq(input, 1, Fitting(input, topology)), topology),
   frames |-> WriteFrames(topology, input, Fitting(input, topology))]

\* load_cfd_to_vtk: reset_dataset, the frames up to one that does not fit, the manifest last.
Directory(input, topology) ==
  LET n == Fitting(input, topology) IN
  [manifest |-> IF n = Len(input) THEN Manifest(input, topology) ELSE NoManifest,
   frames |-> WriteFrames(topology, input, n)]

\* The orchestrator hands every backend the same topology.
IngestAll(input) ==
  /\ vtk = NoClient
  /\ IngestFiles(input)
  /\ disk' = IF TopologyLoads(input[1], Indices)
             THEN Directory(input, LoadTopology(input[1], Indices)) ELSE disk
  /\ UNCHANGED vtk

-----------------------------------------------------------------------------
(* The client.                                                             *)

ZonesListed == DOMAIN vtk.manifest.zones
HasFrame(zone, step) == step \in DOMAIN disk.manifest.zones[zone].diffs

\* A zone that is not there is refused, but for the default one of the command line.
Chosen(zone) ==
  LET listed == DOMAIN disk.manifest.zones IN
  IF zone \in listed THEN {zone} ELSE IF zone = DefaultZone THEN {disk.manifest.primary} ELSE {}

\* connect: the manifest is read, and the frame; the cells of each node are what they were.
Attach(zone, step, csr) ==
  /\ disk.manifest # NoManifest
  /\ \E chosen \in Chosen(zone) :
       /\ HasFrame(chosen, step)
       /\ vtk' = [zone |-> chosen, step |-> step, manifest |-> disk.manifest, csr |-> csr]
  /\ answer' = NoAnswer
  /\ UNCHANGED <<files, ingests, store, client, disk>>

\* make_vtk
OpenVtk(zone, step) == client = NoClient /\ vtk = NoClient /\ Attach(zone, step, {})

ConnectVtk(zone, step) ==
  /\ vtk # NoClient
  /\ ChangeZones \/ Chosen(zone) = {vtk.zone}
  /\ Attach(zone, step, vtk.csr)

CloseVtk ==
  /\ vtk # NoClient
  /\ vtk' = NoClient /\ answer' = NoAnswer
  /\ UNCHANGED <<files, ingests, store, client, disk>>

\* _grid_for, _benchmark_grid: the frame the client is at, or that of the step asked for.
GridAt(step) == disk.frames[<<vtk.zone, step>>]
Here == GridAt(vtk.step)
GridCells == DOMAIN Here.nodes
Coordinates(c) == {Here.points[n + 1] : n \in Here.nodes[c]}

Says(op, arg, step, value) ==
  /\ answer' = [op |-> op, arg |-> arg, value |-> value, zone |-> vtk.zone, step |-> step,
                backend |-> "vtk", doubtful |-> FALSE]
  /\ UNCHANGED <<files, ingests, store, client, disk>>

Tells(op, arg, step, value) == Says(op, arg, step, value) /\ UNCHANGED vtk

\* Queries that name a step read the frame of that step, those about the mesh the client's own.
StepsListed == DOMAIN vtk.manifest.zones[vtk.zone].diffs

\* point_query leaves out what is no cell; cells come from the mesh of the step the client is at.
Picked(ids, step) ==
  LET held == {i \in DOMAIN ids : ids[i] + 1 \in DOMAIN GridAt(step).values} IN
  [i \in held |-> GridAt(step).values[ids[i] + 1]]

TellPoints(ids, step) == Tells("points", ids, step, Picked(ids, step))

\* range_query_var puts the bounds in order.
TellRange(lo, hi, step) ==
  LET values == GridAt(step).values IN
  Tells("range", <<lo, hi>>, step,
        {i - 1 : i \in {k \in DOMAIN values : Min({lo, hi}) <= values[k] /\ values[k] <= Max({lo, hi})}})

TellValueRange(step) ==
  LET values == Range(GridAt(step).values) IN
  Tells("value_range", <<>>, step, <<Min(values), Max(values)>>)

TellStatistics(step) ==
  LET values == GridAt(step).values IN
  Tells("statistics", <<>>, step, Summary([c \in 0..Len(values) - 1 |-> values[c + 1]]))

\* The manifest has the differences of every zone.
TellMaxDiffs(step) == Tells("max_diffs", <<>>, step, {vtk.manifest.zones[vtk.zone].diffs[step]})

TellZones == Tells("zones", <<>>, vtk.step, ZonesListed)

\* cfd_element_ids_in_coordinate_range: by the middle of the box of a cell.
Middle(c) == Min(Coordinates(c)) + Max(Coordinates(c))
TellElements(lo, hi) ==
  Tells("boxed", <<lo, hi>>, vtk.step,
        {c + 1 : c \in {d \in GridCells : 2 * Min({lo, hi}) <= Middle(d) /\ Middle(d) <= 2 * Max({lo, hi})}})

\* range_query_coord: cells with all their points in the range; compute_qcriterion_roi cuts the
\* mesh down to them.
Within(lo, hi) == {c \in GridCells : Coordinates(c) \subseteq Min({lo, hi})..Max({lo, hi})}
TellWithin(lo, hi) == Tells("within", <<lo, hi>>, vtk.step, Within(lo, hi))

TellSubmesh(ids) == ids \subseteq GridCells /\ Tells("submesh", ids, vtk.step, [c \in ids |-> Here.nodes[c]])

\* surface_cells_and_normals: every cell is taken for a piece of the surface.
TellSurface == Tells("cells", <<>>, vtk.step, GridCells)

\* cfd_point_frame_extrema: the cells of the nodes, made once, and a frame per step.
CellsOfNodes == [n \in 0..Len(Here.points) - 1 |-> {c \in GridCells : n \in Here.nodes[c]}]
TellExtrema(point) ==
  LET csr == IF vtk.csr # {} THEN Kept(vtk.csr) ELSE CellsOfNodes
      node == DenseNode(point)
      cells == IF node \in DOMAIN csr THEN csr[node] ELSE {}
      Values(s) == Picked([c \in cells |-> c], s)
      Sum(s) == SumFunction(Values(s))
  IN /\ IF cells = {} THEN Says("extrema", point, vtk.step, {})
        ELSE IF \E s \in vtk.manifest.steps : s \notin StepsListed \/ DOMAIN Values(s) # cells
        THEN Says("any", <<>>, vtk.step, Raised)
        ELSE Says("extrema", point, vtk.step,
                  {[n |-> Cardinality(cells), min |-> Min({Sum(s) : s \in vtk.manifest.steps}),
                    max |-> Max({Sum(s) : s \in vtk.manifest.steps})]})
     /\ vtk' = [vtk EXCEPT !.csr = {csr}]

Telling ==
  /\ vtk # NoClient
  /\ \/ \E step \in StepsListed :
          \/ \E ids \in PointLists : ToSet(ids) \subseteq GridCells /\ TellPoints(ids, step)
          \/ \E lo, hi \in Thresholds : TellRange(lo, hi, step)
          \/ TellValueRange(step) \/ TellStatistics(step) \/ TellMaxDiffs(step)
     \/ \E lo, hi \in Thresholds : TellElements(lo, hi) \/ TellWithin(lo, hi)
     \/ \E ids \in PointLists : TellSubmesh(ToSet(ids))
     \/ \E point \in Points : TellExtrema(point)
     \/ TellZones \/ TellSurface

ZonesOnDisk == IF disk.manifest = NoManifest THEN {} ELSE DOMAIN disk.manifest.zones
StepsOnDisk == {key[2] : key \in DOMAIN disk.frames}

NextAll ==
  \/ \E input \in FileSets : IngestAll(input)
  \/ vtk = NoClient /\ Using /\ UNCHANGED <<disk, vtk>>
  \/ \E zone \in ZonesOnDisk \cup {DefaultZone}, step \in StepsOnDisk :
       OpenVtk(zone, step) \/ ConnectVtk(zone, step)
  \/ CloseVtk
  \/ Telling

SpecAll == InitAll /\ [][NextAll]_every

-----------------------------------------------------------------------------
DirectoryIsTheFiles ==
  disk.manifest # NoManifest =>
    /\ files # NoFiles /\ DOMAIN disk.manifest.zones = Names(files[1], Indices)
    /\ \A i \in DOMAIN files : \A name \in Names(files[i], Indices) :
         LET zone == GivenZone(name)
             key == <<name, files[i].step>>
         IN /\ HasFrame(name, files[i].step) /\ key \in DOMAIN disk.frames
            /\ disk.frames[key].values = Given(name, files[i].step)
            /\ disk.frames[key].nodes = [c \in CellIds(zone) |-> {p - 1 : p \in PointsAt(zone, c)}]

Reach(zone, c) == {zone.nodes[p] : p \in PointsAt(zone, c)}
Inside(zone, low, high) == {c \in CellIds(zone) : Reach(zone, c) \subseteq low..high}
Around(zone, low, high) ==
  {c \in CellIds(zone) :
     LET middle == Min(Reach(zone, c)) + Max(Reach(zone, c)) IN 2 * low <= middle /\ middle <= 2 * high}

BoxesAreTheFiles ==
  LET zone == GivenZone(answer.zone)
      low == Min({Asked[1], Asked[2]})
      high == Max({Asked[1], Asked[2]})
  IN /\ Claimed("within") => answer.value = Inside(zone, low, high)
     /\ Claimed("boxed") => answer.value = {c + 1 : c \in Around(zone, low, high)}

\* What a directory announces is there and is one ingest: the zones and steps of the last files,
\* in every frame the mesh of the first of them and the values of its own, and nothing is announced
\* after an ingest that failed; cells within coordinates, and around them, are those of the files
\* (load_cfd_to_vtk, range_query_coord, _element_ids_in_coordinate_range).
FramesAreTheFiles == DirectoryIsTheFiles /\ BoxesAreTheFiles
=============================================================================
