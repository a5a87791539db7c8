------------------------------- MODULE Ingest -------------------------------
(***************************************************************************)
(* Ingest and re-ingest of one dataset key into the four storage backends: *)
(* cfd-bench ingest (ingest_all, ingest/orchestrator.py) and cfd-bench     *)
(* ingest-h5 (run_ingest_h5, cli/h5_cmd.py), with the loaders they call    *)
(* and what discovery announces afterwards.                                *)
(*                                                                         *)
(* A backend holds parts (the tables, devices, arrays or files of a zone,  *)
(* a step or the dataset); a part is represented by the number of the      *)
(* ingest that wrote it, 0 if it is absent.  A loader is the sequence of   *)
(* its writes, each a database transaction or the deletion or creation of  *)
(* one part; a part that several calls write counts from the last of them. *)
(* The process may raise or be killed between any two writes, and in the   *)
(* middle of the removal of a directory tree.                              *)
(***************************************************************************)
EXTENDS Naturals, Sequences, SequencesExt

CONSTANTS
  Zones, Steps,   \* the zones and timesteps that sources contain
  FluidZone,      \* the zone discovery and W3 prefer, "0_Fluid"; the others are hulls
  Sources,        \* the inputs of ingests: records [kind, zones, steps, given, spatial]
  Selections,     \* values of --backends, sequences
  MaxIngests, MaxFaults

ASSUME ZoneAssumption == FluidZone \in Zones
\* load_cfd_topology and the H5 reader end the command if there is no zone; an H5 source is one
\* instance of one file.
ASSUME SourceAssumption ==
  /\ Sources \subseteq [kind : {"cfd", "h5"}, zones : Seq(Zones) \ {<<>>}, steps : Seq(Steps),
                        given : Steps \cup {0}, spatial : BOOLEAN]
  /\ \A src \in Sources : src.kind = "h5" => Len(src.zones) = 1 /\ src.given = 0
ASSUME SelectionAssumption == \A sel \in Selections : sel \in Seq(ToSet(sel))
ASSUME BoundsAssumption == MaxIngests \in Nat /\ MaxFaults \in Nat

Backends == {"postgresql", "iotdb", "tiledb", "vtk"}

Mesh(z) == <<"mesh", z>>              \* topology: nodes, cells, cell_nodes, adjacency, mesh_meta
Bounds(z) == <<"bounds", z>>          \* PostgreSQL cell_bounds, written for CFD only
Geom(z) == <<"geom", z>>              \* PostgreSQL cell_geom_full
Locator(z) == <<"locator", z>>        \* PostgreSQL point_locator_grid
Values(z, s) == <<"values", z, s>>    \* cell values of a step, and max_diff in PostgreSQL
Nodal(z, s) == <<"nodal", z, s>>      \* node values of a step, H5 only, in VTK part of Values
Diff(s) == <<"diff", s>>              \* max_diff of W3 in IoTDB and TileDB
H5Meta == <<"h5_meta">>               \* h5_metadata: dataset_meta
H5Frames == <<"h5_frames">>           \* h5_metadata: frames
CfdMeta == <<"cfd_meta">>             \* cfd_metadata: dataset_meta
Manifest == <<"manifest">>            \* VTK manifest.json

ValueParts(zones, steps) == UNION {{Values(z, s), Nodal(z, s)} : z \in zones, s \in steps}
Parts ==
  (UNION {{Mesh(z), Bounds(z), Geom(z), Locator(z)} : z \in Zones})
    \cup ValueParts(Zones, Steps) \cup {Diff(s) : s \in Steps}
    \cup {H5Meta, H5Frames, CfdMeta, Manifest}

\* The directories and files that rmtree removes, in any order, by the kinds of part in them.
Directories == {{"mesh"}, {"values", "nodal"}, {"diff"}, {"h5_meta", "h5_frames"}, {"cfd_meta"}, {"manifest"}}

VARIABLES
  store,      \* per backend and part, the ingest that wrote it
  sources,    \* the inputs of the ingests begun so far
  selected,   \* the backends of the current ingest
  todo,       \* those not finished, the current one first
  position,   \* the next write of the current loader
  failed,     \* report.failed
  exit,       \* "running", "killed", or the exit code "0" or "1"; "none" at first
  reported,   \* per backend, the ingest last reported done, 0 since the next one touched it
  faults      \* exceptions and kills so far

vars == <<store, sources, selected, todo, position, failed, exit, reported, faults>>

Now == Len(sources)
Source == sources[Now]

-----------------------------------------------------------------------------
(* The loaders as sequences of writes.                                     *)

\* A write deletes the parts of drop and writes those of put; from names the stored parts
\* that it computes them from, in order of preference, and is empty if that is the source.
Write(drop, put, from) == [drop |-> drop, put |-> put, from |-> from]
Drop(parts) == <<Write(parts, {}, <<>>)>>
Put(parts) == <<Write({}, parts, <<>>)>>
RemoveTree == Drop(Parts)
Replace(parts) == Drop(parts) \o Put(parts)
Each(seq, Writes(_)) == FlattenSeq([i \in DOMAIN seq |-> Writes(seq[i])])

\* The PostgreSQL and IoTDB loaders read the directory of the given file, the others the file.
StepsFor(b, src) ==
  IF src.given # 0 /\ b \in {"tiledb", "vtk"} THEN <<src.given>> ELSE src.steps

\* The zone that metadata and max_diff are about.
Primary(src) == IF FluidZone \in ToSet(src.zones) THEN FluidZone ELSE Head(src.zones)

\* Mutant: the buckets are left to build_point_locator_grid.
StaticTablesWithoutLocator(z) == {Mesh(z), Bounds(z), Geom(z)}

\* _delete_static_zone
StaticTables(z) == {Mesh(z), Bounds(z), Geom(z), Locator(z)}

\* Mutant: the rows of the steps are left, the new ones go over them.
ZoneTablesWithoutValues(z) == {Mesh(z), Geom(z), Locator(z)}

\* _delete_zone_data
ZoneTables(z) == {Mesh(z), Geom(z), Locator(z)} \cup ValueParts({z}, Steps)

\* build_point_locator_grid: from cell_bounds if the zone has any, else from cell_centroid.
BuildLocator(z) == <<Write({Locator(z)}, {Locator(z)}, <<Bounds(z), Mesh(z)>>)>>

\* build_cell_geom_full
BuildGeom(z) == <<Write({Geom(z)}, {Geom(z)}, <<Mesh(z)>>)>>

\* load_topology_from_dat, load_cell_vars, build_point_locator_grid: a transaction per zone
\* and per zone of a frame.
PostgresqlCfd(src) ==
  Each(src.zones, LAMBDA z : <<Write(StaticTables(z), {Mesh(z), Bounds(z)}, <<>>)>>)
    \o Each(src.steps, LAMBDA s : Each(src.zones, LAMBDA z :
         <<Write({Values(z, s)}, {Values(z, s)}, <<>>)>>))
    \o IF src.spatial THEN Each(src.zones, BuildLocator) ELSE <<>>

\* load_h5_to_postgresql: one transaction, then the spatial layers in one each.
PostgresqlH5(src) ==
  LET z == Head(src.zones) IN
  <<Write(ZoneTables(z), {Mesh(z)} \cup ValueParts({z}, ToSet(src.steps)), <<>>)>>
    \o IF src.spatial THEN BuildGeom(z) \o BuildLocator(z) ELSE <<>>

\* load_topology, load_cell_vars_from_dir
IotdbCfd(src) ==
  Each(src.zones, LAMBDA z : Replace({Mesh(z)}))
    \o Each(src.steps, LAMBDA s :
         Each(src.zones, LAMBDA z : Replace({Values(z, s)}))
           \o IF FluidZone \in ToSet(src.zones) THEN Replace({Diff(s)}) ELSE <<>>)
    \o Replace({CfdMeta})

\* _clean_dataset: of other zones the mesh stays, all values go.
CleanDataset(z) ==
  Drop({Mesh(z)}) \o Drop(ValueParts(Zones, Steps)) \o Drop({H5Meta, H5Frames})
    \o Drop({Diff(s) : s \in Steps})

\* Mutant: the old frames are deleted only when the new ones come.
IotdbH5CleansLate(src) ==
  LET z == Head(src.zones) IN
  Put({Mesh(z)}) \o CleanDataset(z) \o Put({H5Meta}) \o Put({H5Frames})
    \o Each(src.steps, LAMBDA s : Put({Values(z, s)}) \o Put({Nodal(z, s)}) \o Put({Diff(s)}))

\* load_h5_to_iotdb: the metadata comes before the frames.
IotdbH5(src) ==
  LET z == Head(src.zones) IN
  CleanDataset(z)
    \o Put({Mesh(z)}) \o Put({H5Meta}) \o Put({H5Frames})
    \o Each(src.steps, LAMBDA s : Put({Values(z, s)}) \o Put({Nodal(z, s)}) \o Put({Diff(s)}))

\* load_topology, load_cell_vars_from_path: each array is removed and created anew.
TiledbCfd(src) ==
  Each(src.zones, LAMBDA z : Replace({Mesh(z)}))
    \o Each(StepsFor("tiledb", src), LAMBDA s : Each(src.zones, LAMBDA z :
         Replace({Values(z, s)}) \o IF z = FluidZone THEN Replace({Diff(s)}) ELSE <<>>))
    \o Replace({CfdMeta})

\* load_h5_to_tiledb: the directory of the dataset is removed first.
TiledbH5(src) ==
  LET z == Head(src.zones) IN
  RemoveTree \o Put({Mesh(z)}) \o Put({H5Meta, H5Frames})
    \o Each(src.steps, LAMBDA s : Put({Values(z, s)}) \o Put({Diff(s)}) \o Put({Nodal(z, s)}))

\* Mutant: the files are replaced one by one.
VtkInPlace(src) ==
  Each(StepsFor("vtk", src), LAMBDA s : Each(src.zones, LAMBDA z : Put({Values(z, s)})))
    \o Put({Manifest})

\* load_cfd_to_vtk, write_h5_plan_to_vtk: the manifest comes last.
Vtk(src) ==
  RemoveTree
    \o Each(StepsFor("vtk", src), LAMBDA s : Each(src.zones, LAMBDA z : Put({Values(z, s)})))
    \o Put({Manifest})

Loader == [b \in Backends |-> [src \in Sources |->
  CASE b = "postgresql" -> IF src.kind = "cfd" THEN PostgresqlCfd(src) ELSE PostgresqlH5(src)
    [] b = "iotdb" -> IF src.kind = "cfd" THEN IotdbCfd(src) ELSE IotdbH5(src)
    [] b = "tiledb" -> IF src.kind = "cfd" THEN TiledbCfd(src) ELSE TiledbH5(src)
    [] b = "vtk" -> Vtk(src)]]

-----------------------------------------------------------------------------
(* The command.                                                            *)

Init ==
  /\ store = [b \in Backends |-> [p \in Parts |-> 0]]
  /\ sources = <<>> /\ selected = <<>> /\ todo = <<>> /\ position = 1
  /\ failed = {} /\ exit = "none"
  /\ reported = [b \in Backends |-> 0]
  /\ faults = 0

\* run_ingest_h5 tests for its backends in this order, whatever the order they were given in.
H5Order == <<"postgresql", "iotdb", "tiledb", "vtk">>
InH5Order(sel) == Each(H5Order, LAMBDA b : IF b \in ToSet(sel) THEN <<b>> ELSE <<>>)

\* The source is decoded before the first backend is touched.
BeginIngest(src, sel) ==
  /\ exit # "running" /\ Now < MaxIngests
  /\ src.kind = "h5" => ToSet(sel) \subseteq Backends
  /\ LET order == IF src.kind = "h5" THEN InH5Order(sel) ELSE sel
     IN selected' = order /\ todo' = order
  /\ sources' = Append(sources, src)
  /\ position' = 1 /\ failed' = {} /\ exit' = "running"
  /\ UNCHANGED <<store, reported, faults>>

Busy == exit = "running" /\ todo # <<>>
Current == Head(todo)

\* The ingest that a part computed from these is of: a table built of stale rows is stale.
Origin(from, content) ==
  LET present == {i \in DOMAIN from : content[from[i]] # 0} IN
  IF present = {} THEN Now ELSE content[from[Min(present)]]

\* The loader of the current backend makes its next write; after the last one the backend
\* is reported done.
LoaderWrites ==
  /\ Busy /\ Current \in Backends
  /\ LET b == Current
         w == Loader[b][Source][position]
         done == position = Len(Loader[b][Source])
     IN
     /\ store' = [store EXCEPT ![b] = [p \in Parts |->
          IF p \in w.put THEN Origin(w.from, @) ELSE IF p \in w.drop THEN 0 ELSE @[p]]]
     /\ reported' = [reported EXCEPT ![b] = IF done THEN Now ELSE 0]
     /\ todo' = IF done THEN Tail(todo) ELSE todo
     /\ position' = IF done THEN 1 ELSE position + 1
  /\ UNCHANGED <<sources, selected, failed, exit, faults>>

\* ingest_all records a backend it does not know and goes on.
UnknownBackend ==
  /\ Busy /\ Current \notin Backends
  /\ failed' = failed \cup {Current}
  /\ todo' = Tail(todo)
  /\ UNCHANGED <<store, sources, selected, position, exit, reported, faults>>

\* What a loader that stops leaves of the write it was at: a transaction, a statement or a
\* file is not there, of a directory tree anything can be.
Interrupts ==
  IF Busy /\ Current \in Backends /\ <<Loader[Current][Source][position]>> = RemoveTree
  THEN /\ \E gone \in SUBSET Directories :
            store' = [store EXCEPT ![Current] =
              [p \in Parts |-> IF p[1] \in UNION gone THEN 0 ELSE @[p]]]
       /\ reported' = [reported EXCEPT ![Current] = 0]
  ELSE UNCHANGED <<store, reported>>

\* Mutant: the exception is printed, but not recorded.
CfdLoaderForgotten ==
  /\ Busy /\ Current \in Backends /\ Source.kind = "cfd" /\ faults < MaxFaults
  /\ Interrupts
  /\ todo' = Tail(todo) /\ position' = 1
  /\ faults' = faults + 1
  /\ UNCHANGED <<sources, selected, failed, exit>>

\* Mutant: the next backend goes on at the write the failed one stopped at.
CfdLoaderKeepsPosition ==
  /\ Busy /\ Current \in Backends /\ Source.kind = "cfd" /\ faults < MaxFaults
  /\ failed' = failed \cup {Current}
  /\ Interrupts
  /\ todo' = Tail(todo)
  /\ faults' = faults + 1
  /\ UNCHANGED <<sources, selected, position, exit>>

\* An exception of a CFD loader is recorded; the next backend is tried.
CfdLoaderRaises ==
  /\ Busy /\ Current \in Backends /\ Source.kind = "cfd" /\ faults < MaxFaults
  /\ failed' = failed \cup {Current}
  /\ Interrupts
  /\ todo' = Tail(todo) /\ position' = 1
  /\ faults' = faults + 1
  /\ UNCHANGED <<sources, selected, exit>>

Stops(code) == exit' = code /\ todo' = <<>> /\ position' = 1

\* An exception of an H5 loader ends the command, one of write_max_diff_files after them too.
H5LoaderRaises ==
  /\ exit = "running" /\ Source.kind = "h5" /\ faults < MaxFaults
  /\ Stops("1")
  /\ faults' = faults + 1
  /\ Interrupts
  /\ UNCHANGED <<sources, selected, failed>>

\* The job is cancelled, or its process killed.
Killed ==
  /\ exit = "running" /\ faults < MaxFaults
  /\ Stops("killed")
  /\ faults' = faults + 1
  /\ Interrupts
  /\ UNCHANGED <<sources, selected, failed>>

Finish ==
  /\ exit = "running" /\ todo = <<>>
  /\ exit' = IF failed = {} THEN "0" ELSE "1"
  /\ UNCHANGED <<store, sources, selected, todo, position, failed, reported, faults>>

Next ==
  \/ \E src \in Sources, sel \in Selections : BeginIngest(src, sel)
  \/ LoaderWrites \/ UnknownBackend \/ CfdLoaderRaises \/ H5LoaderRaises \/ Killed \/ Finish

Spec == Init /\ [][Next]_vars

-----------------------------------------------------------------------------
(* What readers find.                                                      *)

NoDataset == [zone |-> "none", steps |-> {}]
Dataset(zone, steps) == [zone |-> zone, steps |-> steps]

\* discover_iotdb_datasets, discover_tiledb_datasets: H5 metadata first, then CFD metadata.
AnnouncedByMetadata(b) ==
  LET h5 == store[b][H5Meta]
      frames == store[b][H5Frames]
      cfd == store[b][CfdMeta]
  IN IF h5 # 0
     THEN Dataset(Head(sources[h5].zones),
                  IF frames = 0 THEN {} ELSE ToSet(sources[frames].steps))
     ELSE IF cfd # 0 THEN Dataset(Primary(sources[cfd]), ToSet(StepsFor(b, sources[cfd])))
     ELSE NoDataset

\* discover_vtk_datasets
AnnouncedByManifest ==
  LET n == store["vtk"][Manifest] IN
  IF n = 0 THEN NoDataset ELSE Dataset(Primary(sources[n]), ToSet(StepsFor("vtk", sources[n])))

Announced(b) == IF b = "vtk" THEN AnnouncedByManifest ELSE AnnouncedByMetadata(b)

-----------------------------------------------------------------------------
(* Properties.                                                             *)

TypeOK ==
  /\ store \in [Backends -> [Parts -> 0..MaxIngests]]
  /\ sources \in Seq(Sources) /\ Now <= MaxIngests
  /\ selected \in Selections \cup {<<>>} \/ ToSet(selected) \subseteq Backends
  /\ \E i \in 1..Len(selected) + 1 : todo = SubSeq(selected, i, Len(selected))
  /\ position \in Nat \ {0}
  /\ Busy /\ Current \in Backends => position <= Len(Loader[Current][Source])
  /\ failed \subseteq ToSet(selected)
  /\ exit \in {"none", "running", "killed", "0", "1"}
  /\ reported \in [Backends -> 0..Now]
  /\ faults \in 0..MaxFaults

\* Everything ingest n has for backend b is there and is of ingest n.
Stored(b, n) ==
  LET src == sources[n]
      zones == ToSet(src.zones)
      steps == ToSet(StepsFor(b, src))
  IN /\ \A z \in zones, s \in steps :
          /\ store[b][Values(z, s)] = n
          /\ src.kind = "h5" /\ b # "vtk" => store[b][Nodal(z, s)] = n
     /\ b # "vtk" => \A z \in zones : store[b][Mesh(z)] = n
     /\ b \in {"iotdb", "tiledb"} /\ (src.kind = "h5" \/ FluidZone \in zones) =>
          \A s \in steps : store[b][Diff(s)] = n

\* The metadata of an earlier H5 ingest, which a CFD ingest leaves, goes before its own.
Shadowed(b, n) == sources[n].kind = "cfd" /\ store[b][H5Meta] # 0

\* A backend reported done serves that ingest until the next one touches it, whatever other
\* ingests, of either kind, failed or were killed over it before: all parts are of that
\* ingest, and discovery announces its zone and its steps, no fewer and no more. PostgreSQL
\* has no metadata to announce, every row of cell_scalar does, also those of steps that only
\* earlier ingests had; there the claim is about the parts alone.
SuccessIsServed ==
  \A b \in Backends :
    LET n == reported[b] IN
    n # 0 =>
      /\ Stored(b, n)
      /\ b # "postgresql" /\ ~Shadowed(b, n) =>
           Announced(b) = Dataset(Primary(sources[n]), ToSet(StepsFor(b, sources[n])))

\* Exit code 0 is for an ingest every selected backend has completed: a failure of one, or
\* a backend that is unknown, is in the exit code although the others went on.
ExitIsHonest == exit = "0" => \A i \in DOMAIN selected : selected[i] \in Backends /\ reported[selected[i]] = Now

\* PostgreSQL replaces a zone of an H5 dataset in one transaction: at any time, also while
\* an ingest runs and after it died, a zone whose mesh is of an H5 ingest has the values of
\* that ingest and no others.
H5ZoneIsWhole ==
  \A z \in Zones :
    LET n == store["postgresql"][Mesh(z)] IN
    n # 0 /\ sources[n].kind = "h5" =>
      \A s \in Steps : \A p \in ValueParts({z}, {s}) :
        store["postgresql"][p] = IF s \in ToSet(sources[n].steps) THEN n ELSE 0

\* The spatial layers are built in later transactions than the mesh, or not at all
\* (--no-build-spatial); one that is there is of the mesh that is there, as long as
\* cell_bounds is.
SpatialLayersCurrent ==
  \A z \in Zones :
    LET at(p) == store["postgresql"][p] IN
    /\ at(Geom(z)) \in {0, at(Mesh(z))}
    /\ at(Bounds(z)) \in {0, at(Mesh(z))} => at(Locator(z)) \in {0, at(Mesh(z))}

\* _delete_zone_data says that it clears all derived data, and build_point_locator_grid that
\* H5 datasets keep their centroid-based build: the buckets of a zone are of its mesh.
LocatorIsCurrent ==
  \A z \in Zones : store["postgresql"][Locator(z)] \in {0, store["postgresql"][Mesh(z)]}

\* What the manifest leads to: the frames of the ingest that wrote it; MaxIngests + 1 if one of
\* another ingest is among the files it names; 0 if there is no manifest, or a file is missing.
VtkContent ==
  LET n == store["vtk"][Manifest]
      frames == IF n = 0 THEN {}
                ELSE {store["vtk"][Values(z, s)] :
                        z \in ToSet(sources[n].zones), s \in ToSet(StepsFor("vtk", sources[n]))}
  IN IF n = 0 \/ 0 \in frames THEN 0 ELSE IF frames \subseteq {n} THEN n ELSE MaxIngests + 1

\* Whatever is killed and whenever a reader looks, the VTK backend shows no dataset, one that
\* cannot be read, or one whole ingest, never frames of two, and puts nothing but the latest
\* in the place of nothing.
Published == INSTANCE Publication WITH begun <- Now, content <- VtkContent
VtkPublishesWhole == Published!PSpec

=============================================================================
