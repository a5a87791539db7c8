------------------------------ MODULE Topology ------------------------------
(***************************************************************************)
(* From Tecplot files to the backend-neutral mesh: the decoder             *)
(* (ingest/decoder), the canonical loader (ingest/cfd/canonical.py) and    *)
(* the topology export (ingest/common/topology_export.py).                 *)
(*                                                                         *)
(* One axis stands for three, and one variable for all.  A file is a       *)
(* record [step, zones]; a zone of it is a record                          *)
(*   name    its name                                                      *)
(*   whole   whether every section has the number of entries declared      *)
(*   nodes   the coordinates of its nodes, a sequence of integers          *)
(*   cells   the number of its cells                                       *)
(*   faces   a sequence of [nodes, le, re, area, turn]: one-based node     *)
(*           ids, the one-based cells left and right of the face, 0 for    *)
(*           none, its area, and the side its polygon turns to, -1 or 1    *)
(*   values  a value per cell, a sequence                                  *)
(* Cells and nodes are numbered from 0 in what is exported.                *)
(***************************************************************************)
EXTENDS Integers, Sequences, FiniteSets, FiniteSetsExt, SequencesExt

IsZone(zone) ==
  /\ zone.nodes \in Seq(Int) /\ zone.cells \in Nat /\ zone.values \in Seq(Int)
  /\ zone.faces \in Seq(ToSet(zone.faces))
  /\ \A face \in ToSet(zone.faces) : face.area \in Nat /\ face.turn \in {-1, 1}
IsFile(file) == file.zones \in Seq(ToSet(file.zones)) /\ \A zone \in ToSet(file.zones) : IsZone(zone)

FaceCells(face) == {face.le - 1, face.re - 1} \ {-1}
CellIds(zone) == 0..zone.cells - 1

-----------------------------------------------------------------------------
(* Decoding a zone.                                                        *)

FacesOf(zone, c) == {i \in DOMAIN zone.faces : c \in FaceCells(zone.faces[i])}

\* construct_element_face_and_nodes: the nodes of the faces a cell has.
CellNodes(zone, c) == UNION {{n - 1 : n \in ToSet(zone.faces[i].nodes)} : i \in FacesOf(zone, c)}

\* Tecplot declares the numbers of entries; ids are within them, and every cell has nodes.
Decodes(zone) ==
  /\ zone.whole /\ zone.nodes # <<>> /\ zone.cells > 0
  /\ \A i \in DOMAIN zone.faces :
       /\ zone.faces[i].le \in 0..zone.cells /\ zone.faces[i].re \in 0..zone.cells
       /\ ToSet(zone.faces[i].nodes) \subseteq DOMAIN zone.nodes
  /\ \A c \in CellIds(zone) : CellNodes(zone, c) # {}

\* A mean is a sum and the number of its terms.
Mean(zone, nodes) == [sum |-> SumFunction([n \in nodes |-> zone.nodes[n + 1]]), n |-> Cardinality(nodes)]
Centre(zone, c) == Mean(zone, CellNodes(zone, c))
FaceCentre(zone, face) == Mean(zone, {n - 1 : n \in ToSet(face.nodes)})

\* The sign of a - b for two means.
Side(a, b) ==
  LET d == a.sum * b.n - b.sum * a.n IN IF d > 0 THEN 1 ELSE IF d < 0 THEN -1 ELSE 0

\* construct_element_adjacency
Neighbours(zone, c) == (UNION {FaceCells(zone.faces[i]) : i \in FacesOf(zone, c)}) \ {c}

-----------------------------------------------------------------------------
(* The export.                                                             *)

\* A face on the boundary has one cell, and a polygon with an area.
OnBoundary(face) == Cardinality(FaceCells(face)) = 1 /\ (face.le = 0 \/ face.re = 0) /\ face.area > 0
Owner(face) == CHOOSE c \in FaceCells(face) : TRUE

\* Mutant: the normal is left as the polygon turns.
AsTurned(zone, face) == face.turn

\* face_plane_for_zone: the normal looks away from the centre of the cell.
Outward(zone, face) ==
  IF face.turn * Side(FaceCentre(zone, face), Centre(zone, Owner(face))) < 0 THEN -face.turn ELSE face.turn

BoundaryRow(zone, face) == [cell |-> Owner(face), normal |-> Outward(zone, face), area |-> face.area]

\* export_zone_topology
Payload(zone) ==
  [nodeCount |-> Len(zone.nodes), points |-> zone.nodes,
   centre |-> [c \in CellIds(zone) |-> Centre(zone, c)],
   nodes |-> [c \in CellIds(zone) |-> CellNodes(zone, c)],
   adjacency |-> [c \in CellIds(zone) |-> Neighbours(zone, c)],
   boundary |-> [i \in {j \in DOMAIN zone.faces : OnBoundary(zone.faces[j])} |->
                   BoundaryRow(zone, zone.faces[i])]]

CellsOf(payload) == DOMAIN payload.nodes

\* load_cfd_topology: indices beyond the file are passed over; of two zones with one name the
\* payload of the later index is kept. Requested are the places of the indices within.
Requested(file, indices) == {k \in DOMAIN indices : indices[k] < Len(file.zones)}
ZoneAt(file, i) == file.zones[i + 1]
Names(file, indices) == {ZoneAt(file, indices[k]).name : k \in Requested(file, indices)}
Named(file, indices, name) == {k \in Requested(file, indices) : ZoneAt(file, indices[k]).name = name}
LastNamed(file, indices, name) == ZoneAt(file, indices[Max(Named(file, indices, name))])

LoadTopology(file, indices) ==
  [name \in Names(file, indices) |-> Payload(LastNamed(file, indices, name))]

\* Every zone of the file is decoded, requested or not.
TopologyLoads(file, indices) ==
  (\A i \in DOMAIN file.zones : Decodes(file.zones[i])) /\ Requested(file, indices) # {}

\* iter_cfd_frames: the requested zones of a later file, its faces left alone.
Frame(file, indices) ==
  [k \in Requested(file, indices) |->
     [index |-> indices[k], name |-> ZoneAt(file, indices[k]).name,
      values |-> ZoneAt(file, indices[k]).values]]

\* Mutant: a frame with more cells than the topology is let through.
FrameFitsInto(file, indices, topology) ==
  \A k \in DOMAIN Frame(file, indices) :
    LET zone == Frame(file, indices)[k] IN
    zone.name \in DOMAIN topology /\ Len(zone.values) >= Cardinality(CellsOf(topology[zone.name]))

\* validate_frame_topology
FrameFits(file, indices, topology) ==
  \A k \in DOMAIN Frame(file, indices) :
    LET zone == Frame(file, indices)[k] IN
    zone.name \in DOMAIN topology /\ Len(zone.values) = Cardinality(CellsOf(topology[zone.name]))

\* max_neighbor_diffs: over the edges, 0 if there is none.
AbsDiff(a, b) == IF a < b THEN b - a ELSE a - b
MaxDiff(payload, values) ==
  Max({0} \cup UNION {{AbsDiff(values[c + 1], values[d + 1]) : d \in payload.adjacency[c]} :
                        c \in CellsOf(payload)})

=============================================================================
