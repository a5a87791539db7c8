------------------------------- MODULE Locate -------------------------------
(***************************************************************************)
(* Point location in a CFD mesh: the bucket index of the coupling          *)
(* (features/structure_cfd_coupling/engine.py), the centroid index it      *)
(* falls back to (infra/iotdb/mesh_runtime.py), and the scan of the        *)
(* interpolation service (features/fluid_interpolation/engine.py).         *)
(*                                                                         *)
(* One axis stands for three: every test the code makes is made per axis.  *)
(* Coordinates are integers and the code's eps is smaller than a unit.  A  *)
(* cell has an axis-aligned box lo..hi and fills all of it ("solid"), its  *)
(* lower half ("hollow": boxes overlap where cells do not) or nothing that *)
(* a simplex can be solved for ("flat").  A mesh vertex is a coordinate.   *)
(***************************************************************************)
EXTENDS Integers, FiniteSets, FiniteSetsExt

CONSTANTS
  Cells,              \* the cell ids, integers
  Span,               \* coordinates are 0..Span
  TargetDim,          \* buckets of the uniform grid: 64 per axis in the code
  MaxBucketsPerCell,  \* cells over more buckets go to the oversize list: 512
  MaxIncidences       \* the index is skipped above this: 12 000 000

ASSUME CellsAssumption == Cells \subseteq Nat /\ IsFiniteSet(Cells) /\ Cells # {}
ASSUME GridAssumption ==
  /\ Span \in Nat \ {0} /\ TargetDim \in Nat \ {0}
  /\ MaxBucketsPerCell \in Nat \ {0} /\ MaxIncidences \in Nat

\* STATUS_* of output.py.
PASS == 0
OUTSIDE_MESH == 1
NO_CONTAINING_CELL == 2
INTERPOLATION_FAILED == 3

NotFinite == -1   \* a structure node without finite coordinates
NoCell == -1

Kinds == {"solid", "hollow", "flat"}
Mesh == [lo : [Cells -> 0..Span], hi : [Cells -> 0..Span], kind : [Cells -> Kinds],
         finite : [Cells -> BOOLEAN]]

-----------------------------------------------------------------------------
(* The geometry of a cell.                                                 *)

Clip(x, n) == Max({0, Min({x, n - 1})})

InBox(m, c, p) == m.lo[c] <= p /\ p <= m.hi[c]

\* _prepare_cell: the simplices of a cell, if one can be solved for.
Prepared(m, c) == m.kind[c] # "flat"

Far(m, c) == IF m.kind[c] = "solid" THEN m.hi[c] ELSE (m.lo[c] + m.hi[c]) \div 2

\* Weights in the best simplex: none negative, and how far inside the point is.
Supports(m, c, p) == m.lo[c] <= p /\ p <= Far(m, c)
Margin(m, c, p) == Min({p - m.lo[c], Far(m, c) - p})

\* The vertices of the simplex.
SupportNodes(m, c) == {m.lo[c], Far(m, c)}

\* Cell values projected to vertices: the mean of the finite values around a vertex.
Around(m, n) == {c \in Cells : n \in SupportNodes(m, c)}
NodalFinite(m, n) == \E c \in Around(m, n) : m.finite[c]

-----------------------------------------------------------------------------
(* The uniform grid.                                                       *)

GlobalMin(m) == Min({m.lo[c] : c \in Cells})
GlobalMax(m) == Max({m.hi[c] : c \in Cells})
Extent(m) == Max({GlobalMax(m) - GlobalMin(m), 1})

\* The bucket of a point, and of a point a little below it (lo - eps).
Bucket(m, x) == Clip(((x - GlobalMin(m)) * TargetDim) \div Extent(m), TargetDim)
BucketBelow(m, x) == Clip(((x - GlobalMin(m)) * TargetDim - 1) \div Extent(m), TargetDim)

\* mesh_runtime._build_spatial_index: every cell in the bucket of its centroid.
CentroidBucket(m, c) ==
  Clip(((m.lo[c] + m.hi[c] - 2 * GlobalMin(m)) * TargetDim) \div (2 * Extent(m)), TargetDim)

\* Mutant: the last bucket a box touches is left out, as range(x0, x1) would.
TouchedHalfOpen(m, c) ==
  BucketBelow(m, m.lo[c])..Max({BucketBelow(m, m.lo[c]), Bucket(m, m.hi[c]) - 1})

\* _build_aabb_bucket_index: the buckets the box of a cell touches.
Touched(m, c) == BucketBelow(m, m.lo[c])..Bucket(m, m.hi[c])

Normal(m, c) == Cardinality(Touched(m, c)) <= MaxBucketsPerCell
Incidences(m) ==
  Cardinality({at \in Cells \X (0..(TargetDim - 1)) :
                 Normal(m, at[1]) /\ at[2] \in Touched(m, at[1])})

IndexReady(m) == Incidences(m) > 0 /\ Incidences(m) <= MaxIncidences

-----------------------------------------------------------------------------
(* Candidates of a point, and what is located among them.                  *)

\* _bucket_candidate_ids: the point's bucket and the oversize cells; without the index, the
\* cells with their centroid in the bucket of the point or next to it.
BucketCandidates(m, p) ==
  IF IndexReady(m)
    THEN {c \in Cells : ~Normal(m, c) \/ Bucket(m, p) \in Touched(m, c)}
    ELSE {c \in Cells : CentroidBucket(m, c) \in (Bucket(m, p) - 1)..(Bucket(m, p) + 1)}

\* The whole mesh by its boxes, as the interpolation service scans it.
BoxScan(m, p) == {c \in Cells : InBox(m, c, p)}

\* _candidate_cells of the coupling: the boxes near the point; every box when none is near and
\* there is no index; nothing outside the box of the mesh.
Candidates(m, p) ==
  LET near == {c \in BucketCandidates(m, p) : InBox(m, c, p)} IN
  CASE p < GlobalMin(m) \/ p > GlobalMax(m) -> {}
    [] near = {} /\ ~IndexReady(m) -> BoxScan(m, p)
    [] OTHER -> near

\* The cell with the widest margin, the lower id of two alike; NoCell when none has the point.
Best(m, found, p) ==
  LET held == {c \in found : Prepared(m, c) /\ Supports(m, c, p)}
      widest == {c \in held : \A d \in held : Margin(m, d, p) <= Margin(m, c, p)}
  IN IF held = {} THEN NoCell ELSE Min(widest)

ValuesFinite(m, c) == \A n \in SupportNodes(m, c) : NodalFinite(m, n)

\* _locate_support and one turn of _map_batch: the cell and the status of a node.
MapNode(m, p) ==
  LET found == Candidates(m, p)
      cell == Best(m, found, p)
  IN CASE p = NotFinite -> [status |-> INTERPOLATION_FAILED, cell |-> NoCell]
       [] p # NotFinite /\ found = {} -> [status |-> OUTSIDE_MESH, cell |-> NoCell]
       [] p # NotFinite /\ found # {} /\ cell = NoCell
            -> [status |-> NO_CONTAINING_CELL, cell |-> NoCell]
       [] OTHER -> [status |-> IF ValuesFinite(m, cell) THEN PASS ELSE INTERPOLATION_FAILED,
                    cell |-> cell]

\* FluidInterpolationEngine.interpolate at the same point: the cell it answers with, NoCell
\* when it raises.
InterpolationCell(m, p) ==
  LET cell == IF p = NotFinite THEN NoCell ELSE Best(m, BoxScan(m, p), p)
  IN IF cell # NoCell /\ ValuesFinite(m, cell) THEN cell ELSE NoCell
=============================================================================
