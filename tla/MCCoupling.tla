----------------------------- MODULE MCCoupling -----------------------------
(***************************************************************************)
(* Small meshes for Coupling: three cells drawn from shapes that cross     *)
(* bucket borders, overlap in their boxes, are too large for the index or  *)
(* cannot be solved for.  The runs share nothing but paths, so every mesh  *)
(* is mapped by one run, and one mesh by several runs that interleave.     *)
(***************************************************************************)
EXTENDS Coupling

MCCells == {1, 2, 3}

Shape(l, h, k) == [lo |-> l, hi |-> h, kind |-> k]

Shapes == {Shape(0, 6, "solid"), Shape(0, 2, "hollow"), Shape(1, 2, "solid"), Shape(2, 6, "hollow"),
           Shape(2, 5, "flat")}

MeshOf(shape, finite) ==
  [lo |-> [c \in Cells |-> shape[c].lo], hi |-> [c \in Cells |-> shape[c].hi],
   kind |-> [c \in Cells |-> shape[c].kind], finite |-> finite]

Finites == {[c \in Cells |-> TRUE], [c \in Cells |-> c # 1]}

MCMeshes == {MeshOf(shape, finite) : shape \in [Cells -> Shapes], finite \in Finites}

SharedMesh ==
  MeshOf([c \in Cells |-> IF c = 1 THEN Shape(0, 2, "hollow") ELSE Shape(1, 2, "solid")],
         [c \in Cells |-> TRUE])

MCPoints == {<<p, NotFinite, 6 - p>> : p \in 0..6}

MCInit ==
  /\ mesh \in MCMeshes /\ points \in MCPoints
  /\ run = [r \in Runs |-> [pc |-> "new", next |-> 1, counts |-> NoCounts, logged |-> 0]]
  /\ file = [r \in Runs |-> Empty]
  /\ partial = [p \in Paths |-> NoFile]
  /\ output = [p \in Paths |-> NoFile]
  /\ served = NoFile

MCSpec == MCInit /\ [][Next]_vars

\* Several runs only over one mesh and one set of points.
FewShared ==
  \/ mesh = SharedMesh /\ points[1] = 1
  \/ \A r \in Runs \ Jobs : run[r].pc = "new"
=============================================================================
