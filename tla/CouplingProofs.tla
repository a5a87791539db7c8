--------------------------- MODULE CouplingProofs ---------------------------
(***************************************************************************)
(* Theorems about Coupling and the point location of Locate, for any set   *)
(* of cells, any grid, any number of nodes and any finite set of runs.     *)
(***************************************************************************)
EXTENDS Coupling, WellFoundedInduction, FiniteSetTheorems, TLAPS

USE CellsAssumption, GridAssumption, RunsAssumption, BatchAssumption

-----------------------------------------------------------------------------
(* Extremes of sets.                                                       *)

Less == {pair \in Nat \X Nat : pair[1] < pair[2]}

LEMMA LeastNatural ==
  ASSUME NEW S, S \subseteq Nat, S # {}
  PROVE  \E n \in S : \A x \in S : n <= x
<1>1. IsWellFoundedOn(Less, Nat)
  BY NatLessThanWellFounded, Zenon DEF OpToRel, Less
<1>2. PICK n \in S : \A x \in S : ~(<<x, n>> \in Less)
  BY <1>1, WFMin, Zenon
<1>3. \A x \in S : ~(x < n)
  BY <1>2 DEF Less
<1>4. QED
  BY <1>3

LEMMA MinIsLeast ==
  ASSUME NEW S, S \subseteq Nat, S # {}
  PROVE  Min(S) \in S /\ \A x \in S : Min(S) <= x
<1>1. PICK n \in S : \A x \in S : n <= x
  BY LeastNatural
<1>2. QED
  BY <1>1 DEF Min

LEMMA MaxIsGreatest ==
  ASSUME NEW S, NEW bound \in Nat, S \subseteq 0..bound, S # {}
  PROVE  Max(S) \in S /\ \A x \in S : x <= Max(S)
<1> DEFINE below == {bound - x : x \in S}
<1>1. \A x \in S : x \in Int /\ 0 <= x /\ x <= bound
  OBVIOUS
<1>2. \A x \in S : bound - x \in Nat
  BY <1>1
<1>3. below \subseteq Nat /\ below # {}
  BY <1>2
<1>4. PICK n \in below : \A x \in below : n <= x
  BY <1>3, LeastNatural
<1>5. PICK m \in S : n = bound - m
  BY <1>4
<1>6. ASSUME NEW x \in S PROVE m >= x
  <2>1. n <= bound - x
    BY <1>4
  <2>2. QED
    BY <2>1, <1>1, <1>5
<1>7. QED
  BY <1>1, <1>6 DEF Max

LEMMA MinOfTwo ==
  ASSUME NEW a \in Int, NEW b \in Int
  PROVE  Min({a, b}) = IF a <= b THEN a ELSE b
<1>1. CASE a <= b
  <2>1. \A x \in {a, b} : a <= x
    BY <1>1
  <2>2. \A y \in {a, b} : (\A x \in {a, b} : y <= x) => y = a
    BY <1>1
  <2>3. QED
    BY <1>1, <2>1, <2>2 DEF Min
<1>2. CASE ~(a <= b)
  <2>1. \A x \in {a, b} : b <= x
    BY <1>2
  <2>2. \A y \in {a, b} : (\A x \in {a, b} : y <= x) => y = b
    BY <1>2
  <2>3. QED
    BY <1>2, <2>1, <2>2 DEF Min
<1>3. QED
  BY <1>1, <1>2

LEMMA MaxOfTwo ==
  ASSUME NEW a \in Int, NEW b \in Int
  PROVE  Max({a, b}) = IF a >= b THEN a ELSE b
<1>1. CASE a >= b
  <2>1. \A x \in {a, b} : a >= x
    BY <1>1
  <2>2. \A y \in {a, b} : (\A x \in {a, b} : y >= x) => y = a
    BY <1>1
  <2>3. QED
    BY <1>1, <2>1, <2>2 DEF Max
<1>2. CASE ~(a >= b)
  <2>1. \A x \in {a, b} : b >= x
    BY <1>2
  <2>2. \A y \in {a, b} : (\A x \in {a, b} : y >= x) => y = b
    BY <1>2
  <2>3. QED
    BY <1>2, <2>1, <2>2 DEF Max
<1>3. QED
  BY <1>1, <1>2

-----------------------------------------------------------------------------
(* The grid.                                                               *)

\* Integer division by a positive number is monotonic.
LEMMA DivMonotonic ==
  ASSUME NEW x \in Int, NEW y \in Int, NEW d \in Nat \ {0}, x <= y
  PROVE  x \div d \in Int /\ x \div d <= y \div d
<1> DEFINE q == x \div d
           r == y \div d
<1>1. q \in Int /\ r \in Int
  OBVIOUS
<1>2. d * q <= x /\ x < d * (q + 1) /\ d * r <= y /\ y < d * (r + 1)
  OBVIOUS
<1>3. ASSUME r < q PROVE FALSE
  <2>1. r + 1 <= q
    BY <1>1, <1>3
  <2>2. d * (r + 1) <= d * q
    BY <1>1, <2>1
  <2>3. d * q \in Int /\ d * (r + 1) \in Int
    BY <1>1
  <2>4. QED
    BY <1>2, <2>2, <2>3
<1>4. QED
  BY <1>1, <1>3

LEMMA ClipMonotonic ==
  ASSUME NEW x \in Int, NEW y \in Int, NEW n \in Nat \ {0}, x <= y
  PROVE  Clip(x, n) \in Int /\ Clip(x, n) <= Clip(y, n)
<1>1. \A z \in Int : Clip(z, n) = IF z <= n - 1 THEN IF z <= 0 THEN 0 ELSE z ELSE n - 1
  <2> SUFFICES ASSUME NEW z \in Int
               PROVE  Clip(z, n) = IF z <= n - 1 THEN IF z <= 0 THEN 0 ELSE z ELSE n - 1
    OBVIOUS
  <2>1. Min({z, n - 1}) = IF z <= n - 1 THEN z ELSE n - 1
    BY MinOfTwo
  <2>2. Min({z, n - 1}) \in Int
    BY <2>1
  <2>3. Max({0, Min({z, n - 1})}) = IF 0 >= Min({z, n - 1}) THEN 0 ELSE Min({z, n - 1})
    BY <2>2, MaxOfTwo
  <2>4. QED
    BY <2>1, <2>3 DEF Clip
<1>2. QED
  BY <1>1

LEMMA GridBounds ==
  ASSUME NEW m \in Mesh
  PROVE  /\ GlobalMin(m) \in 0..Span /\ GlobalMax(m) \in 0..Span
         /\ Extent(m) \in Nat \ {0}
         /\ \A c \in Cells : GlobalMin(m) <= m.lo[c] /\ m.hi[c] <= GlobalMax(m)
<1> DEFINE los == {m.lo[c] : c \in Cells}
           his == {m.hi[c] : c \in Cells}
<1>1. m.lo \in [Cells -> 0..Span] /\ m.hi \in [Cells -> 0..Span]
  BY DEF Mesh
<1>2. los \subseteq 0..Span /\ his \subseteq 0..Span /\ los # {} /\ his # {}
  BY <1>1, ZenonT(60)
<1>3. Min(los) \in los /\ \A x \in los : Min(los) <= x
  <2>1. los \subseteq Nat
    BY <1>2
  <2>2. QED
    BY <2>1, <1>2, MinIsLeast
<1>4. Max(his) \in his /\ \A x \in his : x <= Max(his)
  BY <1>2, MaxIsGreatest
<1>5. GlobalMin(m) = Min(los) /\ GlobalMax(m) = Max(his)
  BY DEF GlobalMin, GlobalMax
<1>6. GlobalMin(m) \in 0..Span /\ GlobalMax(m) \in 0..Span
  BY <1>2, <1>3, <1>4, <1>5
<1>7. Extent(m) \in Nat \ {0}
  <2>1. GlobalMax(m) - GlobalMin(m) \in Int
    BY <1>6
  <2>2. QED
    BY <2>1, MaxOfTwo DEF Extent
<1>8. QED
  BY <1>3, <1>4, <1>5, <1>6, <1>7

\* Every bucket a point of a box can be in is one the box touches.
LEMMA BoxTouchesBucket ==
  ASSUME NEW m \in Mesh, NEW c \in Cells, NEW p \in 0..Span, InBox(m, c, p)
  PROVE  Bucket(m, p) \in Touched(m, c)
<1> DEFINE e == Extent(m)
           low == ((m.lo[c] - GlobalMin(m)) * TargetDim - 1)
           at == (p - GlobalMin(m)) * TargetDim
           high == (m.hi[c] - GlobalMin(m)) * TargetDim
<1>1. m.lo[c] \in 0..Span /\ m.hi[c] \in 0..Span
  BY DEF Mesh
<1>2. e \in Nat \ {0} /\ GlobalMin(m) \in 0..Span
  BY GridBounds
<1>3. m.lo[c] <= p /\ p <= m.hi[c]
  BY DEF InBox
<1>4. low \in Int /\ at \in Int /\ high \in Int
  BY <1>1, <1>2
<1>5. low <= at /\ at <= high
  <2>1. \A a, b \in Int : a <= b => a * TargetDim <= b * TargetDim
    OBVIOUS
  <2>2. (m.lo[c] - GlobalMin(m)) * TargetDim <= at
    BY <1>1, <1>2, <1>3, <2>1
  <2>3. at <= high
    BY <1>1, <1>2, <1>3, <2>1
  <2>4. (m.lo[c] - GlobalMin(m)) * TargetDim \in Int
    BY <1>1, <1>2
  <2>5. QED
    BY <2>2, <2>3, <2>4, <1>4
<1> HIDE DEF e, low, at, high
<1>6. low \div e <= at \div e /\ at \div e <= high \div e
      /\ low \div e \in Int /\ at \div e \in Int /\ high \div e \in Int
  <2>1. low \div e \in Int /\ low \div e <= at \div e
    BY <1>2, <1>4, <1>5, DivMonotonic
  <2>2. at \div e \in Int /\ at \div e <= high \div e
    BY <1>2, <1>4, <1>5, DivMonotonic
  <2>3. high \div e \in Int
    BY <1>2, <1>4
  <2>4. QED
    BY <2>1, <2>2, <2>3
<1>7. /\ Clip(low \div e, TargetDim) <= Clip(at \div e, TargetDim)
      /\ Clip(at \div e, TargetDim) <= Clip(high \div e, TargetDim)
      /\ Clip(low \div e, TargetDim) \in Int /\ Clip(at \div e, TargetDim) \in Int
      /\ Clip(high \div e, TargetDim) \in Int
  BY <1>6, ClipMonotonic
<1>8. QED
  BY <1>7 DEF Touched, Bucket, BucketBelow, e, low, at, high

\* The bucket index and the oversize list together hold every cell whose box has the point: the
\* candidates are those of a scan over all boxes (_candidate_cells, _bucket_candidate_ids).
THEOREM IndexFindsAll ==
  ASSUME NEW m \in Mesh, IndexReady(m), NEW p \in 0..Span
  PROVE  Candidates(m, p) = BoxScan(m, p)
<1> DEFINE near == {c \in BucketCandidates(m, p) : InBox(m, c, p)}
<1>1. near = BoxScan(m, p)
  BY BoxTouchesBucket DEF BucketCandidates, BoxScan
<1>2. CASE p < GlobalMin(m) \/ p > GlobalMax(m)
  <2>1. ASSUME NEW c \in Cells, InBox(m, c, p) PROVE FALSE
    <3>1. m.lo[c] \in 0..Span /\ m.hi[c] \in 0..Span
      BY DEF Mesh
    <3>2. QED
      BY <1>2, <2>1, <3>1, GridBounds DEF InBox
  <2>2. BoxScan(m, p) = {}
    BY <2>1 DEF BoxScan
  <2>3. QED
    BY <1>2, <2>2 DEF Candidates
<1>3. CASE ~(p < GlobalMin(m) \/ p > GlobalMax(m))
  BY <1>1, <1>3 DEF Candidates
<1>4. QED
  BY <1>2, <1>3

\* A node is mapped where the interpolation service would answer, and with the same cell.
Agree(row, answer) == IF row.status = PASS THEN row.cell = answer ELSE answer = NoCell

LEMMA MapAgrees ==
  ASSUME NEW m \in Mesh, IndexReady(m), NEW p \in 0..Span \cup {NotFinite}
  PROVE  Agree(MapNode(m, p), InterpolationCell(m, p))
<1>1. CASE p = NotFinite
  BY <1>1 DEF Agree, MapNode, InterpolationCell, PASS, INTERPOLATION_FAILED
<1>2. CASE p # NotFinite
  <2> DEFINE found == BoxScan(m, p)
             cell == Best(m, found, p)
  <2>1. Candidates(m, p) = found
    BY <1>2, IndexFindsAll
  <2>2. found = {} => cell = NoCell
    BY DEF Best
  <2>3. QED
    BY <1>2, <2>1, <2>2
    DEF Agree, MapNode, InterpolationCell, PASS, OUTSIDE_MESH, NO_CONTAINING_CELL, INTERPOLATION_FAILED
<1>3. QED
  BY <1>1, <1>2

-----------------------------------------------------------------------------
(* Types.                                                                  *)

LEMMA BestIsCell ==
  ASSUME NEW m \in Mesh, NEW p \in 0..Span, NEW found \in SUBSET Cells
  PROVE  Best(m, found, p) \in Cells \cup {NoCell}
<1> DEFINE held == {c \in found : Prepared(m, c) /\ Supports(m, c, p)}
           margins == {Margin(m, c, p) : c \in held}
           widest == {c \in held : \A d \in held : Margin(m, d, p) <= Margin(m, c, p)}
<1>1. \A c \in held : Margin(m, c, p) \in 0..Span
  <2> SUFFICES ASSUME NEW c \in held PROVE Margin(m, c, p) \in 0..Span
    OBVIOUS
  <2>1. m.lo[c] \in 0..Span /\ m.hi[c] \in 0..Span
    BY DEF Mesh
  <2>2. Far(m, c) \in Int
    BY <2>1 DEF Far
  <2>3. m.lo[c] <= p /\ p <= Far(m, c)
    BY DEF Supports
  <2>4. Margin(m, c, p) = IF p - m.lo[c] <= Far(m, c) - p THEN p - m.lo[c] ELSE Far(m, c) - p
    <3>1. p - m.lo[c] \in Int /\ Far(m, c) - p \in Int
      BY <2>1, <2>2
    <3>2. QED
      BY <3>1, MinOfTwo DEF Margin
  <2>5. QED
    BY <2>1, <2>2, <2>3, <2>4
<1>2. CASE held = {}
  BY <1>2 DEF Best
<1>3. CASE held # {}
  <2>1. margins \subseteq 0..Span /\ margins # {}
    BY <1>1, <1>3
  <2>2. Max(margins) \in margins /\ \A x \in margins : x <= Max(margins)
    BY <2>1, MaxIsGreatest
  <2>3. PICK c \in held : Margin(m, c, p) = Max(margins)
    BY <2>2
  <2>4. c \in widest
    BY <2>2, <2>3
  <2>5. widest \subseteq Nat /\ widest # {}
    BY <2>4
  <2>6. Min(widest) \in widest
    BY <2>5, MinIsLeast
  <2>7. Best(m, found, p) = Min(widest)
    BY <1>3 DEF Best
  <2>8. QED
    BY <2>6, <2>7
<1>4. QED
  BY <1>2, <1>3

LEMMA MappedType ==
  ASSUME TypeOK, NEW n \in Rows
  PROVE  Mapped(n) \in [status : Statuses, cell : Cells \cup {NoCell}]
<1> DEFINE p == points[n]
           found == Candidates(mesh, p)
           cell == Best(mesh, found, p)
<1>1. mesh \in Mesh /\ p \in 0..Span \cup {NotFinite}
  BY DEF TypeOK
<1>2. CASE p = NotFinite
  BY <1>2 DEF Mapped, MapNode, Statuses
<1>3. CASE p # NotFinite
  <2>1. found \in SUBSET Cells
    BY DEF Candidates, BucketCandidates, BoxScan
  <2>2. cell \in Cells \cup {NoCell}
    BY <1>1, <1>3, <2>1, BestIsCell
  <2>3. QED
    BY <1>3, <2>2 DEF Mapped, MapNode, Statuses
<1>4. QED
  BY <1>2, <1>3

LEMMA BatchBounds ==
  ASSUME TypeOK, NEW r \in Runs, run[r].next <= Nodes
  PROVE  BatchEnd(r) \in run[r].next..Nodes /\ Batch(r) \subseteq Rows
<1>1. run[r].next \in 1..Nodes
  BY DEF TypeOK
<1>2. BatchEnd(r) = IF run[r].next + BatchSize - 1 <= Nodes
                      THEN run[r].next + BatchSize - 1 ELSE Nodes
  BY <1>1, MinOfTwo DEF BatchEnd
<1>3. QED
  BY <1>1, <1>2 DEF Batch, Rows

LEMMA ShownBounds ==
  ASSUME NEW before \in 0..Nodes, NEW current \in 1..Nodes, before <= current
  PROVE  /\ Shown(before, current) \in 0..Nodes /\ Shown(before, current) <= current
         /\ current = Nodes => Shown(before, current) = Nodes
<1>1. Min({current, Nodes}) = current
  BY MinOfTwo
<1>2. QED
  BY <1>1 DEF Shown

-----------------------------------------------------------------------------
(* The inductive invariant.                                                *)

\* The nodes up to "last" with a status.
Tally(s, last) == Cardinality({n \in 1..last : Mapped(n).status = s})

RowWritten(r, n) ==
  LET row == file[r].rows[n] IN
  /\ row.status = Mapped(n).status /\ row.cell = Mapped(n).cell
  /\ row.value <=> row.status = PASS

BeforeWriter == {"new", "structure", "prepare", "align", "create"}

\* What a run has written and counted is what the nodes before its next one map to.
Progress(r) ==
  /\ run[r].pc \in BeforeWriter => run[r].next = 1
  /\ \A n \in 1..(run[r].next - 1) : RowWritten(r, n)
  /\ \A s \in Statuses : run[r].counts[s] = Tally(s, run[r].next - 1)
  /\ run[r].logged < run[r].next
  /\ run[r].pc \in {"values", "status"} => run[r].next <= Nodes
  /\ run[r].pc = "status" =>
       \A n \in Batch(r) : file[r].rows[n].value <=> Mapped(n).status = PASS
  /\ run[r].pc \in {"attrs", "replace", "report", "done"} =>
       run[r].next = Nodes + 1 /\ run[r].logged = Nodes
  /\ run[r].pc \in {"replace", "report", "done"} =>
       file[r].closed /\ file[r].summary = run[r].counts

\* The runs at work on a path are one, and .partial links to its file while it has a writer.
Exclusive ==
  /\ \A r, q \in Runs : Alive(r) /\ Alive(q) /\ PathOf(r) = PathOf(q) => r = q
  /\ \A r \in Runs : HasWriter(r) => partial[PathOf(r)] = r

\* A file that is shown was finished by its run, which does not touch it again.
Finished(f) ==
  /\ run[f].pc \in {"report", "done", "failed", "killed"}
  /\ run[f].next = Nodes + 1 /\ file[f].closed /\ file[f].summary = run[f].counts

Published == \A f \in {output[p] : p \in Paths} \cup {served} : f # NoFile => Finished(f)

IInv == /\ TypeOK
        /\ \A r \in Runs : Progress(r)
        /\ Exclusive
        /\ Published

Moves(r) == RunStep(r) \/ Abort(r) \/ Kill(r) \/ ServeResult(r)

\* A step of a run changes nothing of another one's.
LEMMA OnlyItsOwn ==
  ASSUME TypeOK, NEW r \in Runs, Moves(r)
  PROVE  /\ UNCHANGED <<mesh, points>>
         /\ \A q \in Runs \ {r} : run'[q] = run[q] /\ file'[q] = file[q]
  BY DEF TypeOK, Moves, RunStep, Start, LoadStructure, PrepareCfd, EstimateAlignment, CreateWriter,
         WriteValues, WriteStatus, FinishFile, Replace, Report, Abort, Kill, ServeResult, Goes

LEMMA MappedKept ==
  ASSUME UNCHANGED <<mesh, points>>
  PROVE  \A n : Mapped(n)' = Mapped(n)
  BY DEF Mapped

LEMMA TallyKept ==
  ASSUME UNCHANGED <<mesh, points>>
  PROVE  \A s, last : Tally(s, last)' = Tally(s, last)
  BY DEF Tally, Mapped

LEMMA TallyBound ==
  ASSUME NEW s, NEW last \in 0..Nodes
  PROVE  Tally(s, last) \in 0..Nodes
<1> DEFINE counted == {n \in 1..last : Mapped(n).status = s}
<1>1. IsFiniteSet(1..last) /\ Cardinality(1..last) = last
  BY FS_Interval
<1>2. counted \subseteq 1..last
  OBVIOUS
<1>3. IsFiniteSet(counted) /\ Cardinality(counted) <= last
  BY <1>1, <1>2, FS_Subset
<1>4. Cardinality(counted) \in Nat
  BY <1>3, FS_CardinalityType
<1>5. QED
  BY <1>3, <1>4 DEF Tally

\* Adding a batch to a tally.
LEMMA TallyAdds ==
  ASSUME NEW s, NEW from \in 1..Nodes, NEW to \in from..Nodes
  PROVE  Tally(s, to) =
           Tally(s, from - 1) + Cardinality({n \in from..to : Mapped(n).status = s})
<1> DEFINE low == {n \in 1..(from - 1) : Mapped(n).status = s}
           high == {n \in from..to : Mapped(n).status = s}
<1>1. IsFiniteSet(1..(from - 1)) /\ IsFiniteSet(from..to)
  BY FS_Interval
<1>2. IsFiniteSet(low) /\ IsFiniteSet(high)
  BY <1>1, FS_Subset
<1>3. low \cap high = {}
  OBVIOUS
<1>4. Cardinality(low \cup high) = Cardinality(low) + Cardinality(high) - Cardinality(low \cap high)
  BY <1>2, FS_Union
<1>5. Cardinality(low \cap high) = 0
  BY <1>3, FS_EmptySet
<1>6. low \cup high = {n \in 1..to : Mapped(n).status = s}
  OBVIOUS
<1>7. Cardinality(low) \in Nat /\ Cardinality(high) \in Nat
  BY <1>2, FS_CardinalityType
<1>8. Tally(s, to) = Cardinality(low \cup high)
  BY <1>6, Zenon DEF Tally
<1>9. Tally(s, from - 1) = Cardinality(low)
  BY Zenon DEF Tally
<1> HIDE DEF low
<1>10. Tally(s, to) = Tally(s, from - 1) + Cardinality(high)
  <2> HIDE DEF high
  <2>1. QED
    BY <1>4, <1>5, <1>7, <1>8, <1>9
<1>11. QED
  BY <1>10, Zenon

LEMMA CountedIsTally ==
  ASSUME TypeOK, NEW r \in Runs, Progress(r), run[r].next <= Nodes
  PROVE  \A s \in Statuses : Counted(r, s) = Tally(s, BatchEnd(r)) /\ Counted(r, s) \in 0..Nodes
<1> SUFFICES ASSUME NEW s \in Statuses
             PROVE  Counted(r, s) = Tally(s, BatchEnd(r)) /\ Counted(r, s) \in 0..Nodes
  OBVIOUS
<1>1. run[r].next \in 1..Nodes /\ BatchEnd(r) \in run[r].next..Nodes
  BY BatchBounds DEF TypeOK
<1>2. run[r].counts[s] = Tally(s, run[r].next - 1)
  BY DEF Progress
<1>3. Tally(s, BatchEnd(r)) =
        Tally(s, run[r].next - 1)
          + Cardinality({n \in run[r].next..BatchEnd(r) : Mapped(n).status = s})
  BY <1>1, TallyAdds
<1>4. Counted(r, s) = Tally(s, BatchEnd(r))
  BY <1>2, <1>3 DEF Counted, Batch
<1>5. Tally(s, BatchEnd(r)) \in 0..Nodes
  BY <1>1, TallyBound
<1>6. QED
  BY <1>4, <1>5

LEMMA InitHolds == Init => IInv
<1> SUFFICES ASSUME Init PROVE IInv
  OBVIOUS
<1> USE DEF Init, Empty, FillValue, NoCounts
<1>1. TypeOK
  BY DEF TypeOK, Row, Statuses, Phases, Rows
<1>2. ASSUME NEW r \in Runs PROVE Progress(r)
  <2>1. \A s : Tally(s, 0) = 0
    <3> SUFFICES ASSUME NEW s PROVE Tally(s, 0) = 0
      OBVIOUS
    <3>1. {n \in 1..0 : Mapped(n).status = s} = {}
      OBVIOUS
    <3>2. QED
      BY <3>1, FS_EmptySet DEF Tally
  <2>2. run[r].next - 1 = 0 /\ 1..0 = {}
    OBVIOUS
  <2>3. QED
    BY <2>1, <2>2 DEF Progress
<1>3. Exclusive
  BY DEF Exclusive, Alive, HasWriter
<1>4. Published
  BY DEF Published
<1>5. QED
  BY <1>1, <1>2, <1>3, <1>4 DEF IInv

Entry == [pc : Phases, next : 1..(Nodes + 1), counts : [Statuses -> 0..Nodes], logged : 0..Nodes]
Contents == [rows : [Rows -> Row], summary : [Statuses -> 0..Nodes], closed : BOOLEAN]

LEMMA TypeParts ==
  TypeOK <=> /\ mesh \in Mesh /\ points \in [Rows -> 0..Span \cup {NotFinite}]
             /\ run \in [Runs -> Entry] /\ file \in [Runs -> Contents]
             /\ partial \in [Paths -> Runs \cup {NoFile}]
             /\ output \in [Paths -> Runs \cup {NoFile}]
             /\ served \in Runs \cup {NoFile}
  BY DEF TypeOK, Entry, Contents

LEMMA MovedType ==
  ASSUME run \in [Runs -> Entry], NEW r \in Runs, NEW to \in Phases
  PROVE  [run EXCEPT ![r].pc = to] \in [Runs -> Entry]
<1>1. run[r] \in Entry
  OBVIOUS
<1>2. [run[r] EXCEPT !.pc = to] \in Entry
  BY <1>1 DEF Entry
<1>3. [run EXCEPT ![r].pc = to] = [run EXCEPT ![r] = [run[r] EXCEPT !.pc = to]]
  OBVIOUS
<1>4. QED
  BY <1>2, <1>3

LEMMA ClosedType ==
  ASSUME file \in [Runs -> Contents], NEW r \in Runs
  PROVE  [file EXCEPT ![r].closed = TRUE] \in [Runs -> Contents]
<1>1. [file[r] EXCEPT !.closed = TRUE] \in Contents
  <2>1. file[r] \in Contents
    OBVIOUS
  <2>2. QED
    BY <2>1 DEF Contents
<1>2. [file EXCEPT ![r].closed = TRUE] = [file EXCEPT ![r] = [file[r] EXCEPT !.closed = TRUE]]
  OBVIOUS
<1>3. QED
  BY <1>1, <1>2

\* Every step keeps the types.
LEMMA TypeStep ==
  ASSUME TypeOK, NEW r \in Runs, Progress(r), Moves(r)
  PROVE  TypeOK'
<1>1. run[r].next \in 1..(Nodes + 1) /\ run[r].logged \in 0..Nodes
  BY DEF TypeOK
<1> DEFINE Rest == /\ mesh \in Mesh /\ points \in [Rows -> 0..Span \cup {NotFinite}]
                   /\ partial \in [Paths -> Runs \cup {NoFile}]
                   /\ output \in [Paths -> Runs \cup {NoFile}]
                   /\ served \in Runs \cup {NoFile}
<1>2. Rest' /\ PathOf(r) \in Paths
  <2>1. PathOf(r) \in Paths
    BY DEF PathOf, Paths
  <2>2. Rest
    BY TypeParts
  <2>3. QED
    BY <2>1, <2>2
    DEF Moves, RunStep, Start, LoadStructure, PrepareCfd, EstimateAlignment, CreateWriter, Goes,
        WriteValues, WriteStatus, FinishFile, Replace, Report, Abort, Kill, ServeResult
<1>3. run \in [Runs -> Entry] /\ file \in [Runs -> Contents]
  BY TypeParts
<1>4. run[r] \in Entry /\ file[r] \in Contents
  BY <1>3
<1>5. ASSUME UNCHANGED file, NEW to \in Phases, run' = [run EXCEPT ![r].pc = to]
      PROVE  run' \in [Runs -> Entry] /\ file' \in [Runs -> Contents]
  BY <1>3, <1>5, MovedType
<1> DEFINE Both == run \in [Runs -> Entry] /\ file \in [Runs -> Contents]
<1> SUFFICES Both'
  BY <1>2 DEF TypeOK, Entry, Contents
<1> USE DEF Phases
<1>6. CASE Start(r) \/ LoadStructure(r) \/ PrepareCfd(r) \/ EstimateAlignment(r)
           \/ Replace(r) \/ Report(r) \/ Kill(r)
  <2>1. UNCHANGED file /\ \E to \in Phases : run' = [run EXCEPT ![r].pc = to]
    BY <1>6 DEF Start, LoadStructure, PrepareCfd, EstimateAlignment, Replace, Report, Kill, Goes
  <2>2. QED
    BY <2>1, <1>5
<1>7. CASE CreateWriter(r)
  <2>1. Empty \in Contents
    BY DEF Contents, Empty, FillValue, NoCounts, Row, Statuses
  <2>2. file' = [file EXCEPT ![r] = Empty] /\ run' = [run EXCEPT ![r].pc = "values"]
    BY <1>7 DEF CreateWriter
  <2>3. QED
    BY <1>3, <2>1, <2>2, MovedType
<1>8. CASE WriteValues(r)
  <2> DEFINE rows == [n \in Rows |->
        IF n \in Batch(r) THEN [file[r].rows[n] EXCEPT !.value = Mapped(n).status = PASS]
                          ELSE file[r].rows[n]]
  <2>1. rows \in [Rows -> Row]
    BY <1>4 DEF Contents, Row
  <2>2. file' = [file EXCEPT ![r].rows = rows] /\ run' = [run EXCEPT ![r].pc = "status"]
    BY <1>8 DEF WriteValues
  <2> HIDE DEF rows
  <2>3. [file[r] EXCEPT !.rows = rows] \in Contents
    BY <1>4, <2>1 DEF Contents
  <2>4. file' = [file EXCEPT ![r] = [file[r] EXCEPT !.rows = rows]]
    BY <2>2
  <2>5. file' \in [Runs -> Contents]
    BY <1>3, <2>3, <2>4
  <2>6. run' \in [Runs -> Entry]
    BY <1>3, <2>2, MovedType
  <2>7. QED
    BY <2>5, <2>6
<1>9. CASE WriteStatus(r)
  <2> DEFINE rows == [n \in Rows |->
        IF n \in Batch(r) THEN [value |-> file[r].rows[n].value, status |-> Mapped(n).status,
                                cell |-> Mapped(n).cell]
                          ELSE file[r].rows[n]]
             entry == [pc |-> IF BatchEnd(r) = Nodes THEN "attrs" ELSE "values",
                       next |-> BatchEnd(r) + 1, counts |-> [s \in Statuses |-> Counted(r, s)],
                       logged |-> Shown(run[r].logged, BatchEnd(r))]
  <2>1. rows \in [Rows -> Row]
    BY <1>4, MappedType DEF Contents, Row
  <2>2. run[r].next <= Nodes /\ run[r].logged < run[r].next
    BY <1>9 DEF WriteStatus, Progress
  <2>3. BatchEnd(r) \in run[r].next..Nodes
    BY <2>2, BatchBounds
  <2>4. Shown(run[r].logged, BatchEnd(r)) \in 0..Nodes
    BY <1>1, <2>2, <2>3, ShownBounds
  <2>5. \A s \in Statuses : Counted(r, s) \in 0..Nodes
    BY <2>2, CountedIsTally
  <2>6. entry \in Entry
    <3>1. BatchEnd(r) + 1 \in 1..(Nodes + 1)
      BY <1>1, <2>3
    <3>2. [s \in Statuses |-> Counted(r, s)] \in [Statuses -> 0..Nodes]
      BY <2>5
    <3>3. QED
      BY <2>4, <3>1, <3>2 DEF Entry
  <2>7. file' = [file EXCEPT ![r].rows = rows] /\ run' = [run EXCEPT ![r] = entry]
    BY <1>9 DEF WriteStatus
  <2> HIDE DEF rows, entry
  <2>8. [file[r] EXCEPT !.rows = rows] \in Contents
    BY <1>4, <2>1 DEF Contents
  <2>9. file' = [file EXCEPT ![r] = [file[r] EXCEPT !.rows = rows]]
    BY <2>7
  <2>10. QED
    BY <1>3, <2>6, <2>7, <2>8, <2>9
<1>10. CASE FinishFile(r)
  <2> DEFINE f == [file[r] EXCEPT !.summary = run[r].counts, !.closed = TRUE]
  <2>1. f \in Contents
    BY <1>4 DEF Contents, Entry
  <2>2. file' = [file EXCEPT ![r] = f] /\ run' = [run EXCEPT ![r].pc = "replace"]
    BY <1>3, <1>10 DEF FinishFile
  <2> HIDE DEF f
  <2>3. QED
    BY <1>3, <2>1, <2>2, MovedType
<1>11. CASE Abort(r)
  BY <1>3, <1>11, MovedType, ClosedType DEF Abort
<1>12. CASE ServeResult(r)
  BY <1>3, <1>12 DEF ServeResult
<1>13. QED
  BY <1>6, <1>7, <1>8, <1>9, <1>10, <1>11, <1>12 DEF Moves, RunStep

\* Every step of a run keeps what its file, its counts and its log say of it.
LEMMA ProgressStep ==
  ASSUME TypeOK, TypeOK', NEW r \in Runs, Progress(r), Moves(r)
  PROVE  Progress(r)'
<1>1. UNCHANGED <<mesh, points>>
  BY OnlyItsOwn
<1>2. (\A n : Mapped(n)' = Mapped(n)) /\ \A s, last : Tally(s, last)' = Tally(s, last)
  BY <1>1, MappedKept, TallyKept
<1>3. /\ run[r].next \in 1..(Nodes + 1) /\ run[r].logged \in 0..Nodes /\ run[r].pc \in Phases
      /\ run' \in [Runs -> Entry] /\ file' \in [Runs -> Contents]
      /\ run \in [Runs -> Entry] /\ file \in [Runs -> Contents]
  BY DEF TypeOK, Entry, Contents
\* A step that only moves pc, and perhaps closes the file.
<1>4. ASSUME NEW to \in Phases, run'[r] = [run[r] EXCEPT !.pc = to],
             file'[r] = file[r] \/ file'[r] = [file[r] EXCEPT !.closed = TRUE],
             to \in BeforeWriter => run[r].pc \in BeforeWriter,
             to \notin {"values", "status", "attrs", "replace"},
             to \in {"report", "done"} => run[r].pc \in {"replace", "report"}
      PROVE  Progress(r)'
  <2>1. /\ run'[r].pc = to /\ run'[r].next = run[r].next
        /\ run'[r].counts = run[r].counts /\ run'[r].logged = run[r].logged
    BY <1>3, <1>4 DEF Entry
  <2>2. /\ file'[r].rows = file[r].rows /\ file'[r].summary = file[r].summary
        /\ file[r].closed => file'[r].closed
    BY <1>3, <1>4 DEF Contents
  <2>3. \A n \in 1..(run[r].next - 1) : RowWritten(r, n)'
    BY <1>2, <2>2 DEF Progress, RowWritten
  <2>4. QED
    BY <1>2, <1>3, <1>4, <2>1, <2>2, <2>3 DEF Progress
<1>5. CASE Start(r) \/ LoadStructure(r) \/ PrepareCfd(r) \/ EstimateAlignment(r)
           \/ Replace(r) \/ Report(r) \/ Kill(r) \/ Abort(r)
  <2>1. \E to \in Phases :
          /\ run'[r] = [run[r] EXCEPT !.pc = to]
          /\ file'[r] = file[r] \/ file'[r] = [file[r] EXCEPT !.closed = TRUE]
          /\ to \in BeforeWriter => run[r].pc \in BeforeWriter
          /\ to \notin {"values", "status", "attrs", "replace"}
          /\ to \in {"report", "done"} => run[r].pc \in {"replace", "report"}
    BY <1>3, <1>5 DEF Start, LoadStructure, PrepareCfd, EstimateAlignment, Replace, Report, Kill,
                      Abort, Goes, Phases, BeforeWriter
  <2>2. QED
    BY <2>1, <1>4
<1>6. CASE CreateWriter(r)
  <2>1. run'[r].pc = "values" /\ run'[r].next = 1 /\ run'[r].counts = run[r].counts
        /\ run'[r].logged = run[r].logged /\ run[r].next = 1
    BY <1>3, <1>6 DEF CreateWriter, Progress, BeforeWriter, Entry
  <2>2. QED
    BY <1>2, <1>3, <2>1 DEF Progress, BeforeWriter
<1>7. CASE WriteValues(r)
  <2>1. /\ run[r].pc = "values" /\ run'[r].pc = "status" /\ run'[r].next = run[r].next
        /\ run'[r].counts = run[r].counts /\ run'[r].logged = run[r].logged
    BY <1>3, <1>7 DEF WriteValues, Entry
  <2>2. run[r].next <= Nodes
    BY <2>1 DEF Progress
  <2>3. Batch(r)' = Batch(r) /\ Batch(r) \subseteq Rows
    BY <2>1, <2>2, BatchBounds DEF Batch, BatchEnd
  <2>4. \A n \in Rows : file'[r].rows[n] =
          IF n \in Batch(r) THEN [file[r].rows[n] EXCEPT !.value = Mapped(n).status = PASS]
                            ELSE file[r].rows[n]
    BY <1>3, <1>7 DEF WriteValues, Contents
  <2>5. \A n \in 1..(run[r].next - 1) : n \in Rows /\ n \notin Batch(r)
    BY <1>3 DEF Batch, Rows
  <2>6. \A n \in 1..(run[r].next - 1) : RowWritten(r, n)'
    BY <1>2, <2>4, <2>5 DEF Progress, RowWritten
  <2>7. \A n \in Batch(r) : file'[r].rows[n].value = (Mapped(n).status = PASS)
    <3> SUFFICES ASSUME NEW n \in Batch(r)
                 PROVE  file'[r].rows[n].value = (Mapped(n).status = PASS)
      OBVIOUS
    <3>1. n \in Rows /\ file[r].rows[n] \in Row
      BY <1>3, <2>3 DEF Contents
    <3>2. file'[r].rows[n] = [file[r].rows[n] EXCEPT !.value = Mapped(n).status = PASS]
      BY <2>4, <3>1
    <3>3. QED
      BY <3>1, <3>2 DEF Row
  <2>8. QED
    BY <1>2, <2>1, <2>2, <2>3, <2>6, <2>7, ZenonT(60) DEF Progress, BeforeWriter
<1>8. CASE WriteStatus(r)
  <2>1. run[r].pc = "status" /\ run[r].next <= Nodes
    BY <1>8 DEF WriteStatus, Progress
  <2>2. BatchEnd(r) \in run[r].next..Nodes /\ Batch(r) \subseteq Rows
    BY <2>1, BatchBounds
  <2>3. run'[r] =
          [pc |-> IF BatchEnd(r) = Nodes THEN "attrs" ELSE "values", next |-> BatchEnd(r) + 1,
           counts |-> [s \in Statuses |-> Counted(r, s)],
           logged |-> Shown(run[r].logged, BatchEnd(r))]
    BY <1>3, <1>8 DEF WriteStatus
  <2>4. /\ run'[r].next = BatchEnd(r) + 1
        /\ run'[r].pc = IF BatchEnd(r) = Nodes THEN "attrs" ELSE "values"
        /\ run'[r].counts = [s \in Statuses |-> Counted(r, s)]
        /\ run'[r].logged = Shown(run[r].logged, BatchEnd(r))
    BY <2>3
  <2>5. \A s \in Statuses : run'[r].counts[s] = Tally(s, BatchEnd(r))
    BY <2>1, <2>4, CountedIsTally
  <2>6. run[r].logged < run[r].next
    BY DEF Progress
  <2>7. /\ run'[r].logged <= BatchEnd(r) /\ run'[r].logged \in 0..Nodes
        /\ BatchEnd(r) = Nodes => run'[r].logged = Nodes
    BY <1>3, <2>2, <2>4, <2>6, ShownBounds
  <2>8. ASSUME NEW n \in 1..BatchEnd(r) PROVE RowWritten(r, n)'
    <3>1. n \in Rows
      BY <1>3, <2>2 DEF Rows
    <3>2. file'[r].rows[n] =
            IF n \in Batch(r) THEN [value |-> file[r].rows[n].value, status |-> Mapped(n).status,
                                    cell |-> Mapped(n).cell]
                              ELSE file[r].rows[n]
      BY <1>3, <1>8, <3>1 DEF WriteStatus, Contents
    <3>3. CASE n \in Batch(r)
      <4>1. file[r].rows[n].value <=> Mapped(n).status = PASS
        BY <2>1, <3>3 DEF Progress
      <4>2. QED
        BY <1>2, <3>2, <3>3, <4>1 DEF RowWritten
    <3>4. CASE n \notin Batch(r)
      <4>1. n \in 1..(run[r].next - 1)
        BY <1>3, <2>2, <3>4 DEF Batch
      <4>2. QED
        BY <1>2, <3>2, <3>4, <4>1 DEF Progress, RowWritten
    <3>5. QED
      BY <3>3, <3>4
  <2>9. run'[r].next - 1 = BatchEnd(r)
    BY <2>2, <2>4
  <2>10. run'[r].pc \in {"attrs", "values"}
    BY <2>4
  <2>11. run'[r].logged < run'[r].next
    BY <1>3, <2>2, <2>4, <2>7
  <2>12. run'[r].pc = "values" => run'[r].next <= Nodes
    BY <1>3, <2>2, <2>4
  <2>13. run'[r].pc = "attrs" => run'[r].next = Nodes + 1 /\ run'[r].logged = Nodes
    BY <2>4, <2>7
  <2>14. QED
    BY <1>2, <2>5, <2>8, <2>9, <2>10, <2>11, <2>12, <2>13 DEF Progress, BeforeWriter
<1>9. CASE FinishFile(r)
  <2>1. /\ run[r].pc = "attrs" /\ run'[r].pc = "replace" /\ run'[r].next = run[r].next
        /\ run'[r].counts = run[r].counts /\ run'[r].logged = run[r].logged
    BY <1>3, <1>9 DEF FinishFile, Entry
  <2>2. file'[r].rows = file[r].rows /\ file'[r].summary = run[r].counts /\ file'[r].closed
    BY <1>3, <1>9 DEF FinishFile, Contents
  <2>3. \A n \in 1..(run[r].next - 1) : RowWritten(r, n)'
    BY <1>2, <2>2 DEF Progress, RowWritten
  <2>4. QED
    BY <1>2, <2>1, <2>2, <2>3 DEF Progress, BeforeWriter
<1>10. CASE ServeResult(r)
  <2>1. UNCHANGED <<run, file>>
    BY <1>10 DEF ServeResult
  <2>2. QED
    BY <1>2, <2>1 DEF Progress, RowWritten, Batch, BatchEnd
<1>11. QED
  BY <1>5, <1>6, <1>7, <1>8, <1>9, <1>10 DEF Moves, RunStep

\* Where no two runs share a path, a run that has a writer has its path's .partial.
LEMMA ExclusiveStep ==
  ASSUME TypeOK, ~Overlap, Exclusive, NEW r \in Runs, Moves(r)
  PROVE  Exclusive'
<1>1. \A q \in Runs \ {r} : run'[q] = run[q]
  BY OnlyItsOwn
<1>2. \A q \in Runs : PathOf(q) \in Paths
  BY DEF PathOf, Paths
<1>3. run' = [run EXCEPT ![r] = run'[r]] /\ r \in DOMAIN run /\ run[r].pc \in Phases
      /\ partial \in [Paths -> Runs \cup {NoFile}]
  BY <1>1 DEF TypeOK, Moves, RunStep, Start, LoadStructure, PrepareCfd, EstimateAlignment, Goes,
              CreateWriter, WriteValues, WriteStatus, FinishFile, Replace, Report, Abort, Kill,
              ServeResult
<1>4. \A q \in Runs \ {r} : (Alive(q)' <=> Alive(q)) /\ (HasWriter(q)' <=> HasWriter(q))
  BY <1>1 DEF Alive, HasWriter
<1>5. \A q \in Runs : HasWriter(q) => Alive(q)
  BY DEF HasWriter, Alive
<1>6. ASSUME Alive(r)
      PROVE  \A q \in Runs \ {r} : Alive(q) => PathOf(q) # PathOf(r)
  BY <1>6 DEF Exclusive
<1>7. CASE Start(r)
  <2>1. \A q \in Runs \ {r} : Alive(q) => PathOf(q) # PathOf(r)
    BY <1>7 DEF Start
  <2>2. ~HasWriter(r)' /\ partial' = partial
    BY <1>3, <1>7 DEF Start, Goes, HasWriter, TypeOK
  <2>3. QED
    BY <1>4, <2>1, <2>2 DEF Exclusive
<1>8. CASE ~Start(r) /\ ~ServeResult(r)
  <2>1. Alive(r)
    BY <1>8 DEF Moves, RunStep, LoadStructure, PrepareCfd, EstimateAlignment, Goes, Alive,
                CreateWriter, WriteValues, WriteStatus, FinishFile, Replace, Report, Abort, Kill
  <2>2. \A q \in Runs \ {r} : Alive(q) => PathOf(q) # PathOf(r)
    BY <1>6, <2>1
  <2>3. \A p \in Paths \ {PathOf(r)} : partial'[p] = partial[p]
    BY <1>2, <1>3, <1>8
    DEF Moves, RunStep, LoadStructure, PrepareCfd, EstimateAlignment, Goes,
        CreateWriter, WriteValues, WriteStatus, FinishFile, Replace, Report, Abort, Kill
  <2>4. HasWriter(r)' => partial'[PathOf(r)] = r
    <3>1. CASE CreateWriter(r)
      BY <1>2, <1>3, <3>1 DEF CreateWriter
    <3>2. CASE ~CreateWriter(r) /\ HasWriter(r)'
      <4>1. HasWriter(r) /\ partial' = partial
        BY <1>3, <1>8, <3>2
        DEF Moves, RunStep, LoadStructure, PrepareCfd, EstimateAlignment, Goes, HasWriter, TypeOK,
            WriteValues, WriteStatus, FinishFile, Replace, Report, Abort, Kill
      <4>2. QED
        BY <4>1 DEF Exclusive
    <3>3. QED
      BY <3>1, <3>2
  <2>5. \A p, q \in Runs : Alive(p)' /\ Alive(q)' /\ PathOf(p) = PathOf(q) => p = q
    BY <1>4, <2>1, <2>2 DEF Exclusive
  <2>6. \A q \in Runs \ {r} : HasWriter(q)' => partial'[PathOf(q)] = q
    BY <1>2, <1>4, <1>5, <2>2, <2>3 DEF Exclusive
  <2>7. QED
    BY <2>4, <2>5, <2>6 DEF Exclusive
<1>9. CASE ServeResult(r)
  BY <1>9 DEF ServeResult, Exclusive, Alive, HasWriter
<1>10. QED
  BY <1>7, <1>8, <1>9

\* A finished file stays as it is, and only finished files are shown.
LEMMA PublishedStep ==
  ASSUME TypeOK, Exclusive, Published, NEW r \in Runs, Progress(r), Moves(r)
  PROVE  Published'
<1>1. \A q \in Runs \ {r} : run'[q] = run[q] /\ file'[q] = file[q]
  BY OnlyItsOwn
<1>2. PathOf(r) \in Paths /\ output \in [Paths -> Runs \cup {NoFile}] /\ served \in Runs \cup {NoFile}
  BY DEF PathOf, Paths, TypeOK
<1>3. run \in [Runs -> Entry] /\ file \in [Runs -> Contents]
  BY TypeParts
<1>4. ASSUME NEW f \in Runs, Finished(f) PROVE Finished(f)'
  <2>1. CASE f # r
    BY <1>1, <1>4, <2>1 DEF Finished
  <2>2. CASE f = r
    <3>1. run[r].pc \in {"report", "done", "failed", "killed"}
      BY <1>4, <2>2 DEF Finished
    <3>2. Report(r) \/ Abort(r) \/ Kill(r) \/ ServeResult(r)
      BY <3>1 DEF Moves, RunStep, Start, LoadStructure, PrepareCfd, EstimateAlignment, Goes,
                  CreateWriter, WriteValues, WriteStatus, FinishFile, Replace
    <3>3. file' = file /\ run'[r].next = run[r].next /\ run'[r].counts = run[r].counts
          /\ run'[r].pc \in {"report", "done", "failed", "killed"}
      BY <1>3, <3>1, <3>2 DEF Report, Abort, Kill, ServeResult, Goes, Alive, HasWriter, Entry
    <3>4. QED
      BY <1>4, <2>2, <3>3 DEF Finished
  <2>3. QED
    BY <2>1, <2>2
<1>5. CASE Replace(r)
  <2>1. partial[PathOf(r)] = r
    BY <1>5 DEF Exclusive, Replace, HasWriter
  <2>2. output' = [output EXCEPT ![PathOf(r)] = r] /\ served' = served
    BY <1>5, <2>1 DEF Replace
  <2>3. Finished(r)'
    BY <1>3, <1>5 DEF Replace, Progress, Finished, Entry
  <2>4. QED
    BY <1>2, <1>4, <2>2, <2>3 DEF Published
<1>6. CASE ~Replace(r)
  <2>1. output' = output
    BY <1>6 DEF Moves, RunStep, Start, LoadStructure, PrepareCfd, EstimateAlignment, Goes,
                CreateWriter, WriteValues, WriteStatus, FinishFile, Report, Abort, Kill, ServeResult
  <2>2. served' \in {served} \cup {output[p] : p \in Paths}
    BY <1>2, <1>6 DEF Moves, RunStep, Start, LoadStructure, PrepareCfd, EstimateAlignment, Goes,
                CreateWriter, WriteValues, WriteStatus, FinishFile, Report, Abort, Kill, ServeResult
  <2>3. QED
    BY <1>2, <1>4, <2>1, <2>2 DEF Published
<1>7. QED
  BY <1>5, <1>6

-----------------------------------------------------------------------------
(* The theorems.                                                           *)

Honest == TypeOK /\ \A r \in Runs : Progress(r)

LEMMA ProgressKept ==
  ASSUME NEW q \in Runs, Progress(q), UNCHANGED <<mesh, points>>,
         run'[q] = run[q], file'[q] = file[q]
  PROVE  Progress(q)'
<1>1. (\A n : Mapped(n)' = Mapped(n)) /\ \A s, last : Tally(s, last)' = Tally(s, last)
  BY MappedKept, TallyKept
<1>2. Batch(q)' = Batch(q)
  BY DEF Batch, BatchEnd
<1>3. \A n : RowWritten(q, n)' <=> RowWritten(q, n)
  BY <1>1 DEF RowWritten
<1>4. QED
  BY <1>1, <1>2, <1>3 DEF Progress

LEMMA HonestStep == Honest /\ [Next]_vars => Honest'
<1> SUFFICES ASSUME Honest, [Next]_vars PROVE Honest'
  OBVIOUS
<1>1. CASE UNCHANGED vars
  <2>1. TypeOK'
    BY <1>1 DEF Honest, vars, TypeOK
  <2>2. \A q \in Runs : Progress(q)'
    BY <1>1, ProgressKept DEF Honest, vars
  <2>3. QED
    BY <2>1, <2>2 DEF Honest
<1>2. ASSUME NEW r \in Runs, Moves(r) PROVE Honest'
  <2>1. TypeOK'
    BY <1>2, TypeStep DEF Honest
  <2>2. Progress(r)'
    BY <1>2, <2>1, ProgressStep DEF Honest
  <2>3. \A q \in Runs \ {r} : Progress(q)'
    BY <1>2, OnlyItsOwn, ProgressKept DEF Honest
  <2>4. QED
    BY <2>1, <2>2, <2>3 DEF Honest
<1>3. QED
  BY <1>1, <1>2 DEF Next, Moves

LEMMA AlwaysHonest == Spec => []Honest
<1>1. Init => Honest
  BY InitHolds DEF IInv, Honest
<1>2. QED
  BY <1>1, HonestStep, PTL DEF Spec

\* The variables of the coupling keep their types, however many runs share a path.
THEOREM TypeCorrect == Spec => []TypeOK
<1>1. Honest => TypeOK
  BY DEF Honest
<1>2. QED
  BY <1>1, AlwaysHonest, PTL

\* The progress log of a run never shows a node its file does not have, and the log of a run that
\* ends says so: for any number of nodes and any batch size, however many runs share a path.
THEOREM LogIsHonest == Spec => []ProgressIsHonest
<1>1. Honest => ProgressIsHonest
  BY DEF Honest, Progress, ProgressIsHonest
<1>2. QED
  BY <1>1, AlwaysHonest, PTL

LEMMA InductiveStep == ~Overlap /\ IInv /\ [Next]_vars => IInv'
<1> SUFFICES ASSUME ~Overlap, IInv, [Next]_vars PROVE IInv'
  OBVIOUS
<1>1. Honest'
  BY HonestStep DEF IInv, Honest
<1>2. CASE UNCHANGED vars
  BY <1>1, <1>2 DEF IInv, Honest, vars, Exclusive, Alive, HasWriter, Published, Finished
<1>3. ASSUME NEW r \in Runs, Moves(r) PROVE IInv'
  BY <1>1, <1>3, ExclusiveStep, PublishedStep DEF IInv, Honest
<1>4. QED
  BY <1>2, <1>3 DEF Next, Moves

LEMMA AlwaysInductive == ASSUME ~Overlap PROVE Spec => []IInv
<1>1. Init => IInv
  BY InitHolds
<1>2. IInv /\ [Next]_vars => IInv'
  BY InductiveStep
<1>3. QED
  BY <1>1, <1>2, PTL DEF Spec

\* What a finished file holds.
LEMMA FinishedIsWhole ==
  ASSUME IInv, NEW f \in Runs, Finished(f)
  PROVE  Whole(f) /\ \A n \in Rows : RowWritten(f, n)
<1>1. Progress(f)
  BY DEF IInv
<1>2. run[f].next - 1 = Nodes
  BY DEF Finished
<1>3. \A n \in Rows : RowWritten(f, n)
  BY <1>1, <1>2 DEF Progress, Rows
<1>4. ASSUME NEW s \in Statuses PROVE file[f].summary[s] = Cardinality(HasStatus(f, s))
  <2>1. file[f].summary[s] = Tally(s, Nodes)
    BY <1>1, <1>2 DEF Progress, Finished
  <2>2. HasStatus(f, s) = {n \in 1..Nodes : Mapped(n).status = s}
    BY <1>3 DEF HasStatus, RowWritten, Rows
  <2>3. QED
    BY <2>1, <2>2, Zenon DEF Tally
<1>5. QED
  BY <1>3, <1>4 DEF Whole, Finished, RowWritten

\* Where no two runs share a path, what a path shows and what the API answers with is whole.
THEOREM ShownIsWhole == ASSUME ~Overlap PROVE Spec => []OutputIsWhole
<1>1. IInv => OutputIsWhole
  <2> SUFFICES ASSUME IInv, NEW f \in {output[p] : p \in Paths} \cup {served}, f # NoFile
               PROVE  Whole(f)
    BY DEF OutputIsWhole
  <2>1. f \in Runs /\ Finished(f)
    BY DEF IInv, Published, TypeOK
  <2>2. QED
    BY <2>1, FinishedIsWhole
<1>2. QED
  BY <1>1, AlwaysInductive, PTL

\* Where no two runs share a path, a result is replaced only by the rename of a run that wrote it.
THEOREM ShownIsKept == ASSUME ~Overlap PROVE Spec => OutputKept
<1> DEFINE Kept == \A p \in Paths : output'[p] # output[p] =>
                     \E r \in Runs : PathOf(r) = p /\ run[r].pc = "replace" /\ output'[p] = r
<1>1. IInv /\ [Next]_vars => [Kept]_vars
  <2> SUFFICES ASSUME IInv, Next PROVE Kept
    BY DEF vars
  <2>1. PICK r \in Runs : Moves(r)
    BY DEF Next, Moves
  <2>2. CASE Replace(r)
    <3>1. partial[PathOf(r)] = r /\ output \in [Paths -> Runs \cup {NoFile}]
      BY <2>2 DEF IInv, TypeOK, Exclusive, Replace, HasWriter
    <3>2. QED
      BY <2>2, <3>1 DEF Replace
  <2>3. CASE ~Replace(r)
    <3>1. output' = output
      BY <2>1, <2>3 DEF Moves, RunStep, Start, LoadStructure, PrepareCfd, EstimateAlignment, Goes,
                        CreateWriter, WriteValues, WriteStatus, FinishFile, Report, Abort, Kill,
                        ServeResult
    <3>2. QED
      BY <3>1
  <2>4. QED
    BY <2>2, <2>3
<1>2. QED
  BY <1>1, AlwaysInductive, PTL DEF Spec, OutputKept

\* Where the index of the mesh is built, the coupling maps a node exactly where the service would
\* answer for its coordinates, and to the same cell.
THEOREM CouplingAgrees ==
  ASSUME ~Overlap PROVE Spec => [](IndexReady(mesh) => AgreesWithInterpolation)
<1>1. IInv => (IndexReady(mesh) => AgreesWithInterpolation)
  <2> SUFFICES ASSUME IInv, IndexReady(mesh), NEW p \in Paths, output[p] # NoFile, NEW n \in Rows
               PROVE  Agree(file[output[p]].rows[n], InterpolationCell(mesh, points[n]))
    BY DEF AgreesWithInterpolation, Agree
  <2> DEFINE f == output[p]
  <2>1. f \in Runs /\ Finished(f)
    BY DEF IInv, Published, TypeOK
  <2>2. RowWritten(f, n)
    BY <2>1, FinishedIsWhole
  <2>3. mesh \in Mesh /\ points[n] \in 0..Span \cup {NotFinite}
    BY DEF IInv, TypeOK
  <2>4. Agree(Mapped(n), InterpolationCell(mesh, points[n]))
    BY <2>3, MapAgrees DEF Mapped
  <2>5. QED
    BY <2>2, <2>4 DEF RowWritten, Agree
<1>2. QED
  BY <1>1, AlwaysInductive, PTL
=============================================================================
