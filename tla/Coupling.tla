------------------------------ MODULE Coupling ------------------------------
(***************************************************************************)
(* Mapping structure nodes onto a CFD frame into an independent HDF5 file: *)
(* couple_to_h5 (engine.py), CouplingH5Writer (output.py), its progress    *)
(* log, the API's coupling jobs and the two endpoints that serve a result  *)
(* (main.py).                                                              *)
(*                                                                         *)
(* A run is a process; it may raise at any step and may be killed between  *)
(* any two.  A file is named by the run that created it, and a path is a   *)
(* link to a file: renaming or unlinking a path leaves the file of a run   *)
(* that still has it open alone.  Jobs write to a directory of their own,  *)
(* runs from a shell to the path they are given.                           *)
(***************************************************************************)
EXTENDS Locate

CONSTANTS
  Runs,          \* couplings, each started at most once
  Jobs,          \* those of them started by the API
  Nodes,         \* number of structure nodes
  BatchSize,
  Overlap,       \* whether a run may start while another works on the same path
  NoFile

ASSUME RunsAssumption == IsFiniteSet(Runs) /\ Jobs \subseteq Runs /\ NoFile \notin Runs
ASSUME BatchAssumption == Nodes \in Nat \ {0} /\ BatchSize \in Nat \ {0} /\ Overlap \in BOOLEAN

VARIABLES
  mesh,       \* the CFD dataset in IoTDB
  points,     \* the coordinates of the structure nodes
  run,        \* per run: pc, the next node, the counts of each status, the node last logged
  file,       \* per run: the file it creates
  partial,    \* per path: the file <output>.partial links to
  output,     \* per path: the file <output> links to
  served      \* the file the API last answered with

vars == <<mesh, points, run, file, partial, output, served>>

Statuses == {PASS, OUTSIDE_MESH, NO_CONTAINING_CELL, INTERPOLATION_FAILED}
Rows == 1..Nodes
Shell == "shell"
Paths == Jobs \cup {Shell}
PathOf(r) == IF r \in Jobs THEN r ELSE Shell

Phases == {"new", "structure", "prepare", "align", "create", "values", "status", "attrs", "replace",
           "report", "done", "failed", "killed"}
Alive(r) == run[r].pc \notin {"new", "done", "failed", "killed"}
Row == [value : BOOLEAN, status : Statuses, cell : Cells \cup {NoCell}]

TypeOK ==
  /\ mesh \in Mesh /\ points \in [Rows -> 0..Span \cup {NotFinite}]
  /\ run \in [Runs -> [pc : Phases, next : 1..(Nodes + 1), counts : [Statuses -> 0..Nodes],
                       logged : 0..Nodes]]
  /\ file \in [Runs -> [rows : [Rows -> Row], summary : [Statuses -> 0..Nodes], closed : BOOLEAN]]
  /\ partial \in [Paths -> Runs \cup {NoFile}]
  /\ output \in [Paths -> Runs \cup {NoFile}]
  /\ served \in Runs \cup {NoFile}

NoCounts == [s \in Statuses |-> 0]
FillValue == [value |-> FALSE, status |-> INTERPOLATION_FAILED, cell |-> NoCell]
Empty == [rows |-> [n \in Rows |-> FillValue], summary |-> NoCounts, closed |-> FALSE]

-----------------------------------------------------------------------------
(* One run.                                                                *)

Goes(r, from, to) == run[r].pc = from /\ run' = [run EXCEPT ![r].pc = to]

\* create_coupling makes a directory for the job; the command line takes any path.
Start(r) ==
  /\ Overlap \/ \A other \in Runs : Alive(other) => PathOf(other) # PathOf(r)
  /\ Goes(r, "new", "structure")
  /\ UNCHANGED <<mesh, points, file, partial, output, served>>

\* The reads before there is a writer: the metadata and nodes of the structure, the CFD mesh
\* and frame, the transform that aligns the two.
LoadStructure(r) ==
  /\ Goes(r, "structure", "prepare")
  /\ UNCHANGED <<mesh, points, file, partial, output, served>>

PrepareCfd(r) ==
  /\ \/ Goes(r, "prepare", "align")
     \/ Goes(r, "prepare", "create")
  /\ UNCHANGED <<mesh, points, file, partial, output, served>>

EstimateAlignment(r) ==
  /\ Goes(r, "align", "create")
  /\ UNCHANGED <<mesh, points, file, partial, output, served>>

\* CouplingH5Writer.__init__: a stale .partial is unlinked, a new file made of fill values.
CreateWriter(r) ==
  /\ run[r].pc = "create"
  /\ file' = [file EXCEPT ![r] = Empty]
  /\ partial' = [partial EXCEPT ![PathOf(r)] = r]
  /\ run' = [run EXCEPT ![r].pc = "values"]
  /\ UNCHANGED <<mesh, points, output, served>>

BatchEnd(r) == Min({run[r].next + BatchSize - 1, Nodes})
Batch(r) == run[r].next..BatchEnd(r)
Mapped(n) == MapNode(mesh, points[n])

\* write_batch, dataset by dataset: the variables first.
WriteValues(r) ==
  /\ run[r].pc = "values"
  /\ file' = [file EXCEPT ![r].rows = [n \in Rows |->
       IF n \in Batch(r) THEN [@[n] EXCEPT !.value = Mapped(n).status = PASS] ELSE @[n]]]
  /\ run' = [run EXCEPT ![r].pc = "status"]
  /\ UNCHANGED <<mesh, points, partial, output, served>>

\* Mutant: counts of the last batch only.
LastBatch(r, s) == Cardinality({n \in Batch(r) : Mapped(n).status = s})

\* Mutant: the end of the batch is added instead of its nodes with the status.
CountedToEnd(r, s) ==
  run[r].counts[s] + IF \E n \in Batch(r) : Mapped(n).status = s THEN BatchEnd(r) ELSE 0

\* The statuses of the batches so far.
Counted(r, s) == run[r].counts[s] + Cardinality({n \in Batch(r) : Mapped(n).status = s})

\* Mutant: every update is logged as the whole run.
ShownAtOnce(before, current) == Nodes

\* CouplingProgress.update into a log file: a line per tenth, and one at the end.
Shown(before, current) ==
  IF current >= Nodes \/ (10 * current) \div Nodes > (10 * before) \div Nodes
    THEN Min({current, Nodes}) ELSE before

\* Then status and cell; the counts and the progress line follow.
WriteStatus(r) ==
  /\ run[r].pc = "status"
  /\ file' = [file EXCEPT ![r].rows = [n \in Rows |->
       IF n \in Batch(r) THEN [value |-> @[n].value, status |-> Mapped(n).status,
                               cell |-> Mapped(n).cell]
                         ELSE @[n]]]
  /\ run' = [run EXCEPT ![r] =
       [pc |-> IF BatchEnd(r) = Nodes THEN "attrs" ELSE "values", next |-> BatchEnd(r) + 1,
        counts |-> [s \in Statuses |-> Counted(r, s)], logged |-> Shown(@.logged, BatchEnd(r))]]
  /\ UNCHANGED <<mesh, points, partial, output, served>>

\* finalize: the summary, close, and the rename of whatever .partial links to by now.
FinishFile(r) ==
  /\ run[r].pc = "attrs"
  /\ file' = [file EXCEPT ![r].summary = run[r].counts, ![r].closed = TRUE]
  /\ run' = [run EXCEPT ![r].pc = "replace"]
  /\ UNCHANGED <<mesh, points, partial, output, served>>

Replace(r) ==
  /\ run[r].pc = "replace" /\ partial[PathOf(r)] # NoFile
  /\ output' = [output EXCEPT ![PathOf(r)] = partial[PathOf(r)]]
  /\ partial' = [partial EXCEPT ![PathOf(r)] = NoFile]
  /\ run' = [run EXCEPT ![r].pc = "report"]
  /\ UNCHANGED <<mesh, points, file, served>>

\* The summary is printed and the process exits with 0.
Report(r) ==
  /\ Goes(r, "report", "done")
  /\ UNCHANGED <<mesh, points, file, partial, output, served>>

HasWriter(r) == run[r].pc \in {"values", "status", "attrs", "replace"}

\* Mutant: abort removes the result instead of the partial file.
AbortOutput(r) ==
  /\ Alive(r)
  /\ output' = IF HasWriter(r) THEN [output EXCEPT ![PathOf(r)] = NoFile] ELSE output
  /\ file' = IF HasWriter(r) THEN [file EXCEPT ![r].closed = TRUE] ELSE file
  /\ run' = [run EXCEPT ![r].pc = "failed"]
  /\ UNCHANGED <<mesh, points, partial, served>>

\* An exception: abort closes the file and unlinks .partial, if there is a writer.
Abort(r) ==
  /\ Alive(r)
  /\ partial' = IF HasWriter(r) THEN [partial EXCEPT ![PathOf(r)] = NoFile] ELSE partial
  /\ file' = IF HasWriter(r) THEN [file EXCEPT ![r].closed = TRUE] ELSE file
  /\ run' = [run EXCEPT ![r].pc = "failed"]
  /\ UNCHANGED <<mesh, points, output, served>>

\* A cancelled job, a signal, the end of the machine: nothing is cleaned up.
Kill(r) ==
  /\ Alive(r)
  /\ run' = [run EXCEPT ![r].pc = "killed"]
  /\ UNCHANGED <<mesh, points, file, partial, output, served>>

\* result.h5 and result: the file of a job that succeeded, 404 without one.
ServeResult(r) ==
  /\ r \in Jobs /\ run[r].pc = "done" /\ output[PathOf(r)] # NoFile
  /\ served' = output[PathOf(r)]
  /\ UNCHANGED <<mesh, points, run, file, partial, output>>
-----------------------------------------------------------------------------
Init ==
  /\ mesh \in Mesh /\ points \in [Rows -> 0..Span \cup {NotFinite}]
  /\ run = [r \in Runs |-> [pc |-> "new", next |-> 1, counts |-> NoCounts, logged |-> 0]]
  /\ file = [r \in Runs |-> Empty]
  /\ partial = [p \in Paths |-> NoFile]
  /\ output = [p \in Paths |-> NoFile]
  /\ served = NoFile

RunStep(r) ==
  \/ Start(r) \/ LoadStructure(r) \/ PrepareCfd(r) \/ EstimateAlignment(r) \/ CreateWriter(r)
  \/ WriteValues(r) \/ WriteStatus(r) \/ FinishFile(r) \/ Replace(r) \/ Report(r)

Next == \E r \in Runs : RunStep(r) \/ Abort(r) \/ Kill(r) \/ ServeResult(r)

Spec == Init /\ [][Next]_vars

-----------------------------------------------------------------------------
(* Properties.                                                             *)

HasStatus(f, s) == {n \in Rows : file[f].rows[n].status = s}

Whole(f) ==
  /\ file[f].closed
  /\ \A n \in Rows : LET row == file[f].rows[n] IN
       /\ row.status = Mapped(n).status
       /\ row.value <=> row.status = PASS
  /\ \A s \in Statuses : file[f].summary[s] = Cardinality(HasStatus(f, s))

\* "A killed/failed run never exposes a half-written file as the canonical result": what a path
\* shows, and what the API answers with, has every node with the status it was mapped to and a
\* summary that counts them, through failures, kills and retries over a stale .partial.
OutputIsWhole == \A f \in {output[p] : p \in Paths} \cup {served} : f # NoFile => Whole(f)

\* A path shows a new result only at the rename of a run that has written it; whatever else
\* happens to a run, the result of an earlier one stays.
OutputKept ==
  [][\A p \in Paths : output'[p] # output[p] =>
       \E r \in Runs : PathOf(r) = p /\ run[r].pc = "replace" /\ output'[p] = r]_vars

\* The coupling and POST /interpolate tell the same: a node is mapped exactly where a request for
\* its coordinates would be answered, and with the same cell, whatever index found it.
AgreesWithInterpolation ==
  \A p \in Paths : output[p] # NoFile => \A n \in Rows :
    LET row == file[output[p]].rows[n]
        answer == InterpolationCell(mesh, points[n])
    IN IF row.status = PASS THEN row.cell = answer ELSE answer = NoCell

\* The log is never ahead of the file, and a run that ends has logged its end.
ProgressIsHonest ==
  \A r \in Runs : /\ run[r].logged < run[r].next
                  /\ run[r].pc = "done" => run[r].logged = Nodes
=============================================================================
