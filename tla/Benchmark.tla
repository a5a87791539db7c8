----------------------------- MODULE Benchmark -----------------------------
(***************************************************************************)
(* cfd-bench run: the discovery of steps (workloads/common/cli.py), the    *)
(* runner of the workloads W1 to W11 (runner.py, w*/run.py), their results *)
(* as rows of a CSV file (core/results.py), and the API's benchmark job    *)
(* and the endpoint that serves its rows while it runs (main.py).          *)
(*                                                                         *)
(* The run is one process.  A visit is one call of a workload's run_ship   *)
(* or run_ship_step (of the body of its loop over steps for W1); in it the *)
(* selected backends take turns, and a turn measures its readings one      *)
(* after another.  The clock of a reading has Duration ticks.  Any call to *)
(* a backend may raise, and the process may be killed between any steps.   *)
(***************************************************************************)
EXTENDS Naturals, Sequences, SequencesExt, FiniteSets

CONSTANTS
  Ships,         \* datasets
  ShortShips,    \* SHIPS_WITHOUT_STEP_2000
  LongStep,      \* the step 2000
  Steps,
  DefaultSteps,  \* DEFAULT_STEPS
  NoStep,        \* None: the step of a workload that runs once per dataset
  Duration,
  Tries,         \* attempts of a bounded search: 16, 64 or 128 in the code
  Requests,      \* the command lines a run may have
  Worlds         \* what the backends may hold of each dataset

ASSUME StepAssumption ==
  /\ NoStep \notin Steps /\ NoStep \notin {"running", "succeeded", "failed"} /\ LongStep \in Steps /\ DefaultSteps \in Seq(Steps)
  /\ ShortShips \subseteq Ships
  /\ Duration \in Nat \ {0} /\ Tries \in Nat \ {0}

Order == <<"postgresql", "iotdb", "tiledb", "vtk">>
Backends == Range(Order)
WorkloadNames == {"w1", "w2", "w3", "w4", "w5", "w6", "w7", "w8", "w9", "w10", "w11"}

\* DEFAULT_WORKLOADS and H5_ONLY_WORKLOADS, none of which is missing a module.
ASSUME RequestAssumption ==
  \A r \in Requests :
    /\ r.workloads \in Seq(WorkloadNames) /\ r.ships \in Seq(Ships)
    /\ r.steps \in Seq(Steps) \cup {NoStep}
ASSUME WorldAssumption ==
  \A w \in Worlds : \A b \in Backends, s \in Ships : w[b][s].steps \in Seq(Steps) \cup {NoStep}

VARIABLES
  request,    \* datasets, workloads, backends, explicit steps, geometry engine
  world,      \* per backend and dataset: the steps it tells discovery, and how its mesh is
  found,      \* per dataset: the discovered steps, or NoStep
  itinerary,  \* the visits of the run
  pc,
  visit, turn, reading,   \* positions in the itinerary, in Order and in the readings of a turn
  zone,       \* the candidate zone W6 is probing
  shared,     \* whether the visit has shared_bounds
  limit,      \* whether the search under way is bounded
  tries, left,
  open,       \* the clients connected: [backend, use]
  row,        \* a row written and not yet flushed
  csv,        \* the rows of the file, or NoStep before it is created
  status,     \* the row of the API's job
  seen,       \* the status the endpoint has read
  served      \* its last answer

given == <<request, world, found, itinerary>>
at == <<visit, turn, reading, zone, shared>>
clock == <<limit, tries, left>>
endpoint == <<status, seen, served>>
vars == <<given, pc, at, clock, open, row, csv, endpoint>>

-----------------------------------------------------------------------------
(* What the workloads measure.  A reading has a name and a loop: every     *)
(* transaction of a "search" or a "start" loop first looks for a place of  *)
(* the mesh, with a bound on the attempts unless the dataset is an H5 one, *)
(* "deadline" looks until the clock ends, "surface" may find nothing to    *)
(* integrate and breaks.  Only a search without a bound ignores the clock. *)

W1Point == [name |-> "point_intersection", loop |-> "search"]
W1Line == [name |-> "line_intersection", loop |-> "plain"]
W1Plane == [name |-> "plane_intersection", loop |-> "plain"]
W2Range == [name |-> "coordinate_range_multi_step", loop |-> "search"]
W3Isosurface == [name |-> "range_submesh_isosurface", loop |-> "plain"]
W4Advection == [name |-> "particle_advection_multi_step", loop |-> "start"]
W5Streamline == [name |-> "streamline", loop |-> "deadline"]
W6Surface == [name |-> "surface_force", loop |-> "plain"]
W6PgNative == [name |-> "surface_force", loop |-> "surface"]
W6IotdbNative == [name |-> "surface_force", loop |-> "surface"]
W6TiledbNative == [name |-> "surface_force", loop |-> "surface"]
W7QCriterion == [name |-> "qcriterion_roi", loop |-> "search"]
W8Range == [name |-> "variable_range", loop |-> "plain"]
W9Elements == [name |-> "element_coordinate_range", loop |-> "plain"]
W10Statistics == [name |-> "frame_statistics", loop |-> "plain"]
W11Extrema == [name |-> "point_extrema_all_frames", loop |-> "plain"]

\* bounds: what a workload does without bounds of the mesh; geom: whether --geom-engine gives it a
\* client of its own for the geometry.  An exception ends the run, and its clients with it.
W1 == [bounds |-> "skip", geom |-> TRUE, readings |-> <<W1Point, W1Line, W1Plane>>]
W2 == [bounds |-> "skip", geom |-> TRUE, readings |-> <<W2Range>>]
W3 == [bounds |-> "diffs", geom |-> TRUE, readings |-> <<W3Isosurface>>]
W4 == [bounds |-> "skip", geom |-> TRUE, readings |-> <<W4Advection>>]
W5 == [bounds |-> "skip", geom |-> TRUE, readings |-> <<W5Streamline>>]
W7 == [bounds |-> "skip", geom |-> TRUE, readings |-> <<W7QCriterion>>]
W8 == [bounds |-> "unused", geom |-> TRUE, readings |-> <<W8Range>>]
W9 == [bounds |-> "raise", geom |-> FALSE, readings |-> <<W9Elements>>]
W10 == [bounds |-> "unused", geom |-> FALSE, readings |-> <<W10Statistics>>]
W11 == [bounds |-> "unused", geom |-> FALSE, readings |-> <<W11Extrema>>]

\* W6 probes zones for a usable one; where it takes the hull zone as it is, it integrates over
\* all its cells.
Probes(v, b) ==
  v.workload = "w6" /\ CASE b = "postgresql" -> ~world[b][v.ship].h5
                         [] b = "iotdb" -> request.engine # "vtk"
                         [] b = "tiledb" -> TRUE
                         [] b = "vtk" -> world[b][v.ship].manifest

W6(v, b) ==
  [bounds |-> "unused",
   geom |-> ~Probes(v, b) \/ b = "tiledb",
   readings |-> <<CASE ~Probes(v, b) \/ b = "vtk" -> W6Surface
                    [] b = "postgresql" -> W6PgNative
                    [] b = "iotdb" -> W6IotdbNative
                    [] b = "tiledb" -> IF request.engine = "vtk" THEN W6Surface
                                                               ELSE W6TiledbNative>>]

Of(v, b) ==
  CASE v.workload = "w1" -> W1 [] v.workload = "w2" -> W2 [] v.workload = "w3" -> W3
    [] v.workload = "w4" -> W4 [] v.workload = "w5" -> W5 [] v.workload = "w6" -> W6(v, b)
    [] v.workload = "w7" -> W7 [] v.workload = "w8" -> W8 [] v.workload = "w9" -> W9
    [] v.workload = "w10" -> W10 [] v.workload = "w11" -> W11

-----------------------------------------------------------------------------
(* The itinerary, fixed once the steps are known.                          *)

ValidSteps(s) ==
  LET source == IF request.steps # NoStep THEN request.steps
                ELSE IF found[s] # NoStep THEN found[s] ELSE DefaultSteps
      Left(x) == IF s \in ShortShips /\ x = LongStep THEN <<>> ELSE <<x>>
  IN FlattenSeq([i \in DOMAIN source |-> Left(source[i])])

\* run_ship of W1 loops over the steps itself and tells its rows the step.
PerShip == {"w2", "w4", "w9", "w11"}

\* A workload that runs once per dataset connects at the first step.
VisitsOf(w, s) ==
  LET steps == ValidSteps(s)
      Visit(x) == [workload |-> w, ship |-> s, step |-> x]
  IN IF w \in PerShip THEN <<Visit(IF steps = <<>> THEN NoStep ELSE Head(steps))>>
     ELSE [i \in DOMAIN steps |-> Visit(steps[i])]

Plan ==
  FlattenSeq([i \in DOMAIN request.workloads |->
    FlattenSeq([j \in DOMAIN request.ships |->
      VisitsOf(request.workloads[i], request.ships[j])])])

Now == itinerary[visit]
Turn == Order[turn]
Workload == Of(Now, Turn)
Reading == Workload.readings[reading]

\* emit_benchmark_result: the identity of the row is that of the context it is emitted in.
RowOf(v, b, r) ==
  [workload |-> v.workload, ship |-> v.ship, backend |-> b, reading |-> r.name,
   step |-> IF v.workload \in PerShip THEN NoStep ELSE v.step]

\* The mesh that geometry is asked of, and whether it has bounds.
Geometry(v, b) == IF request.engine = "vtk" /\ Of(v, b).geom THEN "vtk" ELSE b
HasBounds(v, b) == world[Geometry(v, b)][v.ship].bounds
Usable(v, b) ==
  CASE Of(v, b).bounds = "skip" -> HasBounds(v, b) \/ (shared /\ b # "postgresql")
    [] Of(v, b).bounds = "raise" -> HasBounds(v, b)
    [] Of(v, b).bounds = "diffs" -> HasBounds(v, b) /\ world[b][v.ship].diffs
    [] Of(v, b).bounds = "unused" -> TRUE

\* W2 searches PostgreSQL itself whatever the geometry engine.
Hits(v, b) ==
  world[IF v.workload = "w2" /\ b = "postgresql" THEN b ELSE Geometry(v, b)][v.ship].hits

-----------------------------------------------------------------------------
Init ==
  /\ request \in Requests /\ world \in Worlds
  /\ found = [s \in Ships |-> NoStep] /\ itinerary = <<>>
  /\ pc = "discover" /\ visit = 1 /\ turn = 1 /\ reading = 1 /\ zone = 1 /\ shared = FALSE
  /\ limit = TRUE /\ tries = 0 /\ left = 0
  /\ open = {} /\ row = NoStep /\ csv = NoStep
  /\ status = "running" /\ seen = NoStep /\ served = NoStep

\* workload_config_from_args: the first backend that knows a dataset describes it, and one that
\* fails to answer is passed over.
Discover ==
  /\ pc = "discover" /\ turn <= Len(Order)
  /\ \/ /\ Turn \in request.backends
        /\ found' = [s \in Ships |-> IF found[s] = NoStep THEN world[Turn][s].steps ELSE found[s]]
     \/ UNCHANGED found
  /\ turn' = turn + 1
  /\ UNCHANGED <<request, world, itinerary, pc, visit, reading, zone, shared, clock, open, row, csv, endpoint>>

CreateCsv ==
  /\ pc = "discover" /\ turn > Len(Order)
  /\ pc' = "visit" /\ csv' = <<>> /\ itinerary' = Plan
  /\ UNCHANGED <<request, world, found, at, clock, open, row, endpoint>>

\* Mutant: shared_bounds outlives its visit.
SharedForGood == shared

\* shared_bounds is a local of run_ship or run_ship_step.
SharedAtEntry == FALSE

EnterVisit ==
  /\ pc = "visit" /\ visit <= Len(itinerary) /\ Now.step # NoStep
  /\ turn' = 1 /\ shared' = SharedAtEntry
  /\ pc' = "turn"
  /\ UNCHANGED <<given, visit, reading, zone, clock, open, row, csv, endpoint>>

\* W2 and W4 take steps[0], W9 and W11 say that there is none.
NoFirstStep ==
  /\ pc = "visit" /\ visit <= Len(itinerary) /\ Now.step = NoStep
  /\ pc' = "failed"
  /\ UNCHANGED <<given, at, clock, open, row, csv, endpoint>>

RunDone ==
  /\ pc = "visit" /\ visit > Len(itinerary)
  /\ pc' = "done"
  /\ UNCHANGED <<given, at, clock, open, row, csv, endpoint>>

NextTurn ==
  /\ pc = "turn"
  /\ \/ /\ turn > Len(Order)
        /\ visit' = visit + 1 /\ pc' = "visit" /\ turn' = turn
     \/ /\ turn <= Len(Order) /\ Turn \notin request.backends
        /\ turn' = turn + 1 /\ UNCHANGED <<visit, pc>>
     \/ /\ turn <= Len(Order) /\ Turn \in request.backends
        /\ pc' = IF Probes(Now, Turn) THEN "probe" ELSE "connect"
        /\ UNCHANGED <<visit, turn>>
  /\ reading' = 1 /\ zone' = 1
  /\ UNCHANGED <<given, shared, clock, open, row, csv, endpoint>>

Data(b) == [backend |-> b, use |-> "data"]
Geom(v, b) ==
  IF Geometry(v, b) = b THEN {} ELSE {[backend |-> b, use |-> "geometry"]}

\* make_pg, make_iotdb, make_tiledb, make_vtk and make_geom_client.
Connect ==
  /\ pc = "connect"
  /\ open' = open \cup {Data(Turn)} \cup Geom(Now, Turn)
  /\ pc' = "bounds"
  /\ UNCHANGED <<given, at, clock, row, csv, endpoint>>

\* is_h5_client takes a failing probe for a dataset that is not of H5.
Limits(v, b) == IF b # "vtk" /\ world[b][v.ship].h5 THEN {TRUE, FALSE} ELSE {TRUE}

FindBounds ==
  /\ pc = "bounds"
  /\ \/ Usable(Now, Turn) /\ pc' = "loop" /\ left' = Duration
     \/ ~Usable(Now, Turn) /\ left' = left
        /\ pc' = IF Workload.bounds = "raise" THEN "failed" ELSE "close"
  /\ shared' = (shared \/ (Turn = "postgresql" /\ HasBounds(Now, Turn)))
  /\ limit' \in Limits(Now, Turn)
  /\ UNCHANGED <<given, visit, turn, reading, zone, tries, open, row, csv, endpoint>>

\* Mutant: the zone that failed keeps its client.
ProbeLeavesOpen == open \cup {[backend |-> Turn, use |-> "zone"]}

\* client.close() of a zone that is not usable.
AfterProbe == open

\* W6 opens a client per candidate zone until one has cells and a scalar, or its call raises.
ProbeZone ==
  LET zones == world[Turn][Now.ship].zones
  IN /\ pc = "probe"
     /\ \/ /\ zone <= Len(zones) /\ zones[zone]
           /\ open' = open \cup {Data(Turn)} \cup Geom(Now, Turn)
           /\ pc' = "loop" /\ left' = Duration /\ zone' = zone
        \/ /\ zone <= Len(zones)
           /\ open' = AfterProbe /\ zone' = zone + 1 /\ UNCHANGED <<pc, left>>
        \/ /\ zone > Len(zones)
           /\ pc' = "failed" /\ UNCHANGED <<open, left, zone>>
     /\ limit' = TRUE
     /\ UNCHANGED <<given, visit, turn, reading, shared, tries, row, csv, endpoint>>

-----------------------------------------------------------------------------
(* The loop of a reading, and its row.                                     *)

Ticking == {"loop", "search", "query"}

Tick ==
  /\ pc \in Ticking /\ left > 0
  /\ left' = left - 1
  /\ UNCHANGED <<given, pc, at, limit, tries, open, row, csv, endpoint>>

\* while time() - t0 < duration.
Loop ==
  /\ pc = "loop"
  /\ pc' = IF left = 0 THEN "emit"
           ELSE IF Reading.loop \in {"search", "start", "deadline"} THEN "search" ELSE "query"
  /\ tries' = 0
  /\ UNCHANGED <<given, at, limit, left, open, row, csv, endpoint>>

SearchHits ==
  /\ pc = "search" /\ Hits(Now, Turn)
  /\ pc' = "query"
  /\ UNCHANGED <<given, at, clock, open, row, csv, endpoint>>

\* Mutant: one attempt more.
MoreTries == tries + 1 <= Tries

\* attempts >= max_hit_attempts ends the search.
TriesLeft == tries + 1 < Tries

\* A miss; a search without a bound has no end but a hit.  The transaction ends without a query,
\* or does not count (W4).
SearchMisses ==
  /\ pc = "search" /\ Reading.loop \in {"search", "start"} /\ limit
  /\ \/ TriesLeft /\ tries' = tries + 1 /\ pc' = pc
     \/ ~TriesLeft /\ tries' = tries /\ pc' = "loop"
  /\ UNCHANGED <<given, at, limit, left, open, row, csv, endpoint>>

\* Mutant: random_start_point without a deadline.
NoDeadline == FALSE

\* random_start_point and _integrate_one_streamline stop at the deadline that W5 gives them.
DeadlinePassed == Reading.loop = "deadline" /\ left = 0

SearchTimesOut ==
  /\ pc = "search" /\ DeadlinePassed
  /\ pc' = "emit"
  /\ UNCHANGED <<given, at, clock, open, row, csv, endpoint>>

\* The queries of a transaction return; a native W6 loop breaks when it has nothing to integrate.
Query ==
  /\ pc = "query"
  /\ \/ pc' = "loop"
     \/ pc' = "emit" /\ (Reading.loop = "surface" \/ DeadlinePassed)
  /\ UNCHANGED <<given, at, clock, open, row, csv, endpoint>>

\* emit_benchmark_result once the loop has ended, and the flush of the row it wrote.
Emit ==
  /\ pc = "emit"
  /\ row' = RowOf(Now, Turn, Reading)
  /\ pc' = "flush"
  /\ UNCHANGED <<given, at, clock, open, csv, endpoint>>

Flush ==
  /\ pc = "flush"
  /\ csv' = Append(csv, row) /\ row' = NoStep
  /\ IF reading < Len(Workload.readings)
       THEN reading' = reading + 1 /\ left' = Duration /\ pc' = "loop"
       ELSE pc' = "close" /\ UNCHANGED <<reading, left>>
  /\ UNCHANGED <<given, visit, turn, zone, shared, limit, tries, open, endpoint>>

\* The client of the turn is closed; the one of the geometry only in TileDB's W6.
Close ==
  /\ pc = "close"
  /\ open' = open \ ({Data(Turn)} \cup IF Probes(Now, Turn) THEN Geom(Now, Turn) ELSE {})
  /\ turn' = turn + 1 /\ pc' = "turn"
  /\ UNCHANGED <<given, visit, reading, zone, shared, clock, row, csv, endpoint>>

\* Nothing in the runner catches an exception of a backend.
Raise ==
  /\ pc \in {"probe", "connect", "bounds", "search", "query"}
  /\ pc' = "failed"
  /\ UNCHANGED <<given, at, clock, open, row, csv, endpoint>>

-----------------------------------------------------------------------------
(* The job of the API, and GET /api/v1/jobs/{job_id}/result.               *)

Ended == pc \in {"done", "failed", "killed"}

\* A cancellation, or the end of the machine.
Kill ==
  /\ ~Ended
  /\ pc' = "killed"
  /\ UNCHANGED <<given, at, clock, open, row, csv, endpoint>>

\* The worker stores the outcome of the process, where failed and cancelled are not told apart here;
\* a restarted API fails a row still running.
RecordOutcome ==
  /\ status = "running"
  /\ \/ Ended /\ status' = (IF pc = "done" THEN "succeeded" ELSE "failed")
     \/ status' = "failed"
  /\ UNCHANGED <<given, pc, at, clock, open, row, csv, seen, served>>

\* result_json has the row of the job before it opens the file.
ReadJob ==
  /\ seen = NoStep
  /\ seen' = status
  /\ UNCHANGED <<given, pc, at, clock, open, row, csv, status, served>>

\* Mutant: a result is partial only if the job failed.
AnswerUnlessFailed(rows, seenStatus) == [partial |-> seenStatus = "failed", rows |-> rows]

Answer(rows, seenStatus) == [partial |-> seenStatus # "succeeded", rows |-> rows]

ReadRows ==
  /\ seen # NoStep /\ served = NoStep /\ csv # NoStep
  /\ served' = Answer(csv, seen)
  /\ UNCHANGED <<given, pc, at, clock, open, row, csv, status, seen>>

Runs ==
  \/ Discover \/ CreateCsv \/ EnterVisit \/ NoFirstStep \/ RunDone \/ NextTurn \/ Connect
  \/ FindBounds \/ ProbeZone \/ Loop \/ SearchHits \/ SearchMisses \/ SearchTimesOut \/ Query
  \/ Emit \/ Flush \/ Close

Next == Runs \/ Tick \/ Raise \/ Kill \/ RecordOutcome \/ ReadJob \/ ReadRows

\* The process is scheduled, time passes, and a search that can hit does: its places are random.
Spec == Init /\ [][Next]_vars /\ WF_vars(Runs) /\ WF_vars(Tick) /\ SF_vars(SearchHits)

-----------------------------------------------------------------------------
(* Properties.                                                             *)

Phases == {"discover", "visit", "turn", "probe", "connect", "bounds", "emit", "flush", "close",
           "done", "failed", "killed"} \cup Ticking
Statuses == {"running", "succeeded", "failed"}

(* A search never makes more attempts than its bound, the clock of a reading never runs past      *)
(* Duration, and no position leaves its range (the loops of the workloads).                       *)
TypeOK ==
  /\ request \in Requests /\ world \in Worlds
  /\ found \in [Ships -> {NoStep} \cup {world[b][s].steps : b \in Backends, s \in Ships}]
  /\ pc \in Phases
  /\ visit \in 1..(Len(itinerary) + 1) /\ turn \in 1..(Len(Order) + 1) /\ reading \in 1..3
  /\ zone \in Nat \ {0} /\ shared \in BOOLEAN /\ limit \in BOOLEAN
  /\ tries < Tries /\ left \in 0..Duration
  /\ \A c \in open : c.backend \in Backends /\ c.use \in {"data", "zone", "geometry"}
  /\ status \in Statuses /\ seen \in Statuses \cup {NoStep}

\* The rows a visit and a backend owe the file: none without bounds, of the mesh or of
\* PostgreSQL's, and none of W3 without cells or maximal differences.
Owed(v, b) ==
  IF /\ b \in request.backends
     /\ CASE Of(v, b).bounds = "skip" ->
               \/ HasBounds(v, b)
               \/ "postgresql" \in request.backends /\ HasBounds(v, "postgresql")
          [] Of(v, b).bounds = "diffs" -> HasBounds(v, b) /\ world[b][v.ship].diffs
          [] OTHER -> TRUE
    THEN [i \in DOMAIN Of(v, b).readings |-> RowOf(v, b, Of(v, b).readings[i])]
    ELSE <<>>

WholeResult ==
  FlattenSeq([i \in DOMAIN itinerary |->
    FlattenSeq([j \in DOMAIN Order |-> Owed(itinerary[i], Order[j])])])

(* Whatever fails, the file holds the readings of the itinerary up to some point, each once, in   *)
(* order and under its own workload, dataset, step and backend; a run that ends well has them     *)
(* all (results.py, run_all).                                                                     *)
RowsFollowPlan ==
  csv # NoStep => IsPrefix(csv, WholeResult) /\ (pc = "done" => csv = WholeResult)

(* A result served as complete is complete, while the run, a cancellation, a restart of the API   *)
(* and the two reads of the request go on in any order (main.py, result_json).                    *)
WholeWhenNotPartial ==
  served # NoStep => served.partial \/ served.rows = WholeResult

(* While a backend is measured no other backend has a data connection open, nor has another zone  *)
(* of its own (the workloads close each client, W6 those of the zones it rejects).                *)
MeasuredAlone ==
  pc \in Ticking => \A c \in open : c.use = "geometry" \/ c = Data(Turn)

\* A search without a bound (of an H5 dataset) can hit.
Searched(v, b) ==
  \E i \in DOMAIN Of(v, b).readings : Of(v, b).readings[i].loop \in {"search", "start"}
CanHit ==
  \A i \in DOMAIN itinerary : \A b \in request.backends :
    Searched(itinerary[i], b) /\ FALSE \in Limits(itinerary[i], b) => Hits(itinerary[i], b)

(* A run ends, provided that the searches nobody bounded can hit at all (random_start_point and   *)
(* the attempts of W1, W2, W4 and W7; W5 has a deadline whatever the mesh is).                    *)
RunEnds == <>(Ended \/ ~CanHit)
=============================================================================
