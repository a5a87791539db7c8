-------------------------- MODULE BenchmarkProofs --------------------------
(***************************************************************************)
(* Theorems about Benchmark, for any datasets, requests, backends' data,   *)
(* durations and bounds on the attempts.                                   *)
(***************************************************************************)
EXTENDS Benchmark, SequenceLemmas

Preparing == {"discover", "visit", "turn", "probe", "connect"}
Measuring == {"bounds", "loop", "search", "query", "emit", "flush", "close"}

\* Between turns only clients of the geometry are connected; in a turn the client of its backend is
\* as well.
OpenInv ==
  /\ pc \in Preparing => \A c \in open : c.use = "geometry"
  /\ pc \in Measuring => \A c \in open : c.use = "geometry" \/ c = Data(Turn)

LEMMA GeometryOfTurn == \A c \in Geom(Now, Turn) : c.use = "geometry"
  BY DEF Geom

LEMMA OpenStep == OpenInv /\ [Next]_vars => OpenInv'
<1> SUFFICES ASSUME OpenInv, [Next]_vars PROVE OpenInv'
  OBVIOUS
<1> USE DEF OpenInv, Preparing, Measuring
<1>1. CASE Discover \/ CreateCsv \/ EnterVisit \/ NoFirstStep \/ RunDone \/ NextTurn
  BY <1>1 DEF Discover, CreateCsv, EnterVisit, NoFirstStep, RunDone, NextTurn, Turn
<1>2. CASE Connect
  BY <1>2, GeometryOfTurn DEF Connect, Turn, at, Data
<1>3. CASE FindBounds
  BY <1>3 DEF FindBounds, Turn
<1>4. CASE ProbeZone
  BY <1>4, GeometryOfTurn DEF ProbeZone, Turn, Data, AfterProbe
<1>5. CASE Loop \/ SearchHits \/ SearchMisses \/ SearchTimesOut \/ Query \/ Emit \/ Flush \/ Tick
  BY <1>5 DEF Loop, SearchHits, SearchMisses, SearchTimesOut, Query, Emit, Flush, Tick, Turn, at,
              Ticking
<1>6. CASE Close
  BY <1>6 DEF Close, Data
<1>7. CASE Raise \/ Kill
  BY <1>7 DEF Raise, Kill
<1>8. CASE RecordOutcome \/ ReadJob \/ ReadRows \/ UNCHANGED vars
  BY <1>8 DEF RecordOutcome, ReadJob, ReadRows, vars, Turn, at
<1>9. QED
  BY <1>1, <1>2, <1>3, <1>4, <1>5, <1>6, <1>7, <1>8 DEF Next, Runs

\* While a backend is measured no other backend has a data connection open, nor has another zone of
\* its own, whatever the workloads, their order and the failures of backends.
THEOREM AlwaysMeasuredAlone == Spec => []MeasuredAlone
<1>1. Init => OpenInv
  BY DEF Init, OpenInv, Preparing, Measuring
<1>2. OpenInv => MeasuredAlone
  BY DEF OpenInv, MeasuredAlone, Measuring, Ticking
<1>3. QED
  BY <1>1, <1>2, OpenStep, PTL DEF Spec
-----------------------------------------------------------------------------
(* What a run does to its positions and to the file.                       *)

Visits == [workload : WorkloadNames, ship : Ships, step : Steps \cup {NoStep}]

\* The phases of a turn that is taken, those of the loop of a reading, and those of a visit.
Looping == {"loop", "search", "query", "emit", "flush"}
Taken == {"probe", "connect", "bounds", "close"} \cup Looping
Visiting == {"turn"} \cup Taken

\* TypeOK, with where each position is used.
TypeInv ==
  /\ TypeOK
  /\ itinerary \in Seq(Visits) /\ tries \in Nat
  /\ pc = "discover" => visit = 1 /\ ~shared /\ csv = NoStep
  /\ pc \in Visiting => visit <= Len(itinerary)
  /\ pc \in Taken => turn <= Len(Order) /\ Turn \in request.backends
  /\ pc \in Looping => reading <= Len(Workload.readings)
  /\ pc \in {"probe", "connect", "bounds"} => reading = 1
  /\ pc = "probe" => Now.workload = "w6"

\* shared_bounds are those of PostgreSQL: none before its turn, and afterwards as the mesh has them.
SharedInv ==
  pc \in Visiting =>
    /\ shared => "postgresql" \in request.backends /\ HasBounds(Now, "postgresql")
    /\ Of(Now, "postgresql").bounds = "skip" /\ (turn # 1 \/ pc \in Looping \cup {"close"})
         /\ "postgresql" \in request.backends /\ HasBounds(Now, "postgresql") => shared

\* What the visits before this one, and the turns before this one, owe the file.
RowsOf(v) == [j \in DOMAIN Order |-> Owed(v, Order[j])]
AllRows == [i \in DOMAIN itinerary |-> FlattenSeq(RowsOf(itinerary[i]))]
Visited == FlattenSeq(SubSeq(AllRows, 1, visit - 1))
Turned == Visited \o FlattenSeq(SubSeq(RowsOf(Now), 1, turn - 1))

\* The rows of a turn that is not cut short.
Full(v, b) == [i \in DOMAIN Of(v, b).readings |-> RowOf(v, b, Of(v, b).readings[i])]

\* The file at each point of the run.
RowsInv ==
  /\ pc = "visit" => csv = Visited
  /\ pc \in {"turn", "probe", "connect", "bounds"} => csv = Turned
  /\ pc \in Looping => Owed(Now, Turn) = Full(Now, Turn) /\ csv = Turned \o SubSeq(Full(Now, Turn), 1, reading - 1)
  /\ pc = "flush" => row = RowOf(Now, Turn, Reading)
  /\ pc = "close" => csv = Turned \o Owed(Now, Turn)
  /\ pc = "done" => csv = WholeResult
  /\ pc \in {"failed", "killed"} => csv = NoStep \/ IsPrefix(csv, WholeResult)

\* A run that is taken for a success has ended as one, and so has one whose result is complete.
OutcomeInv ==
  /\ status = "succeeded" => pc = "done"
  /\ seen = "succeeded" => pc = "done"
  /\ served # NoStep => served.partial \/ (pc = "done" /\ served.rows = csv)

-----------------------------------------------------------------------------
(* The workloads and the backends.                                         *)

LEMMA OrderFacts ==
  /\ Order \in Seq(Backends) /\ Len(Order) = 4 /\ DOMAIN Order = 1..4
  /\ Backends = {"postgresql", "iotdb", "tiledb", "vtk"}
  /\ Order[1] = "postgresql" /\ \A j \in 1..4 : Order[j] \in Backends /\ (Order[j] = "postgresql" <=> j = 1)
<1>1. Order = <<"postgresql", "iotdb", "tiledb", "vtk">>
  BY DEF Order
<1>2. Len(Order) = 4 /\ DOMAIN Order = 1..4 /\ Order[1] = "postgresql" /\ Order[2] = "iotdb" /\ Order[3] = "tiledb" /\ Order[4] = "vtk"
  BY <1>1
<1>3. \A b : b \in Backends <=> \E j \in 1..4 : b = Order[j]
  BY <1>2 DEF Backends, Range
<1>4. \A j \in 1..4 : j = 1 \/ j = 2 \/ j = 3 \/ j = 4
  OBVIOUS
<1> HIDE DEF Order
<1>5. \A b : b \in Backends <=> b \in {"postgresql", "iotdb", "tiledb", "vtk"}
  BY <1>2, <1>3, <1>4
<1>6. Order \in Seq(Backends)
  BY <1>1, <1>5
<1>7. \A j \in 1..4 : Order[j] \in Backends /\ (Order[j] = "postgresql" <=> j = 1)
  BY <1>2, <1>3, <1>4
<1>8. QED
  BY <1>2, <1>5, <1>6, <1>7

\* The readings of each workload, and what it does without bounds.
LEMMA OfIs ==
  ASSUME NEW v, NEW b
  PROVE  /\ v.workload = "w1" => Of(v, b) = W1
         /\ v.workload = "w2" => Of(v, b) = W2
         /\ v.workload = "w3" => Of(v, b) = W3
         /\ v.workload = "w4" => Of(v, b) = W4
         /\ v.workload = "w5" => Of(v, b) = W5
         /\ v.workload = "w6" => Of(v, b) = W6(v, b)
         /\ v.workload = "w7" => Of(v, b) = W7
         /\ v.workload = "w8" => Of(v, b) = W8
         /\ v.workload = "w9" => Of(v, b) = W9
         /\ v.workload = "w10" => Of(v, b) = W10
         /\ v.workload = "w11" => Of(v, b) = W11
  BY DEF Of

LEMMA OfFacts ==
  ASSUME NEW v, v.workload \in WorkloadNames, NEW b
  PROVE  /\ \E n \in {1, 3} : DOMAIN Of(v, b).readings = 1..n /\ Len(Of(v, b).readings) = n
         /\ Of(v, b).bounds = "skip" <=> v.workload \in {"w1", "w2", "w4", "w5", "w7"}
         /\ Of(v, b).bounds \in {"skip", "diffs", "raise", "unused"}
         /\ v.workload = "w6" => Of(v, b).bounds = "unused"
<1>1. CASE v.workload = "w6"
  <2> DEFINE r == CASE ~Probes(v, b) \/ b = "vtk" -> W6Surface
                    [] b = "postgresql" -> W6PgNative
                    [] b = "iotdb" -> W6IotdbNative
                    [] b = "tiledb" -> IF request.engine = "vtk" THEN W6Surface ELSE W6TiledbNative
             g == ~Probes(v, b) \/ b = "tiledb"
  <2>1. Of(v, b) = [bounds |-> "unused", geom |-> g, readings |-> <<r>>]
    BY <1>1, OfIs, Zenon DEF W6
  <2> HIDE DEF r, g
  <2>2. Of(v, b).readings = <<r>> /\ Of(v, b).bounds = "unused"
    BY <2>1
  <2>3. QED
    BY <1>1, <2>2
<1>2. CASE v.workload = "w1"
  BY <1>2, OfIs DEF W1
<1>3. CASE v.workload \in {"w2", "w4", "w5", "w7"}
  BY <1>3, OfIs DEF W2, W4, W5, W7
<1>4. CASE v.workload \in {"w3", "w8", "w9", "w10", "w11"}
  BY <1>4, OfIs DEF W3, W8, W9, W10, W11
<1>5. QED
  BY <1>1, <1>2, <1>3, <1>4 DEF WorkloadNames

\* A request and what the backends hold do not change once the steps are known.
LEMMA ProbesKept ==
  ASSUME UNCHANGED given, NEW v, NEW b PROVE Probes(v, b)' = Probes(v, b)
  BY DEF Probes, given

LEMMA OfKept ==
  ASSUME UNCHANGED given, NEW v, NEW b PROVE Of(v, b)' = Of(v, b)
  BY ProbesKept DEF Of, W6, given

LEMMA BoundsKept ==
  ASSUME UNCHANGED given, NEW v, NEW b PROVE HasBounds(v, b)' = HasBounds(v, b)
  BY OfKept DEF HasBounds, Geometry, given

LEMMA OwedKept ==
  ASSUME UNCHANGED given, NEW v, NEW b PROVE Owed(v, b)' = Owed(v, b) /\ Full(v, b)' = Full(v, b)
  BY OfKept, BoundsKept DEF Owed, Full, given

LEMMA RowsKept ==
  ASSUME UNCHANGED given PROVE AllRows' = AllRows /\ WholeResult' = WholeResult /\ \A v : RowsOf(v)' = RowsOf(v)
  BY OwedKept DEF AllRows, RowsOf, WholeResult, given

LEMMA TurnedKept ==
  ASSUME UNCHANGED given, UNCHANGED <<visit, turn>>
  PROVE  Visited' = Visited /\ Turned' = Turned /\ Now' = Now /\ Turn' = Turn /\ Workload' = Workload
         /\ Owed(Now, Turn)' = Owed(Now, Turn) /\ Full(Now, Turn)' = Full(Now, Turn)
<1>1. Now' = Now /\ Turn' = Turn
  BY DEF Now, Turn, given
<1>2. Visited' = Visited
  BY RowsKept DEF Visited
<1>3. Turned' = Turned
  BY <1>1, <1>2, RowsKept DEF Turned
<1>4. QED
  BY <1>1, <1>2, <1>3, OfKept, OwedKept DEF Workload

-----------------------------------------------------------------------------
(* The itinerary.                                                          *)

LEMMA ValidStepsType ==
  ASSUME TypeOK, NEW s \in Ships
  PROVE  ValidSteps(s) \in Seq(Steps)
<1> DEFINE source == IF request.steps # NoStep THEN request.steps
                     ELSE IF found[s] # NoStep THEN found[s] ELSE DefaultSteps
           Left(x) == IF s \in ShortShips /\ x = LongStep THEN <<>> ELSE <<x>>
<1>1. source \in Seq(Steps)
  <2>1. request.steps \in Seq(Steps) \cup {NoStep} /\ DefaultSteps \in Seq(Steps)
    BY RequestAssumption, StepAssumption DEF TypeOK
  <2>2. found[s] \in Seq(Steps) \cup {NoStep}
    <3>1. found[s] \in {NoStep} \cup {world[b][t].steps : b \in Backends, t \in Ships}
      BY DEF TypeOK
    <3>2. \A b \in Backends, t \in Ships : world[b][t].steps \in Seq(Steps) \cup {NoStep}
      BY WorldAssumption DEF TypeOK
    <3>3. QED
      BY <3>1, <3>2
  <2>3. QED
    BY <2>1, <2>2
<1>2. ValidSteps(s) = FlattenSeq([i \in DOMAIN source |-> Left(source[i])])
  BY Zenon DEF ValidSteps
<1> HIDE DEF source
<1>3. [i \in DOMAIN source |-> Left(source[i])] \in Seq(Seq(Steps))
  <2>1. \A i \in 1..Len(source) : Left(source[i]) \in Seq(Steps)
    BY <1>1
  <2>2. DOMAIN source = 1..Len(source) /\ Len(source) \in Nat
    BY <1>1
  <2> HIDE DEF Left
  <2>3. QED
    BY <2>1, <2>2
<1>4. QED
  BY <1>2, <1>3, FlattenInSeq

LEMMA VisitsOfType ==
  ASSUME TypeOK, NEW w \in WorkloadNames, NEW s \in Ships
  PROVE  VisitsOf(w, s) \in Seq(Visits)
<1> DEFINE steps == ValidSteps(s)
           Visit(x) == [workload |-> w, ship |-> s, step |-> x]
<1>1. steps \in Seq(Steps)
  BY ValidStepsType
<1>2. VisitsOf(w, s) = IF w \in PerShip THEN <<Visit(IF steps = <<>> THEN NoStep ELSE Head(steps))>>
                       ELSE [i \in DOMAIN steps |-> Visit(steps[i])]
  BY Zenon DEF VisitsOf
<1> HIDE DEF steps
<1>3. \A x \in Steps \cup {NoStep} : Visit(x) \in Visits
  BY DEF Visits
<1>4. DOMAIN steps = 1..Len(steps) /\ Len(steps) \in Nat /\ \A i \in 1..Len(steps) : steps[i] \in Steps
  BY <1>1
<1>5. steps # <<>> => Head(steps) \in Steps
  BY <1>1
<1> HIDE DEF Visit
<1>6. [i \in DOMAIN steps |-> Visit(steps[i])] \in Seq(Visits)
  BY <1>3, <1>4
<1>7. <<Visit(IF steps = <<>> THEN NoStep ELSE Head(steps))>> \in Seq(Visits)
  <2>1. Visit(IF steps = <<>> THEN NoStep ELSE Head(steps)) \in Visits
    BY <1>3, <1>5
  <2>2. QED
    BY <2>1
<1>8. QED
  BY <1>2, <1>6, <1>7

LEMMA PlanType ==
  ASSUME TypeOK
  PROVE  Plan \in Seq(Visits)
<1> DEFINE ws == request.workloads
           ss == request.ships
           blocks(i) == [j \in DOMAIN ss |-> VisitsOf(ws[i], ss[j])]
           all == [i \in DOMAIN ws |-> FlattenSeq(blocks(i))]
<1>1. ws \in Seq(WorkloadNames) /\ ss \in Seq(Ships)
  BY RequestAssumption DEF TypeOK
<1>2. Plan = FlattenSeq(all)
  BY DEF Plan
<1> HIDE DEF ws, ss
<1>3. DOMAIN ws = 1..Len(ws) /\ Len(ws) \in Nat /\ DOMAIN ss = 1..Len(ss) /\ Len(ss) \in Nat
  BY <1>1
<1>4. ASSUME NEW i \in 1..Len(ws) PROVE FlattenSeq(blocks(i)) \in Seq(Visits)
  <2>1. \A j \in 1..Len(ss) : VisitsOf(ws[i], ss[j]) \in Seq(Visits)
    BY <1>1, VisitsOfType
  <2>2. blocks(i) \in Seq(Seq(Visits))
    BY <1>3, <2>1
  <2> HIDE DEF blocks
  <2>3. QED
    BY <2>2, FlattenInSeq
<1>5. all \in Seq(Seq(Visits))
  <2> HIDE DEF blocks
  <2>1. QED
    BY <1>3, <1>4
<1>6. QED
  BY <1>2, <1>5, FlattenInSeq

-----------------------------------------------------------------------------
(* Positions.                                                              *)

LEMMA InVisit ==
  ASSUME TypeInv, pc \in Visiting
  PROVE  visit \in 1..Len(itinerary) /\ Len(itinerary) \in Nat /\ Now \in Visits /\ Now.workload \in WorkloadNames
<1>1. itinerary \in Seq(Visits) /\ Len(itinerary) \in Nat /\ visit \in 1..(Len(itinerary) + 1) /\ visit <= Len(itinerary)
  BY DEF TypeInv, TypeOK
<1>2. Now \in Visits
  BY <1>1 DEF Now
<1>3. QED
  BY <1>1, <1>2 DEF Visits

LEMMA InTurn ==
  ASSUME TypeInv, pc \in Taken
  PROVE  /\ turn \in 1..4 /\ Turn \in Backends /\ Turn \in request.backends
         /\ \E n \in {1, 3} : DOMAIN Workload.readings = 1..n /\ Len(Workload.readings) = n
<1>1. turn \in 1..4 /\ Turn \in request.backends
  BY OrderFacts DEF TypeInv, TypeOK
<1>2. Turn \in Backends
  BY <1>1, OrderFacts DEF Turn
<1>3. Now.workload \in WorkloadNames
  BY InVisit DEF Visiting
<1>4. QED
  BY <1>1, <1>2, <1>3, OfFacts DEF Workload

\* The steps of a run that leave the request, the backends' data and the itinerary alone.
Rests == /\ UNCHANGED given
         /\ UNCHANGED <<visit, turn>>

LEMMA TypeKept ==
  ASSUME TypeInv, Rests,
         pc' \in Phases, reading' \in 1..3, zone' \in Nat \ {0}, shared' \in BOOLEAN, limit' \in BOOLEAN,
         tries' \in Nat, tries' < Tries, left' \in 0..Duration,
         \A c \in open' : c.backend \in Backends /\ c.use \in {"data", "zone", "geometry"},
         status' \in Statuses, seen' \in Statuses \cup {NoStep},
         pc' = "discover" => pc = "discover" /\ shared' = shared /\ csv' = csv,
         pc' \in Visiting => visit <= Len(itinerary),
         pc' \in Taken => turn <= Len(Order) /\ Turn \in request.backends,
         pc' \in Looping => reading' <= Len(Workload.readings),
         pc' \in {"probe", "connect", "bounds"} => reading' = 1,
         pc' = "probe" => Now.workload = "w6"
  PROVE  TypeInv'
<1>1. /\ request' = request /\ world' = world /\ found' = found /\ itinerary' = itinerary
      /\ visit' = visit /\ turn' = turn
  BY DEF Rests, given
<1>2. Turn' = Turn /\ Workload' = Workload /\ Now' = Now
  BY TurnedKept DEF Rests
<1>3. TypeOK'
  BY <1>1 DEF TypeInv, TypeOK
<1>4. QED
  BY <1>1, <1>2, <1>3 DEF TypeInv

LEMMA InitBenchmark == Init => TypeInv /\ SharedInv /\ RowsInv /\ OutcomeInv
<1> SUFFICES ASSUME Init PROVE TypeInv /\ SharedInv /\ RowsInv /\ OutcomeInv
  OBVIOUS
<1>1. Len(itinerary) = 0 /\ itinerary \in Seq(Visits) /\ Len(Order) = 4
  BY OrderFacts DEF Init
<1>2. TypeOK
  <2>1. tries < Tries /\ left \in 0..Duration
    BY StepAssumption DEF Init
  <2>2. found \in [Ships -> {NoStep} \cup {world[b][s].steps : b \in Backends, s \in Ships}]
    <3> DEFINE all == {NoStep} \cup {world[b][s].steps : b \in Backends, s \in Ships}
    <3>1. NoStep \in all
      OBVIOUS
    <3> HIDE DEF all
    <3>2. found \in [Ships -> all]
      BY <3>1 DEF Init
    <3>3. QED
      BY <3>2 DEF all
  <2>3. shared \in BOOLEAN /\ limit \in BOOLEAN
    BY Zenon DEF Init
  <2>4. /\ request \in Requests /\ world \in Worlds /\ pc = "discover" /\ visit = 1 /\ turn = 1 /\ reading = 1 /\ zone = 1
        /\ open = {} /\ status = "running" /\ seen = NoStep
    BY DEF Init
  <2>5. QED
    BY <1>1, <2>1, <2>2, <2>3, <2>4 DEF TypeOK, Phases, Statuses
<1>3. TypeInv
  <2>1. pc = "discover" /\ visit = 1 /\ ~shared /\ csv = NoStep /\ tries \in Nat
    BY DEF Init
  <2>2. pc \notin Visiting /\ pc \notin Taken /\ pc \notin Looping /\ pc \notin {"probe", "connect", "bounds"}
    BY <2>1 DEF Visiting, Taken, Looping
  <2>3. QED
    BY <1>1, <1>2, <2>1, <2>2 DEF TypeInv
<1>4. SharedInv /\ RowsInv /\ OutcomeInv
  <2>1. pc = "discover" /\ status = "running" /\ seen = NoStep /\ served = NoStep
    BY DEF Init
  <2>2. pc \notin Visiting /\ pc \notin Looping
    BY <2>1 DEF Visiting, Taken, Looping
  <2>3. SharedInv
    BY <2>2, Zenon DEF SharedInv
  <2>4. RowsInv
    BY <2>1, <2>2 DEF RowsInv
  <2>5. NoStep # "succeeded"
    BY StepAssumption
  <2>6. QED
    BY <2>1, <2>3, <2>4, <2>5 DEF OutcomeInv
<1>5. QED
  BY <1>3, <1>4

LEMMA DiscoverTypes ==
  ASSUME TypeInv, Discover \/ CreateCsv
  PROVE  TypeInv'
<1>1. CASE Discover
  <2>1. /\ pc = "discover" /\ turn \in 1..4 /\ turn' = turn + 1
        /\ UNCHANGED <<request, world, itinerary, pc, visit, reading, zone, shared, clock, open, row, csv, endpoint>>
    BY <1>1, OrderFacts DEF Discover, TypeInv, TypeOK
  <2>2. /\ request' = request /\ world' = world /\ itinerary' = itinerary /\ pc' = pc /\ visit' = visit
        /\ reading' = reading /\ zone' = zone /\ shared' = shared /\ limit' = limit /\ tries' = tries
        /\ left' = left /\ open' = open /\ csv' = csv /\ status' = status /\ seen' = seen
    BY <2>1 DEF clock, endpoint
  <2>3. found' \in [Ships -> {NoStep} \cup {world[b][s].steps : b \in Backends, s \in Ships}]
    <3> DEFINE all == {NoStep} \cup {world[b][s].steps : b \in Backends, s \in Ships}
    <3>1. found \in [Ships -> all]
      BY DEF TypeInv, TypeOK
    <3>2. \A s \in Ships : world[Turn][s].steps \in all
      BY <2>1, OrderFacts DEF Turn
    <3>3. found' = found \/ found' = [s \in Ships |-> IF found[s] = NoStep THEN world[Turn][s].steps ELSE found[s]]
      BY <1>1 DEF Discover
    <3> HIDE DEF all
    <3>4. found' \in [Ships -> all]
      BY <3>1, <3>2, <3>3
    <3>5. QED
      BY <3>4 DEF all
  <2>4. turn' \in 1..(Len(Order) + 1)
    BY <2>1, OrderFacts
  <2>5. TypeOK'
    BY <2>2, <2>3, <2>4 DEF TypeInv, TypeOK
  <2>6. QED
    BY <2>1, <2>2, <2>5 DEF TypeInv, Visiting, Taken, Looping
<1>2. CASE CreateCsv
  <2>1. /\ pc = "discover" /\ pc' = "visit" /\ itinerary' = Plan
        /\ request' = request /\ world' = world /\ found' = found /\ visit' = visit /\ turn' = turn
        /\ reading' = reading /\ zone' = zone /\ shared' = shared /\ limit' = limit /\ tries' = tries
        /\ left' = left /\ open' = open /\ status' = status /\ seen' = seen
    BY <1>2 DEF CreateCsv, at, clock, endpoint
  <2>2. Plan \in Seq(Visits) /\ Len(Plan) \in Nat
    BY PlanType DEF TypeInv
  <2>3. visit' \in 1..(Len(itinerary') + 1)
    BY <2>1, <2>2 DEF TypeInv
  <2>4. TypeOK'
    BY <2>1, <2>3 DEF TypeInv, TypeOK, Phases
  <2>5. QED
    BY <2>1, <2>2, <2>4 DEF TypeInv, Visiting, Taken, Looping
<1>3. QED
  BY <1>1, <1>2

LEMMA TurnTypes ==
  ASSUME TypeInv, EnterVisit \/ NextTurn \/ Close
  PROVE  TypeInv'
<1>1. CASE EnterVisit
  <2>1. /\ pc = "visit" /\ visit <= Len(itinerary) /\ turn' = 1 /\ shared' \in BOOLEAN /\ pc' = "turn"
        /\ request' = request /\ world' = world /\ found' = found /\ itinerary' = itinerary /\ visit' = visit
        /\ reading' = reading /\ zone' = zone /\ limit' = limit /\ tries' = tries
        /\ left' = left /\ open' = open /\ status' = status /\ seen' = seen
    BY <1>1 DEF EnterVisit, given, clock, endpoint, SharedAtEntry
  <2>2. turn' \in 1..(Len(Order) + 1)
    BY <2>1, OrderFacts
  <2>3. TypeOK'
    BY <2>1, <2>2 DEF TypeInv, TypeOK, Phases
  <2>4. QED
    BY <2>1, <2>3 DEF TypeInv, Visiting, Taken, Looping
<1>2. CASE NextTurn
  <2>1. /\ pc = "turn" /\ reading' = 1 /\ zone' = 1
        /\ request' = request /\ world' = world /\ found' = found /\ itinerary' = itinerary
        /\ shared' = shared /\ limit' = limit /\ tries' = tries
        /\ left' = left /\ open' = open /\ status' = status /\ seen' = seen
    BY <1>2 DEF NextTurn, given, clock, endpoint
  <2>2. \/ turn > Len(Order) /\ visit' = visit + 1 /\ pc' = "visit" /\ turn' = turn
        \/ turn <= Len(Order) /\ turn' = turn + 1 /\ visit' = visit /\ pc' = "turn"
        \/ turn <= Len(Order) /\ Turn \in request.backends /\ pc' \in {"probe", "connect"} /\ visit' = visit /\ turn' = turn
    BY <1>2, <2>1 DEF NextTurn
  <2>3. visit \in 1..Len(itinerary) /\ Len(itinerary) \in Nat
    BY <2>1, InVisit DEF Visiting
  <2>4. turn \in 1..5 /\ turn' \in 1..(Len(Order) + 1) /\ visit' \in 1..(Len(itinerary) + 1)
    BY <2>2, <2>3, OrderFacts DEF TypeInv, TypeOK
  <2>5. TypeOK'
    BY <2>1, <2>2, <2>4 DEF TypeInv, TypeOK, Phases
  <2>6. pc' \in Taken => turn' <= Len(Order) /\ Turn' \in request'.backends
    BY <2>1, <2>2 DEF Taken, Looping, Turn
  <2>7. pc' \in Visiting => visit' <= Len(itinerary')
    BY <2>1, <2>2, <2>3 DEF Visiting, Taken, Looping
  <2>8. pc' = "probe" => Now'.workload = "w6"
    <3>1. pc' = "probe" => Probes(Now, Turn) /\ visit' = visit
      BY <1>2, <2>1 DEF NextTurn
    <3>2. QED
      BY <2>1, <3>1 DEF Probes, Now
  <2>9. QED
    BY <2>1, <2>2, <2>5, <2>6, <2>7, <2>8 DEF TypeInv, Looping
<1>3. CASE Close
  <2>1. /\ pc = "close" /\ turn' = turn + 1 /\ pc' = "turn"
        /\ request' = request /\ world' = world /\ found' = found /\ itinerary' = itinerary
        /\ visit' = visit /\ reading' = reading /\ zone' = zone /\ shared' = shared /\ limit' = limit
        /\ tries' = tries /\ left' = left /\ open' \subseteq open /\ status' = status /\ seen' = seen
    BY <1>3 DEF Close, given, clock, endpoint
  <2>2. turn' \in 1..(Len(Order) + 1)
    BY <2>1, InTurn, OrderFacts DEF Taken
  <2>3. TypeOK'
    BY <2>1, <2>2 DEF TypeInv, TypeOK, Phases
  <2>4. visit <= Len(itinerary)
    BY <2>1 DEF TypeInv, Visiting, Taken
  <2>5. QED
    BY <2>1, <2>3, <2>4 DEF TypeInv, Visiting, Taken, Looping
<1>4. QED
  BY <1>1, <1>2, <1>3

LEMMA LoopTypes ==
  ASSUME TypeInv, Connect \/ FindBounds \/ ProbeZone \/ Tick \/ Loop \/ SearchHits
                  \/ SearchMisses \/ SearchTimesOut \/ Query \/ Emit \/ Flush
  PROVE  TypeInv'
<1>1. pc \in Taken => turn <= Len(Order) /\ Turn \in request.backends /\ visit <= Len(itinerary) /\ 1 <= Len(Workload.readings)
  <2> SUFFICES ASSUME pc \in Taken
               PROVE  turn <= Len(Order) /\ Turn \in request.backends /\ visit <= Len(itinerary) /\ 1 <= Len(Workload.readings)
    OBVIOUS
  <2>1. turn <= Len(Order) /\ Turn \in request.backends /\ Len(Workload.readings) \in {1, 3}
    BY InTurn DEF TypeInv
  <2>2. visit <= Len(itinerary)
    <3>1. visit \in 1..Len(itinerary) /\ Len(itinerary) \in Nat
      BY InVisit DEF Visiting
    <3>2. QED
      BY <3>1
  <2>3. \A n : n \in {1, 3} => 1 <= n
    OBVIOUS
  <2>4. QED
    BY <2>1, <2>2, <2>3, Zenon
<1>2. Duration \in Nat \ {0} /\ Tries \in Nat \ {0} /\ 1 \in 1..3
  BY StepAssumption
<1>3. pc \in Taken => Turn \in Backends
  BY InTurn
<1>4. \A v, b : Data(b) = [backend |-> b, use |-> "data"]
                /\ \A c \in Geom(v, b) : c.backend = b /\ c.use = "geometry"
  BY DEF Data, Geom
<1>5. CASE Connect
  <2>1. /\ pc = "connect" /\ pc' = "bounds" /\ open' = open \cup {Data(Turn)} \cup Geom(Now, Turn)
        /\ Rests /\ reading' = reading /\ zone' = zone /\ shared' = shared
        /\ limit' = limit /\ tries' = tries /\ left' = left /\ csv' = csv /\ status' = status /\ seen' = seen
    BY <1>5 DEF Connect, Rests, at, clock, endpoint
  <2>2. pc \in Taken /\ reading = 1
    BY <2>1 DEF Taken, TypeInv
  <2>3. \A c \in open' : c.backend \in Backends /\ c.use \in {"data", "zone", "geometry"}
    BY <1>3, <1>4, <2>1, <2>2 DEF TypeInv, TypeOK
  <2>4. pc' \in Phases /\ pc' \notin Looping /\ pc' # "discover"
    BY <2>1 DEF Phases, Looping
  <2>5. QED
    BY <1>1, <1>2, <2>1, <2>2, <2>3, <2>4, TypeKept DEF TypeInv, TypeOK
<1>6. CASE FindBounds
  <2>1. /\ pc = "bounds" /\ pc' \in {"loop", "failed", "close"} /\ left' \in {left, Duration}
        /\ Rests /\ reading' = reading /\ zone' = zone
        /\ tries' = tries /\ csv' = csv /\ open' = open /\ status' = status /\ seen' = seen
    BY <1>6 DEF FindBounds, Rests, at, clock, endpoint
  <2>2. pc \in Taken /\ reading = 1
    BY <2>1 DEF Taken, TypeInv
  <2>3. shared' \in BOOLEAN /\ limit' \in BOOLEAN
    <3>1. shared' = (shared \/ (Turn = "postgresql" /\ HasBounds(Now, Turn))) /\ limit' \in Limits(Now, Turn)
      BY <1>6, Zenon DEF FindBounds
    <3>2. Limits(Now, Turn) \subseteq BOOLEAN
      BY DEF Limits
    <3>3. QED
      BY <3>1, <3>2, Zenon
  <2>4. pc' \in Phases /\ pc' # "discover" /\ pc' \notin {"probe", "connect", "bounds"}
    BY <2>1 DEF Phases, Ticking
  <2>5. left' \in 0..Duration
    BY <1>2, <2>1 DEF TypeInv, TypeOK
  <2>6. QED
    BY <1>1, <1>2, <2>1, <2>2, <2>3, <2>4, <2>5, TypeKept DEF TypeInv, TypeOK
<1>7. CASE ProbeZone
  <2>1. /\ pc = "probe" /\ pc' \in {"loop", "probe", "failed"} /\ left' \in {left, Duration}
        /\ Rests /\ reading' = reading /\ zone' \in {zone, zone + 1} /\ shared' = shared
        /\ open' \in {open, open \cup {Data(Turn)} \cup Geom(Now, Turn)}
        /\ tries' = tries /\ csv' = csv /\ status' = status /\ seen' = seen
    BY <1>7 DEF ProbeZone, Rests, at, clock, endpoint, AfterProbe
  <2>2. pc \in Taken /\ reading = 1
    BY <2>1 DEF Taken, TypeInv
  <2>3. \A c \in open' : c.backend \in Backends /\ c.use \in {"data", "zone", "geometry"}
    BY <1>3, <1>4, <2>1, <2>2 DEF TypeInv, TypeOK
  <2>4. pc' \in Phases /\ pc' # "discover"
    BY <2>1 DEF Phases, Ticking
  <2>5. left' \in 0..Duration /\ zone' \in Nat \ {0}
    BY <1>2, <2>1 DEF TypeInv, TypeOK
  <2>6. limit' \in BOOLEAN
    BY <1>7, Zenon DEF ProbeZone
  <2>7. QED
    BY <1>1, <1>2, <2>1, <2>2, <2>3, <2>4, <2>5, <2>6, TypeKept DEF TypeInv, TypeOK
<1>8. CASE Tick \/ Loop \/ SearchHits \/ SearchMisses \/ SearchTimesOut \/ Query \/ Emit
  <2>1. /\ pc \in Looping /\ pc' \in Looping /\ Rests /\ reading' = reading /\ zone' = zone /\ shared' = shared
        /\ limit' = limit /\ csv' = csv /\ open' = open /\ status' = status /\ seen' = seen
    BY <1>8 DEF Tick, Loop, SearchHits, SearchMisses, SearchTimesOut, Query, Emit, Looping, Ticking, Rests, at, clock, endpoint
  <2>2. left' \in 0..Duration
    BY <1>2, <1>8 DEF Tick, Loop, SearchHits, SearchMisses, SearchTimesOut, Query, Emit, clock, TypeInv, TypeOK
  <2>3. tries' \in Nat /\ tries' < Tries
    BY <1>2, <1>8 DEF Tick, Loop, SearchHits, SearchMisses, SearchTimesOut, Query, Emit, clock, TypeInv, TypeOK, TriesLeft
  <2>4. pc \in Taken /\ pc' \in Phases /\ pc' # "discover" /\ pc' \notin {"probe", "connect", "bounds"}
    BY <2>1 DEF Looping, Taken, Phases, Ticking
  <2>5. reading <= Len(Workload.readings)
    BY <2>1 DEF TypeInv
  <2>6. QED
    BY <1>1, <1>2, <2>1, <2>2, <2>3, <2>4, <2>5, TypeKept DEF TypeInv, TypeOK
<1>9. CASE Flush
  <2>1. /\ pc = "flush" /\ Rests /\ zone' = zone /\ shared' = shared
        /\ limit' = limit /\ tries' = tries /\ open' = open /\ status' = status /\ seen' = seen
        /\ \/ reading < Len(Workload.readings) /\ reading' = reading + 1 /\ left' = Duration /\ pc' = "loop"
           \/ reading' = reading /\ left' = left /\ pc' = "close"
    BY <1>9 DEF Flush, Rests, at, clock, endpoint
  <2>2. pc \in Taken /\ pc' \in Phases /\ pc' # "discover" /\ pc' \notin {"probe", "connect", "bounds"}
    BY <2>1 DEF Taken, Looping, Phases, Ticking
  <2>3. Len(Workload.readings) \in {1, 3} /\ reading \in 1..3
    BY <2>2, InTurn DEF TypeInv, TypeOK
  <2>4. left' \in 0..Duration
    BY <1>2, <2>1 DEF TypeInv, TypeOK
  <2>5. reading' \in 1..3 /\ (pc' \in Looping => reading' <= Len(Workload.readings))
    <3>1. \A n, r : n \in {1, 3} /\ r \in 1..3 /\ r < n => r + 1 \in 1..3 /\ r + 1 <= n
      OBVIOUS
    <3>2. CASE reading < Len(Workload.readings) /\ reading' = reading + 1
      BY <2>3, <3>1, <3>2
    <3>3. CASE reading' = reading /\ pc' = "close"
      BY <2>3, <3>3 DEF Looping
    <3>4. QED
      BY <2>1, <3>2, <3>3
  <2>6. QED
    BY <1>1, <1>2, <2>1, <2>2, <2>4, <2>5, TypeKept DEF TypeInv, TypeOK
<1>10. QED
  BY <1>5, <1>6, <1>7, <1>8, <1>9

LEMMA OtherTypes ==
  ASSUME TypeInv, NoFirstStep \/ RunDone \/ Raise \/ Kill \/ RecordOutcome \/ ReadJob \/ ReadRows \/ UNCHANGED vars
  PROVE  TypeInv'
<1>1. /\ Rests /\ reading' = reading /\ zone' = zone /\ shared' = shared /\ limit' = limit /\ tries' = tries
      /\ left' = left /\ open' = open /\ csv' = csv /\ (pc' = pc \/ pc' \in {"done", "failed", "killed"})
      /\ status' \in {status, "succeeded", "failed"} /\ seen' \in {seen, status}
  BY DEF NoFirstStep, RunDone, Raise, Kill, RecordOutcome, ReadJob, ReadRows, vars, Rests, at, clock, endpoint
<1>2. pc' \in Phases /\ (pc' = pc \/ (pc' # "discover" /\ pc' \notin Visiting /\ pc' \notin Taken /\ pc' \notin Looping
                                     /\ pc' \notin {"probe", "connect", "bounds"}))
  BY <1>1 DEF Phases, Visiting, Taken, Looping, TypeInv, TypeOK
<1>3. status' \in Statuses /\ seen' \in Statuses \cup {NoStep}
  BY <1>1 DEF TypeInv, TypeOK, Statuses
<1>4. /\ reading' \in 1..3 /\ zone' \in Nat \ {0} /\ shared' \in BOOLEAN /\ limit' \in BOOLEAN
      /\ tries' \in Nat /\ tries' < Tries /\ left' \in 0..Duration
      /\ \A c \in open' : c.backend \in Backends /\ c.use \in {"data", "zone", "geometry"}
  BY <1>1 DEF TypeInv, TypeOK
<1>5. /\ pc' \in Visiting => visit <= Len(itinerary)
      /\ pc' \in Taken => turn <= Len(Order) /\ Turn \in request.backends
      /\ pc' \in Looping => reading' <= Len(Workload.readings)
      /\ pc' \in {"probe", "connect", "bounds"} => reading' = 1
      /\ pc' = "probe" => Now.workload = "w6"
  BY <1>1, <1>2 DEF TypeInv
<1>6. pc' = "discover" => pc = "discover" /\ shared' = shared /\ csv' = csv
  BY <1>1, <1>2
<1>7. QED
  BY <1>1, <1>2, <1>3, <1>4, <1>5, <1>6, TypeKept

LEMMA Cases ==
  ASSUME [Next]_vars
  PROVE  \/ Discover \/ CreateCsv
         \/ EnterVisit \/ NextTurn \/ Close
         \/ Connect \/ FindBounds \/ ProbeZone \/ Tick \/ Loop \/ SearchHits
              \/ SearchMisses \/ SearchTimesOut \/ Query \/ Emit \/ Flush
         \/ NoFirstStep \/ RunDone \/ Raise \/ Kill \/ RecordOutcome \/ ReadJob \/ ReadRows \/ UNCHANGED vars
  BY DEF Next, Runs

LEMMA TypeStep == TypeInv /\ [Next]_vars => TypeInv'
  BY Cases, DiscoverTypes, TurnTypes, LoopTypes, OtherTypes

\* A search makes no more attempts than its bound, the clock of a reading stays within its duration,
\* and the run's positions are of visits, backends and readings there are, for any workloads, any
\* number of datasets and steps and any failures.
THEOREM TypeCorrect == Spec => []TypeOK
<1>1. Init => TypeInv
  BY InitBenchmark
<1>2. TypeInv => TypeOK
  BY DEF TypeInv
<1>3. QED
  BY <1>1, <1>2, TypeStep, PTL DEF Spec

-----------------------------------------------------------------------------
(* The rows.                                                               *)

RowSet == {RowOf(v, b, Of(v, b).readings[i]) : v \in Visits, b \in Backends, i \in 1..3}
Begins(s, whole) == s \in Seq(RowSet) /\ \E t \in Seq(RowSet) : whole = s \o t

LEMMA BeginsAll ==
  ASSUME NEW s \in Seq(RowSet) PROVE Begins(s, s)
<1>1. <<>> \in Seq(RowSet) /\ s = s \o <<>>
  OBVIOUS
<1>2. QED
  BY <1>1 DEF Begins

LEMMA BeginsTransitive ==
  ASSUME NEW a, NEW b, NEW c, Begins(a, b), Begins(b, c)
  PROVE  Begins(a, c)
<1>1. PICK t \in Seq(RowSet) : b = a \o t
  BY DEF Begins
<1>2. PICK u \in Seq(RowSet) : c = b \o u
  BY DEF Begins
<1>3. a \in Seq(RowSet)
  BY DEF Begins
<1>4. c = a \o (t \o u) /\ t \o u \in Seq(RowSet)
  BY <1>1, <1>2, <1>3, ConcatAssociates
<1>5. QED
  BY <1>3, <1>4 DEF Begins

LEMMA BeginsAfter ==
  ASSUME NEW x \in Seq(RowSet), NEW a, NEW b, Begins(a, b)
  PROVE  Begins(x \o a, x \o b)
<1>1. PICK t \in Seq(RowSet) : b = a \o t
  BY DEF Begins
<1>2. a \in Seq(RowSet) /\ x \o a \in Seq(RowSet)
  BY DEF Begins
<1>3. x \o b = (x \o a) \o t
  BY <1>1, <1>2, ConcatAssociates
<1>4. QED
  BY <1>2, <1>3 DEF Begins

LEMMA BeginsPrefix ==
  ASSUME NEW s, NEW whole, Begins(s, whole)
  PROVE  IsPrefix(s, whole)
<1>1. PICK t \in Seq(RowSet) : whole = s \o t
  BY DEF Begins
<1>2. s \in Seq(RowSet)
  BY DEF Begins
<1>3. Len(s) <= Len(whole) /\ SubSeq(s, 1, Len(s)) = SubSeq(whole, 1, Len(s))
  BY <1>1, <1>2
<1>4. QED
  BY <1>3 DEF IsPrefix

\* The first rows of a turn.
LEMMA BeginsSubSeq ==
  ASSUME NEW s \in Seq(RowSet), NEW n \in 0..Len(s)
  PROVE  Begins(SubSeq(s, 1, n), s)
<1> DEFINE f == SubSeq(s, 1, n)
           t == SubSeq(s, n + 1, Len(s))
<1>1. Len(s) \in Nat /\ n \in Nat /\ f \in Seq(RowSet) /\ Len(f) = n /\ \A i \in 1..n : f[i] = s[i]
  BY FirstOf
<1>2. t \in Seq(RowSet) /\ Len(t) = Len(s) - n /\ \A i \in 1..Len(s) - n : t[i] = s[n + i]
  OBVIOUS
<1> HIDE DEF f, t
<1>3. f \o t \in Seq(RowSet) /\ Len(f \o t) = Len(s) /\ \A i \in 1..Len(s) : (f \o t)[i] = IF i <= n THEN f[i] ELSE t[i - n]
  BY <1>1, <1>2
<1>4. ASSUME NEW i \in 1..Len(s) PROVE (f \o t)[i] = s[i]
  <2>1. CASE i <= n
    BY <1>1, <1>3, <2>1
  <2>2. CASE i > n
    <3>1. i - n \in 1..Len(s) - n /\ n + (i - n) = i /\ ~(i <= n)
      BY <1>1, <2>2
    <3>2. (f \o t)[i] = t[i - n]
      BY <1>3, <3>1
    <3>3. t[i - n] = s[n + (i - n)]
      BY <1>2, <3>1
    <3>4. s[n + (i - n)] = s[i]
      BY <3>1
    <3>5. QED
      BY <3>2, <3>3, <3>4
  <2>3. i <= n \/ i > n
    BY <1>1
  <2>4. QED
    BY <2>1, <2>2, <2>3, Zenon
<1>5. s = f \o t
  BY <1>3, <1>4, SameSequence
<1>6. QED
  BY <1>1, <1>5, <1>2 DEF Begins, f

LEMMA FlattenBegins ==
  ASSUME NEW s \in Seq(Seq(RowSet)), NEW n \in 0..Len(s)
  PROVE  Begins(FlattenSeq(SubSeq(s, 1, n)), FlattenSeq(s))
  BY FlattenPrefix, FlattenInSeq DEF Begins

LEMMA FullRows ==
  ASSUME NEW v \in Visits, NEW b \in Backends
  PROVE  /\ Full(v, b) \in Seq(RowSet) /\ Len(Full(v, b)) = Len(Of(v, b).readings)
         /\ Len(Of(v, b).readings) \in {1, 3}
         /\ \A i \in 1..Len(Full(v, b)) : Full(v, b)[i] = RowOf(v, b, Of(v, b).readings[i])
<1>1. PICK n \in {1, 3} : DOMAIN Of(v, b).readings = 1..n /\ Len(Of(v, b).readings) = n
  BY OfFacts DEF Visits
<1>2. Full(v, b) = [i \in 1..n |-> RowOf(v, b, Of(v, b).readings[i])]
  BY <1>1 DEF Full
<1>3. \A i \in 1..n : RowOf(v, b, Of(v, b).readings[i]) \in RowSet
  BY DEF RowSet
<1>4. QED
  BY <1>1, <1>2, <1>3

\* A turn owes all its readings or none.
LEMMA OwedIs ==
  ASSUME NEW v, NEW b
  PROVE  /\ b \notin request.backends => Owed(v, b) = <<>>
         /\ b \in request.backends /\ Of(v, b).bounds = "skip" =>
              Owed(v, b) = IF HasBounds(v, b) \/ ("postgresql" \in request.backends /\ HasBounds(v, "postgresql"))
                             THEN Full(v, b) ELSE <<>>
         /\ b \in request.backends /\ Of(v, b).bounds = "diffs" =>
              Owed(v, b) = IF HasBounds(v, b) /\ world[b][v.ship].diffs THEN Full(v, b) ELSE <<>>
         /\ b \in request.backends /\ Of(v, b).bounds \in {"raise", "unused"} => Owed(v, b) = Full(v, b)
         /\ Owed(v, b) = Full(v, b) \/ Owed(v, b) = <<>>
  BY DEF Owed, Full

LEMMA OwedRows ==
  ASSUME NEW v \in Visits, NEW b \in Backends
  PROVE  Owed(v, b) \in Seq(RowSet)
<1>1. <<>> \in Seq(RowSet)
  OBVIOUS
<1>2. QED
  BY <1>1, OwedIs, FullRows

LEMMA RowsOfVisit ==
  ASSUME NEW v \in Visits
  PROVE  RowsOf(v) \in Seq(Seq(RowSet)) /\ Len(RowsOf(v)) = 4 /\ \A j \in 1..4 : RowsOf(v)[j] = Owed(v, Order[j])
<1>1. RowsOf(v) = [j \in 1..4 |-> Owed(v, Order[j])]
  BY OrderFacts DEF RowsOf
<1>2. \A j \in 1..4 : Owed(v, Order[j]) \in Seq(RowSet)
  BY OrderFacts, OwedRows
<1>3. QED
  BY <1>1, <1>2

LEMMA AllRowsAre ==
  ASSUME TypeInv
  PROVE  /\ AllRows \in Seq(Seq(RowSet)) /\ Len(AllRows) = Len(itinerary) /\ Len(itinerary) \in Nat
         /\ \A i \in 1..Len(itinerary) : AllRows[i] = FlattenSeq(RowsOf(itinerary[i]))
         /\ WholeResult = FlattenSeq(AllRows)
<1>1. DOMAIN itinerary = 1..Len(itinerary) /\ Len(itinerary) \in Nat /\ \A i \in 1..Len(itinerary) : itinerary[i] \in Visits
  BY DEF TypeInv
<1>2. AllRows = [i \in 1..Len(itinerary) |-> FlattenSeq(RowsOf(itinerary[i]))]
  BY <1>1 DEF AllRows
<1>3. \A i \in 1..Len(itinerary) : FlattenSeq(RowsOf(itinerary[i])) \in Seq(RowSet)
  BY <1>1, RowsOfVisit, FlattenInSeq
<1>4. WholeResult = FlattenSeq(AllRows)
  BY DEF WholeResult, AllRows, RowsOf
<1>5. AllRows \in Seq(Seq(RowSet)) /\ Len(AllRows) = Len(itinerary)
  BY <1>1, <1>2, <1>3
<1>6. QED
  BY <1>1, <1>2, <1>4, <1>5

\* What is written when a visit begins.
LEMMA VisitedIs ==
  ASSUME TypeInv
  PROVE  /\ Visited \in Seq(RowSet) /\ Begins(Visited, WholeResult)
         /\ visit = 1 => Visited = <<>>
         /\ visit > Len(itinerary) => Visited = WholeResult
<1>1. visit - 1 \in 0..Len(AllRows) /\ Len(itinerary) \in Nat /\ Len(AllRows) = Len(itinerary)
      /\ visit \in 1..(Len(itinerary) + 1)
  BY AllRowsAre DEF TypeInv, TypeOK
<1>2. Begins(Visited, WholeResult)
  BY <1>1, AllRowsAre, FlattenBegins DEF Visited
<1>3. Visited \in Seq(RowSet)
  BY <1>2 DEF Begins
<1>4. ASSUME visit = 1 PROVE Visited = <<>>
  <2>1. visit - 1 = 0
    BY <1>4
  <2>2. SubSeq(AllRows, 1, visit - 1) = <<>>
    BY <2>1, AllRowsAre, AllOf
  <2>3. QED
    BY <2>2, FlattenEmpty DEF Visited
<1>5. ASSUME visit > Len(itinerary) PROVE Visited = WholeResult
  <2>1. visit - 1 = Len(AllRows)
    BY <1>1, <1>5
  <2>2. SubSeq(AllRows, 1, visit - 1) = AllRows
    BY <2>1, AllRowsAre, AllOf
  <2>3. QED
    BY <2>2, AllRowsAre DEF Visited
<1>6. QED
  BY <1>2, <1>3, <1>4, <1>5

\* What is written when a visit ends.
LEMMA VisitIs ==
  ASSUME TypeInv, pc \in Visiting
  PROVE  LET next == Visited \o FlattenSeq(RowsOf(Now)) IN
         /\ next = FlattenSeq(SubSeq(AllRows, 1, visit)) /\ Begins(next, WholeResult)
         /\ FlattenSeq(RowsOf(Now)) \in Seq(RowSet)
<1>1. visit \in 1..Len(itinerary) /\ Len(itinerary) \in Nat /\ Now \in Visits
  BY InVisit
<1>2. visit \in 0..Len(AllRows) /\ visit - 1 \in Nat /\ visit - 1 < Len(AllRows) /\ visit - 1 + 1 = visit
  BY <1>1, AllRowsAre
<1>3. AllRows[visit] = FlattenSeq(RowsOf(Now))
  BY <1>1, AllRowsAre DEF Now
<1>4. FlattenSeq(SubSeq(AllRows, 1, visit)) = Visited \o FlattenSeq(RowsOf(Now))
  <2>1. AllRows \in Seq(Seq(RowSet))
    BY AllRowsAre
  <2>2. FlattenSeq(SubSeq(AllRows, 1, visit - 1 + 1)) = FlattenSeq(SubSeq(AllRows, 1, visit - 1)) \o AllRows[visit - 1 + 1]
    BY <1>2, <2>1, FlattenStep
  <2>3. QED
    BY <1>2, <1>3, <2>2 DEF Visited
<1>5. Begins(FlattenSeq(SubSeq(AllRows, 1, visit)), WholeResult)
  BY <1>2, AllRowsAre, FlattenBegins
<1>6. FlattenSeq(RowsOf(Now)) \in Seq(RowSet)
  BY <1>1, RowsOfVisit, FlattenInSeq
<1>7. QED
  BY <1>4, <1>5, <1>6

LEMMA TurnedIs ==
  ASSUME TypeInv, pc \in Visiting
  PROVE  /\ Turned \in Seq(RowSet) /\ Begins(Turned, WholeResult)
         /\ turn = 1 => Turned = Visited
         /\ turn > Len(Order) => Turned = Visited \o FlattenSeq(RowsOf(Now))
<1> DEFINE rows == RowsOf(Now)
           before == FlattenSeq(SubSeq(rows, 1, turn - 1))
<1>1. Now \in Visits
  BY InVisit
<1>2. rows \in Seq(Seq(RowSet)) /\ Len(rows) = 4
  BY <1>1, RowsOfVisit
<1>3. turn \in 1..5 /\ turn - 1 \in 0..Len(rows)
  BY <1>2, OrderFacts DEF TypeInv, TypeOK
<1>4. Turned = Visited \o before
  BY DEF Turned
<1>5. Visited \in Seq(RowSet)
  BY VisitedIs
<1> HIDE DEF rows
<1>6. Begins(before, FlattenSeq(rows))
  BY <1>2, <1>3, FlattenBegins
<1>7. Begins(Turned, WholeResult)
  <2>1. Begins(Turned, Visited \o FlattenSeq(rows))
    BY <1>4, <1>5, <1>6, BeginsAfter
  <2>2. Begins(Visited \o FlattenSeq(rows), WholeResult)
    BY VisitIs DEF rows
  <2>3. QED
    BY <2>1, <2>2, BeginsTransitive
<1>8. ASSUME turn = 1 PROVE Turned = Visited
  <2>1. SubSeq(rows, 1, turn - 1) = <<>>
    <3>1. turn - 1 = 0
      BY <1>8
    <3>2. QED
      BY <1>2, <3>1, AllOf
  <2>2. before = <<>>
    BY <2>1, FlattenEmpty
  <2>3. QED
    BY <1>4, <1>5, <2>2
<1>9. ASSUME turn > Len(Order) PROVE before = FlattenSeq(rows)
  <2>1. turn - 1 = Len(rows)
    BY <1>2, <1>3, <1>9, OrderFacts
  <2>2. QED
    BY <1>2, <2>1, AllOf
<1>10. Turned \in Seq(RowSet)
  BY <1>7 DEF Begins
<1>11. QED
  BY <1>4, <1>7, <1>8, <1>9, <1>10 DEF rows

\* What is written when a turn ends, and in its course.
LEMMA TakenIs ==
  ASSUME TypeInv, pc \in Visiting, turn <= Len(Order)
  PROVE  /\ Owed(Now, Turn) \in Seq(RowSet) /\ Now \in Visits /\ Turn \in Backends /\ turn \in 1..4
         /\ Turned \o Owed(Now, Turn) = Visited \o FlattenSeq(SubSeq(RowsOf(Now), 1, turn))
         /\ \A n \in 0..Len(Owed(Now, Turn)) : Begins(Turned \o SubSeq(Owed(Now, Turn), 1, n), WholeResult)
         /\ Begins(Turned \o Owed(Now, Turn), WholeResult)
<1> DEFINE rows == RowsOf(Now)
           owed == Owed(Now, Turn)
           before == FlattenSeq(SubSeq(rows, 1, turn - 1))
           after == FlattenSeq(SubSeq(rows, 1, turn))
<1>1. Now \in Visits /\ turn \in 1..4
  BY InVisit, OrderFacts DEF TypeInv, TypeOK
<1>2. Turn \in Backends
  BY <1>1, OrderFacts DEF Turn
<1>3. owed \in Seq(RowSet)
  BY <1>1, <1>2, OwedRows
<1>4. rows \in Seq(Seq(RowSet)) /\ Len(rows) = 4 /\ rows[turn] = owed
  BY <1>1, RowsOfVisit DEF Turn
<1>5. Turned = Visited \o before
  BY DEF Turned
<1>6. Visited \in Seq(RowSet)
  BY VisitedIs
<1>7. Begins(Visited \o FlattenSeq(rows), WholeResult)
  BY VisitIs
<1> HIDE DEF rows, owed
<1>8. turn - 1 \in Nat /\ turn - 1 < Len(rows) /\ turn - 1 + 1 = turn /\ turn \in 0..Len(rows) /\ turn - 1 \in 0..Len(rows)
  BY <1>1, <1>4
<1>9. after = before \o owed
  <2>1. FlattenSeq(SubSeq(rows, 1, turn - 1 + 1)) = FlattenSeq(SubSeq(rows, 1, turn - 1)) \o rows[turn - 1 + 1]
    BY <1>4, <1>8, FlattenStep
  <2>2. QED
    BY <1>4, <1>8, <2>1
<1>10. before \in Seq(RowSet) /\ Begins(after, FlattenSeq(rows))
  BY <1>4, <1>8, FlattenBegins DEF Begins
<1> HIDE DEF before, after
<1>11. Turned \o owed = Visited \o after
  BY <1>3, <1>5, <1>6, <1>9, <1>10, ConcatAssociates
<1>12. Begins(Turned \o owed, WholeResult)
  <2>1. Begins(Visited \o after, Visited \o FlattenSeq(rows))
    BY <1>6, <1>10, BeginsAfter
  <2>2. QED
    BY <1>7, <1>11, <2>1, BeginsTransitive
<1>13. ASSUME NEW n \in 0..Len(owed) PROVE Begins(Turned \o SubSeq(owed, 1, n), WholeResult)
  <2>1. Begins(SubSeq(owed, 1, n), owed)
    BY <1>3, BeginsSubSeq
  <2>2. Turned \in Seq(RowSet)
    BY TurnedIs
  <2>3. Begins(Turned \o SubSeq(owed, 1, n), Turned \o owed)
    BY <2>1, <2>2, BeginsAfter
  <2>4. QED
    BY <1>12, <2>3, BeginsTransitive
<1>14. QED
  BY <1>1, <1>2, <1>3, <1>11, <1>12, <1>13 DEF rows, owed, after

-----------------------------------------------------------------------------
(* The bounds of PostgreSQL's mesh, shared in a visit.                     *)

\* What a step that stays in its turn keeps.
LEMMA SharedKept ==
  ASSUME TypeInv, SharedInv, Rests, shared' = shared, pc' \in Visiting => pc \in Visiting,
         pc' \in Looping \cup {"close"} => pc \in Looping \cup {"close"} \/ Of(Now, "postgresql").bounds # "skip"
  PROVE  SharedInv'
<1>1. UNCHANGED given /\ turn' = turn /\ request' = request
  BY DEF Rests, given
<1>2. Now' = Now
  BY TurnedKept DEF Rests
<1>3. HasBounds(Now, "postgresql")' = HasBounds(Now, "postgresql") /\ Of(Now, "postgresql")' = Of(Now, "postgresql")
  <2>1. \A v : HasBounds(v, "postgresql")' = HasBounds(v, "postgresql")
    BY <1>1, BoundsKept
  <2>2. \A v : Of(v, "postgresql")' = Of(v, "postgresql")
    BY <1>1, OfKept
  <2>3. QED
    BY <1>2, <2>1, <2>2
<1>4. QED
  BY <1>1, <1>3 DEF SharedInv

LEMMA SharedBounds ==
  ASSUME TypeInv, SharedInv, FindBounds
  PROVE  SharedInv'
<1>1. /\ pc = "bounds" /\ pc \in Visiting /\ pc \in Taken /\ Rests /\ request' = request
      /\ shared' = (shared \/ (Turn = "postgresql" /\ HasBounds(Now, Turn)))
  BY Zenon DEF FindBounds, Rests, given, Visiting, Taken
<1>2. /\ HasBounds(Now, "postgresql")' = HasBounds(Now, "postgresql")
      /\ Of(Now, "postgresql")' = Of(Now, "postgresql") /\ turn' = turn
  <2>1. UNCHANGED given /\ Now' = Now /\ turn' = turn
    BY <1>1, TurnedKept DEF Rests
  <2>2. \A v : HasBounds(v, "postgresql")' = HasBounds(v, "postgresql")
    BY <2>1, BoundsKept
  <2>3. \A v : Of(v, "postgresql")' = Of(v, "postgresql")
    BY <2>1, OfKept
  <2>4. QED
    BY <2>1, <2>2, <2>3
<1>3. Turn \in request.backends /\ (Turn = "postgresql" <=> turn = 1)
  <2>1. turn \in 1..4 /\ Turn \in request.backends
    BY <1>1, InTurn
  <2>2. QED
    BY <2>1, OrderFacts DEF Turn
<1>4. shared' => "postgresql" \in request'.backends /\ HasBounds(Now, "postgresql")'
  <2>1. CASE shared
    BY <1>1, <1>2, <2>1 DEF SharedInv
  <2>2. CASE Turn = "postgresql" /\ HasBounds(Now, Turn)
    BY <1>1, <1>2, <1>3, <2>2
  <2>3. QED
    BY <1>1, <2>1, <2>2, Zenon
<1>5. ASSUME Of(Now, "postgresql").bounds = "skip", "postgresql" \in request.backends, HasBounds(Now, "postgresql")
      PROVE  shared'
  <2>1. CASE turn = 1
    BY <1>1, <1>3, <1>5, <2>1, Zenon
  <2>2. CASE turn # 1
    BY <1>1, <1>5, <2>2 DEF SharedInv
  <2>3. QED
    BY <2>1, <2>2
<1>6. QED
  BY <1>1, <1>2, <1>4, <1>5 DEF SharedInv

LEMMA SharedTurn ==
  ASSUME TypeInv, SharedInv, EnterVisit \/ NextTurn \/ Close
  PROVE  SharedInv'
<1>1. CASE EnterVisit
  <2>1. ~shared' /\ turn' = 1 /\ pc' = "turn"
    BY <1>1, Zenon DEF EnterVisit, SharedAtEntry
  <2>2. pc' \notin Looping \cup {"close"}
    BY <2>1 DEF Looping
  <2>3. QED
    BY <2>1, <2>2 DEF SharedInv
<1>2. ASSUME UNCHANGED given, visit' = visit, shared' = shared, pc \in Visiting,
             turn' # 1 \/ pc' \in Looping \cup {"close"} =>
               turn # 1 \/ pc \in Looping \cup {"close"} \/ "postgresql" \notin request.backends
      PROVE  SharedInv'
  <2>1. Now' = Now /\ request' = request
    BY <1>2 DEF Now, given
  <2>2. \A v : HasBounds(v, "postgresql")' = HasBounds(v, "postgresql")
    BY <1>2, BoundsKept
  <2>3. \A v : Of(v, "postgresql")' = Of(v, "postgresql")
    BY <1>2, OfKept
  <2>4. HasBounds(Now, "postgresql")' = HasBounds(Now, "postgresql") /\ Of(Now, "postgresql")' = Of(Now, "postgresql")
    BY <2>1, <2>2, <2>3
  <2>5. QED
    BY <1>2, <2>1, <2>4 DEF SharedInv
<1>3. CASE NextTurn
  <2>1. pc = "turn" /\ shared' = shared /\ UNCHANGED given
    BY <1>3 DEF NextTurn
  <2>2. CASE turn > Len(Order)
    <3>1. pc' = "visit"
      BY <1>3, <2>2, OrderFacts DEF NextTurn, TypeInv, TypeOK
    <3>2. QED
      BY <3>1 DEF SharedInv, Visiting, Taken, Looping
  <2>3. CASE turn <= Len(Order) /\ Turn \notin request.backends
    <3>1. visit' = visit /\ turn' = turn + 1 /\ turn \in 1..4
      BY <1>3, <2>3, OrderFacts DEF NextTurn, TypeInv, TypeOK
    <3>2. turn # 1 \/ "postgresql" \notin request.backends
      BY <2>3, <3>1, OrderFacts DEF Turn
    <3>3. QED
      BY <1>2, <2>1, <3>1, <3>2 DEF Visiting
  <2>4. CASE turn <= Len(Order) /\ Turn \in request.backends
    <3>1. visit' = visit /\ turn' = turn /\ pc' \in {"probe", "connect"}
      BY <1>3, <2>4, OrderFacts DEF NextTurn, TypeInv, TypeOK
    <3>2. QED
      BY <1>2, <2>1, <3>1 DEF Visiting, Looping
  <2>5. QED
    BY <2>2, <2>3, <2>4, OrderFacts DEF TypeInv, TypeOK
<1>4. CASE Close
  <2>1. pc = "close" /\ UNCHANGED given /\ visit' = visit /\ shared' = shared
    BY <1>4 DEF Close
  <2>2. QED
    BY <1>2, <2>1 DEF Visiting, Taken
<1>5. QED
  BY <1>1, <1>3, <1>4

LEMMA SharedStep == TypeInv /\ SharedInv /\ [Next]_vars => SharedInv'
<1> SUFFICES ASSUME TypeInv, SharedInv, [Next]_vars PROVE SharedInv'
  OBVIOUS
<1>1. CASE Discover \/ CreateCsv
  BY <1>1 DEF Discover, CreateCsv, SharedInv, Visiting, Taken, Looping
<1>2. CASE EnterVisit \/ NextTurn \/ Close
  BY <1>2, SharedTurn
<1>3. CASE FindBounds
  BY <1>3, SharedBounds
<1>4. CASE ProbeZone
  <2>1. Rests /\ shared' = shared /\ pc = "probe"
    BY <1>4 DEF ProbeZone, Rests
  <2>2. Of(Now, "postgresql").bounds # "skip"
    <3>1. Now.workload = "w6" /\ Now.workload \in WorkloadNames
      BY <2>1, InVisit DEF TypeInv, Visiting, Taken
    <3>2. QED
      BY <3>1, OfFacts
  <2>3. QED
    BY <2>1, <2>2, SharedKept DEF Visiting, Taken
<1>5. CASE Connect \/ Tick \/ Loop \/ SearchHits \/ SearchMisses \/ SearchTimesOut \/ Query \/ Emit \/ Flush
  <2>1. Rests /\ shared' = shared /\ pc \in Visiting /\ (pc' \in Looping \cup {"close"} => pc \in Looping)
    BY <1>5 DEF Connect, Tick, Loop, SearchHits, SearchMisses, SearchTimesOut, Query, Emit, Flush, Rests, at,
                Looping, Taken, Visiting, Ticking
  <2>2. QED
    BY <2>1, SharedKept
<1>6. CASE NoFirstStep \/ RunDone \/ Raise \/ Kill \/ RecordOutcome \/ ReadJob \/ ReadRows \/ UNCHANGED vars
  <2>1. Rests /\ shared' = shared /\ (pc' = pc \/ pc' \in {"done", "failed", "killed"})
    BY <1>6 DEF NoFirstStep, RunDone, Raise, Kill, RecordOutcome, ReadJob, ReadRows, vars, Rests, at
  <2>2. QED
    BY <2>1, SharedKept DEF Visiting, Taken, Looping
<1>7. QED
  BY <1>1, <1>2, <1>3, <1>4, <1>5, <1>6, Cases

-----------------------------------------------------------------------------
(* The file.                                                               *)

\* How far the file is in a turn that is taken, and at any moment.
LEMMA ReadingIs ==
  ASSUME TypeInv, pc \in Looping
  PROVE  /\ Full(Now, Turn) \in Seq(RowSet) /\ Len(Full(Now, Turn)) = Len(Workload.readings)
         /\ Len(Full(Now, Turn)) \in Nat /\ reading \in 1..Len(Full(Now, Turn))
         /\ Full(Now, Turn)[reading] = RowOf(Now, Turn, Reading)
<1>1. pc \in Visiting /\ pc \in Taken
  BY DEF Visiting, Taken
<1>2. Now \in Visits /\ Turn \in Backends
  BY <1>1, InVisit, InTurn
<1>3. reading \in 1..3 /\ reading <= Len(Workload.readings)
  BY DEF TypeInv, TypeOK
<1>4. /\ Full(Now, Turn) \in Seq(RowSet) /\ Len(Full(Now, Turn)) = Len(Workload.readings)
      /\ Len(Workload.readings) \in {1, 3}
      /\ \A i \in 1..Len(Full(Now, Turn)) : Full(Now, Turn)[i] = RowOf(Now, Turn, Workload.readings[i])
  BY <1>2, FullRows DEF Workload
<1>5. \A n, r : n \in {1, 3} /\ r \in 1..3 /\ r <= n => n \in Nat /\ r \in 1..n
  OBVIOUS
<1>6. reading \in 1..Len(Full(Now, Turn)) /\ Len(Full(Now, Turn)) \in Nat
  BY <1>3, <1>4, <1>5, Zenon
<1>7. QED
  BY <1>4, <1>6 DEF Reading

LEMMA WholeIs ==
  ASSUME TypeInv
  PROVE  WholeResult \in Seq(RowSet) /\ IsPrefix(WholeResult, WholeResult)
<1>1. WholeResult \in Seq(RowSet)
  BY AllRowsAre, FlattenInSeq
<1>2. QED
  BY <1>1, BeginsAll, BeginsPrefix

LEMMA FileBegins ==
  ASSUME TypeInv, RowsInv
  PROVE  csv = NoStep \/ IsPrefix(csv, WholeResult)
<1>1. CASE pc = "discover"
  BY <1>1 DEF TypeInv
<1>2. CASE pc = "visit"
  BY <1>2, VisitedIs, BeginsPrefix DEF RowsInv
<1>3. CASE pc \in {"turn", "probe", "connect", "bounds"}
  BY <1>3, TurnedIs, BeginsPrefix DEF RowsInv, Visiting, Taken
<1>4. CASE pc \in Looping
  <2>1. pc \in Visiting /\ pc \in Taken
    BY <1>4 DEF Visiting, Taken
  <2>2. turn <= Len(Order)
    BY <2>1 DEF TypeInv
  <2>3. /\ csv = Turned \o SubSeq(Owed(Now, Turn), 1, reading - 1)
        /\ Len(Owed(Now, Turn)) \in Nat /\ reading \in 1..Len(Owed(Now, Turn))
    BY <1>4, ReadingIs DEF RowsInv
  <2>4. reading - 1 \in 0..Len(Owed(Now, Turn))
    BY <2>3
  <2>5. Begins(csv, WholeResult)
    BY <2>1, <2>2, <2>3, <2>4, TakenIs
  <2>6. QED
    BY <2>5, BeginsPrefix
<1>5. CASE pc = "close"
  <2>1. pc \in Visiting /\ pc \in Taken
    BY <1>5 DEF Visiting, Taken
  <2>2. turn <= Len(Order)
    BY <2>1 DEF TypeInv
  <2>3. Begins(csv, WholeResult)
    BY <1>5, <2>1, <2>2, TakenIs DEF RowsInv
  <2>4. QED
    BY <2>3, BeginsPrefix
<1>6. CASE pc = "done"
  BY <1>6, WholeIs DEF RowsInv
<1>7. CASE pc \in {"failed", "killed"}
  BY <1>7 DEF RowsInv
<1>8. QED
  BY <1>1, <1>2, <1>3, <1>4, <1>5, <1>6, <1>7 DEF TypeInv, TypeOK, Phases, Ticking, Looping

\* A run that stops leaves what it has written.
LEMMA RowsStop ==
  ASSUME TypeInv, RowsInv, UNCHANGED given, csv' = csv, pc' \in {"failed", "killed"}
  PROVE  RowsInv'
<1>1. csv' = NoStep \/ IsPrefix(csv', WholeResult')
  BY FileBegins, RowsKept
<1>2. QED
  BY <1>1 DEF RowsInv, Looping

\* A step within a turn that writes nothing.
LEMMA RowsStay ==
  ASSUME TypeInv, RowsInv, Rests, csv' = csv,
         \/ pc' = pc /\ reading' = reading /\ row' = row
         \/ pc' \in {"probe", "connect", "bounds"} /\ pc \in {"turn", "probe", "connect", "bounds"}
         \/ pc' \in Looping \ {"flush"} /\ pc \in Looping /\ reading' = reading
  PROVE  RowsInv'
<1>1. /\ Visited' = Visited /\ Turned' = Turned /\ Now' = Now /\ Turn' = Turn /\ Workload' = Workload
      /\ Owed(Now, Turn)' = Owed(Now, Turn) /\ Full(Now, Turn)' = Full(Now, Turn)
  BY TurnedKept DEF Rests
<1>2. WholeResult' = WholeResult
  BY RowsKept DEF Rests
<1>3. reading' = reading => RowOf(Now, Turn, Reading)' = RowOf(Now, Turn, Reading)
  BY <1>1 DEF Reading, RowOf
<1>4. CASE pc' = pc /\ reading' = reading /\ row' = row
  BY <1>1, <1>2, <1>3, <1>4 DEF RowsInv
<1>5. CASE pc' \in {"probe", "connect", "bounds"} /\ pc \in {"turn", "probe", "connect", "bounds"}
  BY <1>1, <1>5 DEF RowsInv, Looping
<1>6. CASE pc' \in Looping \ {"flush"} /\ pc \in Looping /\ reading' = reading
  BY <1>1, <1>6 DEF RowsInv, Looping
<1>7. QED
  BY <1>4, <1>5, <1>6

LEMMA FirstVisit == TypeInv /\ visit = 1 => Visited = <<>>
  BY VisitedIs

LEMMA CreateRows ==
  ASSUME TypeInv, TypeInv', RowsInv, Discover \/ CreateCsv
  PROVE  RowsInv'
<1>1. CASE Discover
  BY <1>1 DEF Discover, RowsInv, Looping
<1>2. CASE CreateCsv
  <2>1. pc' = "visit" /\ visit' = 1 /\ csv' = <<>>
    BY <1>2 DEF CreateCsv, at, TypeInv
  <2>2. (TypeInv /\ visit = 1 => Visited = <<>>)'
    BY FirstVisit, PTL
  <2>3. Visited' = <<>>
    BY <2>1, <2>2
  <2>4. QED
    BY <2>1, <2>3 DEF RowsInv, Looping
<1>3. QED
  BY <1>1, <1>2

LEMMA EnterRows ==
  ASSUME TypeInv, RowsInv, EnterVisit
  PROVE  RowsInv'
<1>1. /\ pc = "visit" /\ visit <= Len(itinerary) /\ turn' = 1 /\ pc' = "turn" /\ visit' = visit /\ csv' = csv
      /\ UNCHANGED given
  BY DEF EnterVisit
<1>2. Now' = Now /\ AllRows' = AllRows /\ \A v : RowsOf(v)' = RowsOf(v)
  BY <1>1, RowsKept DEF Now, given
<1>3. itinerary \in Seq(Visits) /\ Len(itinerary) \in Nat /\ visit \in 1..(Len(itinerary) + 1)
  BY DEF TypeInv, TypeOK
<1>4. Now \in Visits
  BY <1>1, <1>3 DEF Now
<1>5. SubSeq(RowsOf(Now), 1, 0) = <<>>
  BY <1>4, RowsOfVisit, AllOf
<1>6. Visited' = Visited
  BY <1>1, <1>2 DEF Visited
<1>7. Turned' = Visited \o <<>>
  <2>1. turn' - 1 = 0
    BY <1>1
  <2>2. Turned' = Visited \o FlattenSeq(SubSeq(RowsOf(Now), 1, turn' - 1))
    BY <1>1, <1>2, <1>6 DEF Turned
  <2>3. QED
    BY <1>5, <2>1, <2>2, FlattenEmpty
<1>8. Turned' = Visited
  BY <1>7, VisitedIs
<1>9. csv' = Turned'
  BY <1>1, <1>8 DEF RowsInv
<1>10. QED
  BY <1>1, <1>9 DEF RowsInv, Looping

\* The next turn: after it the file has what the turn owes.
LEMMA NextTurned ==
  ASSUME TypeInv, pc \in Visiting, turn <= Len(Order), UNCHANGED given, visit' = visit, turn' = turn + 1
  PROVE  Turned' = Turned \o Owed(Now, Turn)
<1>1. Now' = Now /\ AllRows' = AllRows /\ \A v : RowsOf(v)' = RowsOf(v)
  BY RowsKept DEF Now, given
<1>2. Visited' = Visited
  BY <1>1 DEF Visited
<1>3. turn' - 1 = turn
  BY TakenIs
<1>4. Turned' = Visited \o FlattenSeq(SubSeq(RowsOf(Now), 1, turn))
  BY <1>1, <1>2, <1>3 DEF Turned
<1>5. QED
  BY <1>4, TakenIs

LEMMA NextTurnRows ==
  ASSUME TypeInv, RowsInv, NextTurn
  PROVE  RowsInv'
<1>1. pc = "turn" /\ pc \in Visiting /\ csv' = csv /\ UNCHANGED given /\ csv = Turned
  BY DEF NextTurn, RowsInv, Visiting
<1>2. turn \in 1..5 /\ Len(Order) = 4 /\ Len(itinerary) \in Nat /\ visit \in 1..(Len(itinerary) + 1)
  BY OrderFacts DEF TypeInv, TypeOK
<1>3. CASE turn > Len(Order)
  <2>1. pc' = "visit" /\ visit' = visit + 1
    BY <1>2, <1>3 DEF NextTurn
  <2>2. visit' - 1 = visit
    BY <1>2, <2>1
  <2>3. Visited' = FlattenSeq(SubSeq(AllRows, 1, visit))
    BY <1>1, <2>2, RowsKept DEF Visited
  <2>4. csv' = Visited'
    BY <1>1, <1>3, <2>3, TurnedIs, VisitIs
  <2>5. QED
    BY <2>1, <2>4 DEF RowsInv, Looping
<1>4. CASE turn <= Len(Order) /\ Turn \notin request.backends
  <2>1. pc' = "turn" /\ visit' = visit /\ turn' = turn + 1
    BY <1>1, <1>2, <1>4 DEF NextTurn
  <2>2. Turned' = Turned \o Owed(Now, Turn)
    BY <1>1, <1>4, <2>1, NextTurned
  <2>3. Owed(Now, Turn) = <<>> /\ Turned \in Seq(RowSet)
    BY <1>1, <1>4, OwedIs, TurnedIs
  <2>4. csv' = Turned'
    BY <1>1, <2>2, <2>3
  <2>5. QED
    BY <2>1, <2>4 DEF RowsInv, Looping
<1>5. CASE turn <= Len(Order) /\ Turn \in request.backends
  <2>1. pc' \in {"probe", "connect"} /\ visit' = visit /\ turn' = turn
    BY <1>2, <1>5 DEF NextTurn
  <2>2. QED
    BY <1>1, <2>1, RowsStay DEF Rests
<1>6. QED
  BY <1>2, <1>3, <1>4, <1>5

\* The bounds found decide whether the turn owes its readings.
LEMMA BoundsDecide ==
  ASSUME TypeInv, SharedInv, pc = "bounds"
  PROVE  /\ Usable(Now, Turn) => Owed(Now, Turn) = Full(Now, Turn)
         /\ ~Usable(Now, Turn) /\ Workload.bounds # "raise" => Owed(Now, Turn) = <<>>
<1>1. pc \in Visiting /\ pc \in Taken /\ pc \notin Looping \cup {"close"}
  BY DEF Visiting, Taken, Looping
<1>2. turn \in 1..4 /\ Turn \in request.backends /\ Now.workload \in WorkloadNames
  BY <1>1, InVisit, InTurn
<1>3. Turn = "postgresql" <=> turn = 1
  BY <1>2, OrderFacts DEF Turn
<1>4. CASE Of(Now, Turn).bounds = "skip"
  <2>1. Usable(Now, Turn) <=> HasBounds(Now, Turn) \/ (shared /\ Turn # "postgresql")
    BY <1>4 DEF Usable
  <2>2. Owed(Now, Turn) = IF HasBounds(Now, Turn) \/ ("postgresql" \in request.backends /\ HasBounds(Now, "postgresql"))
                            THEN Full(Now, Turn) ELSE <<>>
    BY <1>2, <1>4, OwedIs
  <2>3. Of(Now, "postgresql").bounds = "skip"
    BY <1>2, <1>4, OfFacts
  <2>4. HasBounds(Now, Turn) \/ ("postgresql" \in request.backends /\ HasBounds(Now, "postgresql")) <=> Usable(Now, Turn)
    BY <1>1, <1>3, <2>1, <2>3 DEF SharedInv
  <2>5. QED
    BY <2>2, <2>4
<1>5. CASE Of(Now, Turn).bounds = "diffs"
  <2>1. Usable(Now, Turn) <=> HasBounds(Now, Turn) /\ world[Turn][Now.ship].diffs
    BY <1>5 DEF Usable
  <2>2. QED
    BY <1>2, <1>5, <2>1, OwedIs
<1>6. CASE Of(Now, Turn).bounds \in {"raise", "unused"}
  <2>1. Of(Now, Turn).bounds = "unused" => Usable(Now, Turn)
    BY DEF Usable
  <2>2. QED
    BY <1>2, <1>6, <2>1, OwedIs DEF Workload
<1>7. QED
  BY <1>2, <1>4, <1>5, <1>6, OfFacts

\* The first reading of a turn.
LEMMA FirstReading ==
  ASSUME TypeInv, RowsInv, Rests, csv' = csv, pc \in {"probe", "bounds"}, reading' = reading, pc' = "loop",
         Owed(Now, Turn) = Full(Now, Turn)
  PROVE  RowsInv'
<1>1. pc \in Visiting /\ pc \in Taken /\ csv = Turned /\ reading = 1
  BY DEF RowsInv, Visiting, Taken, TypeInv
<1>2. Turned' = Turned /\ Owed(Now, Turn)' = Owed(Now, Turn) /\ Full(Now, Turn)' = Full(Now, Turn)
  BY TurnedKept DEF Rests
<1>3. Full(Now, Turn) \in Seq(RowSet)
  BY <1>1, InVisit, InTurn, FullRows
<1>4. reading' - 1 = 0
  BY <1>1
<1>5. SubSeq(Full(Now, Turn), 1, 0) = <<>>
  BY <1>3, AllOf
<1>6. SubSeq(Full(Now, Turn)', 1, reading' - 1) = <<>>
  BY <1>2, <1>4, <1>5
<1>7. Turned \in Seq(RowSet)
  BY <1>1, TurnedIs
<1>8. csv' = Turned' \o SubSeq(Full(Now, Turn)', 1, reading' - 1)
  BY <1>1, <1>2, <1>6, <1>7
<1>9. QED
  BY <1>2, <1>8 DEF RowsInv, Looping

LEMMA BoundsRows ==
  ASSUME TypeInv, SharedInv, RowsInv, FindBounds
  PROVE  RowsInv'
<1>1. pc = "bounds" /\ Rests /\ csv' = csv /\ reading' = reading /\ UNCHANGED given
  BY DEF FindBounds, Rests
<1>2. CASE Usable(Now, Turn)
  <2>1. pc' = "loop"
    BY <1>2 DEF FindBounds
  <2>2. QED
    BY <1>1, <1>2, <2>1, BoundsDecide, FirstReading
<1>3. CASE ~Usable(Now, Turn) /\ Workload.bounds = "raise"
  <2>1. pc' = "failed"
    BY <1>3 DEF FindBounds
  <2>2. QED
    BY <1>1, <2>1, RowsStop
<1>4. CASE ~Usable(Now, Turn) /\ Workload.bounds # "raise"
  <2>1. pc' = "close"
    BY <1>4 DEF FindBounds
  <2>2. Owed(Now, Turn) = <<>> /\ csv = Turned
    BY <1>1, <1>4, BoundsDecide DEF RowsInv
  <2>3. Turned' = Turned /\ Owed(Now, Turn)' = Owed(Now, Turn)
    BY <1>1, TurnedKept DEF Rests
  <2>4. Turned \in Seq(RowSet)
    BY <1>1, TurnedIs DEF Visiting, Taken
  <2>5. csv' = Turned' \o Owed(Now, Turn)'
    BY <1>1, <2>2, <2>3, <2>4
  <2>6. QED
    BY <2>1, <2>5 DEF RowsInv, Looping
<1>5. QED
  BY <1>2, <1>3, <1>4

LEMMA ProbeRows ==
  ASSUME TypeInv, RowsInv, ProbeZone
  PROVE  RowsInv'
<1>1. pc = "probe" /\ Rests /\ csv' = csv /\ reading' = reading /\ UNCHANGED given /\ pc' \in {"loop", "probe", "failed"}
  BY DEF ProbeZone, Rests
<1>2. CASE pc' = "loop"
  <2>1. Turn \in request.backends /\ Now.workload \in WorkloadNames /\ Now.workload = "w6"
    BY <1>1, InVisit, InTurn DEF TypeInv, Visiting, Taken
  <2>2. Of(Now, Turn).bounds = "unused"
    BY <2>1, OfFacts
  <2>3. Owed(Now, Turn) = Full(Now, Turn)
    BY <2>1, <2>2, OwedIs
  <2>4. QED
    BY <1>1, <1>2, <2>3, FirstReading
<1>3. CASE pc' = "probe"
  BY <1>1, <1>3, RowsStay
<1>4. CASE pc' = "failed"
  BY <1>1, <1>4, RowsStop
<1>5. QED
  BY <1>1, <1>2, <1>3, <1>4

LEMMA FlushRows ==
  ASSUME TypeInv, RowsInv, Flush
  PROVE  RowsInv'
<1> DEFINE full == Full(Now, Turn)
<1>1. pc = "flush" /\ pc \in Looping /\ pc \in Visiting /\ Rests /\ csv' = Append(csv, row)
  BY DEF Flush, Looping, Visiting, Taken, Rests
<1>2. /\ full \in Seq(RowSet) /\ Len(full) = Len(Workload.readings) /\ Len(full) \in Nat
      /\ reading \in 1..Len(full) /\ full[reading] = RowOf(Now, Turn, Reading)
  BY <1>1, ReadingIs
<1>3. Owed(Now, Turn) = full /\ csv = Turned \o SubSeq(full, 1, reading - 1) /\ row = full[reading]
  BY <1>1, <1>2 DEF RowsInv
<1>4. Turned \in Seq(RowSet)
  BY <1>1, TurnedIs
<1>5. Turned' = Turned /\ Owed(Now, Turn)' = Owed(Now, Turn) /\ Full(Now, Turn)' = full
  BY <1>1, TurnedKept DEF Rests
<1>6. \/ reading < Len(Workload.readings) /\ reading' = reading + 1 /\ pc' = "loop"
      \/ ~(reading < Len(Workload.readings)) /\ pc' = "close"
  BY DEF Flush
<1> HIDE DEF full
<1>7. csv' = Turned \o SubSeq(full, 1, reading)
  <2> DEFINE before == SubSeq(full, 1, reading - 1)
             upto == SubSeq(full, 1, reading)
  <2>1. reading - 1 \in 0..Len(full) /\ reading \in 0..Len(full) /\ reading - 1 \in Nat
    BY <1>2
  <2>2. before \in Seq(RowSet) /\ Len(before) = reading - 1 /\ \A i \in 1..reading - 1 : before[i] = full[i]
    BY <1>2, <2>1, FirstOf
  <2>3. upto \in Seq(RowSet) /\ Len(upto) = reading /\ \A i \in 1..reading : upto[i] = full[i]
    BY <1>2, <2>1, FirstOf
  <2>4. full[reading] \in RowSet
    BY <1>2, ElementOf
  <2> HIDE DEF before, upto
  <2>5. Append(before, full[reading]) \in Seq(RowSet) /\ Len(Append(before, full[reading])) = reading
    BY <1>2, <2>2, <2>4
  <2>6. ASSUME NEW i \in 1..reading PROVE Append(before, full[reading])[i] = full[i]
    <3>1. CASE i = reading
      BY <2>2, <2>4, <3>1
    <3>2. CASE i # reading
      <4>1. i \in 1..reading - 1
        BY <1>2, <3>2
      <4>2. QED
        BY <2>2, <4>1
    <3>3. QED
      BY <3>1, <3>2
  <2>7. Append(before, full[reading]) = upto
    <3>1. Len(Append(before, full[reading])) = Len(upto)
      BY <2>3, <2>5
    <3>2. \A i \in 1..Len(Append(before, full[reading])) : Append(before, full[reading])[i] = upto[i]
      BY <2>3, <2>5, <2>6
    <3>3. QED
      BY <2>3, <2>5, <3>1, <3>2, SameSequence
  <2>8. Append(Turned \o before, full[reading]) = Turned \o Append(before, full[reading])
    BY <1>4, <2>2, <2>4
  <2>9. csv' = Append(Turned \o before, full[reading])
    BY <1>1, <1>3 DEF before
  <2>10. QED
    BY <2>7, <2>8, <2>9 DEF upto
<1>8. CASE reading < Len(Workload.readings) /\ reading' = reading + 1 /\ pc' = "loop"
  <2>1. reading' - 1 = reading
    BY <1>2, <1>8
  <2>2. csv' = Turned' \o SubSeq(Full(Now, Turn)', 1, reading' - 1)
    BY <1>5, <1>7, <2>1
  <2>3. QED
    BY <1>3, <1>5, <1>8, <2>2 DEF RowsInv, Looping
<1>9. CASE ~(reading < Len(Workload.readings)) /\ pc' = "close"
  <2>1. reading = Len(full)
    BY <1>2, <1>9
  <2>2. csv' = Turned \o full
    BY <1>2, <1>7, <2>1, AllOf
  <2>3. csv' = Turned' \o Owed(Now, Turn)'
    BY <1>3, <1>5, <2>2
  <2>4. QED
    BY <1>9, <2>3 DEF RowsInv, Looping
<1>10. QED
  BY <1>6, <1>8, <1>9

LEMMA CloseRows ==
  ASSUME TypeInv, RowsInv, Close
  PROVE  RowsInv'
<1>1. /\ pc = "close" /\ pc \in Visiting /\ pc \in Taken /\ pc' = "turn" /\ csv' = csv /\ UNCHANGED given
      /\ visit' = visit /\ turn' = turn + 1
  BY DEF Close, Visiting, Taken
<1>2. turn <= Len(Order)
  BY <1>1 DEF TypeInv
<1>3. Turned' = Turned \o Owed(Now, Turn)
  BY <1>1, <1>2, NextTurned
<1>4. csv' = Turned'
  BY <1>1, <1>3 DEF RowsInv
<1>5. QED
  BY <1>1, <1>4 DEF RowsInv, Looping

LEMMA LoopRows ==
  ASSUME TypeInv, RowsInv, Connect \/ Loop \/ SearchHits \/ SearchMisses \/ SearchTimesOut \/ Query \/ Emit
  PROVE  RowsInv'
<1>1. CASE Connect
  <2>1. pc = "connect" /\ pc' = "bounds" /\ Rests /\ csv' = csv
    BY <1>1 DEF Connect, Rests, at
  <2>2. QED
    BY <2>1, RowsStay
<1>2. CASE Loop \/ SearchHits \/ SearchMisses \/ SearchTimesOut \/ Query
  <2>1. pc \in Looping /\ pc' \in Looping \ {"flush"} /\ Rests /\ csv' = csv /\ reading' = reading
    BY <1>2 DEF Loop, SearchHits, SearchMisses, SearchTimesOut, Query, Rests, at, Looping
  <2>2. QED
    BY <2>1, RowsStay
<1>3. CASE Emit
  <2>1. /\ pc = "emit" /\ pc' = "flush" /\ Rests /\ csv' = csv /\ reading' = reading
        /\ row' = RowOf(Now, Turn, Reading)
    BY <1>3 DEF Emit, Rests, at
  <2>2. /\ Turned' = Turned /\ Now' = Now /\ Turn' = Turn /\ Workload' = Workload
        /\ Owed(Now, Turn)' = Owed(Now, Turn) /\ Full(Now, Turn)' = Full(Now, Turn)
    BY <2>1, TurnedKept DEF Rests
  <2>3. row' = RowOf(Now, Turn, Reading)'
    BY <2>1, <2>2 DEF Reading, RowOf
  <2>4. QED
    BY <2>1, <2>2, <2>3 DEF RowsInv, Looping
<1>4. QED
  BY <1>1, <1>2, <1>3

LEMMA OtherRows ==
  ASSUME TypeInv, RowsInv,
         NoFirstStep \/ RunDone \/ Raise \/ Kill \/ Tick \/ RecordOutcome \/ ReadJob \/ ReadRows \/ UNCHANGED vars
  PROVE  RowsInv'
<1>1. CASE NoFirstStep \/ Raise \/ Kill
  <2>1. UNCHANGED given /\ csv' = csv /\ pc' \in {"failed", "killed"}
    BY <1>1 DEF NoFirstStep, Raise, Kill
  <2>2. QED
    BY <2>1, RowsStop
<1>2. CASE RunDone
  <2>1. pc = "visit" /\ visit > Len(itinerary) /\ pc' = "done" /\ UNCHANGED given /\ csv' = csv
    BY <1>2 DEF RunDone
  <2>2. csv' = WholeResult'
    BY <2>1, RowsKept, VisitedIs DEF RowsInv
  <2>3. QED
    BY <2>1, <2>2 DEF RowsInv, Looping
<1>3. CASE Tick \/ RecordOutcome \/ ReadJob \/ ReadRows \/ UNCHANGED vars
  <2>1. Rests /\ csv' = csv /\ pc' = pc /\ reading' = reading /\ row' = row
    BY <1>3 DEF Tick, RecordOutcome, ReadJob, ReadRows, vars, Rests, at
  <2>2. QED
    BY <2>1, RowsStay
<1>4. QED
  BY <1>1, <1>2, <1>3

LEMMA RowsStep == TypeInv /\ TypeInv' /\ SharedInv /\ RowsInv /\ [Next]_vars => RowsInv'
<1> SUFFICES ASSUME TypeInv, TypeInv', SharedInv, RowsInv, [Next]_vars PROVE RowsInv'
  OBVIOUS
<1>1. CASE Discover \/ CreateCsv
  BY <1>1, CreateRows
<1>2. CASE EnterVisit \/ NextTurn \/ Close
  BY <1>2, EnterRows, NextTurnRows, CloseRows
<1>3. CASE FindBounds \/ ProbeZone \/ Flush
  BY <1>3, BoundsRows, ProbeRows, FlushRows
<1>4. CASE Connect \/ Loop \/ SearchHits \/ SearchMisses \/ SearchTimesOut \/ Query \/ Emit
  BY <1>4, LoopRows
<1>5. CASE NoFirstStep \/ RunDone \/ Raise \/ Kill \/ Tick \/ RecordOutcome \/ ReadJob \/ ReadRows \/ UNCHANGED vars
  BY <1>5, OtherRows
<1>6. QED
  BY <1>1, <1>2, <1>3, <1>4, <1>5, Cases

\* Whatever fails or is cancelled, the file holds the readings of the itinerary up to some point, each
\* once, in order and under its own workload, dataset, step and backend, and all of them when the run
\* ends well: the bounds one backend leaves to the others in a visit never make a reading that is not
\* owed, and never lose one.
THEOREM RowsFollow == Spec => []RowsFollowPlan
<1>1. Init => TypeInv /\ SharedInv /\ RowsInv
  BY InitBenchmark
<1>2. TypeInv /\ RowsInv => RowsFollowPlan
  BY FileBegins DEF RowsFollowPlan, RowsInv
<1>3. QED
  BY <1>1, <1>2, TypeStep, SharedStep, RowsStep, PTL DEF Spec

-----------------------------------------------------------------------------
(* The job of the API and the endpoint that serves the rows.               *)

\* A run that has ended writes nothing more, and its end is never taken back.
LEMMA OutcomeStep == TypeInv /\ OutcomeInv /\ [Next]_vars => OutcomeInv'
<1> SUFFICES ASSUME TypeInv, OutcomeInv, [Next]_vars PROVE OutcomeInv'
  OBVIOUS
<1>1. NoStep # "succeeded"
  BY StepAssumption
<1>2. CASE RecordOutcome
  <2>1. /\ status' \in {"succeeded", "failed"} /\ (status' = "succeeded" => pc = "done")
        /\ pc' = pc /\ csv' = csv /\ seen' = seen /\ served' = served
    BY <1>2 DEF RecordOutcome
  <2>2. QED
    BY <2>1 DEF OutcomeInv
<1>3. CASE ReadJob
  <2>1. seen' = status /\ pc' = pc /\ csv' = csv /\ status' = status /\ served' = served
    BY <1>3 DEF ReadJob
  <2>2. QED
    BY <2>1 DEF OutcomeInv
<1>4. CASE ReadRows
  <2>1. /\ served' = [partial |-> seen # "succeeded", rows |-> csv] /\ pc' = pc /\ csv' = csv
        /\ status' = status /\ seen' = seen
    BY <1>4 DEF ReadRows, Answer
  <2>2. served'.rows = csv /\ served'.partial = (seen # "succeeded")
    BY <2>1
  <2>3. served'.partial \/ seen = "succeeded"
    BY <2>2, Zenon
  <2>4. QED
    BY <2>1, <2>2, <2>3 DEF OutcomeInv
<1>5. ASSUME UNCHANGED endpoint, pc = "done" => pc' = "done" /\ csv' = csv
      PROVE  OutcomeInv'
  BY <1>5 DEF OutcomeInv, endpoint
<1>6. CASE Discover \/ CreateCsv \/ EnterVisit \/ NextTurn \/ Close \/ NoFirstStep \/ RunDone
  BY <1>5, <1>6 DEF Discover, CreateCsv, EnterVisit, NextTurn, Close, NoFirstStep, RunDone
<1>7. CASE Connect \/ FindBounds \/ ProbeZone \/ Tick \/ Loop \/ SearchHits \/ SearchMisses \/ SearchTimesOut
             \/ Query \/ Emit \/ Flush
  BY <1>5, <1>7 DEF Connect, FindBounds, ProbeZone, Tick, Loop, SearchHits, SearchMisses, SearchTimesOut, Query,
                    Emit, Flush, Ticking
<1>8. CASE Raise \/ Kill \/ UNCHANGED vars
  BY <1>5, <1>8 DEF Raise, Kill, Ended, vars
<1>9. QED
  BY <1>2, <1>3, <1>4, <1>6, <1>7, <1>8, Cases

\* A result the endpoint serves as complete is complete, whenever the run, a cancellation, a restart
\* of the API and the two reads of the request come.
THEOREM CompleteIsWhole == Spec => []WholeWhenNotPartial
<1>1. Init => TypeInv /\ SharedInv /\ RowsInv /\ OutcomeInv
  BY InitBenchmark
<1>2. RowsInv /\ OutcomeInv => WholeWhenNotPartial
  BY DEF RowsInv, OutcomeInv, WholeWhenNotPartial
<1>3. QED
  BY <1>1, <1>2, TypeStep, SharedStep, RowsStep, OutcomeStep, PTL DEF Spec

=============================================================================
