---------------------------- MODULE MCBenchmark ----------------------------
(***************************************************************************)
(* Small runs for Benchmark: each workload with another one, on one or two *)
(* datasets, over backends that miss bounds, frames, zones or a hit.       *)
(***************************************************************************)
EXTENDS Benchmark

Programs == {<<"w1">>, <<"w2", "w5">>, <<"w4", "w6">>, <<"w3", "w7">>, <<"w8", "w9">>,
             <<"w10", "w11">>}

MCRequests ==
  [workloads : Programs, ships : {<<"s1">>}, backends : {{"postgresql", "iotdb"}},
   steps : {NoStep}, engine : {"db", "vtk"}]
  \cup
  [workloads : Programs, ships : {<<"s1">>}, backends : {{"tiledb", "vtk"}},
   steps : {NoStep}, engine : {"db"}]
  \cup
  [workloads : {<<"w5">>}, ships : {<<"s1", "s2">>}, backends : {{"postgresql", "tiledb"}},
   steps : {<<2000, 200>>}, engine : {"db"}]

MCDefaultSteps == <<200, 2000>>

Good == [steps |-> <<200>>, h5 |-> FALSE, bounds |-> TRUE, hits |-> TRUE, diffs |-> TRUE,
         manifest |-> TRUE, zones |-> <<FALSE, TRUE>>]
Odd == [Good EXCEPT !.steps = NoStep, !.h5 = TRUE, !.zones = <<TRUE>>, !.manifest = FALSE]
Bare == [Good EXCEPT !.steps = <<>>, !.bounds = FALSE, !.hits = FALSE, !.diffs = FALSE]
Sealed == [Good EXCEPT !.h5 = TRUE, !.hits = FALSE]

\* PostgreSQL and TileDB hold the first dataset one way, all else is of another.
Pairs == {<<Good, Odd>>, <<Odd, Good>>, <<Good, Bare>>, <<Bare, Good>>, <<Sealed, Bare>>}

MCWorlds ==
  {[b \in Backends |-> [s \in Ships |->
      IF s = "s2" THEN p[2] ELSE IF b \in {"postgresql", "tiledb"} THEN p[1] ELSE p[2]]] :
   p \in Pairs}
=============================================================================
