------------------------------ MODULE MCIngest ------------------------------
(***************************************************************************)
(* Ingest on a fluid and a hull zone and two timesteps.                    *)
(***************************************************************************)
EXTENDS Ingest

\* given is 0 when --dat is a directory.
Cfd(zones, steps, given, spatial) ==
  [kind |-> "cfd", zones |-> zones, steps |-> steps, given |-> given, spatial |-> spatial]
H5(zone, steps, spatial) ==
  [kind |-> "h5", zones |-> <<zone>>, steps |-> steps, given |-> 0, spatial |-> spatial]

MCSources ==
  { Cfd(<<"fluid", "hull">>, <<1, 2>>, 0, TRUE), Cfd(<<"fluid">>, <<1, 2>>, 2, FALSE),
    H5("fluid", <<1, 2>>, TRUE), H5("fluid", <<2>>, FALSE), H5("hull", <<1>>, TRUE) }

MCSelections == {<<"postgresql", "iotdb">>, <<"iotdb", "parquet", "vtk">>, <<"tiledb", "vtk">>}

=============================================================================
