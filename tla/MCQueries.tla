----------------------------- MODULE MCQueries ------------------------------
(* A fluid zone of four cells in a row and a zone of two, in two steps.     *)
EXTENDS VtkClient

Fluid == [hull |-> FALSE, fluid |-> TRUE]
Hull == [hull |-> TRUE, fluid |-> FALSE]
Outlet == [hull |-> FALSE, fluid |-> FALSE]

\* Cells in a row: face i is node i, between the cells i - 1 and i; turned all to one side.
RowOf(name, nodes, turn, values) ==
  [name |-> name, whole |-> TRUE, nodes |-> nodes, cells |-> Len(nodes) - 1, values |-> values,
   faces |-> [i \in DOMAIN nodes |->
                [nodes |-> <<i>>, le |-> i - 1, re |-> IF i = Len(nodes) THEN 0 ELSE i,
                 area |-> i, turn |-> turn]]]

File(step, zones) == [step |-> step, zones |-> zones]

FirstFiles(second) ==
  <<File(1, <<RowOf(Fluid, <<0, 1, 2, 3, 4>>, 1, <<5, 2, 9, 1>>), RowOf(second, <<2, 4, 6>>, -1, <<3, 8>>)>>),
    File(2, <<RowOf(Fluid, <<0, 1, 2, 3, 4>>, 1, <<4, 4, 0, 7>>), RowOf(second, <<2, 4, 6>>, -1, <<6, 1>>)>>)>>

\* The same zones the other way round.
SecondFiles(second) ==
  <<File(1, <<RowOf(Fluid, <<8, 6, 4, 2>>, 1, <<2, 3, 1>>), RowOf(second, <<1, 0, -2>>, 1, <<7, 2>>)>>),
    File(2, <<RowOf(Fluid, <<8, 6, 4, 2>>, 1, <<1, 8, 8>>), RowOf(second, <<1, 0, -2>>, 1, <<0, 5>>)>>)>>

\* The second step has a cell more.
UnfitFiles(second) ==
  <<File(1, <<RowOf(Fluid, <<0, 2, 4>>, 1, <<1, 2>>), RowOf(second, <<2, 4, 6>>, -1, <<3, 8>>)>>),
    File(2, <<RowOf(Fluid, <<0, 2, 4, 6>>, 1, <<4, 4, 0>>), RowOf(second, <<2, 4, 6>>, -1, <<6, 1>>)>>)>>

\* No zone with the name that commands default to.
LoneFiles(zone) ==
  <<File(1, <<RowOf(zone, <<6, 4, 2>>, 1, <<1, 5>>)>>), File(2, <<RowOf(zone, <<6, 4, 2>>, 1, <<2, 0>>)>>)>>

TestFiles == {FirstFiles(Hull), SecondFiles(Hull), UnfitFiles(Hull), LoneFiles(Hull)}
OutletFiles == {FirstFiles(Outlet)}
TestIndices == <<0, 1>>

ASSUME TestAssumption == \A input \in TestFiles : LeavesTell(input) /\ FramesAlike(input)

TestLists == {<<3, 0, 1>>, <<2, 3, 1, 0>>, <<0, 2>>, <<1>>}
TestThresholds == {1, 3}
SevenTenths == <<7, 10>>
=============================================================================
