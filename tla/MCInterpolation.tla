--------------------------- MODULE MCInterpolation ---------------------------
(***************************************************************************)
(* Interpolation on small instances: the symmetry of the .cfg files.       *)
(***************************************************************************)
EXTENDS Interpolation, TLC

CONSTANTS r1, r2, r3, d1, d2

\* Nothing distinguishes the requests, nor the datasets, from one another.
Symmetry == Permutations({r1, r2, r3}) \cup Permutations({d1, d2})

=============================================================================
