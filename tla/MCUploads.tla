------------------------------ MODULE MCUploads ------------------------------
(***************************************************************************)
(* Uploads on a small session: constants for the .cfg files.               *)
(***************************************************************************)
EXTENDS Uploads, TLC

CONSTANTS f1, f2, r1, r2

MCSize1 == f1 :> 2
MCSize == (f1 :> 3) @@ (f2 :> 1)

=============================================================================
