---------------------------- MODULE Publication ----------------------------
(***************************************************************************)
(* What a backend should promise about a dataset that is ingested again    *)
(* and again: readers find nothing, or one whole ingest, and only the      *)
(* latest ingest is ever put in the place of nothing.  The VTK backend of  *)
(* Ingest implements it.                                                   *)
(***************************************************************************)
EXTENDS Naturals

VARIABLES
  begun,    \* the number of ingests begun so far
  content   \* the ingest that readers find whole, 0 for none

PInit == begun = 0 /\ content = 0

Begin == begun' = begun + 1 /\ UNCHANGED content
Withdraw == content' = 0 /\ UNCHANGED begun
Publish == content = 0 /\ content' = begun /\ UNCHANGED begun

PSpec == PInit /\ [][Begin \/ Withdraw \/ Publish]_<<begun, content>>

=============================================================================
