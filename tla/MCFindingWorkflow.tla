------------------------- MODULE MCFindingWorkflow -------------------------
(***************************************************************************)
(* Small instances of FindingWorkflow for TLC.                             *)
(***************************************************************************)
EXTENDS FindingWorkflow, TLC

MCSymmetry == Permutations(Handler)
=============================================================================
