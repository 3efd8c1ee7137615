------------------------ MODULE MCBaselineActivation ------------------------
(***************************************************************************)
(* Small instances of BaselineActivation for TLC.                          *)
(***************************************************************************)
EXTENDS BaselineActivation, TLC

Processes == Permutations(Process)
=============================================================================
