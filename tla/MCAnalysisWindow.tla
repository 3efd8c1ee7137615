-------------------------- MODULE MCAnalysisWindow --------------------------
(***************************************************************************)
(* Small instances of AnalysisWindow for TLC.                              *)
(***************************************************************************)
EXTENDS AnalysisWindow
=============================================================================
