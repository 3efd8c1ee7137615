--------------------------- MODULE MCLiveAnalysis ---------------------------
(***************************************************************************)
(* Small instances of LiveAnalysis for TLC.                                *)
(***************************************************************************)
EXTENDS LiveAnalysis
=============================================================================
