----------------------- MODULE MCConnectionLifecycle -----------------------
(***************************************************************************)
(* ConnectionLifecycle for TLC.  Liveness is checked in the large run, so  *)
(* no symmetry is taken; the constants are model values.                   *)
(***************************************************************************)
EXTENDS ConnectionLifecycle
=============================================================================
