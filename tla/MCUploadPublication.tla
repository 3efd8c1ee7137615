------------------------ MODULE MCUploadPublication ------------------------
(***************************************************************************)
(* Small instances of UploadPublication for TLC.                           *)
(***************************************************************************)
EXTENDS UploadPublication
=============================================================================
