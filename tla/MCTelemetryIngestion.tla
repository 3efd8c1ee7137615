------------------------ MODULE MCTelemetryIngestion ------------------------
(***************************************************************************)
(* Small instances of TelemetryIngestion for TLC.                          *)
(***************************************************************************)
EXTENDS TelemetryIngestion, TLC

\* The whole feed, and its tail.
MCRanges == {<<1, MaxRecord>>, <<MaxRecord, MaxRecord>>}

\* Workers differ only in their clocks, tokens are uuids: both are symmetric.
MCSymmetry == Permutations(Worker) \cup Permutations(Token)
=============================================================================
