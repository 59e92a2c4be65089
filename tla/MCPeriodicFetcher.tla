------------------------- MODULE MCPeriodicFetcher -------------------------
(***************************************************************************)
(* Instances of PeriodicFetcher for TLC.                                   *)
(***************************************************************************)
EXTENDS PeriodicFetcher
============================================================================
