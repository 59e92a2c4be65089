---------------------------- MODULE MCArchives ------------------------------
(***************************************************************************)
(* An instance of Archives for TLC.                                        *)
(***************************************************************************)
EXTENDS Archives
============================================================================
