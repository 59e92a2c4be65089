-------------------------- MODULE MCFetchPipeline --------------------------
(***************************************************************************)
(* Instances of FetchPipeline for TLC.                                     *)
(***************************************************************************)
EXTENDS FetchPipeline

SecondEmpty == {2}
LastNil == {MaxResponses}
============================================================================
