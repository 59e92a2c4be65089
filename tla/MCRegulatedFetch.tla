-------------------------- MODULE MCRegulatedFetch --------------------------
(***************************************************************************)
(* An instance of RegulatedFetch for TLC.                                  *)
(***************************************************************************)
EXTENDS RegulatedFetch

CONSTANTS q1, d1

OneCaller == {q1}
OneDirect == {d1}
============================================================================
