---------------------------- MODULE MCConfigFetch ----------------------------
(***************************************************************************)
(* An instance of ConfigFetch for TLC.                                     *)
(***************************************************************************)
EXTENDS ConfigFetch

(* The list of routes, and a route that changes.                           *)
MCItems == {<<1, 1>>, <<2, 1>>, <<2, 2>>}
============================================================================
