----------------------------- MODULE MCCullTool -----------------------------
(***************************************************************************)
(* An instance of CullTool for TLC.                                        *)
(***************************************************************************)
EXTENDS CullTool

(* The list of routes, and a route that changes.                           *)
MCItems == {<<1, 1>>, <<2, 1>>, <<2, 2>>}
============================================================================
