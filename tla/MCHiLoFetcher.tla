--------------------------- MODULE MCHiLoFetcher ---------------------------
(***************************************************************************)
(* Instances of HiLoFetcher for TLC.                                       *)
(***************************************************************************)
EXTENDS HiLoFetcher

CONSTANTS h1, h2, l1, l2, k1

OneHi == {h1}
TwoHi == {h1, h2}
OneLo == {l1}
TwoLo == {l1, l2}
OneCloser == {k1}
============================================================================
