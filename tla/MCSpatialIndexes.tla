-------------------------- MODULE MCSpatialIndexes --------------------------
(***************************************************************************)
(* Instances of PartitionTree and of NearbyPaths for TLC.  They do not     *)
(* interact: each behaviour is of one of them.                             *)
(***************************************************************************)
EXTENDS PartitionTree, NearbyPaths

Lats == {2, 3, 6}
Lons == {2, 4, 5}
Counts == {6, 9}
SomeIndices == [n \in {4, 8} |-> IF n = 4 THEN 2 ELSE 3]

P(x, y) == [x |-> x, y |-> y]

(* Paths that run through the center of the region, along the border of    *)
(* quadrants, across them, and within one of them.                         *)
SomePaths ==
  { <<P(0, 0), P(16, 16)>>,
    <<P(16, 8), P(0, 8)>>,
    <<P(0, 16), P(12, 4), P(16, 4)>>,
    <<P(0, 0), P(0, 2), P(2, 2)>> }

SomeReports == {P(x, y) : x \in {1, 7, 8, 13}, y \in {1, 4, 9, 16}}

Symmetry == Permutations(Routes)

NoPartition ==
  /\ phase = "none" /\ tree = <<>> /\ todo = <<>>
  /\ squares = [dir |-> Leaf, first |-> 0, second |-> 0]

NoPaths == paths = [r \in Routes |-> <<>>] /\ trees = <<>>

MCInit == (Init /\ NoPaths) \/ (PathsInit /\ NoPartition)

MCNext ==
  \/ Next /\ UNCHANGED pathsVars
  \/ PathsNext /\ UNCHANGED vars

MCSpec == MCInit /\ [][MCNext]_<<vars, pathsVars>>
============================================================================
