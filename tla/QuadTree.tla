------------------------------ MODULE QuadTree ------------------------------
(***************************************************************************)
(* The quadtree of geom/quadtree.go, holding line segments, and the        *)
(* clipping of geom/segment.go that decides which quadrants a segment      *)
(* belongs to.  A tree is a value: operators return the tree changed.      *)
(*                                                                         *)
(* Coordinates are integers, and one of them is the least difference that  *)
(* the machine can tell.  Segments are level, upright or diagonal, so that *)
(* they cross the sides of rectangles at such points.                      *)
(***************************************************************************)
EXTENDS Integers, Sequences, SequencesExt

CONSTANT SplitThreshold  (* kSplitThreshold                                *)

ASSUME SplitThresholdAssumption == SplitThreshold \in Nat

Rect(minX, maxX, minY, maxY) ==
  [minX |-> minX, maxX |-> maxX, minY |-> minY, maxY |-> maxY]

Smaller(a, b) == IF a < b THEN a ELSE b
Larger(a, b) == IF a < b THEN b ELSE a

(* Seg.Bounds: the rectangle that has the two points as corners.           *)
Bounds(s) == Rect(Smaller(s.a.x, s.b.x), Larger(s.a.x, s.b.x),
                  Smaller(s.a.y, s.b.y), Larger(s.a.y, s.b.y))

Center(r) == [x |-> r.minX + (r.maxX - r.minX) \div 2,
              y |-> r.minY + (r.maxY - r.minY) \div 2]

(* Touching is not intersecting.                                           *)
Intersects(r, o) ==
  /\ r.minX < o.maxX /\ r.minY < o.maxY
  /\ r.maxX > o.minX /\ r.maxY > o.minY

OutCode(r, p) ==
  {side \in {"Left", "Right", "Bottom", "Top"} :
     CASE side = "Left" -> p.x < r.minX
       [] side = "Right" -> p.x > r.maxX
       [] side = "Bottom" -> p.y < r.minY
       [] side = "Top" -> p.y > r.maxY}

(* Where a segment crosses the line that one side of r is on.              *)
AtHeight(s, y) ==
  [x |-> s.a.x + ((s.b.x - s.a.x) * (y - s.a.y)) \div (s.b.y - s.a.y), y |-> y]
AtWidth(s, x) ==
  [x |-> x, y |-> s.a.y + ((s.b.y - s.a.y) * (x - s.a.x)) \div (s.b.x - s.a.x)]

Crossing(s, r, code) ==
  CASE "Top" \in code -> AtHeight(s, r.maxY)
    [] "Bottom" \in code -> AtHeight(s, r.minY)
    [] "Right" \in code -> AtWidth(s, r.maxX)
    [] OTHER -> AtWidth(s, r.minX)

(* Cohen and Sutherland: the part of the segment inside r, if there is one.*)
RECURSIVE Clip(_, _)
Clip(s, r) ==
  LET ca == OutCode(r, s.a)
      cb == OutCode(r, s.b)
  IN CASE ca \cup cb = {} -> {s}
       [] ca \cap cb # {} -> {}
       [] ca # {} -> Clip([s EXCEPT !.a = Crossing(s, r, ca)], r)
       [] OTHER -> Clip([s EXCEPT !.b = Crossing(s, r, cb)], r)

----------------------------------------------------------------------------
(* A leaf has no quadrants; a node that was split has those that were      *)
(* needed so far, and the data that fill it.  A datum is kept with its     *)
(* bounds in the node.                                                     *)
QuadNode(bounds, split) ==
  [bounds |-> bounds, split |-> split, data |-> <<>>, kids |-> <<>>]

NewQuadTree(bounds) == QuadNode(bounds, FALSE)

Quadrants == [x : {"left", "right"}, y : {"lower", "upper"}]

Quadrant(r, q) ==
  LET c == Center(r)
  IN Rect(IF q.x = "left" THEN r.minX ELSE c.x, IF q.x = "left" THEN c.x ELSE r.maxX,
          IF q.y = "lower" THEN r.minY ELSE c.y, IF q.y = "lower" THEN c.y ELSE r.maxY)

AddLocal(node, b, datum) ==
  [node EXCEPT !.data = Append(@, [bounds |-> b, datum |-> datum])]

(* Whatever begins in the left half is taken to end there.                 *)
QuadrantsFor_BeginsIn(node, b) ==
  LET c == Center(node.bounds)
      xs == IF c.x <= b.minX THEN {"right"} ELSE {"left"}
      ys == IF c.y <= b.minY THEN {"upper"}
            ELSE IF b.maxY <= c.y THEN {"lower"} ELSE {"lower", "upper"}
  IN {q \in Quadrants : q.x \in xs /\ q.y \in ys}

(* The quadrants that bounds b are in: IsLeftOrRight, IsLowerOrUpper.      *)
QuadrantsFor(node, b) ==
  LET c == Center(node.bounds)
      xs == IF c.x <= b.minX THEN {"right"}
            ELSE IF b.maxX <= c.x THEN {"left"} ELSE {"left", "right"}
      ys == IF c.y <= b.minY THEN {"upper"}
            ELSE IF b.maxY <= c.y THEN {"lower"} ELSE {"lower", "upper"}
  IN {q \in Quadrants : q.x \in xs /\ q.y \in ys}

(* Data that fill the node cannot be pushed down.                          *)
Splitable(node) ==
  SelectSeq(node.data, LAMBDA d : \/ d.bounds # node.bounds
                                  \/ /\ d.bounds.minX = d.bounds.maxX
                                     /\ d.bounds.minY = d.bounds.maxY)

(* A node is not split where there are no coordinates left.                *)
LargeEnough(r) == r.minX + 2 < Center(r).x /\ r.minY + 2 < Center(r).y

ReadyToSplit(node) ==
  /\ ~node.split
  /\ Len(Splitable(node)) > SplitThreshold
  /\ LargeEnough(node.bounds)

RECURSIVE InsertIn(_, _, _)

SplitLeaf(node) ==
  FoldLeft(LAMBDA new, d : InsertIn(new, d.bounds, d.datum),
           QuadNode(node.bounds, TRUE), node.data)

Settled(node) == IF ReadyToSplit(node) THEN SplitLeaf(node) ELSE node

(* qtLeaf.Insert and qtNonLeaf.Insert, with InsertInQuadrant.  A datum     *)
(* that is in several quadrants is clipped by each, and may miss one.      *)
InsertIn(node, b, datum) ==
  IF ~node.split \/ node.bounds = b THEN AddLocal(node, b, datum)
  ELSE LET qs == QuadrantsFor(node, b)
           Kid(q) == IF q \in DOMAIN node.kids THEN node.kids[q]
                     ELSE QuadNode(Quadrant(node.bounds, q), FALSE)
           Pieces(q) == IF qs = {q} THEN {b}
                        ELSE {Bounds(s) : s \in Clip(datum.seg, Kid(q).bounds)}
           Changed(q) == IF Pieces(q) = {} THEN Kid(q)
                         ELSE Settled(InsertIn(Kid(q), CHOOSE p \in Pieces(q) : TRUE, datum))
       IN [node EXCEPT !.kids = [q \in DOMAIN node.kids \cup qs |->
             IF q \in qs THEN Changed(q) ELSE node.kids[q]]]

(* InsertFull.  A datum that is not in the region is reported, and is      *)
(* inserted all the same, as if it were at the origin.                     *)
Insert(tree, datum) ==
  LET part == Clip(datum.seg, tree.bounds)
      b == IF part = {} THEN Rect(0, 0, 0, 0) ELSE Bounds(CHOOSE s \in part : TRUE)
  IN Settled(InsertIn(tree, b, datum))

(* Visit goes to every node, and shows each identity once.                 *)
RECURSIVE Visit(_, _)
Visit(tree, search) ==
  {d.datum.id : d \in {d \in Range(tree.data) :
      Intersects(d.bounds, search) /\ Clip(d.datum.seg, search) # {}}}
  \cup UNION {Visit(tree.kids[q], search) : q \in DOMAIN tree.kids}

RECURSIVE LeavesOf(_)
LeavesOf(tree) ==
  IF ~tree.split THEN {tree}
  ELSE UNION {LeavesOf(tree.kids[q]) : q \in DOMAIN tree.kids}
============================================================================
