---------------------------- MODULE NearbyPaths -----------------------------
(***************************************************************************)
(* Which paths of the transit system a reported location may be on:        *)
(* nextbus/nbgeo/path_segment.go and route2quadtree.go.  Every route has a *)
(* quadtree of the segments of its paths, in which a rectangle around the  *)
(* location is searched.                                                   *)
(***************************************************************************)
EXTENDS QuadTree, FiniteSets, FiniteSetsExt

CONSTANTS
  Routes,      (* the tags of the routes, which are also their directions' *)
  Paths,       (* the paths there may be: sequences of points              *)
  MaxPaths,    (* how many paths a route may have                          *)
  Reports,     (* the locations reported                                   *)
  Near, Wide,  (* how far a path may be, at first and if none is found     *)
  NoRoute      (* a tag that is unknown                                    *)

ASSUME NearbyAssumption ==
  /\ MaxPaths \in Nat \ {0} /\ {Near, Wide} \subseteq Nat \ {0} /\ Near <= Wide
  /\ NoRoute \notin Routes

VARIABLES
  paths,  (* Route.Paths                                                   *)
  trees   (* RouteToQuadTreeMap: the trees of the routes done so far; those *)
          (* that have no path get none                                    *)

pathsVars == <<paths, trees>>

(* PathLLSeg: the segments of one path count as one datum.                 *)
Segments(path) ==
  [i \in 1 .. Len(path) - 1 |-> [id |-> path, seg |-> [a |-> path[i], b |-> path[i + 1]]]]

(* AddPathToQuadTreeAsSegs                                                 *)
AddPath(tree, path) == FoldLeft(Insert, tree, Segments(path))

BoundsOfPaths(ps) ==
  LET points == UNION {Range(p) : p \in Range(ps)}
  IN Rect(Min({p.x : p \in points}), Max({p.x : p \in points}),
          Min({p.y : p \in points}), Max({p.y : p \in points}))

NewQuadTreeWithPaths(ps) == FoldLeft(AddPath, NewQuadTree(BoundsOfPaths(ps)), ps)

PathsInit ==
  /\ paths \in [Routes -> UNION {{ps \in [1 .. n -> Paths] : IsInjective(ps)} : n \in 0 .. MaxPaths}]
  /\ trees = <<>>

(* NewRouteToQuadTreeMap, the routes in the order of a map.                *)
AddRoute(r) ==
  /\ r \notin DOMAIN trees /\ paths[r] # <<>>
  /\ trees' = trees @@ (r :> NewQuadTreeWithPaths(paths[r]))
  /\ UNCHANGED paths

PathsNext == \E r \in Routes : AddRoute(r)

PathsSpec == PathsInit /\ [][PathsNext]_pathsVars

----------------------------------------------------------------------------
(* Searching.                                                              *)

Around(p, d) == Rect(p.x - d, p.x + d, p.y - d, p.y + d)

NearbyPathsOf(r, p, d) == IF r \in DOMAIN trees THEN Visit(trees[r], Around(p, d)) ELSE {}

(* A larger area is searched if the first was too small.                   *)
OrWider(r, p) ==
  LET near == NearbyPathsOf(r, p, Near)
  IN IF near # {} THEN near ELSE NearbyPathsOf(r, p, Wide)

(* VLToPaths.  The tag of the direction may belong to another route, whose *)
(* paths are added.                                                        *)
VLToPaths(r, dir, p) ==
  OrWider(r, p) \cup (IF dir = r THEN {} ELSE OrWider(dir, p))

----------------------------------------------------------------------------
(* Properties.                                                             *)

Built == \A r \in Routes : paths[r] # <<>> => r \in DOMAIN trees

(* The points of a path at half coordinates, which are enough to say where *)
(* a level, upright or diagonal segment is.                                *)
Unit(from, to) == IF from = to THEN 0 ELSE IF from < to THEN 1 ELSE -1

PointsOf(path) ==
  UNION {LET a == path[i] b == path[i + 1]
             n == 2 * Larger(Larger(a.x - b.x, b.x - a.x), Larger(a.y - b.y, b.y - a.y))
         IN {[x |-> 2 * a.x + k * Unit(a.x, b.x), y |-> 2 * a.y + k * Unit(a.y, b.y)] : k \in 0 .. n} :
         i \in 1 .. Len(path) - 1}

Enters(path, r) ==
  \E p \in PointsOf(path) : /\ 2 * r.minX < p.x /\ p.x < 2 * r.maxX
                            /\ 2 * r.minY < p.y /\ p.y < 2 * r.maxY

Touches(path, r) ==
  \E p \in PointsOf(path) : /\ 2 * r.minX <= p.x /\ p.x <= 2 * r.maxX
                            /\ 2 * r.minY <= p.y /\ p.y <= 2 * r.maxY

PathsOfTag(tag) == IF tag \in Routes THEN Range(paths[tag]) ELSE {}

(* Every path of the route, or of the route that the direction belongs to, *)
(* that comes near a reported location is found, whichever leaves its      *)
(* segments were spread over and however the tree was split; if the route  *)
(* has none so near, those less near are; and no path is found that does   *)
(* not come near at all.                                                   *)
PathsFound ==
  Built => \A p \in Reports, r \in Routes \cup {NoRoute}, dir \in Routes \cup {NoRoute} :
    LET found == VLToPaths(r, dir, p)
        own == PathsOfTag(r)
    IN /\ \A path \in own \cup PathsOfTag(dir) :
            Enters(path, Around(p, Near)) => path \in found
       /\ (\E path \in own : Enters(path, Around(p, Wide))) => found \cap own # {}
       /\ \A path \in found : Touches(path, Around(p, Wide))
============================================================================
