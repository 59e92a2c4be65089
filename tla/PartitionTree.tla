---------------------------- MODULE PartitionTree ---------------------------
(***************************************************************************)
(* The geographic partitions of nblocations/partition*.go: how the globe   *)
(* is cut into regions, given a sample of the locations; how the tree of   *)
(* regions is saved and read back; how a location finds its region, and a  *)
(* query the files that concern it.                                        *)
(*                                                                         *)
(* Latitudes and longitudes are whole numbers, from 0 at the south pole    *)
(* and the date line; distances are differences of them.  A tree is a      *)
(* function from paths to nodes: the children of p are p \o <<1>>, ....    *)
(***************************************************************************)
EXTENDS Integers, Sequences, FiniteSets, SequencesExt, FiniteSetsExt, Functions

CONSTANTS
  MaxLat, MaxLon,  (* the north pole and the date line again               *)
  SampleLats,      (* where samples may be: a grid                         *)
  SampleLons,
  SampleCounts,    (* how many samples there may be                        *)
  LowIndices,      (* how many samples at each end are taken for outliers, *)
                   (* from how many samples on                             *)
  LevelLimit,      (* --partition-levels                                   *)
  CutsPerLevel,    (* --cuts-per-level                                     *)
  PerCut,          (* samples that must be left for each cut (10)          *)
  LeafSide,        (* a region not longer than this is a leaf (500 m)      *)
  MinSide,         (* --min-square-side                                    *)
  MaxSide,         (* --max-square-side                                    *)
  MaxSamples       (* --max-samples-fraction of the samples                *)

ASSUME PartitionAssumption ==
  /\ {MaxLat, MaxLon, CutsPerLevel, PerCut, MinSide} \subseteq Nat \ {0}
  /\ DOMAIN LowIndices \subseteq Nat
  /\ \A n \in DOMAIN LowIndices : LowIndices[n] \in 2 .. n \div 2
  /\ {LevelLimit, LeafSide, MaxSide, MaxSamples} \subseteq Nat
  /\ SampleLats \subseteq 0 .. MaxLat /\ SampleLons \subseteq 0 .. MaxLon
  /\ SampleCounts \subseteq Nat \ {0}
  /\ MaxSide > MinSide

VARIABLES
  tree,     (* the nodes that are finished                                 *)
  todo,     (* the calls that will make the others, innermost first        *)
  phase,    (* "create", "created" or "read"                               *)
  squares   (* the cuts of the first two levels of squares, if they are    *)
            (* used (--square-partition)                                   *)

vars == <<tree, todo, phase, squares>>

Globe == [w |-> 0, e |-> MaxLon, s |-> 0, n |-> MaxLat]
Locations == [lat : 0 .. MaxLat, lon : 0 .. MaxLon]
Rects == [w : 0 .. MaxLon, e : 0 .. MaxLon, s : 0 .. MaxLat, n : 0 .. MaxLat]

(* The two directions in which a region is cut, and what depends on them.  *)
SN == "SouthNorth"
WE == "WestEast"
Leaf == "Leaf"

Other(dir) == IF dir = SN THEN WE ELSE SN
Coord(dir, loc) == IF dir = SN THEN loc.lat ELSE loc.lon
Lo(dir, r) == IF dir = SN THEN r.s ELSE r.w
Hi(dir, r) == IF dir = SN THEN r.n ELSE r.e
Slice(dir, r, lo, hi) == IF dir = SN THEN [r EXCEPT !.s = lo, !.n = hi]
                                     ELSE [r EXCEPT !.w = lo, !.e = hi]
Height(r) == r.n - r.s
Width(r) == r.e - r.w
Area(r) == Height(r) * Width(r)

(* Locations in the order of one coordinate.  The other decides between    *)
(* equals, whose order the code leaves open.                               *)
Before(dir, a, b) ==
  IF Coord(dir, a) # Coord(dir, b)
  THEN Coord(dir, a) < Coord(dir, b)
  ELSE Coord(Other(dir), a) < Coord(Other(dir), b)

Sorted(dir, locs) ==
  [i \in 1 .. Cardinality(locs) |->
     CHOOSE x \in locs : Cardinality({y \in locs : Before(dir, y, x)}) = i - 1]

----------------------------------------------------------------------------
(* Where to cut.                                                           *)

(* getLocationsNearExtrema: the mean of some locations near each end, more *)
(* of them if there are more samples; with too few the program stops.      *)
Reached(n) == {m \in DOMAIN LowIndices : m <= n}
EnoughForExtrema(locs) == Reached(Cardinality(locs)) # {}
LowIndex(n) == LowIndices[Max(Reached(n))]

Mean(dir, locs) ==
  LET sum[n \in 0 .. Len(locs)] ==
        IF n = 0 THEN 0 ELSE sum[n - 1] + Coord(dir, locs[n])
  IN sum[Len(locs)] \div Len(locs)

NearExtrema(dir, locs) ==
  LET low == LowIndex(Len(locs))
      high == Len(locs) - low
  IN <<Mean(dir, SubSeq(locs, low \div 2 + 1, low)),
       Mean(dir, SubSeq(locs, high + 1, high + low \div 2))>>

(* How many of sorted locations come before coordinate v; the code has a   *)
(* binary search for it.                                                   *)
IndexOf(dir, locs, v) == Cardinality({i \in DOMAIN locs : Coord(dir, locs[i]) < v})

(* Cuts that give each part as many of the samples as the others: the part *)
(* ends before the first of the samples that are left.                     *)
PartStarts(locs) ==
  LET start[k \in 0 .. CutsPerLevel] ==
        IF k = 0 THEN 0
        ELSE start[k - 1] + (Len(locs) - start[k - 1]) \div (CutsPerLevel + 2 - k)
  IN [k \in 1 .. CutsPerLevel |-> start[k]]

(* Cuts at equal distances.                                                *)
EvenCuts(dir, r, cuts) ==
  LET step == (Hi(dir, r) - Lo(dir, r)) \div (cuts + 1)
  IN [k \in 1 .. cuts |-> Lo(dir, r) + k * step]

(* splitLocationsByIndices                                                 *)
Split(locs, indices) ==
  LET ends == <<0>> \o indices \o <<Len(locs)>>
  IN [k \in 1 .. Len(indices) + 1 |->
        {locs[i] : i \in ends[k] + 1 .. ends[k + 1]}]

(* The regions between cuts.                                               *)
Regions(dir, r, cuts) ==
  LET ends == <<Lo(dir, r)>> \o cuts \o <<Hi(dir, r)>>
  IN [k \in 1 .. Len(cuts) + 1 |-> Slice(dir, r, ends[k], ends[k + 1])]

(* createPartitioner: across the longer side, unless that is short.        *)
Direction(r) ==
  IF Width(r) >= Height(r)
  THEN IF Width(r) > LeafSide THEN WE ELSE Leaf
  ELSE IF Height(r) > LeafSide THEN SN ELSE Leaf

----------------------------------------------------------------------------
(* The size of the region that is cut into squares: choosePartitionSize.   *)

(* gcdFn: zero if both are zero.                                           *)
Gcd(a, b) == Max({0} \cup {d \in 1 .. a + b : a % d = 0 /\ b % d = 0})

(* generateCandidatePartitionSizes, the sides being up to 20 % longer than *)
(* what the samples need.                                                  *)
Candidates(height, width, target) ==
  {c \in [sn : height .. (12 * height + 9) \div 10,
          we : width .. (12 * width + 9) \div 10] : Gcd(c.sn, c.we) >= target}

(* The unit of the squares is halved until there are candidates.           *)
Units(height, width) ==
  LET target[k \in 0 .. 4] == (16 * MinSide) \div 2 ^ k
  IN {target[k] : k \in {k \in 0 .. 4 : Candidates(height, width, target[k]) # {}}}

(* The candidates with the greatest target; a score, made of roots of many *)
(* factors, prefers one of them.                                           *)
BestCandidates(height, width) ==
  IF Units(height, width) = {} THEN {}
  ELSE Candidates(height, width, Max(Units(height, width)))

CenteredOn(r, c) ==
  LET s == (r.s + r.n - c.sn) \div 2
      w == (r.w + r.e - c.we) \div 2
  IN [s |-> s, n |-> s + c.sn, w |-> w, e |-> w + c.we]

(* Parts of the two sides, doubled if there would be only one.             *)
Parts(c) ==
  LET unit == Gcd(c.sn, c.we)
      twice == IF c.sn = unit \/ c.we = unit THEN 2 ELSE 1
  IN [sn |-> twice * (c.sn \div unit), we |-> twice * (c.we \div unit)]

----------------------------------------------------------------------------
(* A call that makes a node: for which path, region and samples, and how.  *)
Call(how, path, level, r, locs) ==
  [how |-> how, path |-> path, level |-> level, r |-> r, locs |-> locs]

Node(dir, r, level, cuts) == [dir |-> dir, r |-> r, level |-> level, cuts |-> cuts]

(* The call c is done: it has made a node, and the calls for its children. *)
Made(c, dir, cuts, kids) ==
  /\ tree' = [p \in DOMAIN tree \cup {c.path} |->
                IF p = c.path THEN Node(dir, c.r, c.level, cuts) ELSE tree[p]]
  /\ todo' = kids \o Tail(todo)

LeafCall(c, k, r) == Call("leaf", Append(c.path, k), c.level + 1, r, {})

MakeLeaf ==
  /\ todo # <<>>
  /\ LET c == Head(todo)
     IN /\ \/ c.how = "leaf"
           \/ c.how \in {SN, WE} /\ c.level >= LevelLimit
           \/ c.how = "choose" /\ (Direction(c.r) = Leaf \/ c.level >= LevelLimit)
        /\ Made(c, Leaf, <<>>, <<>>)
  /\ UNCHANGED <<phase, squares>>

(* With too few samples the program stops.                                 *)
Enough(locs) == Cardinality(locs) >= CutsPerLevel * PerCut

(* The first two levels cut off what is far from the samples.              *)
CutOutliers ==
  /\ todo # <<>>
  /\ LET c == Head(todo)
         locs == Sorted(c.how, c.locs)
         cuts == NearExtrema(c.how, locs)
         kids == Regions(c.how, c.r, cuts)
         inside == {loc \in c.locs : Coord(c.how, loc) \in cuts[1] .. cuts[2]}
     IN /\ c.how \in {SN, WE} /\ c.level < LevelLimit /\ c.level < 2
        /\ Enough(c.locs) /\ EnoughForExtrema(c.locs)
        /\ Made(c, c.how, cuts,
                << LeafCall(c, 1, kids[1]),
                   Call(IF c.level = 0 THEN Other(c.how) ELSE "choose",
                        Append(c.path, 2), c.level + 1, kids[2], inside),
                   LeafCall(c, 3, kids[3]) >>)
  /\ UNCHANGED <<phase, squares>>

(* The others cut the samples in equal parts.                              *)
CutSamples ==
  /\ todo # <<>>
  /\ LET c == Head(todo)
         dir == Direction(c.r)
         locs == Sorted(dir, c.locs)
         starts == PartStarts(locs)
         cuts == [k \in DOMAIN starts |-> Coord(dir, locs[starts[k] + 1])]
         kids == Regions(dir, c.r, cuts)
         parts == Split(locs, starts)
     IN /\ c.how = "choose" /\ dir # Leaf /\ c.level < LevelLimit
        /\ Enough(c.locs)
        /\ Made(c, dir, cuts, [k \in DOMAIN kids |->
              Call("choose", Append(c.path, k), c.level + 1, kids[k], parts[k])])
  /\ UNCHANGED <<phase, squares>>

(* How many cuts a square gets: those of the first two levels are given; a *)
(* later one is quartered, by two levels, if it is large, or is large      *)
(* enough and has too many samples.                                        *)
TooLarge(c) ==
  \/ Area(c.r) > MaxSide * MaxSide
  \/ Area(c.r) >= 4 * MinSide * MinSide /\ Cardinality(c.locs) > MaxSamples

Cuts(c) ==
  IF c.level = 2 THEN squares.first
  ELSE IF c.level = 3 THEN squares.second
  ELSE IF c.level % 2 = 1 THEN Len(tree[Front(c.path)].cuts)
  ELSE IF TooLarge(c) THEN 1 ELSE 0

SquareDir(c) == IF c.level % 2 = 0 THEN squares.dir ELSE Other(squares.dir)

CutSquares ==
  /\ todo # <<>>
  /\ LET c == Head(todo)
         dir == SquareDir(c)
         locs == Sorted(dir, c.locs)
         cuts == EvenCuts(dir, c.r, Cuts(c))
         kids == Regions(dir, c.r, cuts)
         parts == Split(locs, [k \in DOMAIN cuts |-> IndexOf(dir, locs, cuts[k])])
     IN /\ c.how = "squares"
        /\ IF Cuts(c) < 1
           THEN Made(c, Leaf, <<>>, <<>>)
           ELSE Made(c, dir, cuts, [k \in DOMAIN kids |->
                  Call("squares", Append(c.path, k), c.level + 1, kids[k], parts[k])])
  /\ UNCHANGED <<phase, squares>>

----------------------------------------------------------------------------
(* LoadSomeLocations: the locations of the latest files, wherever they are.*)
SampleSets ==
  {s \in UNION {kSubset(k, [lat : SampleLats, lon : SampleLons]) : k \in SampleCounts} :
     EnoughForExtrema(s)}

(* CreateAgencyPartitioner: the longer direction comes first.              *)
InitSamples(samples) ==
  LET sn == NearExtrema(SN, Sorted(SN, samples))
      we == NearExtrema(WE, Sorted(WE, samples))
      first == IF we[2] - we[1] >= sn[2] - sn[1] THEN WE ELSE SN
  IN /\ todo = << Call(first, <<>>, 0, Globe, samples) >>
     /\ tree = <<>>
     /\ squares = [dir |-> Leaf, first |-> 0, second |-> 0]

(* CreateAgencyPartitioner3: the region of the squares is surrounded by    *)
(* four leaves.                                                            *)
InitSquares(samples) ==
  LET sn == NearExtrema(SN, Sorted(SN, samples))
      we == NearExtrema(WE, Sorted(WE, samples))
      base == [s |-> sn[1], n |-> sn[2], w |-> we[1], e |-> we[2]]
  IN \E c \in BestCandidates(Height(base), Width(base)) :
       LET tr == CenteredOn(base, c)
           p == Parts(c)
           dir == IF p.sn >= p.we THEN SN ELSE WE
           belt == Slice(SN, Globe, tr.s, tr.n)
           caps == Regions(SN, Globe, <<tr.s, tr.n>>)
           sides == Regions(WE, belt, <<tr.w, tr.e>>)
       IN /\ tr \in Rects
          /\ tree = [path \in {<<>>, <<2>>} |->
                       IF path = <<>> THEN Node(SN, Globe, 0, <<tr.s, tr.n>>)
                                      ELSE Node(WE, belt, 1, <<tr.w, tr.e>>)]
          /\ todo = << Call("leaf", <<1>>, 1, caps[1], {}),
                       Call("leaf", <<3>>, 1, caps[3], {}),
                       Call("leaf", <<2, 1>>, 2, sides[1], {}),
                       Call("squares", <<2, 2>>, 2, tr, samples),
                       Call("leaf", <<2, 3>>, 2, sides[3], {}) >>
          /\ squares = [dir |-> dir,
                        first |-> (IF dir = SN THEN p.sn ELSE p.we) - 1,
                        second |-> (IF dir = SN THEN p.we ELSE p.sn) - 1]

(* CreateAgencyPartitioner of partition_locations: either way of cutting.  *)
Init ==
  /\ phase = "create"
  /\ \E s \in SampleSets : InitSamples(s) \/ InitSquares(s)

Kids(p) == [k \in 1 .. Len(tree[p].cuts) + 1 |-> tree[Append(p, k)]]

SaveIndex ==
  /\ phase = "create" /\ todo = <<>>
  /\ phase' = "created"
  /\ UNCHANGED <<tree, todo, squares>>

(* The wrong side of the child taken.                                      *)
DecodedCuts_FarSide(p) ==
  [k \in DOMAIN tree[p].cuts |-> Hi(tree[p].dir, Kids(p)[k + 1].r)]

(* ReadPartitionsIndex.  Cut points are not saved: they are taken from the *)
(* regions of the children.  Levels are not restored.                      *)
DecodedCuts(p) ==
  [k \in DOMAIN tree[p].cuts |-> Lo(tree[p].dir, Kids(p)[k + 1].r)]

ReadIndex ==
  /\ phase = "created"
  /\ phase' = "read"
  /\ tree' = [p \in DOMAIN tree |-> Node(tree[p].dir, tree[p].r, 0, DecodedCuts(p))]
  /\ UNCHANGED <<todo, squares>>

Next == MakeLeaf \/ CutOutliers \/ CutSamples \/ CutSquares \/ SaveIndex \/ ReadIndex

Spec == Init /\ [][Next]_vars

----------------------------------------------------------------------------
(* Where a location goes, and which files a query concerns.                *)

Leaves == {p \in DOMAIN tree : tree[p].dir = Leaf}

(* The last cut forgotten.                                                 *)
Child_LastCut(node, loc) ==
  LET beyond == {k \in DOMAIN node.cuts : Coord(node.dir, loc) < node.cuts[k]}
  IN IF beyond = {} THEN Len(node.cuts) ELSE Min(beyond)

(* partition: the first child whose cut is beyond the location.            *)
Child(node, loc) ==
  LET beyond == {k \in DOMAIN node.cuts : Coord(node.dir, loc) < node.cuts[k]}
  IN IF beyond = {} THEN Len(node.cuts) + 1 ELSE Min(beyond)

Route(loc) ==
  LET from[p \in DOMAIN tree] ==
        IF tree[p].dir = Leaf THEN p ELSE from[Append(p, Child(tree[p], loc))]
  IN from[<<>>]

(* The name of a leaf's file is made of the corners of its region.         *)
FileName(p) == tree[p].r

(* The borders left out.                                                   *)
Meets_Inside(q, r) == q.w < r.e /\ q.e > r.w /\ q.s < r.n /\ q.n > r.s

Meets(q, r) == q.w <= r.e /\ q.e >= r.w /\ q.s <= r.n /\ q.n >= r.s

FileNamesForRegion(q) ==
  {FileName(p) : p \in {p \in Leaves :
     \A k \in 0 .. Len(p) : Meets(q, tree[SubSeq(p, 1, k)].r)}}

----------------------------------------------------------------------------
(* Properties.                                                             *)

Complete == phase \in {"created", "read"}

Covers(r, loc) == loc.lat \in r.s .. r.n /\ loc.lon \in r.w .. r.e

(* Strictly inside: the regions of two leaves share borders.               *)
Inside(r, loc) == loc.lat \in r.s + 1 .. r.n - 1 /\ loc.lon \in r.w + 1 .. r.e - 1

(* Squares are quartered far enough.                                       *)
SquaresSmallEnough ==
  squares.dir # Leaf =>
    \A p \in Leaves : Len(p) > 2 => Area(tree[p].r) <= MaxSide * MaxSide

(* Every location is routed to a leaf whose region contains it, and is     *)
(* inside the region of no other: the leaves cover the globe and overlap   *)
(* at most along their borders, however the samples fell.  If the transit  *)
(* region is cut into squares, none is too large.                          *)
LeavesTileGlobe ==
  Complete =>
    /\ \A loc \in Locations :
         /\ Covers(tree[Route(loc)].r, loc)
         /\ \A p \in Leaves : Inside(tree[p].r, loc) => p = Route(loc)
    /\ SquaresSmallEnough

(* A query is told of every file that may hold a location in its region.   *)
Corners(q) == {[lat |-> y, lon |-> x] : y \in {q.s, q.n}, x \in {q.w, q.e}}

QueryFindsFiles ==
  Complete => \A x \in 0 .. MaxLon - 1, y \in 0 .. MaxLat - 1 :
    LET q == [w |-> x, e |-> x + 1, s |-> y, n |-> y + 1]
    IN \A loc \in Corners(q) : FileName(Route(loc)) \in FileNamesForRegion(q)

(* The index that is read back sends every location where the one that was *)
(* saved did.                                                              *)
IndexKeepsRoutes ==
  [][phase = "created" => \A loc \in Locations : Route(loc)' = Route(loc)]_vars
============================================================================
