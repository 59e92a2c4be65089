--------------------------- MODULE LocationImage ---------------------------
(***************************************************************************)
(* The programs that draw reported locations: geom.Hist2D and its copy     *)
(* LocationCensus in cmds/csv_to_image, which count the locations that     *)
(* fall in each cell of a region and shade a picture by the ranks of the   *)
(* counts, and the drawing of paths over it in cmds/fit_path_points.       *)
(*                                                                         *)
(* A region is a record [w, h, cols, rows]: its extent, and the number of  *)
(* cells along each side.  A location is a pair of coordinates from the    *)
(* region's lowest corner.  A picture is a function from the pixels inside *)
(* it to shades of 0 to Scale, where Blank is the transparent colour.      *)
(***************************************************************************)
EXTENDS Integers, Sequences, FiniteSets, SequencesExt, FiniteSetsExt

CONSTANTS
  Malformed, Damaged,   \* a record with a field that does not parse; one that is not CSV
  MaxBuckets            \* cells along the longer side of a picture of a path, at most (4096)

Blank == -1
Scale == 255

Abs(n) == IF n < 0 THEN -n ELSE n

----------------------------------------------------------------------------
(* Counting.                                                               *)

(* int() of a float drops the fraction, whatever the sign.                 *)
Truncated(n, d) == IF n < 0 THEN -((-n) \div d) ELSE n \div d

RowOf(r, p) == Truncated(p[2] * r.rows, r.h)
ColumnOf(r, p) == Truncated(p[1] * r.cols, r.w)
CellOf(r, p) == <<RowOf(r, p), ColumnOf(r, p)>>

CellsOf(r) == (0 .. r.rows - 1) \X (0 .. r.cols - 1)

NewHist2D(r) == [at |-> [c \in CellsOf(r) |-> 0], maxVal |-> 0, nonZero |-> 0]

IncrementRC(r, hist, c) ==
  IF c \notin CellsOf(r) THEN hist
  ELSE LET val == hist.at[c] + 1
       IN [at |-> [hist.at EXCEPT ![c] = val],
           maxVal |-> IF hist.maxVal < val THEN val ELSE hist.maxVal,
           nonZero |-> IF val = 1 THEN hist.nonZero + 1 ELSE hist.nonZero]

Hist2D(r, points) ==
  FoldLeft(LAMBDA hist, p : IncrementRC(r, hist, CellOf(r, p)), NewHist2D(r), points)

(* A file is read up to the first record the CSV reader rejects; a record  *)
(* whose fields do not parse is left out.  The next file is read either    *)
(* way: main keeps only the last error, and does not look at it.           *)
ReadableIn(file) ==
  LET bad == {i \in 1 .. Len(file) : file[i] = Damaged}
      end == IF bad = {} THEN Len(file) ELSE Min(bad) - 1
  IN SelectSeq(SubSeq(file, 1, end), LAMBDA rec : rec # Malformed)

(* The corners of the region may be given in any order.                    *)
NewLocationCensus(a, b, cols, rows) ==
  [x0 |-> Min({a[1], b[1]}), w |-> Abs(b[1] - a[1]),
   y0 |-> Min({a[2], b[2]}), h |-> Abs(b[2] - a[2]), cols |-> cols, rows |-> rows]

LocationsIn(r, files) ==
  LET read == FlattenSeq([i \in 1 .. Len(files) |-> ReadableIn(files[i])])
  IN [i \in 1 .. Len(read) |-> <<read[i][1] - r.x0, read[i][2] - r.y0>>]

----------------------------------------------------------------------------
(* Shading.                                                                *)

HistCountOccurrences(hist) ==
  [v \in {hist.at[c] : c \in DOMAIN hist.at} |->
     Cardinality({c \in DOMAIN hist.at : hist.at[c] = v})]

ToSlice(counts) ==
  LET order == SetToSortSeq(DOMAIN counts, <)
  IN [i \in 1 .. Len(order) |-> [intensity |-> order[i], count |-> counts[order[i]]]]

ToCDF(slice) ==
  [i \in 1 .. Len(slice) |->
     [slice[i] EXCEPT !.count = FoldLeft(LAMBDA n, e : n + e.count, 0, SubSeq(slice, 1, i))]]

(* The shade of the i-th intensity: the share of cells with a higher count *)
(* than the lowest, rounded to the nearest step.                           *)
Shade(cdf, i) ==
  LET numer == cdf[i].count - cdf[1].count
      denom == Last(cdf).count - cdf[1].count
  IN IF numer > 0 THEN Min({Scale, (2 * Scale * numer + denom) \div (2 * denom)}) ELSE Blank

(* The entry for a count that does not occur is that of the next that does.*)
CDFToHEPalette(cdf) ==
  [v \in 0 .. Last(cdf).intensity |->
     Shade(cdf, Min({i \in 1 .. Len(cdf) : cdf[i].intensity >= v}))]

PaletteOf(hist) == CDFToHEPalette(ToCDF(ToSlice(HistCountOccurrences(hist))))

----------------------------------------------------------------------------
(* Pictures.                                                               *)

Pixels(r) == (0 .. r.cols - 1) \X (0 .. r.rows - 1)

(* Row 0 is drawn in line top, below which the picture ends; Set ignores a *)
(* pixel that is not in the picture.                                       *)
Drawn(r, hist, top) ==
  LET palette == PaletteOf(hist)
  IN [xy \in Pixels(r) |-> LET c == <<top - xy[2], xy[1]>>
                           IN IF c \in CellsOf(r) THEN palette[hist.at[c]] ELSE Blank]

HistToImage(r, hist) == Drawn(r, hist, r.rows)

(* The copy in csv_to_image counts the lines from the width.               *)
CensusToImage(r, hist) == Drawn(r, hist, r.cols)

DataPtToImageXY(r, p) == <<ColumnOf(r, p), r.rows - RowOf(r, p)>>

----------------------------------------------------------------------------
(* Lines: the pixels from <<x, y>> on.                                     *)
RECURSIVE LineFrom(_, _, _, _, _)
LineFrom(x, y, to, way, err) ==
  IF <<x, y>> = to THEN <<to>>
  ELSE LET aside == 2 * err > -way.dy
           along == 2 * err < way.dx
       IN <<<<x, y>>>> \o LineFrom(IF aside THEN x + way.sx ELSE x,
                                   IF along THEN y + way.sy ELSE y, to, way,
                                   err - (IF aside THEN way.dy ELSE 0)
                                       + (IF along THEN way.dx ELSE 0))

Step(from, to) == IF from < to THEN 1 ELSE -1

(* A mutant: the error starts from nothing.                                *)
BresenhamLine_NoError(from, to) ==
  LineFrom(from[1], from[2], to,
           [dx |-> Abs(to[1] - from[1]), sx |-> Step(from[1], to[1]),
            dy |-> Abs(to[2] - from[2]), sy |-> Step(from[2], to[2])], 0)

BresenhamLine(from, to) ==
  LET way == [dx |-> Abs(to[1] - from[1]), sx |-> Step(from[1], to[1]),
              dy |-> Abs(to[2] - from[2]), sy |-> Step(from[2], to[2])]
  IN LineFrom(from[1], from[2], to, way, way.dx - way.dy)

DrawPolyline(r, points) ==
  IF Len(points) < 2 THEN {}
  ELSE UNION {Range(BresenhamLine(DataPtToImageXY(r, points[i]), DataPtToImageXY(r, points[i + 1]))) :
                i \in 1 .. Len(points) - 1}

(* The four sides, each from corner to corner.                             *)
DrawRectangle(a, b) ==
  LET xs == Min({a[1], b[1]}) .. Max({a[1], b[1]})
      ys == Min({a[2], b[2]}) .. Max({a[2], b[2]})
  IN {xy \in xs \X ys : xy[1] \in {a[1], b[1]} \/ xy[2] \in {a[2], b[2]}}

----------------------------------------------------------------------------
(* The picture of a path and the reports about it.  A box is a record      *)
(* [x0, x1, y0, y1].                                                       *)
BoundsOf(points) ==
  [x0 |-> Min({p[1] : p \in points}), x1 |-> Max({p[1] : p \in points}),
   y0 |-> Min({p[2] : p \in points}), y1 |-> Max({p[2] : p \in points})]

AddBorder(b, n) == [x0 |-> b.x0 - n, x1 |-> b.x1 + n, y0 |-> b.y0 - n, y1 |-> b.y1 + n]

BoxUnion(a, b) == [x0 |-> Min({a.x0, b.x0}), x1 |-> Max({a.x1, b.x1}),
                   y0 |-> Min({a.y0, b.y0}), y1 |-> Max({a.y1, b.y1})]

(* One cell for each metre, or MaxBuckets along the longer side.           *)
CellsFor(side, longer) ==
  IF longer > MaxBuckets THEN (2 * side * MaxBuckets + longer) \div (2 * longer) ELSE side

NewMetricPathImage(box) ==
  LET w == box.x1 - box.x0
      h == box.y1 - box.y0
  IN [w |-> w, h |-> h, cols |-> CellsFor(w, Max({w, h})), rows |-> CellsFor(h, Max({w, h}))]

(* Reports are given a border of a metre, the path one of margin.  When    *)
(* there is no cell LogHistogramAndCDF panics, which HistToImage calls.    *)
InitReportsAndPathImage(reports, path, margin) ==
  LET around == BoundsOf(Range(path))
      box == BoxUnion(AddBorder(BoundsOf(Range(reports)), 1), AddBorder(around, margin))
      r == NewMetricPathImage(box)
      Inside(p) == <<p[1] - box.x0, p[2] - box.y0>>
      Moved(points) == [i \in 1 .. Len(points) |-> Inside(points[i])]
      hist == Hist2D(r, Moved(reports))
  IN IF CellsOf(r) = {} THEN [r |-> r, panic |-> TRUE]
     ELSE [r |-> r, panic |-> FALSE,
           points |-> Moved(reports), hist |-> hist, image |-> HistToImage(r, hist),
           frame |-> DrawRectangle(DataPtToImageXY(r, Inside(<<around.x0, around.y0>>)),
                                   DataPtToImageXY(r, Inside(<<around.x1, around.y1>>))),
           line |-> DrawPolyline(r, Moved(path))]

----------------------------------------------------------------------------
(* Every point inside the region is counted once, in its cell.  Of those   *)
(* outside, which the comment of DataBounds says are ignored, the row and  *)
(* the column at the lower edges count what is less than a cell beyond,    *)
(* and no others are counted.                                              *)
FallsIn(r, p, c) ==
  /\ p[1] * r.cols < (c[2] + 1) * r.w /\ p[2] * r.rows < (c[1] + 1) * r.h
  /\ IF c[2] = 0 THEN p[1] * r.cols > -r.w ELSE p[1] * r.cols >= c[2] * r.w
  /\ IF c[1] = 0 THEN p[2] * r.rows > -r.h ELSE p[2] * r.rows >= c[1] * r.h

CountsTrue(r, points, hist) ==
  LET true == [c \in CellsOf(r) |-> Cardinality({i \in 1 .. Len(points) : FallsIn(r, points[i], c)})]
  IN /\ hist.at = true
     /\ hist.nonZero = Cardinality({c \in CellsOf(r) : true[c] > 0})
     /\ \A c \in CellsOf(r) : hist.maxVal >= true[c]
     /\ hist.maxVal > 0 => \E c \in CellsOf(r) : true[c] = hist.maxVal

(* Where more was reported the picture is brighter or as bright, the       *)
(* busiest cells are the brightest and the emptiest are left out.  The     *)
(* lowest row of cells is not in the picture, and its upper line is empty. *)
ShadesTrue(r, hist, image) ==
  LET CellAt(xy) == <<r.rows - xy[2], xy[1]>>
      shown == {xy \in Pixels(r) : xy[2] > 0}
      counts == {hist.at[c] : c \in CellsOf(r)}
  IN /\ \A xy \in Pixels(r) \ shown : image[xy] = Blank
     /\ \A xy, uv \in shown : hist.at[CellAt(xy)] > hist.at[CellAt(uv)] => image[xy] >= image[uv]
     /\ \A xy \in shown : LET n == hist.at[CellAt(xy)]
                          IN /\ n = Min(counts) <=> image[xy] = Blank
                             /\ n = Max(counts) /\ n > Min(counts) => image[xy] = Scale

(* A line has no gap, nor a pixel more than it needs, and none is further  *)
(* than half a pixel from where it should be.                              *)
LineTrue(from, to, pixels) ==
  LET dx == to[1] - from[1]
      dy == to[2] - from[2]
      longer == Max({Abs(dx), Abs(dy)})
  IN /\ Len(pixels) = longer + 1 /\ pixels[1] = from /\ Last(pixels) = to
     /\ \A i \in 1 .. longer : /\ pixels[i + 1] # pixels[i]
                               /\ Abs(pixels[i + 1][1] - pixels[i][1]) <= 1
                               /\ Abs(pixels[i + 1][2] - pixels[i][2]) <= 1
     /\ \A i \in 1 .. Len(pixels) :
          2 * Abs(dy * (pixels[i][1] - from[1]) - dx * (pixels[i][2] - from[2])) <= longer

(* Every report is counted and seen in the picture, but in the lowest row, *)
(* in which there are none when a cell is a metre; a path keeps within its *)
(* frame, which is in the picture when the margin is at least a cell wide. *)
(* No picture is drawn when one side is so much longer that the cells of   *)
(* the other round to none.                                                *)
PathTrue(margin, drawn) ==
  LET r == drawn.r
      total == FoldFunctionOnSet(LAMBDA n, m : n + m, 0, drawn.hist.at, CellsOf(r))
      empty == \E c \in CellsOf(r) : drawn.hist.at[c] = 0
  IN IF drawn.panic THEN 2 * MaxBuckets * Min({r.w, r.h}) < Max({r.w, r.h})
     ELSE
     /\ total = Len(drawn.points)
     /\ \A i \in 1 .. Len(drawn.points) :
          LET xy == DataPtToImageXY(r, drawn.points[i])
          IN IF RowOf(r, drawn.points[i]) = 0 THEN r.rows < r.h
             ELSE xy \in Pixels(r) /\ (empty => drawn.image[xy] # Blank)
     /\ \A xy \in drawn.line : \A s \in {1, 2} :
          /\ xy[s] >= Min({uv[s] : uv \in drawn.frame})
          /\ xy[s] <= Max({uv[s] : uv \in drawn.frame})
     /\ margin * r.rows >= r.h /\ margin * r.cols >= r.w => drawn.frame \subseteq Pixels(r)
============================================================================
