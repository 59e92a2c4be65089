---------------------------- MODULE MCAlgorithms ----------------------------
(***************************************************************************)
(* The algorithms that keep no state, for TLC: an input is chosen, the     *)
(* program computes its result, and the properties relate the two.         *)
(***************************************************************************)
EXTENDS DeepCompare, Agency, XmlNotes

CONSTANTS NoLastTime, TooLow, TooHigh, None, Malformed, Damaged, MaxBuckets

V == INSTANCE VehicleReports
I == INSTANCE LocationImage

VARIABLES job, result
vars == <<job, result>>

----------------------------------------------------------------------------
(* DeepCompare: two structures, with every way to refer to one another, or *)
(* to channels and boxes, or three with some.                              *)
CONSTANTS o1, o2, o3, b1, b2, c1, c2
Pointers == {Nil, o1, o2}

Structures ==
  [n : {0, 1}, next : Pointers,
   kids : {Nil, <<>>, <<o1>>, <<o1, o2>>, <<o2, o2>>},
   tab : {Nil, "k" :> o1, "k" :> o2, "l" :> o2},
   any : {Nil, 1, o1, o2}, chan : {Nil}]

Odd == [n : {0}, next : {Nil}, kids : { <<>> }, tab : {Nil, <<>>, "k" :> o1, "k" :> o2},
        any : {Nil, b1, b2}, chan : {Nil, c1, c2}]
Boxes == [{b1, b2} -> {1, o2, b1, b2}]

Slim == [n : {0, 1}, next : Pointers \cup {o3}, kids : {Nil, <<o3>>, <<o2, o3>>},
         tab : {Nil}, any : {Nil}, chan : {Nil}]
Compare(at, box, exported, plainKeys) ==
  [what |-> "compare", mem |-> [at |-> at, box |-> box, exported |-> exported,
                                plainKeys |-> plainKeys]]

ChooseStructures ==
  \/ \E a \in {x \in Structures : x.n = 0 /\ x.any \in {Nil, o1, o2}}, b \in Structures,
        e \in BOOLEAN : job = Compare((o1 :> a) @@ (o2 :> b), <<>>, e, TRUE)
  \/ \E a, b \in Odd, box \in Boxes, e, keys \in BOOLEAN :
       job = Compare((o1 :> a) @@ (o2 :> b), box, e, keys)
  \/ \E a, b, c \in Slim :
       job = Compare((o1 :> a) @@ (o2 :> b) @@ (o3 :> c), <<>>, TRUE, TRUE)

----------------------------------------------------------------------------
(* Agency: one file or two.  The hash is the sum of the locations, modulo  *)
(* 2, so that paths collide.                                               *)
SumOf(points) == FoldLeft(LAMBDA n, p : IF p = OffTheMap THEN n ELSE (n + p) % 2, 0, points)

StopElem(t, at) == [tag |-> t, at |-> at]
DirElem(t) == [tag |-> t, title |-> "to " \o t]

SomeStops == { <<>>, <<StopElem("s1", 1)>>, <<StopElem("s1", 2), StopElem("s2", 2)>>,
               <<StopElem("s1", 1), StopElem("s2", OffTheMap)>> }
SomeDirections == { <<DirElem("d1")>>, <<DirElem("d2")>>,
                    <<DirElem("d2"), DirElem("d3")>>, <<DirElem("d3"), DirElem("d2")>> }
SomePaths == { <<>>, << <<1>> >>, << <<1, 2>> >>, << <<2, 1>>, <<1, 2>> >>,
               << <<1, 2>>, <<1>>, <<2, 1>> >> }

WholeFiles == [header : {"whole"}, tag : {"r1", "r2"}, title : {"A"},
               stops : SomeStops, directions : SomeDirections, paths : SomePaths]

PoorFiles == [header : {"whole", "missing", "off the map"}, tag : {"r1"}, title : {Missing, "B"},
              stops : { <<>> }, directions : { <<>>, <<DirElem("d1")>> },
              paths : { << <<OffTheMap, 1>> >>, << <<1>>, <<>> >>, << <<1>> >> }]

(* Tags that are not XML, or are another tag's.                            *)
TagAsRead(t) == CASE t \in {"r&", "d&"} -> Unreadable [] t = "r&#49;" -> "r1" [] OTHER -> t

OddFiles == [header : {"whole"}, tag : {"r2", "r&", "r&#49;"}, title : {"A"}, stops : { <<>> },
             directions : { <<DirElem("d2")>>, <<DirElem("d&")>> }, paths : { << <<1, 2>> >> }]

Files == WholeFiles \cup PoorFiles \cup OddFiles

----------------------------------------------------------------------------
(* XmlNotes: every body of up to 5 tokens, and another to compare with.    *)
Bodies == UNION {[1 .. n -> Token] : n \in 0 .. 5}
Others == { <<"tag">>, <<"tag", "close", "tag">>, <<"pi", "tag", "word">>, <<"tag", "word", "word">> }
Texts == { <<>>, <<"word">>, <<"sp", "word">>, <<"close">>, <<"word", "close", "tag">> }

----------------------------------------------------------------------------
(* VehicleReports: up to three vehicles.                                   *)
Vehicles == [id : {"v"}, at : {1, OffTheMap}, heading : {-3, -2, 0, 360, 361}, age : {0, 7}]
              \cup [id : {"w"}, at : {1}, heading : {0}, age : {0, 3, 7, 12}]
Responses == [lastTime : {NoLastTime, -1, 0, 3999, 4000, 9500},
              vehicles : UNION {[1 .. n -> Vehicles] : n \in 0 .. 2}
                           \cup {<<u, v, v>> : u, v \in Vehicles}]

----------------------------------------------------------------------------
(* LocationImage: up to two reports in the first of two files, about a     *)
(* region of 4 by 6 metres given by either pair of corners, and lines and  *)
(* paths in every direction.                                               *)
Around == {<<x, y>> : x \in {-2, -1, 0, 1, 3, 4}, y \in {-3, -1, 0, 2, 3, 5, 6}}
ReportFiles == {<< <<p, q>>, <<u, p>> >> : p \in Around, q \in Around \cup {Malformed, Damaged},
                                           u \in {<<1, 2>>, <<3, 5>>, Damaged}}
Maps == {[a |-> ab[1], b |-> ab[2], cols |-> size[1], rows |-> size[2]] :
           ab \in {<< <<0, 0>>, <<4, 6>> >>, << <<4, 0>>, <<0, 6>> >>, << <<3, 5>>, <<-1, -1>> >>},
           size \in {<<2, 2>>, <<3, 3>>, <<2, 3>>, <<3, 2>>}}

Ends == {<<x, y>> : x \in -5 .. 5, y \in -5 .. 5}

Places == {<<0, 0>>, <<5, 1>>, <<2, 7>>, <<9, 4>>, <<3, 3>>, <<40, 0>>}
ShortPaths == {<<p, q>> : p, q \in Places} \cup {<<p, q, p>> : p, q \in Places}

----------------------------------------------------------------------------
Job(what) == result = None /\ job.what = what

CompareDeeply ==
  /\ Job("compare")
  /\ result' = DeepCompareOf(job.mem, o1, o2)
  /\ UNCHANGED job

ParseAndRereadPaths ==
  /\ Job("agency")
  /\ \E agencyTag \in {"mbta", "r&"}, cut \in BOOLEAN :
       LET ag == ParseRouteConfigsDir(job.files)
           file == WritePathsToFile(ag, agencyTag, cut)
       IN /\ agencyTag = "mbta" \/ ~cut
          /\ result' = IF Parsed(ag) THEN [ag |-> ag, file |-> file, back |-> ReadPaths(file)]
                       ELSE [ag |-> ag, file |-> None, back |-> None]
  /\ UNCHANGED job

SaveAndArchive ==
  /\ Job("notes")
  /\ \E text \in Texts :
       result' = [text |-> text,
                  saved |-> IF Saved(job.body) THEN SaveXml(job.body, text) ELSE <<>>,
                  asMarkup |-> EntryOf(job.body, TRUE, text),
                  asText |-> EntryOf(job.body, FALSE, text)]
  /\ UNCHANGED job

ConvertResponse ==
  /\ Job("vehicles")
  /\ result' = V!ReportOf(job.body)
  /\ UNCHANGED job

DrawCensus ==
  /\ Job("census")
  /\ result' = LET r == I!NewLocationCensus(job.map.a, job.map.b, job.map.cols, job.map.rows)
                   points == I!LocationsIn(r, job.files)
                   hist == I!Hist2D(r, points)
               IN [r |-> r, points |-> points, hist |-> hist,
                   image |-> I!HistToImage(r, hist), census |-> I!CensusToImage(r, hist)]
  /\ UNCHANGED job

DrawLine ==
  /\ Job("line")
  /\ result' = I!BresenhamLine(<<0, 0>>, job.to)
  /\ UNCHANGED job

DrawPath ==
  /\ Job("path")
  /\ result' = I!InitReportsAndPathImage(job.reports, job.path, job.margin)
  /\ UNCHANGED job

Init ==
  /\ result = None
  /\ \/ ChooseStructures
     \/ \E f, g \in Files : job = [what |-> "agency", files |-> <<f, g>>]
     \/ \E body \in Bodies : job = [what |-> "notes", body |-> body]
     \/ \E body \in Responses : job = [what |-> "vehicles", body |-> body]
     \/ \E m \in Maps, files \in ReportFiles : job = [what |-> "census", map |-> m, files |-> files]
     \/ \E to \in Ends : job = [what |-> "line", to |-> to]
     \/ \E path \in ShortPaths, p, q \in Places, margin \in {1, 3} :
          job = [what |-> "path", path |-> path, reports |-> <<p, q>>, margin |-> margin]

Next == \/ CompareDeeply \/ ParseAndRereadPaths \/ SaveAndArchive \/ ConvertResponse
        \/ DrawCensus \/ DrawLine \/ DrawPath

Spec == Init /\ [][Next]_vars

Done(what) == result # None /\ job.what = what

----------------------------------------------------------------------------
(* DeepCompare finds equal what is the same, also in cycles, and reports   *)
(* true differences, but for channels, unexported keys of maps and maps    *)
(* inside themselves: DifferencesRight.                                    *)
ComparedRight == Done("compare") => DifferencesRight(job.mem, o1, o2, result)

(* The index of a path means the same path in the program that parsed the  *)
(* configuration and in those that read the file of paths, and routes and  *)
(* paths know each other.                                                  *)
PathsKeepTheirIndex ==
  Done("agency") => /\ PathsOfTheFiles(job.files, result.ag)
                    /\ PathsSurviveTheFile(result.ag, result.file, result.back)

(* A note changes nothing of what a saved or archived body says and two    *)
(* notes do not make the same body differ, but for a note with an end of   *)
(* comment, which a saved body gets as it is; and files never compare the  *)
(* same that differ in what they say.                                      *)
NotesChangeNothing ==
  Done("notes") => /\ NotesAreComments(job.body, result)
                   /\ \A other \in Others : NotesDoNotCount(job.body, other, result)

(* Times follow from lastTime and the ages, and survive the archive:       *)
(* V!TimesAreRight.                                                        *)
TimesKept == Done("vehicles") => V!TimesAreRight(job.body, result)

(* Each reported location in the region is counted where it is, the        *)
(* picture is brighter where more was reported (the one of csv_to_image    *)
(* when it is square), and lines and paths run where they should.  What    *)
(* is outside, the lowest row, and a region that gives no cells are the    *)
(* exceptions: I!FallsIn, I!ShadesTrue and I!PathTrue say which.           *)
ImagesTrue ==
  /\ Done("census") => /\ I!CountsTrue(result.r, result.points, result.hist)
                       /\ I!ShadesTrue(result.r, result.hist, result.image)
                       /\ result.r.cols = result.r.rows =>
                            I!ShadesTrue(result.r, result.hist, result.census)
  /\ Done("line") => I!LineTrue(<<0, 0>>, job.to, result)
  /\ Done("path") => /\ ~result.panic => I!CountsTrue(result.r, result.points, result.hist)
                     /\ I!PathTrue(job.margin, result)
============================================================================
