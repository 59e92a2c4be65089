------------------------------- MODULE Agency -------------------------------
(***************************************************************************)
(* nextbus/agency.go, route.go, stop.go, direction.go, path.go: the route  *)
(* configuration files are parsed one after the other into one agency,     *)
(* whose routes share stops and paths; gen_all_paths writes its paths to a *)
(* file, and the programs that match locations to paths read that file     *)
(* and refer to a path by its index.                                       *)
(*                                                                         *)
(* A parsed file is [header, tag, title, stops, directions, paths]; each   *)
(* stop [tag, at], each direction [tag, title], each path a sequence of    *)
(* locations.  What else an element holds goes the way of the title.       *)
(***************************************************************************)
EXTENDS Integers, Sequences, FiniteSets, SequencesExt, Functions

CONSTANTS OffTheMap,    (* stands for coordinates out of range             *)
          Hash(_),      (* hashLocations: locations may collide            *)
          AsRead(_),    (* what an XML reader finds where a tag was written*)
          Unreadable    (* as it is, Unreadable if that is not XML         *)

Missing == ""    (* an attribute that is not there                         *)

NoneYet == [x \in {} |-> {}]
Put(f, k, v) == [x \in {k} \cup DOMAIN f |-> IF x = k THEN v ELSE f[x]]
InBucket(ag, h) == IF h \in DOMAIN ag.byHash THEN ag.byHash[h] ELSE <<>>

(* NewAgency; failed: an error was returned.                               *)
NewAgency == [routes |-> NoneYet, directions |-> NoneYet, stops |-> NoneYet,
              paths |-> <<>>, byHash |-> NoneYet, failed |-> FALSE, panic |-> FALSE]

Fail(ag) == [ag EXCEPT !.failed = TRUE]
FailIf(ag, bad) == [ag EXCEPT !.failed = @ \/ bad]

(* maybeSetStringField: a value that is there fills an empty field, and    *)
(* must be the one of a field already set.                                 *)
Filled(field, val) == IF field = Missing THEN val ELSE field
Mismatch(field, val) == val # Missing /\ field # Missing /\ field # val

NewRoute == [title |-> Missing, stops |-> {}, directions |-> {}, paths |-> <<>>]

(* getOrAddRouteByTag and Route.initFromElement                            *)
InitRoute(ag, elem) ==
  LET route == IF elem.tag \in DOMAIN ag.routes THEN ag.routes[elem.tag] ELSE NewRoute
  IN FailIf([ag EXCEPT !.routes = Put(@, elem.tag,
                                      [route EXCEPT !.title = Filled(@, elem.title)])],
            Mismatch(route.title, elem.title))

(* Stop.initFromElement: a stop that has a location must be defined there  *)
(* again.                                                                  *)
StopDisagrees(ag, elem) == elem.tag \in DOMAIN ag.stops /\ elem.at # ag.stops[elem.tag]

(* stopFromDefinitionElem: a stop another route defined is shared, even    *)
(* when this definition disagrees with it.                                 *)
AddStop(ag, routeTag, elem) ==
  LET known == elem.tag \in DOMAIN ag.stops
      usable == elem.tag # Missing /\ (known \/ elem.at # OffTheMap)
      stops == IF known \/ ~usable THEN ag.stops ELSE Put(ag.stops, elem.tag, elem.at)
  IN FailIf([ag EXCEPT !.stops = stops,
                       !.routes[routeTag].stops = IF usable THEN @ \cup {elem.tag} ELSE @],
            ~usable \/ StopDisagrees(ag, elem))

AddStops(ag, file) == FoldLeft(LAMBDA a, s : AddStop(a, file.tag, s), ag, file.stops)

(* The stops of a direction are those of the whole route, once each.       *)
StopsOnce(route, stops) ==
  FoldLeft(LAMBDA ids, s : IF s.tag \in route.stops /\ s.tag \notin Range(ids)
                           THEN Append(ids, s.tag) ELSE ids, <<>>, stops)

NewDirection(routeTag) == [route |-> routeTag, title |-> Missing, stops |-> <<>>]

(* getOrAddDirectionByTag with addNewDirection, which panics when another  *)
(* route has the direction; Direction.initFromElement.                     *)
InitDirection(ag, routeTag, elem) ==
  LET mine == elem.tag \in ag.routes[routeTag].directions
      taken == ~mine /\ elem.tag \in DOMAIN ag.directions
      dir == IF mine THEN ag.directions[elem.tag] ELSE NewDirection(routeTag)
  IN IF ag.panic \/ taken THEN [ag EXCEPT !.panic = TRUE]
     ELSE FailIf([ag EXCEPT
                    !.directions = Put(@, elem.tag, [dir EXCEPT !.title = Filled(@, elem.title)]),
                    !.routes[routeTag].directions = @ \cup {elem.tag}],
                 Mismatch(dir.title, elem.title))

(* parseRouteConfigDirectionDefs, one direction.                           *)
AddDirection(ag, file, elem) ==
  IF elem.tag = Missing \/ elem.title = Missing THEN Fail(ag)
  ELSE LET init == InitDirection(ag, file.tag, elem)
           old == init.directions[elem.tag].stops
           all == StopsOnce(init.routes[file.tag], file.stops)
           new == SelectSeq(all, LAMBDA s : s \notin Range(old))
       IN IF init.panic THEN init
          ELSE FailIf([init EXCEPT !.directions[elem.tag].stops = old \o new],
                      Len(new) # Len(file.stops))

AddDirections(ag, file) == FoldLeft(LAMBDA a, d : AddDirection(a, file, d), ag, file.directions)

(* Among the paths of the same hash, the first is taken for the one.       *)
SamePath_ByHash(ag, points) == {i \in 1 .. Len(ag.paths) : InBucket(ag, Hash(points)) # <<>>
                                                           /\ i = InBucket(ag, Hash(points))[1]}

SamePath(ag, points) == {i \in Range(InBucket(ag, Hash(points))) : ag.paths[i].points = points}

(* getOrAddPathByLocations: a path has the index it is added with.         *)
AddPathByLocations(ag, points) ==
  IF SamePath(ag, points) # {} THEN ag
  ELSE [ag EXCEPT !.paths = Append(@, [points |-> points, routes |-> {}]),
                  !.byHash = Put(@, Hash(points),
                                 Append(InBucket(ag, Hash(points)), Len(ag.paths) + 1))]

IndexOf(ag, points) == CHOOSE i \in SamePath(ag, points) : TRUE

(* parseRouteConfigPathDefs and ReadPaths: the path and the route know     *)
(* each other.                                                             *)
Link(ag, routeTag, i) ==
  [ag EXCEPT !.paths[i].routes = @ \cup {routeTag},
             !.routes[routeTag].paths = Append(@, i)]

AddPath(ag, file, points) ==
  IF points = <<>> THEN Fail(ag)
  ELSE LET added == AddPathByLocations(ag, points)
       IN FailIf(Link(added, file.tag, IndexOf(added, points)), OffTheMap \in Range(points))

AddPaths(ag, file) ==
  IF ag.panic THEN ag ELSE FoldLeft(LAMBDA a, p : AddPath(a, file, p), ag, file.paths)

(* ParseRouteConfigXml.  The header of a file is "whole", "missing" data,  *)
(* or has bounds off the map, on which maybeSetLatitudeField panics.  A    *)
(* route is filled from one file only.                                     *)
ParseRouteConfig(ag, file) ==
  CASE file.header = "missing" \/ file.tag = Missing \/ file.title = Missing
       \/ file.directions = <<>> -> Fail(ag)
    [] OTHER ->
         LET init == InitRoute(ag, file)
             route == init.routes[file.tag]
             empty == route.stops = {} /\ route.directions = {} /\ route.paths = <<>>
         IN IF file.header = "off the map" THEN [init EXCEPT !.panic = TRUE]
            ELSE IF empty THEN AddPaths(AddDirections(AddStops(init, file), file), file)
            ELSE init

(* ParseRouteConfigsDir: up to the first file with an error.               *)
ParseNext(ag, file) == IF ag.failed \/ ag.panic THEN ag ELSE ParseRouteConfig(ag, file)

ParseRouteConfigsDir(files) ==
  FoldLeft(ParseNext, NewAgency, files)

(* writePath: titles are escaped, but tags are written as they are.        *)
RouteElement(ag, tag) ==
  [tag |-> tag, title |-> ag.routes[tag].title,
   directions |-> {[tag |-> d, title |-> ag.directions[d].title] : d \in ag.routes[tag].directions}]

(* WritePaths: in the order of the indices, which are not written for the  *)
(* reader.                                                                 *)
WritePaths(ag) ==
  [i \in 1 .. Len(ag.paths) |->
     [points |-> ag.paths[i].points,
      routes |-> {RouteElement(ag, tag) : tag \in ag.paths[i].routes}]]

(* WritePathsToFile tells its caller of an error of os.Create only: a file *)
(* is cut when a later write failed, or the program ended.  The agency's   *)
(* tag is written as it is too.                                            *)
WritePathsToFile(ag, agencyTag, cut) ==
  [agency |-> agencyTag, paths |-> WritePaths(ag), cut |-> cut]

DirectionsIn(file) == UNION {r.directions : r \in UNION {p.routes : p \in Range(file.paths)}}
TagsIn(file) == {file.agency} \cup {r.tag : r \in UNION {p.routes : p \in Range(file.paths)}}
                  \cup {d.tag : d \in DirectionsIn(file)}

(* decoder.Decode: to its error, or to the elements with the tags it finds.*)
Decodes(file) == ~file.cut /\ \A t \in TagsIn(file) : AsRead(t) # Unreadable

DecodedRoute(r) ==
  [tag |-> AsRead(r.tag), title |-> r.title,
   directions |-> {[tag |-> AsRead(d.tag), title |-> d.title] : d \in r.directions}]

Decoded(file) ==
  [i \in DOMAIN file.paths |->
     [points |-> file.paths[i].points,
      routes |-> {DecodedRoute(r) : r \in file.paths[i].routes}]]

(* The error of ReadPaths is that of the last element that can fail: an    *)
(* earlier one is forgotten.                                               *)
Forget(ag) == [ag EXCEPT !.failed = FALSE]

ReadDirections(ag, elem) ==
  FoldLeft(LAMBDA a, d : InitDirection(Forget(a), elem.tag, d), ag, SetToSeq(elem.directions))

ReadRoute(ag, i, elem) ==
  LET init == InitRoute(Forget(ag), elem)
  IN IF init.failed \/ init.panic THEN init
     ELSE ReadDirections(Link(init, elem.tag, i), elem)

ReadRoutes(ag, i, elem) ==
  FoldLeft(LAMBDA a, r : ReadRoute(a, i, r), ag, SetToSeq(elem.routes))

(* ReadPaths                                                               *)
ReadPath(ag, elem) ==
  LET added == AddPathByLocations(ag, elem.points)
  IN ReadRoutes(added, IndexOf(added, elem.points), elem)

ReadElements(body) ==
  IF body = <<>> THEN Fail(NewAgency) ELSE FoldLeft(ReadPath, NewAgency, body)

ReadPaths(file) ==
  IF Decodes(file) /\ AsRead(file.agency) # Missing THEN ReadElements(Decoded(file))
  ELSE Fail(NewAgency)

----------------------------------------------------------------------------
Parsed(ag) == ~ag.failed /\ ~ag.panic

(* The file that first names a route fills it.                             *)
FileOf(files, tag) == files[CHOOSE i \in DOMAIN files :
  files[i].tag = tag /\ \A j \in 1 .. i - 1 : files[j].tag # tag]

(* Every route has the paths of its file, in their order, and every path   *)
(* the routes that have it, although routes share paths and hashes         *)
(* collide.                                                                *)
PathsOfTheFiles(files, ag) ==
  Parsed(ag) =>
    /\ \A tag \in DOMAIN ag.routes :
         [n \in DOMAIN ag.routes[tag].paths |-> ag.paths[ag.routes[tag].paths[n]].points]
           = FileOf(files, tag).paths
    /\ \A i \in DOMAIN ag.paths :
         ag.paths[i].routes = {tag \in DOMAIN ag.routes : i \in Range(ag.routes[tag].paths)}

(* Tags that mean themselves in XML.                                       *)
Plain(file) == file.agency # Missing /\ \A t \in TagsIn(file) : AsRead(t) = t /\ t # Unreadable

(* An agency whose paths are written and read again has the same path at   *)
(* every index, with the same routes, and these have their directions, if  *)
(* the file is whole and no tag has a character that XML gives a meaning.  *)
(* From a file that is not whole no paths are read at all.                 *)
PathsSurviveTheFile(ag, file, back) ==
  Parsed(ag) /\ ag.paths # <<>> =>
    /\ file.cut => ~Parsed(back)
    /\ ~file.cut /\ Plain(file) =>
         /\ Parsed(back) /\ back.paths = ag.paths
         /\ \A tag \in DOMAIN back.routes :
              /\ back.routes[tag].directions = ag.routes[tag].directions
              /\ Range(back.routes[tag].paths) = Range(ag.routes[tag].paths)
              /\ \A d \in back.routes[tag].directions :
                   /\ back.directions[d].route = tag
                   /\ back.directions[d].title = ag.directions[d].title
============================================================================
