----------------------------- MODULE DeepCompare ----------------------------
(***************************************************************************)
(* compare/deep_compare.go: are two values the same all the way down, and  *)
(* if not, where do they differ?  The configuration fetcher compares what  *)
(* it fetched with it.                                                     *)
(*                                                                         *)
(* The values are structures in a memory, each with a field of every kind  *)
(* that is treated differently: a number, a pointer, a slice of pointers,  *)
(* a map to pointers, an interface and a channel, which stands for         *)
(* functions and unsafe pointers too.  Pointers may form cycles; so may    *)
(* boxes, maps with one entry, which is an interface.                      *)
(***************************************************************************)
EXTENDS Integers, Sequences, FiniteSets, SequencesExt

CONSTANT Nil    (* the pointer, slice, map, interface or channel that is nil *)

(* An interface holds a number, a pointer to a structure or a box.         *)
(* mem.exported says whether the fields are exported, mem.plainKeys        *)
(* whether the keys of the maps to pointers are of a primitive type.       *)
IsPointer(mem, a) == a \in DOMAIN mem.at
IsBox(mem, a) == a \in DOMAIN mem.box
SameType(mem, a, b) ==
  IsPointer(mem, a) = IsPointer(mem, b) /\ IsBox(mem, a) = IsBox(mem, b)

(* compareState; the comparison returns, unless a panic has unwound it or  *)
(* its recursion has no end.                                               *)
Start == [visited |-> {}, diffs |-> {}, end |-> "returns"]
Stopped(how, st) == IF st.end = "returns" THEN [st EXCEPT !.end = how] ELSE st

Report(st, path, msg) ==
  [st EXCEPT !.diffs = @ \cup {[path |-> path, msg |-> msg]}]

CompareNumbers(path, v, w, st) == IF v = w THEN st ELSE Report(st, path, "value")

(* castInterface: a value that is not primitive is taken out of the        *)
(* structure, which panics if its field is not exported.                   *)
CastInterface(mem, primitive, st) ==
  IF primitive \/ mem.exported THEN st ELSE Stopped("panics", st)

(* reportMissingValueDifference, reportExtraValueDifference of a pointer.  *)
ReportOneSided(mem, path, msg, st) ==
  CastInterface(mem, FALSE, Report(st, path, msg))

(* uncomparableComparator: two that are not nil are never taken for one.   *)
CompareChannels(path, c, d, st) ==
  IF c = Nil \/ d = Nil THEN CompareNumbers(path, c, d, st)
  ELSE Report(st, path, "uncomparable")

(* Only what one side was compared with before is looked up.               *)
Visited_OneSide(p, q, st) == \E pair \in st.visited : p \in pair

(* Pairs are remembered without their order.                               *)
Visited(p, q, st) == {p, q} \in st.visited

RECURSIVE CompareStructs(_, _, _, _, _)

(* compareMatchedPair for two pointers, and ptrComparator.                 *)
ComparePointers(mem, path, p, q, st) ==
  CASE st.end # "returns" -> st
    [] st.end = "returns" /\ (p = Nil \/ q = Nil) -> CompareNumbers(path, p, q, st)
    [] st.end = "returns" /\ p # Nil /\ q # Nil ->
         IF p = q \/ Visited(p, q, st) THEN st
         ELSE CompareStructs(mem, path, p, q, [st EXCEPT !.visited = @ \cup {{p, q}}])

(* arrayComparator                                                         *)
CompareSlices(mem, path, s, t, st) ==
  IF s = Nil \/ t = Nil THEN IF s = t THEN st ELSE Report(st, path, "value")
  ELSE LET n == IF Len(s) < Len(t) THEN Len(s) ELSE Len(t)
           long == IF Len(s) = n THEN t ELSE s
           msg == IF Len(s) = n THEN "extra" ELSE "missing"
           lengths == IF Len(s) = Len(t) THEN st ELSE Report(st, path, "length")
           both == FoldLeft(LAMBDA x, i : ComparePointers(mem, Append(path, i), s[i], t[i], x),
                            lengths, [i \in 1 .. n |-> i])
       IN FoldLeft(LAMBDA x, i : ReportOneSided(mem, Append(path, n + i), msg, x),
                   both, [i \in 1 .. Len(long) - n |-> i])

(* mapComparator; the keys in some order, each taken out for its path.     *)
CompareMaps(mem, path, m1, m2, st) ==
  IF m1 = Nil \/ m2 = Nil THEN IF m1 = m2 THEN st ELSE Report(st, path, "value")
  ELSE LET lengths == IF Cardinality(DOMAIN m1) = Cardinality(DOMAIN m2)
                      THEN st ELSE Report(st, path, "length")
           first == FoldLeft(LAMBDA x, k :
                       LET y == CastInterface(mem, mem.plainKeys, x)
                       IN IF k \in DOMAIN m2
                          THEN ComparePointers(mem, Append(path, k), m1[k], m2[k], y)
                          ELSE ReportOneSided(mem, Append(path, k), "missing", y),
                     lengths, SetToSeq(DOMAIN m1))
       IN FoldLeft(LAMBDA x, k : ReportOneSided(mem, Append(path, k), "extra",
                                   CastInterface(mem, mem.plainKeys, x)),
                   first, SetToSeq(DOMAIN m2 \ DOMAIN m1))

(* interfaceComparator, and mapComparator for boxes.  The value of a map   *)
(* has no address, so that no pair of boxes is remembered: two that are    *)
(* met again inside themselves (open) will be met for ever.                *)
RECURSIVE CompareInterfaces(_, _, _, _, _, _)
CompareInterfaces(mem, path, a, b, open, st) ==
  CASE a = Nil \/ b = Nil -> IF a = b THEN st ELSE Report(st, path, "value")
    [] a # Nil /\ b # Nil /\ ~SameType(mem, a, b) -> Report(st, path, "type")
    [] a # Nil /\ b # Nil /\ SameType(mem, a, b) ->
         IF IsPointer(mem, a) THEN ComparePointers(mem, path, a, b, st)
         ELSE IF ~IsBox(mem, a) THEN CompareNumbers(path, a, b, st)
         ELSE IF a = b THEN st
         ELSE IF <<a, b>> \in open THEN Stopped("overflows", st)
         ELSE CompareInterfaces(mem, Append(path, "in"), mem.box[a], mem.box[b],
                                open \cup {<<a, b>>}, st)

(* structComparator: one field after the other.                            *)
CompareStructs(mem, path, p, q, st) ==
  LET x == mem.at[p]
      y == mem.at[q]
      numbers == CompareNumbers(Append(path, "n"), x.n, y.n, st)
      pointers == ComparePointers(mem, Append(path, "next"), x.next, y.next, numbers)
      slices == CompareSlices(mem, Append(path, "kids"), x.kids, y.kids, pointers)
      maps == CompareMaps(mem, Append(path, "tab"), x.tab, y.tab, slices)
      channels == CompareChannels(Append(path, "chan"), x.chan, y.chan, maps)
  IN IF channels.end # "returns" THEN channels
     ELSE CompareInterfaces(mem, Append(path, "any"), x.any, y.any, {}, channels)

(* DeepCompare of two pointers; one that does not return gives nothing.    *)
DeepCompareOf(mem, p, q) ==
  LET st == ComparePointers(mem, <<>>, p, q, Start)
      found == IF st.end = "returns" THEN st.diffs ELSE {}
  IN [end |-> st.end, eq |-> st.end = "returns" /\ found = {}, diffs |-> found]

----------------------------------------------------------------------------
(* The reference: structures are the same if nothing that can be reached   *)
(* tells them apart, which is the greatest relation of this kind.          *)

Alike(rel, p, q) == p = q \/ (p # Nil /\ q # Nil /\ <<p, q>> \in rel)

AlikeSlices(rel, s, t) ==
  IF s = Nil \/ t = Nil THEN s = t
  ELSE Len(s) = Len(t) /\ \A i \in DOMAIN s : Alike(rel, s[i], t[i])

AlikeMaps(rel, m1, m2) ==
  IF m1 = Nil \/ m2 = Nil THEN m1 = m2
  ELSE DOMAIN m1 = DOMAIN m2 /\ \A k \in DOMAIN m1 : Alike(rel, m1[k], m2[k])

AlikeStructs(rel, x, y) ==
  /\ x.n = y.n /\ x.chan = y.chan
  /\ Alike(rel, x.next, y.next) /\ AlikeSlices(rel, x.kids, y.kids)
  /\ AlikeMaps(rel, x.tab, y.tab) /\ Alike(rel, x.any, y.any)

RECURSIVE Greatest(_, _)
Greatest(mem, rel) ==
  LET less == {pair \in rel :
                 IF IsBox(mem, pair[1])
                 THEN Alike(rel, mem.box[pair[1]], mem.box[pair[2]])
                 ELSE AlikeStructs(rel, mem.at[pair[1]], mem.at[pair[2]])}
  IN IF less = rel THEN rel ELSE Greatest(mem, less)

Same(mem, p, q) ==
  Alike(Greatest(mem, ((DOMAIN mem.at) \X (DOMAIN mem.at))
                        \cup ((DOMAIN mem.box) \X (DOMAIN mem.box))), p, q)

(* Is a box inside itself?                                                 *)
Opened(mem, b, n) ==
  FoldLeft(LAMBDA x, i : IF IsBox(mem, x) THEN mem.box[x] ELSE Nil, b, [i \in 1 .. n |-> i])
InItself(mem, b) == \E n \in 1 .. Cardinality(DOMAIN mem.box) : Opened(mem, b, n) = b

(* What is found at the end of a path: from a pointer by the name of a     *)
(* field, from a slice or a map by an index or a key.                      *)
Step(mem, v, e) ==
  IF IsPointer(mem, v) THEN mem.at[v][e] ELSE IF IsBox(mem, v) THEN mem.box[v] ELSE v[e]

Follow(mem, v, path) == FoldLeft(LAMBDA x, e : Step(mem, x, e), v, path)

(* The two values really differ where and in the way the report says.      *)
TrueReport(mem, p, q, diff) ==
  LET last == diff.path[Len(diff.path)]
      x(path) == Follow(mem, p, path)
      y(path) == Follow(mem, q, path)
  IN CASE diff.msg = "value" -> x(diff.path) # y(diff.path)
       [] diff.msg = "uncomparable" -> last = "chan" /\ Nil \notin {x(diff.path), y(diff.path)}
       [] diff.msg = "type" -> ~SameType(mem, x(diff.path), y(diff.path))
       [] diff.msg = "length" -> Cardinality(DOMAIN x(diff.path)) # Cardinality(DOMAIN y(diff.path))
       [] diff.msg = "missing" -> last \in DOMAIN x(Front(diff.path)) \ DOMAIN y(Front(diff.path))
       [] diff.msg = "extra" -> last \in DOMAIN y(Front(diff.path)) \ DOMAIN x(Front(diff.path))

(* A comparison that returns finds no difference only in structures that   *)
(* nothing tells apart, and says truly where others differ; but if both    *)
(* have a channel or a function in some place it calls them different, be  *)
(* they the same ones.  It panics only on fields that are not exported,    *)
(* of structures that differ or have maps whose keys are not primitive     *)
(* (deep_compare.go:480 and 501, though they be equal).  It recurses       *)
(* without an end only on two maps that are inside themselves.             *)
DifferencesRight(mem, p, q, found) ==
  CASE found.end = "returns" ->
         /\ found.eq => Same(mem, p, q)
         /\ \A diff \in found.diffs :
              /\ TrueReport(mem, p, q, diff)
              /\ Same(mem, p, q) => diff.msg = "uncomparable"
    [] found.end = "panics" -> ~mem.exported /\ (~mem.plainKeys \/ ~Same(mem, p, q))
    [] found.end = "overflows" -> Cardinality({b \in DOMAIN mem.box : InItself(mem, b)}) >= 2
============================================================================
