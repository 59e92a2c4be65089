----------------------------- MODULE Aggregator -----------------------------
(***************************************************************************)
(* nblocations/aggregator.go, as RunAggegator (controller.go) drives it:   *)
(* each batch of vehicle reports is inserted, reports of a stopped vehicle *)
(* that differ only in time are averaged, and the locations older than     *)
(* oldestReport are taken out of the queue, sorted and written to the CSV  *)
(* archive, which is to be in time order.                                  *)
(*                                                                         *)
(* Times are integers (milliseconds in the code, one of which separates    *)
(* the two locations of a vehicle that changed its tag); a report is its   *)
(* vehicle's id, its time, its position (location and heading) and its tag *)
(* (route and direction).  An empty batch changes nothing and is left out, *)
(* and so is latestReports, which nothing reads.                           *)
(***************************************************************************)
EXTENDS Integers, Sequences, SequencesExt, FiniteSets, FiniteSetsExt

CONSTANTS
  Vehicles,      (* vehicle ids, integers so that they can be sorted       *)
  SameWithin,    (* IsAlmostSameTime: 2 s                                  *)
  Slack,         (* how far an average may move: 3 s                       *)
  RecentlySeenThreshold,
  Reports,       (* bound: the reports the feed may contain                *)
  MaxMerged,     (* bound: reports averaged into one                       *)
  MaxQueued,     (* bound: length of queuedReports                         *)
  MaxBatch       (* bound: reports in one batch                            *)

ASSUME AggregatorAssumption ==
  /\ Vehicles \subseteq Nat /\ IsFiniteSet(Vehicles)
  /\ SameWithin \in Nat /\ Slack \in Nat /\ SameWithin < Slack
  /\ RecentlySeenThreshold \in Nat
  /\ Reports # {} /\ \A r \in Reports : r.id \in Vehicles /\ r.time \in Nat
  /\ {MaxMerged, MaxQueued, MaxBatch} \subseteq Nat \ {0}

VARIABLES
  aggregating,   (* aggregatingVehicles: an entry per vehicle, or Gone     *)
  oldestReport,
  queued,        (* queuedReports, in the order they were appended         *)
  state,         (* "open", "closed" or "panicked"                         *)
  lastWritten,   (* history: the latest time in the archive                *)
  disorder,      (* history: by how much, at most, a location in the       *)
                 (* archive is older than one before it                    *)
  held,          (* history: reports accepted and not yet written          *)
  absent,        (* history: has a vehicle being aggregated missed more    *)
                 (* than RecentlySeenThreshold batches?                    *)
  returned       (* history: has a vehicle not being aggregated been       *)
                 (* reported with a time before the oldest one recently    *)
                 (* seen?                                                  *)

vars == <<aggregating, oldestReport, queued, state, lastWritten, disorder, held, absent, returned>>

Never == -(2 * Slack) - 1   (* Go's zero time: before every report *)
NoReport == <<>>            (* a nil report or location            *)
Gone == [first |-> NoReport, last |-> NoReport, num |-> 0, sum |-> 0, unseen |-> 0]

Init ==
  /\ aggregating = [v \in Vehicles |-> Gone]
  /\ oldestReport = Never
  /\ queued = <<>>
  /\ state = "open"
  /\ lastWritten = Never
  /\ disorder = 0
  /\ held = 0
  /\ absent = FALSE
  /\ returned = FALSE

----------------------------------------------------------------------------
(* The averaged location.  Operators named X_Y are X with a fault Y        *)
(* seeded; PROJECT.json says which property each must break.  No action    *)
(* uses them.                                                              *)

(* ProduceOutput: floor(sum / num + 0.5), in integers.                     *)
RoundedMean(sum, num) == (2 * sum + num) \div (2 * num)

(* A location: its time, its vehicle and the reports merged into it.       *)
Location(v, time, n) == [time |-> time, id |-> v, merged |-> n]

(* emitStale: the averaged location and, when the tag changed while the    *)
(* vehicle stood, the last report one millisecond later.                   *)
EmitStale(v, e) ==
  LET t == RoundedMean(e.sum, e.num)
      first == Location(v, t, e.num)
  IN  IF e.last = NoReport THEN <<first>> ELSE <<first, Location(v, t + 1, 0)>>

----------------------------------------------------------------------------
(* insertOneReport.                                                        *)

Distance(m, n) == IF m < n THEN n - m ELSE m - n

IsAggregatable_AnyTime(e, r) == e.first.pos = r.pos
IsAggregatable(e, r) ==
  /\ Distance(e.first.time, r.time) <= SameWithin
  /\ e.first.pos = r.pos

NewEntry(r) == [first |-> r, last |-> NoReport, num |-> 1, sum |-> r.time, unseen |-> 0]

Merged(e, r) ==
  [first |-> e.first, last |-> IF e.first.tag # r.tag THEN r ELSE NoReport,
   num |-> e.num + 1, sum |-> e.sum + r.time, unseen |-> 0]

(* acc is what the aggregator holds and how many reports of the batch it   *)
(* has taken in; an older report than the entry's first is dropped.        *)
InsertOneReport_Replacing(acc, r) ==
  [acc EXCEPT !.aggregating[r.id] =
                IF @ # Gone /\ IsAggregatable(@, r) THEN Merged(@, r) ELSE NewEntry(r),
              !.taken = @ + 1]

InsertOneReport(acc, r) ==
  LET e == acc.aggregating[r.id]
  IN  CASE e = Gone ->
             [acc EXCEPT !.aggregating[r.id] = NewEntry(r), !.taken = @ + 1]
        [] e # Gone /\ IsAggregatable(e, r) ->
             [acc EXCEPT !.aggregating[r.id] = Merged(e, r), !.taken = @ + 1]
        [] e # Gone /\ ~IsAggregatable(e, r) /\ e.first.time > r.time ->
             [acc EXCEPT !.aggregating[r.id].unseen = 0]
        [] OTHER ->
             [acc EXCEPT !.aggregating[r.id] = NewEntry(r), !.taken = @ + 1,
                         !.queued = @ \o EmitStale(r.id, e)]

Holding == [aggregating |-> aggregating, queued |-> queued, taken |-> 0]

(* insertOneReport for each report of a batch in turn.                     *)
Inserted(batch) ==
  LET after[n \in 0 .. Len(batch)] ==
        IF n = 0 THEN Holding ELSE InsertOneReport(after[n - 1], batch[n])
  IN  after[Len(batch)]

----------------------------------------------------------------------------
(* Insert, RemoveStaleReports and WriteLocations; at the end, Close.       *)

(* emitStale for a vehicle that is then deleted, and for each of ids.      *)
EmitOne(acc, v) ==
  [acc EXCEPT !.aggregating[v] = Gone, !.queued = @ \o EmitStale(v, acc.aggregating[v])]

Emitted(acc, ids) ==
  LET after[n \in 0 .. Len(ids)] == IF n = 0 THEN acc ELSE EmitOne(after[n - 1], ids[n])
  IN  after[Len(ids)]

(* The orders that sort.Sort, which is not stable, may give the locations. *)
Precedes(a, b) == a.time < b.time \/ (a.time = b.time /\ a.id < b.id)
ByDateAndId(locations) ==
  {s \in {[i \in DOMAIN locations |-> locations[p[i]]] : p \in SetToSeqs(DOMAIN locations)} :
     \A i, j \in DOMAIN s : i < j => ~Precedes(s[j], s[i])}

(* The sum of a function's values, counted.                                *)
Total(f) == Cardinality(UNION {{x} \X (1 .. f[x]) : x \in DOMAIN f})

MergedIn(locations) == Total([i \in DOMAIN locations |-> locations[i].merged])

(* WriteLocations appends the locations, sorted, to the archive: only what *)
(* was there before can be later than one of them.  taken reports were     *)
(* accepted since.                                                         *)
WriteLocations(locations, taken) ==
  LET times == {l.time : l \in Range(locations)}
  IN  /\ lastWritten' = Max(times \union {lastWritten})
      /\ disorder' = Max({lastWritten - t : t \in times} \union {disorder})
      /\ held' = held + taken - MergedIn(locations)

(* Those older than oldest leave the queue and are written.                *)
RemoveStaleReports(sorted, oldest, taken) ==
  \E ndx \in 0 .. Len(sorted) :
    /\ \A i \in DOMAIN sorted : i <= ndx <=> sorted[i].time < oldest
    /\ queued' = SubSeq(sorted, ndx + 1, Len(sorted))
    /\ WriteLocations(SubSeq(sorted, 1, ndx), taken)

(* The vehicles that are not in the batch are unseen once more.            *)
Aged(entries, seen) ==
  [v \in Vehicles |->
     LET e == entries[v]
     IN  IF v \in seen \/ e = Gone \/ e.unseen > RecentlySeenThreshold
         THEN e ELSE [e EXCEPT !.unseen = @ + 1]]

(* The vehicles that hold oldestReport back.                               *)
Recent_SeenOnly(entries, seen) == seen
Recent(entries, seen) ==
  {v \in Vehicles : entries[v] # Gone /\ (v \in seen \/ entries[v].unseen <= RecentlySeenThreshold)}

(* The unseen vehicles that oldest has left behind.                        *)
Overdue(entries, seen, oldest) ==
  {v \in Vehicles \ seen : entries[v] # Gone /\ oldest - entries[v].first.time > Slack}

Aggregated == {v \in Vehicles : aggregating[v] # Gone}
Seen(batch) == {r.id : r \in Range(batch)}

(* unseenCount is negative when a vehicle is in the batch twice and too    *)
(* few others are missing from it: make([]string, 0, unseenCount) panics.  *)
UnseenCount(batch) ==
  LET newCount == Cardinality(Seen(batch) \ Aggregated)
  IN  Cardinality(Aggregated) - (Len(batch) - newCount)

InsertPanics(batch) ==
  /\ UnseenCount(batch) < 0
  /\ state' = "panicked"
  /\ UNCHANGED <<aggregating, oldestReport, queued, lastWritten, disorder, held, absent, returned>>

Insert(batch) ==
  /\ UnseenCount(batch) >= 0
  /\ LET seen     == Seen(batch)
         inserted == Inserted(batch)
         entries  == Aged(inserted.aggregating, seen)
         oldest   == Min({entries[v].first.time : v \in Recent(entries, seen)}) - Slack
         overdue  == Overdue(entries, seen, oldest)
     IN
     /\ oldestReport' = oldest
     /\ \E ids \in SetToSeqs(overdue) :
          LET emitted == Emitted([inserted EXCEPT !.aggregating = entries], ids)
          IN  /\ \A i, j \in DOMAIN ids : i < j => ids[i] < ids[j]
              /\ aggregating' = emitted.aggregating
              /\ \E sorted \in ByDateAndId(emitted.queued) :
                   RemoveStaleReports(sorted, oldest, inserted.taken)
     /\ absent' = (absent \/ \E v \in Vehicles : entries[v].unseen > RecentlySeenThreshold)
     /\ returned' = (returned \/ \E r \in Range(batch) :
                        r.id \notin Aggregated /\ r.time < oldestReport + Slack)
  /\ UNCHANGED state

(* Batches as Insert sorts them: by id alone, so that the reports of one   *)
(* vehicle are in any order.                                               *)
Batches ==
  {batch \in UNION {[1 .. n -> Reports] : n \in 1 .. MaxBatch} :
     \A i, j \in DOMAIN batch : i < j => batch[i].id <= batch[j].id}

Receive ==
  /\ state = "open"
  /\ \E batch \in Batches : Insert(batch) \/ InsertPanics(batch)
  /\ Len(queued') <= MaxQueued /\ \A v \in Vehicles : aggregating'[v].num <= MaxMerged

(* Close, and what doClose does with it.                                   *)
Close ==
  /\ state = "open"
  /\ state' = "closed"
  /\ \E ids \in SetToSeqs(Aggregated) :
       \E sorted \in ByDateAndId(Emitted(Holding, ids).queued) : WriteLocations(sorted, 0)
  /\ aggregating' = [v \in Vehicles |-> Gone]
  /\ queued' = <<>>
  /\ UNCHANGED <<oldestReport, absent, returned>>

Next == Receive \/ Close

Spec == Init /\ [][Next]_vars

----------------------------------------------------------------------------
(* Properties.                                                             *)

MaybeReports == Reports \union {NoReport}
Entries == {Gone} \union
  [first : Reports, last : MaybeReports, num : Nat \ {0}, sum : Nat,
   unseen : 0 .. RecentlySeenThreshold + 1]
LocationSet == [time : Nat, id : Vehicles, merged : Nat]

(* Every variable keeps its type.                                          *)
TypeOK ==
  /\ aggregating \in [Vehicles -> Entries]
  /\ queued \in Seq(LocationSet)
  /\ {oldestReport, lastWritten} \subseteq Int
  /\ state \in {"open", "closed", "panicked"}
  /\ {disorder, held} \subseteq Nat
  /\ {absent, returned} \subseteq BOOLEAN

(* The archive is in time order ("kept with the aim of being able to       *)
(* readily determine when we can flush queued reports (i.e. in time        *)
(* order)", aggregator.go:100): no location is written after a later one,  *)
(* as long as no vehicle is absent for more batches than                   *)
(* RecentlySeenThreshold, nor has the feed reported an old position of a   *)
(* vehicle that was no longer being aggregated.                            *)
InOrderWhileSeen == ~returned /\ ~absent => disorder = 0

(* Absences or not, the disorder is bounded: no location is written that   *)
(* is older than one written before it by more than the slack plus how far *)
(* an average can be from its first report.                                *)
DisorderBounded == ~returned => disorder <= Slack + SameWithin

(* The order of the archive: both of the above, of locations of the right  *)
(* type.                                                                   *)
OrderKept ==
  /\ TypeOK
  /\ InOrderWhileSeen
  /\ DisorderBounded

(* However the reports are merged, emitted, queued and dropped, each one   *)
(* that was taken in and is not in the archive is in exactly one of the    *)
(* aggregating entries or queued locations; so, after Close, all of them   *)
(* are in the archive, each in one location.                               *)
NothingForgotten ==
  /\ held = Total([v \in Vehicles |-> aggregating[v].num]) + MergedIn(queued)
  /\ state = "closed" => held = 0

(* An average stays within SameWithin of the first report it is made from. *)
AverageNearFirst ==
  \A v \in Vehicles : aggregating[v] # Gone =>
    Distance(RoundedMean(aggregating[v].sum, aggregating[v].num), aggregating[v].first.time)
      <= SameWithin
============================================================================
