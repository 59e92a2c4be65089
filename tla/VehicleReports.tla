--------------------------- MODULE VehicleReports ---------------------------
(***************************************************************************)
(* nextbus/vehicle.go: the vehicles of a response become vehicle locations *)
(* with the time they were at, which go to the archive as rows of CSV and  *)
(* come back from it in the offline programs.                              *)
(*                                                                         *)
(* A response is [lastTime, vehicles], a vehicle [id, at, heading, age].   *)
(* Times are milliseconds, ages (secsSinceReport) seconds.  Tags go the    *)
(* way of the id.                                                          *)
(***************************************************************************)
EXTENDS Integers, Sequences, FiniteSetsExt, SequencesExt

CONSTANTS OffTheMap,        (* coordinates that are no location            *)
          Nil,              (* the location that could not be made         *)
          NoLastTime,       (* the response has no lastTime element        *)
          TooLow, TooHigh   (* Jan_1_2000_UTC and MILLIS_LIMIT             *)

(* UnixMillisToTime and UnixMilliseconds: a time has whole seconds and the *)
(* rest, which is never negative.                                          *)
UnixMillisToTime(ms) == [s |-> ms \div 1000, ms |-> ms % 1000]
UnixMilliseconds(t) == t.s * 1000 + t.ms

IsHeading(h) == -2 <= h /\ h <= 360

(* HeadingFromInt and ParseHeading: a heading out of range is unavailable. *)
Heading(h) == IF IsHeading(h) THEN h ELSE -1

(* ConvertVehicleElementToVehicleLocation; nil for coordinates that are    *)
(* out of range.  The errors are dropped by the caller.                    *)
LocationOf(elem, reportTime) ==
  IF elem.at = OffTheMap THEN Nil
  ELSE [id |-> elem.id, at |-> elem.at, heading |-> Heading(elem.heading),
        time |-> UnixMillisToTime(reportTime - 1000 * elem.age)]

Ages(body) == {v.age : v \in ToSet(body.vehicles)}

LastTimeMs(body) == IF body.lastTime = NoLastTime THEN 0 ELSE body.lastTime

(* Only the first vehicle is looked at.                                    *)
ReportTime_First(body) == LastTimeMs(body) + 1000 * body.vehicles[1].age

(* When the report was made: lastTime is when the youngest location came.  *)
ReportTime(body) == LastTimeMs(body) + 1000 * Min(Ages(body))

(* ConvertVehicleLocationsBodyToReport; 0 is the zero time.                *)
ReportOf(body) ==
  [lastTime |-> IF LastTimeMs(body) > 0 THEN LastTimeMs(body) ELSE 0,
   locations |-> [i \in DOMAIN body.vehicles |->
                    LocationOf(body.vehicles[i], ReportTime(body))]]

(* ToCSVFields; the readable time in the second field is not read again.   *)
ToCsvFields(vl) ==
  <<UnixMilliseconds(vl.time), "date time", vl.id, vl.heading, vl.at>>

(* CSVFieldsIntoVehicleLocation; Nil if it returns an error.               *)
FromCsvFields(fields) ==
  IF fields[1] < TooLow \/ fields[1] > TooHigh \/ fields[5] = OffTheMap THEN Nil
  ELSE [time |-> UnixMillisToTime(fields[1]), id |-> fields[3],
        heading |-> Heading(fields[4]), at |-> fields[5]]

(* IsSameReport                                                            *)
IsSameReport(u, v) ==
  /\ u.id = v.id /\ u.at = v.at /\ u.heading = v.heading
  /\ UnixMilliseconds(u.time) - UnixMilliseconds(v.time) \in -2000 .. 2000

----------------------------------------------------------------------------
(* The newest location of a response came at its lastTime, all others as   *)
(* much earlier as their ages say, and a location archived and read again  *)
(* is the same report or is refused for its time.                          *)
TimesAreRight(body, report) ==
  LET made == {i \in DOMAIN body.vehicles : report.locations[i] # Nil}
      time(i) == UnixMilliseconds(report.locations[i].time)
      read(i) == FromCsvFields(ToCsvFields(report.locations[i]))
  IN /\ made = DOMAIN body.vehicles /\ made # {} /\ report.lastTime # 0
          => Max({time(i) : i \in made}) = report.lastTime
     /\ \A i, j \in made :
          time(i) - time(j) = 1000 * (body.vehicles[j].age - body.vehicles[i].age)
     /\ \A i \in made :
          IF time(i) \in TooLow .. TooHigh THEN IsSameReport(read(i), report.locations[i])
                                           ELSE read(i) = Nil
============================================================================
