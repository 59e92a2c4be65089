---------------------------- MODULE MCAggregator ----------------------------
(***************************************************************************)
(* Instances of Aggregator for TLC.                                        *)
(***************************************************************************)
EXTENDS Aggregator

CONSTANTS stop1, stop2, inbound, outbound

TwoVehicles == {1, 2}

At(v, t, stop, tag) == [id |-> v, time |-> t, pos |-> stop, tag |-> tag]

(* Vehicle 1 may stand at stop1, change its direction there, and move; all *)
(* that vehicle 2 does is to be seen or not.  The times are apart by       *)
(* SameWithin, by more than that, and by more than 2 * Slack.              *)
SomeReports ==
  {At(1, 0, stop1, inbound), At(1, 1, stop1, outbound),
   At(1, 4, stop1, inbound), At(1, 4, stop2, inbound)}
    \union {At(2, t, stop1, inbound) : t \in {0, 4, 7}}

(* Bound: nothing is explored beyond a report of an old position of a      *)
(* vehicle that was not being aggregated.                                  *)
NoneReturned == ~returned
============================================================================
