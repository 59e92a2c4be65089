-------------------------------- MODULE Tee --------------------------------
(***************************************************************************)
(* What the location pipeline promises for the responses it fetches: each  *)
(* of its two sinks (the raw archive and the aggregator) gets them in the  *)
(* order they were fetched, without a gap and without a repetition.  A     *)
(* sink may be stopped before it has got the last ones.                    *)
(***************************************************************************)
EXTENDS Naturals

CONSTANT Sinks

VARIABLES
  fetched,  (* how many responses have been fetched: they are 1 .. fetched *)
  got       (* got[s]: the last response sink s has got                    *)

Init == fetched = 0 /\ got = [s \in Sinks |-> 0]

Fetch == fetched' = fetched + 1 /\ UNCHANGED got

Deliver(s) ==
  /\ got[s] < fetched
  /\ got' = [got EXCEPT ![s] = @ + 1]
  /\ UNCHANGED fetched

Next == Fetch \/ \E s \in Sinks : Deliver(s)

Spec == Init /\ [][Next]_<<fetched, got>>
============================================================================
