---------------------------- MODULE RateLimiter ----------------------------
(***************************************************************************)
(* util/rate_limiter.go: a token bucket that is told of the use of tokens  *)
(* afterwards, with the period the use took, and answers how long the      *)
(* consumer should wait.  It is one goroutine that serves one request at a *)
(* time; the consumers are in RegulatedFetch.  Nothing that a program uses *)
(* calls MayUse.                                                           *)
(*                                                                         *)
(* A token is what the source adds in one tick (addTokensPerSecond is 1),  *)
(* and a tick is the shortest period the code knows, 10 microseconds.      *)
(* Waits are truncated to ticks as the code truncates them to nanoseconds. *)
(* Times are relative: since is what deltaSeconds would be now.            *)
(***************************************************************************)
EXTENDS Integers

CONSTANTS
  Capacity,  (* maximumCapacity                                            *)
  Initial    (* initialAvailability                                        *)

(* The checks of NewRateRegulator.                                         *)
ASSUME RateLimiterAssumption ==
  /\ Capacity \in Nat \ {0}
  /\ Initial \in 0 .. Capacity

VARIABLES
  lastAvailable,
  since,     (* now - lastTime, by the system clock                        *)
  first,     (* is run still to receive its first request, lastAvailable   *)
             (* having been 0 at its start?                                *)
  usedTotal  (* history: tokens used so far                                *)

limiterVars == <<lastAvailable, since, first, usedTotal>>

InitLimiter ==
  /\ lastAvailable = Initial
  /\ since = 0
  /\ first = (Initial = 0)
  /\ usedTotal = 0

Smaller(a, b) == IF a <= b THEN a ELSE b
Larger(a, b) == IF a >= b THEN a ELSE b

(* lastAvailable after the time before the period began.                   *)
Before(period, delta) ==
  IF delta > period
  THEN Smaller(Capacity, lastAvailable + (delta - period))
  ELSE lastAvailable

(* How much of the time since the last request lies in the period.         *)
Within_Everything(period, delta) == delta
Within(period, delta) == Smaller(period, delta)

(* The tokens added during within, when spent are available: none if the   *)
(* clock went backward.                                                    *)
Added(spent, within) ==
  IF within > 0 THEN Smaller(within, Capacity - spent) ELSE 0

(* How long to wait because the consumer used tokens faster than they were *)
(* added.  Over the whole period it used used, and at the rate seen within *)
(* it (added * period) / within were added.                                *)
TooFast(used, period, within, added) ==
  IF within > 0
  THEN Larger(0, (used * within - added * period) \div within)
  ELSE used

(* How long to wait because all consumers together used too much: until    *)
(* nothing is owed, and for the time the use should have taken.            *)
TooMuch_NotLookedAt(available, used, period) == 0
TooMuch(available, used, period) ==
  IF available < 0 THEN - available + used - period ELSE 0

(* core: the tokens left and the time to wait.                             *)
Core(used, period, delta) ==
  LET spent  == Before(period, delta) - used
      within == Within(period, delta)
      added  == Added(spent, within)
  IN  [available |-> spent + added,
       wait |-> Larger(TooFast(used, period, within, added),
                       TooMuch(spent + added, used, period))]

(* deltaSeconds of a request received now.                                 *)
Delta == IF first THEN 0 ELSE since

(* The half of Used in run: the request is received, the clock read, the  *)
(* answer sent.                                                            *)
RegulateUsed(used, period) ==
  /\ lastAvailable' = Core(used, period, Delta).available
  /\ since' = 0
  /\ first' = FALSE
  /\ usedTotal' = usedTotal + used

(* The period Used reports: "a very short, but non-zero duration" if the   *)
(* consumer measured none.                                                 *)
PeriodReported(measured) == Larger(1, measured)
============================================================================
