--------------------------- MODULE PeriodicFetcher ---------------------------
(***************************************************************************)
(* nblocations/periodic_fetcher.go: the loop that fetches the vehicle      *)
(* locations at every tick of intervalTicker and, after a failure, when    *)
(* shortTimer fires, later and later.  url.go: from when on it asks for    *)
(* locations.                                                              *)
(*                                                                         *)
(* Time is in ticks of the clock.  Both timers have a channel of capacity  *)
(* 1, in which a value stays when the timer is stopped or reset (as it     *)
(* does for programs without a go.mod).  What takes time is the fetch and, *)
(* when the splitter is behind, the send of its response; at the select a  *)
(* case that is ready is chosen before time passes.                        *)
(*                                                                         *)
(* lastTime is a time of the server's clock, and the loop tells how old it *)
(* is by its own: "time.Since(t time.Time) is based on our clock, not the  *)
(* server's clock, so the estimate of how old lastTime is may be           *)
(* considerably off" (url.go:17).  The server's clock is ahead of ours by  *)
(* skew, which the server may change at any time.                          *)
(***************************************************************************)
EXTENDS Integers

CONSTANTS
  Interval,     (* of intervalTicker: at least 10 s                        *)
  RetryAfter,   (* the first retry: 1 s                                    *)
  MaxFetch,     (* longest fetch (the client's timeout is 9.5 s)           *)
  MaxBlock,     (* longest wait to send the response                       *)
  Window,       (* how far back NextBus lets one ask: 5 minutes            *)
  ExtraSecs,    (* how much is asked for again                             *)
  MaxAge,       (* bound: ages from here on are not told apart             *)
  MaxSkew,      (* bound: how far apart the two clocks may be              *)
  MaxFailures   (* bound: failures in a row that are counted               *)

ASSUME PeriodicAssumption ==
  /\ {Interval, RetryAfter, MaxFetch, Window, MaxFailures} \subseteq Nat \ {0}
  /\ {MaxBlock, ExtraSecs} \subseteq Nat
  /\ RetryAfter <= Interval
  /\ {MaxAge, MaxSkew} \subseteq Nat /\ Window < MaxAge

(* Failures are counted until the delay has reached the interval.          *)
ASSUME FailuresAssumption == Interval <= RetryAfter * 2 ^ (MaxFailures - 1)

VARIABLES
  at,             (* "exec", "send", "select" or "stopped"                 *)
  caller,         (* which of doTick and doRetry is running                *)
  retryFetch,     (* did the last fetch fail?                              *)
  ticker,         (* intervalTicker                                        *)
  short,          (* shortTimer                                            *)
  shortDuration,
  age,            (* how long ago lastTime was, by our clock: negative     *)
                  (* when lastTime is ahead of it                          *)
  skew,           (* how far the server's clock is ahead of ours           *)
  asked,          (* how far back the last request went, by the server's   *)
  elapsed,        (* how long the fetch and the send have taken so far     *)
  idle,           (* history: how long the loop has been at its select     *)
  failures,       (* history: failures in a row                            *)
  overran         (* history: has the ticker ticked during a fetch since   *)
                  (* the last success that left shortTimer at rest?        *)

vars == <<at, caller, retryFetch, ticker, short, shortDuration, age, skew,
          asked, elapsed, idle, failures, overran>>

Never == MaxAge + 1  (* lastTime before the first response: no age gets there *)
Everything == Window + MaxSkew + 1  (* t = 0, which gets all there is *)

Lesser(m, n) == IF m <= n THEN m ELSE n

----------------------------------------------------------------------------
(* Timers.  Operators named X_Y are X with a fault Y seeded; PROJECT.json  *)
(* says which property each must break.  No action uses them.              *)

NewTicker == [running |-> TRUE, left |-> Interval, full |-> FALSE]

Stopped_NotCalled(t) == t
Stopped(t) == [t EXCEPT !.running = FALSE]

Reset(t, d) ==
  IF d = 0 THEN [running |-> FALSE, left |-> 0, full |-> TRUE]
  ELSE [t EXCEPT !.running = TRUE, !.left = d]
Drained(t) == [t EXCEPT !.full = FALSE]

Fires(t) == t.running /\ t.left = 1

TickerAfterTick ==
  IF Fires(ticker) THEN [ticker EXCEPT !.left = Interval, !.full = TRUE]
  ELSE IF ticker.running THEN [ticker EXCEPT !.left = @ - 1] ELSE ticker

ShortAfterTick ==
  IF Fires(short) THEN [running |-> FALSE, left |-> 0, full |-> TRUE]
  ELSE IF short.running THEN [short EXCEPT !.left = @ - 1] ELSE short

----------------------------------------------------------------------------
(* ComputeT: how far back to ask by our clock, lastTime having been a ago. *)
ComputeT_ExtraAlways(a) == IF a = Never THEN Everything ELSE a + ExtraSecs

ComputeT(a) ==
  IF a = Never \/ ExtraSecs >= Window THEN Everything
  ELSE IF ExtraSecs = 0 THEN IF a > Window THEN Everything ELSE a
  ELSE Lesser(a + ExtraSecs, Window)

(* The server is asked for what it has from a time of its own clock on.    *)
OnServer(a) == IF a = Everything THEN Everything ELSE a + skew

(* The delay of the next retry.                                            *)
NextDelay_Uncapped(d) == 2 * d
NextDelay(d) == Lesser(2 * d, Interval)

Init ==
  /\ at = "exec"
  /\ caller = "doTick"
  /\ retryFetch = FALSE
  /\ ticker = NewTicker
  /\ short = [running |-> FALSE, left |-> 0, full |-> FALSE]
  /\ shortDuration = 0
  /\ age = Never
  /\ skew \in -MaxSkew .. MaxSkew
  /\ asked = OnServer(ComputeT(Never))
  /\ elapsed = 0
  /\ idle = 0
  /\ failures = 0
  /\ overran = FALSE

(* A fetch begins.                                                         *)
Exec(c) ==
  /\ at' = "exec"
  /\ caller' = c
  /\ asked' = OnServer(ComputeT(age))
  /\ UNCHANGED skew
  /\ elapsed' = 0
  /\ idle' = 0

(* It ends: without a report, or with one whose time was a ago by the      *)
(* server's clock.  lastTime does not go back when that clock does.        *)
Fetched ==
  /\ at = "exec"
  /\ at' = "send"
  /\ \/ retryFetch' = TRUE /\ UNCHANGED age
     \/ /\ retryFetch' = FALSE
        /\ \E a \in 0 .. MaxAge + skew : age' = Lesser(a - skew, age)
  /\ UNCHANGED <<caller, ticker, short, shortDuration, skew, asked, elapsed,
                 idle, failures, overran>>

AtRest(t) == ~t.running /\ ~t.full

(* responseCh takes the response, and doTick or doRetry goes on to return. *)
TickReturns ==
  /\ at = "send"
  /\ caller = "doTick"
  /\ at' = "select"
  /\ IF retryFetch
     THEN /\ ticker' = Stopped(ticker)
          /\ shortDuration' = RetryAfter
          /\ short' = Reset(short, RetryAfter)
          /\ failures' = 1
          /\ UNCHANGED overran
     ELSE /\ failures' = 0
          /\ overran' = (overran /\ ~AtRest(short))
          /\ UNCHANGED <<ticker, shortDuration, short>>
  /\ UNCHANGED <<caller, retryFetch, age, skew, asked, elapsed, idle>>

RetryReturns ==
  /\ at = "send"
  /\ caller = "doRetry"
  /\ at' = "select"
  /\ IF retryFetch
     THEN /\ ticker' = Stopped(ticker)
          /\ shortDuration' = NextDelay(shortDuration)
          /\ short' = Reset(short, NextDelay(shortDuration))
          /\ failures' = Lesser(failures + 1, MaxFailures)
          /\ UNCHANGED overran
     ELSE /\ ticker' = NewTicker
          /\ shortDuration' = 0
          /\ failures' = 0
          /\ overran' = (overran /\ ~AtRest(short))
          /\ UNCHANGED short
  /\ UNCHANGED <<caller, retryFetch, age, skew, asked, elapsed, idle>>

----------------------------------------------------------------------------
(* The select.                                                             *)

TickerFires ==
  /\ at = "select"
  /\ ticker.full
  /\ ticker' = Drained(ticker)
  /\ Exec("doTick")
  /\ UNCHANGED <<retryFetch, short, shortDuration, age, failures, overran>>

ShortTimerFires ==
  /\ at = "select"
  /\ short.full
  /\ short' = Drained(short)
  /\ ticker' = NewTicker
  /\ Exec("doRetry")
  /\ UNCHANGED <<retryFetch, shortDuration, age, failures, overran>>

Stop ==
  /\ at = "select"
  /\ at' = "stopped"
  /\ ticker' = Stopped(ticker)
  /\ short' = Stopped(short)
  /\ UNCHANGED <<caller, retryFetch, shortDuration, age, skew, asked, elapsed,
                 idle, failures, overran>>

(* Time passes while the loop has something to wait for.                   *)
Waiting ==
  \/ at = "exec" /\ elapsed < MaxFetch
  \/ at = "send" /\ elapsed < MaxFetch + MaxBlock
  \/ at = "select" /\ ~ticker.full /\ ~short.full

Tick ==
  /\ Waiting
  /\ ticker' = TickerAfterTick
  /\ short' = ShortAfterTick
  /\ age' = IF age = Never THEN Never ELSE Lesser(age + 1, MaxAge)
  /\ elapsed' = IF at = "select" THEN elapsed ELSE elapsed + 1
  /\ idle' = IF at = "select" THEN idle + 1 ELSE idle
  /\ overran' = (overran \/ (at # "select" /\ Fires(ticker)))
  /\ UNCHANGED <<at, caller, retryFetch, shortDuration, skew, asked, failures>>

(* "This can happen when the server adjusts its time" (:122).              *)
ServerAdjustsTime ==
  /\ at # "stopped"
  /\ skew' \in (-MaxSkew .. MaxSkew) \ {skew}
  /\ UNCHANGED <<at, caller, retryFetch, ticker, short, shortDuration, age,
                 asked, elapsed, idle, failures, overran>>

Next ==
  \/ Fetched
  \/ TickReturns
  \/ RetryReturns
  \/ TickerFires
  \/ ShortTimerFires
  \/ Stop
  \/ Tick
  \/ ServerAdjustsTime

Spec == Init /\ [][Next]_vars

----------------------------------------------------------------------------
(* Properties.                                                             *)

Timers == [running : BOOLEAN, left : 0 .. Interval, full : BOOLEAN]

(* Every variable keeps its type; no timer is set to more than Interval.   *)
TypeOK ==
  /\ at \in {"exec", "send", "select", "stopped"}
  /\ caller \in {"doTick", "doRetry"}
  /\ retryFetch \in BOOLEAN
  /\ ticker \in Timers
  /\ short \in Timers
  /\ shortDuration \in 0 .. Interval
  /\ age \in -MaxSkew .. Never
  /\ skew \in -MaxSkew .. MaxSkew
  /\ asked \in -2 * MaxSkew .. Everything
  /\ elapsed \in 0 .. MaxFetch + MaxBlock
  /\ idle \in Nat
  /\ failures \in 0 .. MaxFailures + 1
  /\ overran \in BOOLEAN

(* Whatever fails, however long it takes and whatever was left in a        *)
(* channel when a timer was stopped, the loop is never at its select for   *)
(* longer than Interval: no path leaves it with nothing to wake it up.     *)
NeverIdleLong == at = "select" => idle <= Interval

(* The delay after n failures in a row: 1 s, 2 s, 4 s and so on, and       *)
(* Interval in the end.                                                    *)
Backoff(n) == Lesser(RetryAfter * 2 ^ (n - 1), Interval)

(* After a failure the next fetch waits ("Stop the ticker, and try again   *)
(* in a second", periodic_fetcher.go:164): the loop is at its select for   *)
(* the backoff before it fetches again.  That is so as long as no tick has *)
(* been left in intervalTicker's channel by a fetch that outlasted the     *)
(* interval: such a tick is taken at once, and its failure can leave two   *)
(* values of shortTimer to be taken, the second with a delay of zero.      *)
BackoffKept ==
  [][at = "select" /\ at' = "exec" /\ failures > 0 /\ ~overran
       => idle = Backoff(failures)]_vars

(* NextBus states that t "may be no more than 5 mintes in the past, but    *)
(* also states that if t=0 they will return the most recent reports"       *)
(* (url.go:33).  Each request asks for everything or goes back no further  *)
(* than five minutes, and it goes back to lastTime if that is not longer   *)
(* ago than this.  Both by the server's clock, which is where t is looked  *)
(* at, and both as good as the loop can tell: with the server ahead of us  *)
(* a request goes as much too far, with the server behind it may begin as  *)
(* much too late.  What the server dates back behind lastTime, having set  *)
(* its clock back, is not asked for ("I don't know a good way to deal with *)
(* this (yet)", periodic_fetcher.go:122).                                  *)
RequestsCover ==
  [][at = "select" /\ at' = "exec" =>
       LET since == age + skew  (* how long ago lastTime was for the server *)
       IN  /\ asked' = Everything \/ asked' <= Window + skew
           /\ since <= Window + skew => asked' >= since]_vars
============================================================================
