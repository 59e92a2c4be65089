--------------------------- MODULE RegulatedFetch ---------------------------
(***************************************************************************)
(* The consumers of RateLimiter, all of which wait as long as they are     *)
(* told: the fetcher of util/http_fetcher.go (one goroutine executes the   *)
(* requests that its callers put in a channel) and that of                 *)
(* util/http_regulated_fetcher.go (the caller executes its own request).   *)
(*                                                                         *)
(* What a request uses and how long it takes are chosen freely.  The       *)
(* system clock, by which all periods are measured, may be set back.       *)
(***************************************************************************)
EXTENDS RateLimiter, Sequences, FiniteSets, SequencesExt

CONSTANTS
  Callers,   (* goroutines calling Do of the regulatedHttpFetcherState     *)
  Direct,    (* goroutines calling HttpRegulatedFetch                      *)
  InChCap,   (* capacity of inCh, 5 in the code                            *)
  MaxUsed,   (* bound: tokens used by one request                          *)
  MaxBack,   (* bound: by how much the clock is set back in all            *)
  Horizon    (* bound: ticks explored                                      *)

Clients == Callers \union Direct

ASSUME RegulatedFetchAssumption ==
  /\ Callers \intersect Direct = {}
  /\ IsFiniteSet(Clients)
  /\ InChCap \in Nat \ {0}
  /\ {MaxUsed, MaxBack, Horizon} \subseteq Nat

VARIABLES
  at,        (* where each client is                                       *)
  took,      (* by the clock, how long ago its period began                *)
  ask,       (* the request it sends to the regulator                      *)
  sleep,     (* ticks it has yet to sleep                                  *)
  inCh,      (* the channel of simpleHttpFetcherFunc                       *)
  fetcher,   (* where simpleHttpFetcherFunc is                             *)
  closeCh,   (* is p.closeCh non-nil?                                      *)
  closer,    (* where the caller of Close is                               *)
  setBack,   (* by how much the clock has been set back                    *)
  elapsed    (* history: ticks since the start                             *)

clientVars == <<at, took, ask, sleep>>
fetchVars == <<inCh, fetcher, closeCh, closer>>
timeVars == <<setBack, elapsed>>
vars == <<limiterVars, clientVars, fetchVars, timeVars>>

NoAsk == [used |-> 0, period |-> 0]

Init ==
  /\ InitLimiter
  /\ at = [c \in Clients |-> "idle"]
  /\ took = [c \in Clients |-> 0]
  /\ ask = [c \in Clients |-> NoAsk]
  /\ sleep = [c \in Clients |-> 0]
  /\ inCh = <<>>
  /\ fetcher = "select"
  /\ closeCh = TRUE
  /\ closer = "idle"
  /\ setBack = 0
  /\ elapsed = 0

Goes(c, place) == at' = [at EXCEPT ![c] = place]

(* Used: nothing was used and nothing is asked, or the regulator is.       *)
Uses(c, used) ==
  /\ IF used = 0
     THEN Goes(c, "idle") /\ UNCHANGED ask
     ELSE /\ Goes(c, "asking")
          /\ ask' = [ask EXCEPT ![c] =
                       [used |-> used, period |-> PeriodReported(took[c])]]
  /\ took' = [took EXCEPT ![c] = 0]

----------------------------------------------------------------------------
(* Do, and the goroutine behind it.  The period of a request begins before *)
(* the request waits in inCh.                                              *)

DoCall(c) ==
  /\ at[c] = "idle"
  /\ closeCh
  /\ Goes(c, "sending")
  /\ UNCHANGED <<limiterVars, took, ask, sleep, fetchVars, timeVars>>

Enqueue(c) ==
  /\ at[c] = "sending"
  /\ Len(inCh) < InChCap
  /\ inCh' = Append(inCh, c)
  /\ Goes(c, "queued")
  /\ UNCHANGED <<limiterVars, took, ask, sleep, fetcher, closeCh,
                 closer, timeVars>>

Receive ==
  /\ fetcher = "select"
  /\ inCh # <<>>
  /\ Goes(Head(inCh), "fetching")
  /\ fetcher' = "fetching"
  /\ inCh' = Tail(inCh)
  /\ UNCHANGED <<limiterVars, took, ask, sleep, closeCh, closer, timeVars>>

(* DoHttpRequest returns, its result reaches the caller, who measures the  *)
(* request and the response: there is always something.                    *)
Fetched(c, used) ==
  /\ at[c] = "fetching"
  /\ used > 0
  /\ fetcher' = "select"
  /\ Uses(c, used)
  /\ UNCHANGED <<limiterVars, sleep, inCh, closeCh, closer, timeVars>>

CloseCall ==
  /\ closer = "idle"
  /\ closer' = "sending"
  /\ closeCh' = FALSE
  /\ UNCHANGED <<limiterVars, clientVars, inCh, fetcher, timeVars>>

CloseAccept ==
  /\ fetcher = "select"
  /\ closer = "sending"
  /\ closer' = "done"
  /\ fetcher' = "stopped"
  /\ UNCHANGED <<limiterVars, clientVars, inCh, closeCh, timeVars>>

----------------------------------------------------------------------------
(* HttpRegulatedFetch: the body alone is counted.                          *)

(* What DoHttpRequest returns as the body: nothing when the request or the *)
(* reading of the body fails.                                              *)
BodySizes == 0 .. MaxUsed

DirectStart(c) ==
  /\ at[c] = "idle"
  /\ Goes(c, "direct")
  /\ UNCHANGED <<limiterVars, took, ask, sleep, fetchVars, timeVars>>

DirectFetched(c, used) ==
  /\ at[c] = "direct"
  /\ Uses(c, used)
  /\ UNCHANGED <<limiterVars, sleep, fetchVars, timeVars>>

----------------------------------------------------------------------------
(* The regulator answers, the consumer sleeps.                             *)

Regulate(c) ==
  /\ at[c] = "asking"
  /\ RegulateUsed(ask[c].used, ask[c].period)
  /\ sleep' = [sleep EXCEPT ![c] = Core(ask[c].used, ask[c].period, Delta).wait]
  /\ ask' = [ask EXCEPT ![c] = NoAsk]
  /\ Goes(c, "sleeping")
  /\ UNCHANGED <<took, fetchVars, timeVars>>

Wake(c) ==
  /\ at[c] = "sleeping"
  /\ sleep[c] = 0
  /\ Goes(c, "idle")
  /\ UNCHANGED <<limiterVars, took, ask, sleep, fetchVars, timeVars>>

(* The periods that are being measured.                                    *)
Measuring(c) == at[c] \in {"sending", "queued", "fetching", "direct"}

Tick ==
  /\ elapsed < Horizon
  /\ elapsed' = elapsed + 1
  /\ since' = since + 1
  /\ took' = [c \in Clients |-> IF Measuring(c) THEN took[c] + 1 ELSE took[c]]
  /\ sleep' = [c \in Clients |-> Larger(0, sleep[c] - 1)]
  /\ UNCHANGED <<lastAvailable, first, usedTotal, at, ask, fetchVars, setBack>>

(* "The clock may be running backward (rare occurrence, but does happen)". *)
ClockBack ==
  /\ setBack < MaxBack
  /\ setBack' = setBack + 1
  /\ since' = since - 1
  /\ took' = [c \in Clients |-> IF Measuring(c) THEN took[c] - 1 ELSE took[c]]
  /\ UNCHANGED <<lastAvailable, first, usedTotal, at, ask, sleep, fetchVars, elapsed>>

Next ==
  \/ \E c \in Callers : DoCall(c) \/ Enqueue(c)
  \/ \E c \in Callers, used \in 1 .. MaxUsed : Fetched(c, used)
  \/ Receive
  \/ CloseCall
  \/ CloseAccept
  \/ \E c \in Direct : DirectStart(c)
  \/ \E c \in Direct, used \in BodySizes : DirectFetched(c, used)
  \/ \E c \in Clients : Regulate(c) \/ Wake(c)
  \/ Tick
  \/ ClockBack

Spec == Init /\ [][Next]_vars

----------------------------------------------------------------------------
(* Properties.                                                             *)

(* Every variable keeps its type; the tokens are never more than Capacity. *)
TypeOK ==
  /\ lastAvailable \in Int /\ lastAvailable <= Capacity
  /\ since \in Int
  /\ first \in BOOLEAN
  /\ usedTotal \in Nat
  /\ at \in [Clients -> {"idle", "sending", "queued", "fetching", "direct",
                         "asking", "sleeping"}]
  /\ took \in [Clients -> Int]
  /\ ask \in [Clients -> [used : Nat, period : Nat]]
  /\ sleep \in [Clients -> Nat]
  /\ inCh \in Seq(Callers)
  /\ fetcher \in {"select", "fetching", "stopped"}
  /\ closeCh \in BOOLEAN
  /\ closer \in {"idle", "sending", "done"}
  /\ setBack \in Nat
  /\ elapsed \in Nat

(* No token is minted: what was used and what is left do not exceed what   *)
(* there was at the start and one token per tick, however the periods of   *)
(* the consumers overlap and whatever the clock does.                      *)
TokensEarned == lastAvailable + usedTotal + Larger(0, since) <= Initial + elapsed

(* The most that all consumers use with a request of each.                 *)
Most == Cardinality(Clients) * MaxUsed

(* What is owed once everything is counted that was earned since, and the  *)
(* ticks that were lost when the clock was set back.                       *)
Owed == - (lastAvailable + since + setBack)

(* How far a consumer may still be from having waited for its last two     *)
(* requests: the time it has slept and the time its next request has taken *)
(* count, up to Most each.                                                 *)
Share(c) ==
  CASE at[c] = "sleeping" -> Most + Smaller(Most, sleep[c])
    [] at[c] = "asking"   -> Most - Smaller(Most, ask[c].period - 1)
    [] OTHER              -> Most - Smaller(Most, Larger(0, took[c]))

(* As many pairs as the shares add up to.                                  *)
Shares == {s \in Clients \X (1 .. 2 * Most) : s[2] <= Share(s[1])}

(* The debt is shared by those who have yet to wait for it: what is owed   *)
(* beyond Most is no more than the mean of the shares.  A wait that counts *)
(* only what its consumer used leaves the use of the others to nobody.     *)
DebtShared == Cardinality(Clients) * (Owed - Most) <= Cardinality(Shares)

(* Consumers that wait as told do not run up debts: however their requests *)
(* fall, no more is owed than three requests of each, and the ticks that   *)
(* were lost when the clock was set back.  (Not one, because a request may *)
(* have taken so long that its consumer need not wait for what the others  *)
(* owe, at its end and again at the end of the next.  Nor is it two: from  *)
(* four consumers on, such requests can be spaced so that more is owed.)   *)
DebtBounded == lastAvailable + setBack >= - (3 * Most)

(* Nobody waits longer than it takes to make up for everything owed and    *)
(* for its own use.                                                        *)
WaitJustified ==
  [][\A c \in Clients :
       Regulate(c) => sleep'[c] <= Larger(0, - lastAvailable') + ask[c].used]_vars

(* The waits are long enough, and not too long: all of the above.          *)
WaitsAreRight == [](TypeOK /\ DebtShared /\ DebtBounded) /\ WaitJustified
============================================================================
