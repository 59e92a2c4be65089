------------------------ MODULE RegulatedFetchProofs ------------------------
(***************************************************************************)
(* Proofs about RateLimiter and its consumers, for any numbers of them,    *)
(* any capacity and any use.  That consumers who wait as told run up no    *)
(* debts (DebtBounded) needs a ledger, in which what is owed is shared out *)
(* among them (LedgerInv); a sum is the number of elements of a set.       *)
(***************************************************************************)
EXTENDS RegulatedFetch, FiniteSetTheorems, TLAPS

(* util/http_fetcher.go executes one request at a time: a caller whose     *)
(* request is executed is the only one, and it is the one whose request    *)
(* the goroutine took from the channel, where no caller waits twice.       *)
OneRequestAtATime ==
  /\ \A c, d \in Callers : at[c] = "fetching" /\ at[d] = "fetching" => c = d
  /\ (\E c \in Callers : at[c] = "fetching") <=> fetcher = "fetching"
  /\ \A i \in 1 .. Len(inCh) : at[inCh[i]] = "queued"
  /\ \A i, j \in 1 .. Len(inCh) : inCh[i] = inCh[j] => i = j

(* Those who fetch for themselves are not in the others' places.           *)
DirectApart ==
  \A d \in Direct : at[d] \notin {"sending", "queued", "fetching"}

IInv == TypeOK /\ TokensEarned /\ OneRequestAtATime /\ DirectApart

(* A quotient is no larger than a bound of the dividend's multiple.        *)
LEMMA QuotientBound ==
  ASSUME NEW x \in Int, NEW w \in Nat \ {0}, NEW u \in Int, x <= u * w
  PROVE  x \div w \in Int /\ x \div w <= u
<1>1. x \div w \in Int /\ (x \div w) * w <= x
  OBVIOUS
<1> DEFINE q == x \div w
<1>2. q \in Int /\ q * w <= u * w
  BY <1>1
<1> HIDE DEF q
<1>3. ASSUME q > u PROVE FALSE
  <2>1. q >= u + 1
    BY <1>2, <1>3
  <2>2. q * w >= (u + 1) * w
    BY <1>2, <2>1
  <2>3. (u + 1) * w = u * w + w
    OBVIOUS
  <2>4. u * w \in Int /\ (u + 1) * w \in Int /\ q * w \in Int
    BY <1>2
  <2> QED
    BY <1>2, <2>2, <2>3, <2>4
<1>4. q <= u
  BY <1>2, <1>3
<1> QED
  BY <1>2, <1>4 DEF q

(* What core leaves available: never more than Capacity, and no more than  *)
(* there was and one token per tick since the last request, less the use.  *)
LEMMA CoreAvailable ==
  ASSUME lastAvailable \in Int, lastAvailable <= Capacity,
         NEW used \in Nat, NEW period \in Nat, NEW delta \in Int
  PROVE  LET available == Core(used, period, delta).available
         IN  /\ available \in Int
             /\ available <= Capacity
             /\ available <= lastAvailable + Larger(0, delta) - used
<1> DEFINE spent == Before(period, delta) - used
           within == Within(period, delta)
           added == Added(spent, within)
<1>1. Capacity \in Int
  BY RateLimiterAssumption
<1>2. /\ Before(period, delta) \in Int
      /\ Before(period, delta) <= Capacity
      /\ Before(period, delta)
           <= lastAvailable + (IF delta > period THEN delta - period ELSE 0)
  BY <1>1 DEF Before, Smaller
<1>3. within \in Int /\ within = IF delta > period THEN period ELSE delta
  BY DEF Within, Smaller
<1>4. /\ added \in Int
      /\ added <= (IF within > 0 THEN within ELSE 0)
      /\ added <= Capacity - spent
  BY <1>1, <1>2, <1>3 DEF Added, Smaller
<1>5. Core(used, period, delta).available = spent + added
  BY DEF Core
<1> HIDE DEF spent, within, added
<1>6. spent = Before(period, delta) - used
  BY DEF spent
<1> QED
  BY <1>1, <1>2, <1>3, <1>4, <1>5, <1>6 DEF Larger

(* How long core makes a consumer wait: no time at all, or at most until   *)
(* what all of them owe and its own use are made up for.                   *)
LEMMA CoreWait ==
  ASSUME lastAvailable \in Int, lastAvailable <= Capacity,
         NEW used \in Nat, NEW period \in Nat, NEW delta \in Int
  PROVE  LET core == Core(used, period, delta)
         IN  /\ core.wait \in Nat
             /\ core.wait <= Larger(0, - core.available) + used
<1> DEFINE spent == Before(period, delta) - used
           within == Within(period, delta)
           added == Added(spent, within)
           available == Core(used, period, delta).available
<1>1. Capacity \in Int /\ available \in Int
  BY RateLimiterAssumption, CoreAvailable
<1>2. spent \in Int /\ spent <= Capacity /\ within \in Int
  BY <1>1 DEF Before, Within, Smaller
<1>3. added \in Nat
  BY <1>1, <1>2 DEF Added, Smaller
<1>4. /\ TooFast(used, period, within, added) \in Nat
      /\ TooFast(used, period, within, added) <= used
  <2>1. CASE ~ within > 0
    BY <2>1 DEF TooFast
  <2>2. CASE within > 0
    <3> DEFINE x == used * within - added * period
    <3>1. added * period \in Nat /\ used * within \in Int
      BY <1>2, <1>3
    <3>2. x \in Int /\ x <= used * within
      BY <3>1
    <3>3. within \in Nat \ {0} /\ used \in Int
      BY <1>2, <2>2
    <3>4. x \div within \in Int /\ x \div within <= used
      BY <3>2, <3>3, QuotientBound
    <3>5. TooFast(used, period, within, added) = Larger(0, x \div within)
      BY <2>2 DEF TooFast
    <3> HIDE DEF x
    <3> QED
      BY <3>4, <3>5 DEF Larger
  <2> QED
    BY <1>2, <2>1, <2>2
<1>5. TooMuch(available, used, period) <= Larger(0, - available) + used
      /\ TooMuch(available, used, period) \in Int
  BY <1>1 DEF TooMuch, Larger
<1>6. /\ Core(used, period, delta).available = spent + added
      /\ Core(used, period, delta).wait
           = Larger(TooFast(used, period, within, added),
                    TooMuch(spent + added, used, period))
  BY DEF Core
<1>7. Larger(0, - available) \in Nat
  BY <1>1 DEF Larger
<1> HIDE DEF spent, within, added, available
<1>8. Core(used, period, delta).wait
           = Larger(TooFast(used, period, within, added),
                    TooMuch(available, used, period))
  BY <1>6 DEF available
<1>9. /\ Core(used, period, delta).wait \in Nat
      /\ Core(used, period, delta).wait <= Larger(0, - available) + used
  BY <1>4, <1>5, <1>7, <1>8 DEF Larger
<1> QED
  BY <1>9 DEF available

----------------------------------------------------------------------------

(* Nothing has been used, nobody is fetching.                              *)
LEMMA InitIInv == Init => IInv
<1> SUFFICES ASSUME Init PROVE IInv
  OBVIOUS
<1> USE DEF Init, InitLimiter
<1>1. Initial \in Nat /\ Initial <= Capacity /\ Capacity \in Nat
  BY RateLimiterAssumption
<1>2. TypeOK
  BY <1>1 DEF TypeOK, NoAsk
<1>3. TokensEarned
  BY <1>1 DEF TokensEarned, Larger
<1>4. OneRequestAtATime /\ DirectApart
  BY DEF OneRequestAtATime, DirectApart, Clients
<1> QED
  BY <1>2, <1>3, <1>4 DEF IInv

(* A consumer that moves between other places than the channel and the     *)
(* goroutine disturbs nobody's turn.                                       *)
LEMMA OutOfTurn ==
  ASSUME TypeOK, OneRequestAtATime,
         NEW c \in Clients, NEW place,
         Goes(c, place), UNCHANGED <<inCh, fetcher>>,
         at[c] \notin {"queued", "fetching"},
         place \notin {"queued", "fetching"}
  PROVE  OneRequestAtATime'
<1>1. /\ inCh \in Seq(Callers)
      /\ \A i \in 1 .. Len(inCh) : inCh[i] \in Clients
  BY DEF TypeOK, Clients
<1>2. \A d \in Clients : at'[d] = IF d = c THEN place ELSE at[d]
  BY DEF TypeOK, Goes
<1>3. \A d \in Clients : at'[d] = "fetching" <=> at[d] = "fetching"
  BY <1>2
<1>4. \A i \in 1 .. Len(inCh) : at'[inCh[i]] = "queued"
  BY <1>1, <1>2 DEF OneRequestAtATime
<1> QED
  BY <1>3, <1>4 DEF OneRequestAtATime, Clients

(* What a consumer has used and asks keeps its type.                       *)
LEMMA UsesTyped ==
  ASSUME TypeOK, NEW c \in Clients, NEW used \in Nat, Uses(c, used)
  PROVE  /\ at' \in [Clients -> {"idle", "sending", "queued", "fetching",
                                 "direct", "asking", "sleeping"}]
         /\ took' \in [Clients -> Int]
         /\ ask' \in [Clients -> [used : Nat, period : Nat]]
<1>1. at' \in [Clients -> {"idle", "sending", "queued", "fetching",
                           "direct", "asking", "sleeping"}]
  BY DEF Uses, Goes, TypeOK
<1>2. took' \in [Clients -> Int]
  BY DEF Uses, TypeOK
<1>3. PeriodReported(took[c]) \in Nat
  BY DEF PeriodReported, Larger, TypeOK
<1>4. [used |-> used, period |-> PeriodReported(took[c])]
        \in [used : Nat, period : Nat]
  BY <1>3
<1>5. ask' \in [Clients -> [used : Nat, period : Nat]]
  BY <1>4 DEF Uses, TypeOK
<1> QED
  BY <1>1, <1>2, <1>5

(* Every step of a consumer, of the goroutines and of the clock keeps the  *)
(* invariant.                                                              *)
LEMMA NextIInv == IInv /\ [Next]_vars => IInv'
<1> SUFFICES ASSUME IInv, [Next]_vars PROVE IInv'
  OBVIOUS
<1> USE RegulatedFetchAssumption DEF IInv, Clients, Goes, timeVars, fetchVars,
        clientVars, limiterVars
<1>1. ASSUME NEW c \in Callers, DoCall(c) PROVE IInv'
  <2>1. TypeOK'
    BY <1>1 DEF TypeOK, DoCall
  <2>2. TokensEarned'
    BY <1>1 DEF TokensEarned, DoCall
  <2>3. OneRequestAtATime'
    BY <1>1, OutOfTurn DEF DoCall
  <2>4. DirectApart'
    BY <1>1 DEF DirectApart, TypeOK, DoCall
  <2> QED
    BY <2>1, <2>2, <2>3, <2>4
<1>2. ASSUME NEW c \in Callers, Enqueue(c) PROVE IInv'
  <2>1. TypeOK'
    BY <1>2 DEF TypeOK, Enqueue
  <2>2. TokensEarned'
    BY <1>2 DEF TokensEarned, Enqueue
  <2>3. OneRequestAtATime'
    <3>1. /\ at[c] = "sending" /\ inCh' = Append(inCh, c)
          /\ fetcher' = fetcher /\ inCh \in Seq(Callers)
          /\ \A d \in Clients : at'[d] = IF d = c THEN "queued" ELSE at[d]
      BY <1>2 DEF Enqueue, TypeOK
    <3>2. /\ Len(inCh') = Len(inCh) + 1 /\ Len(inCh) \in Nat
          /\ \A i \in 1 .. Len(inCh) : inCh'[i] = inCh[i]
          /\ inCh'[Len(inCh) + 1] = c
      BY <1>2, <3>1
    <3>3. \A i \in 1 .. Len(inCh) :
            inCh[i] \in Clients /\ at[inCh[i]] = "queued" /\ inCh[i] # c
      BY <3>1 DEF OneRequestAtATime
    <3>4. \A i \in 1 .. Len(inCh') : at'[inCh'[i]] = "queued"
      BY <3>1, <3>2, <3>3
    <3>5. \A i, j \in 1 .. Len(inCh') : inCh'[i] = inCh'[j] => i = j
      BY <3>2, <3>3 DEF OneRequestAtATime
    <3>6. \A d \in Callers : at'[d] = "fetching" <=> at[d] = "fetching"
      BY <3>1
    <3> QED
      BY <3>1, <3>4, <3>5, <3>6 DEF OneRequestAtATime
  <2>4. DirectApart'
    BY <1>2 DEF DirectApart, TypeOK, Enqueue
  <2> QED
    BY <2>1, <2>2, <2>3, <2>4
<1>3. ASSUME NEW c \in Callers, NEW used \in 1 .. MaxUsed, Fetched(c, used) PROVE IInv'
  <2>1. TypeOK'
    <3>1. used \in Nat
      BY <1>3
    <3> QED
      BY <1>3, <3>1, UsesTyped DEF TypeOK, Fetched
  <2>2. TokensEarned'
    BY <1>3 DEF TokensEarned, Fetched, Uses
  <2>3. OneRequestAtATime'
    <3>1. \A d \in Clients : d # c => at'[d] = at[d]
      BY <1>3 DEF Fetched, Uses, TypeOK
    <3>2. at[c] = "fetching" /\ at'[c] \in {"idle", "asking"}
      BY <1>3 DEF Fetched, Uses, TypeOK
    <3>3. \A d \in Callers : at'[d] # "fetching"
      BY <3>1, <3>2 DEF OneRequestAtATime
    <3>4. \A i \in 1 .. Len(inCh) : inCh[i] \in Clients
      BY DEF TypeOK
    <3>5. \A i \in 1 .. Len(inCh) : at'[inCh[i]] = "queued"
      BY <3>1, <3>2, <3>4 DEF OneRequestAtATime
    <3>6. inCh' = inCh /\ fetcher' = "select"
      BY <1>3 DEF Fetched
    <3> QED
      BY <3>3, <3>5, <3>6 DEF OneRequestAtATime
  <2>4. DirectApart'
    BY <1>3 DEF DirectApart, TypeOK, Fetched, Uses
  <2> QED
    BY <2>1, <2>2, <2>3, <2>4
<1>4. ASSUME Receive PROVE IInv'
  <2>1. TypeOK'
    BY SMTT(30), <1>4 DEF TypeOK, Receive
  <2>2. TokensEarned'
    BY <1>4 DEF TokensEarned, Receive
  <2>3. OneRequestAtATime'
    BY SMTT(30), <1>4 DEF OneRequestAtATime, DirectApart, TypeOK, Receive
  <2>4. DirectApart'
    BY <1>4 DEF DirectApart, TypeOK, Receive
  <2> QED
    BY <2>1, <2>2, <2>3, <2>4
<1>5. ASSUME CloseCall PROVE IInv'
  <2>1. TypeOK'
    BY <1>5 DEF TypeOK, CloseCall
  <2>2. TokensEarned'
    BY <1>5 DEF TokensEarned, CloseCall
  <2>3. OneRequestAtATime'
    BY <1>5 DEF OneRequestAtATime, DirectApart, TypeOK, CloseCall
  <2>4. DirectApart'
    BY <1>5 DEF DirectApart, TypeOK, CloseCall
  <2> QED
    BY <2>1, <2>2, <2>3, <2>4
<1>6. ASSUME CloseAccept PROVE IInv'
  <2>1. TypeOK'
    BY <1>6 DEF TypeOK, CloseAccept
  <2>2. TokensEarned'
    BY <1>6 DEF TokensEarned, CloseAccept
  <2>3. OneRequestAtATime'
    BY <1>6 DEF OneRequestAtATime, DirectApart, TypeOK, CloseAccept
  <2>4. DirectApart'
    BY <1>6 DEF DirectApart, TypeOK, CloseAccept
  <2> QED
    BY <2>1, <2>2, <2>3, <2>4
<1>7. ASSUME NEW c \in Direct, DirectStart(c) PROVE IInv'
  <2>1. TypeOK'
    BY <1>7 DEF TypeOK, DirectStart
  <2>2. TokensEarned'
    BY <1>7 DEF TokensEarned, DirectStart
  <2>3. OneRequestAtATime'
    BY <1>7, OutOfTurn DEF DirectStart
  <2>4. DirectApart'
    BY <1>7 DEF DirectApart, TypeOK, DirectStart
  <2> QED
    BY <2>1, <2>2, <2>3, <2>4
<1>8. ASSUME NEW c \in Direct, NEW used \in BodySizes, DirectFetched(c, used) PROVE IInv'
  <2>1. TypeOK'
    <3>1. used \in Nat
      BY <1>8 DEF BodySizes
    <3> QED
      BY <1>8, <3>1, UsesTyped DEF TypeOK, DirectFetched
  <2>2. TokensEarned'
    BY <1>8 DEF TokensEarned, DirectFetched, Uses
  <2>3. OneRequestAtATime'
    BY <1>8, OutOfTurn DEF DirectFetched, Uses
  <2>4. DirectApart'
    BY <1>8 DEF DirectApart, TypeOK, DirectFetched, Uses
  <2> QED
    BY <2>1, <2>2, <2>3, <2>4
<1>9. ASSUME NEW c \in Clients, Regulate(c) PROVE IInv'
  <2> DEFINE used == ask[c].used
             period == ask[c].period
             core == Core(used, period, Delta)
  <2>1. /\ lastAvailable \in Int /\ lastAvailable <= Capacity
        /\ used \in Nat /\ period \in Nat /\ Delta \in Int
    BY DEF TypeOK, Delta
  <2>2. /\ core.available \in Int /\ core.available <= Capacity
        /\ core.available <= lastAvailable + Larger(0, Delta) - used
        /\ core.wait \in Nat
    BY <2>1, CoreAvailable, CoreWait
  <2>3. /\ lastAvailable' = core.available /\ since' = 0
        /\ usedTotal' = usedTotal + used /\ first' = FALSE
        /\ sleep' = [sleep EXCEPT ![c] = core.wait]
        /\ ask' = [ask EXCEPT ![c] = NoAsk]
        /\ at' = [at EXCEPT ![c] = "sleeping"]
        /\ UNCHANGED <<took, fetchVars, timeVars>>
    BY <1>9 DEF Regulate, RegulateUsed
  <2> HIDE DEF core, used, period
  <2>4. TypeOK'
    <3>1. ask' \in [Clients -> [used : Nat, period : Nat]]
      BY <2>3 DEF TypeOK, NoAsk
    <3>2. sleep' \in [Clients -> Nat]
      BY <2>2, <2>3 DEF TypeOK
    <3>3. usedTotal' \in Nat
      BY <2>1, <2>3 DEF TypeOK
    <3>4. at' \in [Clients -> {"idle", "sending", "queued", "fetching",
                               "direct", "asking", "sleeping"}]
      BY <2>3 DEF TypeOK
    <3>5. /\ lastAvailable' \in Int /\ lastAvailable' <= Capacity
          /\ since' \in Int
      BY <2>2, <2>3
    <3>6. first' \in BOOLEAN
      BY <2>3
    <3>7. /\ took' \in [Clients -> Int]
          /\ inCh' \in Seq(Callers)
          /\ fetcher' \in {"select", "fetching", "stopped"}
          /\ closeCh' \in BOOLEAN /\ closer' \in {"idle", "sending", "done"}
          /\ setBack' \in Nat /\ elapsed' \in Nat
      BY <2>3 DEF TypeOK
    <3> QED
      BY <3>1, <3>2, <3>3, <3>4, <3>5, <3>6, <3>7 DEF TypeOK
  <2>5. TokensEarned'
    <3>1. Larger(0, Delta) <= Larger(0, since)
      BY DEF Delta, Larger, TypeOK
    <3>2. Larger(0, Delta) \in Int /\ Larger(0, since) \in Int
      BY <2>1 DEF Larger, TypeOK
    <3>3. Larger(0, since') = 0
      BY <2>3 DEF Larger
    <3>4. Initial \in Int
      BY RateLimiterAssumption
    <3> QED
      BY SMTT(30), <2>1, <2>2, <2>3, <3>1, <3>2, <3>3, <3>4 DEF TokensEarned, TypeOK
  <2>6. OneRequestAtATime'
    BY <1>9, OutOfTurn DEF Regulate
  <2>7. DirectApart'
    BY <2>3 DEF DirectApart, TypeOK
  <2> QED
    BY <2>4, <2>5, <2>6, <2>7
<1>10. ASSUME NEW c \in Clients, Wake(c) PROVE IInv'
  <2>1. TypeOK'
    BY <1>10 DEF TypeOK, Wake
  <2>2. TokensEarned'
    BY <1>10 DEF TokensEarned, Wake
  <2>3. OneRequestAtATime'
    BY SMTT(30), <1>10 DEF OneRequestAtATime, DirectApart, TypeOK, Wake
  <2>4. DirectApart'
    BY <1>10 DEF DirectApart, TypeOK, Wake
  <2> QED
    BY <2>1, <2>2, <2>3, <2>4
<1>11. ASSUME Tick PROVE IInv'
  <2>1. TypeOK'
    BY <1>11 DEF TypeOK, Tick, Larger
  <2>2. TokensEarned'
    BY <1>11, RateLimiterAssumption DEF TokensEarned, TypeOK, Tick, Larger
  <2>3. OneRequestAtATime' /\ DirectApart'
    BY <1>11 DEF OneRequestAtATime, DirectApart, Tick
  <2> QED
    BY <2>1, <2>2, <2>3
<1>12. ASSUME ClockBack PROVE IInv'
  <2>1. TypeOK'
    BY <1>12 DEF TypeOK, ClockBack
  <2>2. TokensEarned'
    BY <1>12, RateLimiterAssumption
       DEF TokensEarned, TypeOK, ClockBack, Larger
  <2>3. OneRequestAtATime' /\ DirectApart'
    BY <1>12 DEF OneRequestAtATime, DirectApart, ClockBack
  <2> QED
    BY <2>1, <2>2, <2>3
<1>13. CASE UNCHANGED vars
  BY <1>13 DEF vars, TypeOK, TokensEarned, OneRequestAtATime, DirectApart
<1> QED
  BY <1>1, <1>2, <1>3, <1>4, <1>5, <1>6, <1>7, <1>8, <1>9, <1>10, <1>11,
     <1>12, <1>13 DEF Next

(* The inductive invariant holds throughout.                               *)
LEMMA Invariance == Spec => []IInv
BY InitIInv, NextIInv, PTL DEF Spec

(* Every variable keeps its type, and no more tokens are available than    *)
(* the capacity, whatever the requests use and the clock does.             *)
THEOREM TypeCorrect == Spec => []TypeOK
BY Invariance, PTL DEF IInv

(* core, run after run, mints no token: what was used and what is left     *)
(* never exceed what there was and a token per tick, however the periods   *)
(* of the consumers overlap and however far the clock is set back.         *)
THEOREM NoTokenMinted == Spec => []TokensEarned
BY Invariance, PTL DEF IInv

(* The goroutine of util/http_fetcher.go has one request at a time, and no  *)
(* caller waits twice in its channel.                                      *)
THEOREM OneAtATime == Spec => []OneRequestAtATime
BY Invariance, PTL DEF IInv

(* No step makes a consumer wait longer than it takes to make up for all   *)
(* that is owed and for what it used itself, for any period it reports.    *)
THEOREM NoWaitInVain == Spec => WaitJustified
<1>1. TypeOK /\ [Next]_vars =>
        [\A c \in Clients :
           Regulate(c) => sleep'[c] <= Larger(0, - lastAvailable') + ask[c].used]_vars
  <2> SUFFICES ASSUME TypeOK, NEW c \in Clients, Regulate(c)
               PROVE  sleep'[c] <= Larger(0, - lastAvailable') + ask[c].used
    OBVIOUS
  <2> DEFINE core == Core(ask[c].used, ask[c].period, Delta)
  <2>1. /\ lastAvailable \in Int /\ lastAvailable <= Capacity
        /\ ask[c].used \in Nat /\ ask[c].period \in Nat /\ Delta \in Int
    BY DEF TypeOK, Delta
  <2>2. core.wait <= Larger(0, - core.available) + ask[c].used
    BY <2>1, CoreWait
  <2>3. sleep'[c] = core.wait /\ lastAvailable' = core.available
    BY DEF Regulate, RegulateUsed, TypeOK
  <2> QED
    BY <2>2, <2>3
<1> QED
  BY <1>1, TypeCorrect, PTL DEF Spec, WaitJustified

----------------------------------------------------------------------------
(* Sums, as numbers of pairs: each x of D has f[x] pairs, K at most.       *)

Pairs(D, K, f) == {s \in D \X (1 .. K) : s[2] <= f[s[1]]}

LEMMA PairsFinite ==
  ASSUME NEW D, IsFiniteSet(D), NEW K \in Nat, NEW f
  PROVE  /\ IsFiniteSet(Pairs(D, K, f))
         /\ Cardinality(Pairs(D, K, f)) \in Nat
         /\ Cardinality(Pairs(D, K, f)) <= Cardinality(D) * K
<1>1. IsFiniteSet(1 .. K) /\ Cardinality(1 .. K) = K
  BY FS_Interval
<1>2. /\ IsFiniteSet(D \X (1 .. K))
      /\ Cardinality(D \X (1 .. K)) = Cardinality(D) * Cardinality(1 .. K)
  BY <1>1, FS_Product
<1>3. Pairs(D, K, f) \in SUBSET (D \X (1 .. K))
  BY DEF Pairs
<1>4. /\ IsFiniteSet(Pairs(D, K, f))
      /\ Cardinality(Pairs(D, K, f)) <= Cardinality(D \X (1 .. K))
  BY <1>2, <1>3, FS_Subset
<1> QED
  BY <1>1, <1>2, <1>4, FS_CardinalityType

(* None has fewer, and one has m more.                                     *)
LEMMA PairsGrow ==
  ASSUME NEW D, IsFiniteSet(D), NEW K \in Nat,
         NEW f \in [D -> 0 .. K], NEW g \in [D -> 0 .. K],
         \A y \in D : g[y] >= f[y],
         NEW x \in D, NEW m \in Nat, g[x] >= f[x] + m
  PROVE  Cardinality(Pairs(D, K, g)) >= Cardinality(Pairs(D, K, f)) + m
<1> DEFINE new == {x} \X (f[x] + 1 .. f[x] + m)
           old == Pairs(D, K, f)
           all == Pairs(D, K, g)
<1>1. f[x] \in Nat /\ f[x] + 1 \in Int /\ f[x] + m \in Int
  OBVIOUS
<1>2. /\ IsFiniteSet(f[x] + 1 .. f[x] + m)
      /\ Cardinality(f[x] + 1 .. f[x] + m) = m
  <2> DEFINE a == f[x] + 1
             b == f[x] + m
  <2>1. a \in Int /\ b \in Int /\ (IF a > b THEN 0 ELSE b - a + 1) = m
    BY <1>1
  <2> HIDE DEF a, b
  <2>2. IsFiniteSet(a .. b) /\ Cardinality(a .. b) = m
    BY <2>1, FS_Interval
  <2> QED
    BY <2>2 DEF a, b
<1>3. IsFiniteSet({x}) /\ Cardinality({x}) = 1
  BY FS_Singleton
<1>4. IsFiniteSet(new) /\ Cardinality(new) = m
  <2>1. /\ IsFiniteSet(new)
        /\ Cardinality(new) = Cardinality({x}) * Cardinality(f[x] + 1 .. f[x] + m)
    BY <1>2, <1>3, FS_Product
  <2> QED
    BY <1>2, <1>3, <2>1
<1>5. IsFiniteSet(old) /\ IsFiniteSet(all) /\ Cardinality(old) \in Nat
  BY PairsFinite
<1>6. old \cap new = {}
  BY <1>1 DEF Pairs
<1>7. old \cup new \in SUBSET all
  <2>1. \A s \in old : s \in all
    BY DEF Pairs
  <2>2. \A s \in new : s \in all
    <3>1. TAKE s \in new
    <3>2. s[1] = x /\ s[2] \in 1 .. K /\ s[2] <= g[x] /\ s = <<s[1], s[2]>>
      BY <1>1
    <3> QED
      BY <3>2 DEF Pairs
  <2> QED
    BY <2>1, <2>2
<1> HIDE DEF new, old, all
<1>8. /\ Cardinality(old \cup new) = Cardinality(old) + Cardinality(new) - Cardinality(old \cap new)
      /\ Cardinality(old \cap new) = 0
  BY <1>4, <1>5, <1>6, FS_Union, FS_EmptySet
<1>9. Cardinality(old \cup new) <= Cardinality(all)
  BY <1>5, <1>7, FS_Subset
<1> QED
  BY <1>4, <1>5, <1>8, <1>9, FS_CardinalityType DEF old, all

(* None has fewer by more than one.                                        *)
LEMMA PairsShrink ==
  ASSUME NEW D, IsFiniteSet(D), NEW K \in Nat,
         NEW f \in [D -> 0 .. K], NEW g \in [D -> 0 .. K],
         \A y \in D : g[y] >= f[y] - 1
  PROVE  Cardinality(Pairs(D, K, g)) >= Cardinality(Pairs(D, K, f)) - Cardinality(D)
<1> DEFINE top == [y \in D |-> <<y, f[y]>>]
           tops == {top[y] : y \in D}
           old == Pairs(D, K, f)
           all == Pairs(D, K, g)
<1>1. IsFiniteSet(tops) /\ Cardinality(tops) <= Cardinality(D)
  <2>1. top \in Surjection(D, tops)
    BY DEF Surjection
  <2> HIDE DEF top
  <2> QED
    BY <2>1, FS_Surjection
<1>2. IsFiniteSet(old) /\ IsFiniteSet(all) /\ Cardinality(all) \in Nat
  BY PairsFinite
<1>3. old \in SUBSET (all \cup tops)
  <2>1. SUFFICES ASSUME NEW s \in old, s \notin tops PROVE s \in all
    OBVIOUS
  <2>2. s = <<s[1], s[2]>> /\ s[1] \in D /\ s[2] \in 1 .. K /\ s[2] <= f[s[1]]
    BY DEF Pairs
  <2>3. s[2] # f[s[1]]
    <3>1. top[s[1]] = <<s[1], f[s[1]]>> /\ top[s[1]] \in tops
      BY <2>2
    <3> QED
      BY <2>1, <2>2, <3>1
  <2>4. s[2] <= g[s[1]]
    BY <2>2, <2>3
  <2> QED
    BY <2>2, <2>4 DEF Pairs
<1> HIDE DEF top, tops, old, all
<1>4. /\ IsFiniteSet(all \cup tops)
      /\ Cardinality(all \cup tops) = Cardinality(all) + Cardinality(tops) - Cardinality(all \cap tops)
      /\ IsFiniteSet(all \cap tops)
  BY <1>1, <1>2, FS_Union, FS_Intersection
<1>5. Cardinality(old) <= Cardinality(all \cup tops)
  BY <1>3, <1>4, FS_Subset
<1>6. /\ Cardinality(tops) \in Nat /\ Cardinality(all \cap tops) \in Nat
      /\ Cardinality(old) \in Nat /\ Cardinality(D) \in Nat
  BY <1>1, <1>2, <1>4, FS_CardinalityType
<1> QED
  BY <1>1, <1>2, <1>4, <1>5, <1>6 DEF old, all

----------------------------------------------------------------------------
(* What is owed.                                                           *)

(* The answer of core, when more is owed than the consumer used, counts    *)
(* all the time since the last request; and a consumer who is told so      *)
(* waits until nothing is owed, less what it has already taken.            *)
LEMMA CoreOwed ==
  ASSUME lastAvailable \in Int, lastAvailable <= Capacity,
         NEW used \in Nat, NEW period \in Nat \ {0}, NEW delta \in Int
  PROVE  LET core == Core(used, period, delta)
         IN  /\ \/ core.available >= lastAvailable + delta - used
                \/ core.available >= - used
             /\ core.available < 0 => core.wait >= used - core.available - period
<1> DEFINE spent == Before(period, delta) - used
           within == Within(period, delta)
           added == Added(spent, within)
           available == Core(used, period, delta).available
           wait == Core(used, period, delta).wait
<1>1. Capacity \in Nat
  BY RateLimiterAssumption
<1>2. /\ spent \in Int /\ within \in Int /\ added \in Int
      /\ available = spent + added
      /\ wait = Larger(TooFast(used, period, within, added),
                       TooMuch(available, used, period))
  BY <1>1 DEF Core, Before, Within, Added, Smaller
<1>3. available < 0 => wait >= used - available - period
  <2> HIDE DEF spent, within, added, available, wait
  <2>1. ASSUME available < 0 PROVE wait >= used - available - period
    <3>1. /\ available \in Int
          /\ TooMuch(available, used, period) = - available + used - period
      BY <1>2, <2>1 DEF TooMuch
    <3>2. TooFast(used, period, within, added) \in Int
      <4>1. CASE ~ within > 0
        BY <4>1 DEF TooFast
      <4>2. CASE within > 0
        <5> DEFINE x == used * within - added * period
        <5>1. x \in Int /\ within \in Nat \ {0}
          BY <1>2, <4>2
        <5> HIDE DEF x
        <5>2. x \div within \in Int
          BY <5>1
        <5> QED
          BY <4>2, <5>2 DEF TooFast, Larger, x
      <4> QED
        BY <1>2, <4>1, <4>2
    <3> QED
      BY <1>2, <3>1, <3>2 DEF Larger
  <2> QED
    BY <2>1
<1>4. available >= lastAvailable + delta - used \/ available >= - used
  <2>1. CASE delta > period
    BY <1>1, <1>2, <2>1 DEF Before, Within, Added, Smaller
  <2>2. CASE ~ delta > period
    BY <1>1, <1>2, <2>2 DEF Before, Within, Added, Smaller
  <2> QED
    BY <2>1, <2>2
<1> QED
  BY <1>3, <1>4

(* A consumer that asks has used something, for some time, and one that is *)
(* not measuring has no period.                                            *)
Asked ==
  \A c \in Clients :
    /\ at[c] = "asking" => ask[c].used \in 1 .. MaxUsed /\ ask[c].period >= 1
    /\ ~ Measuring(c) => took[c] = 0

(* Until its first request, the regulator has what it began with, nothing. *)
FirstIsEmpty == first => lastAvailable = 0

LedgerInv == Asked /\ FirstIsEmpty /\ DebtShared /\ DebtBounded

(* How many consumers there are, and the share of each.                    *)
N == Cardinality(Clients)
Pending == [c \in Clients |-> Share(c)]

LEMMA Sizes == N \in Nat /\ MaxUsed \in Nat /\ Most \in Nat /\ 2 * Most \in Nat
<1>1. N \in Nat /\ MaxUsed \in Nat
  BY RegulatedFetchAssumption, FS_CardinalityType DEF N
<1> QED
  BY <1>1 DEF Most, N

(* The shares are from none to twice Most.                                 *)
LEMMA ShareTyped == TypeOK /\ Asked => Pending \in [Clients -> 0 .. 2 * Most]
<1> SUFFICES ASSUME TypeOK, Asked, NEW c \in Clients
             PROVE  Share(c) \in 0 .. 2 * Most
  BY DEF Pending
<1>1. CASE at[c] = "sleeping"
  BY <1>1, Sizes, SMTT(30) DEF Share, Smaller, TypeOK
<1>2. CASE at[c] = "asking"
  <2>1. ask[c].period - 1 \in Nat /\ Share(c) = Most - Smaller(Most, ask[c].period - 1)
    BY <1>2 DEF Share, TypeOK, Asked
  <2> QED
    BY <2>1, Sizes, SMTT(30) DEF Smaller
<1>3. CASE at[c] \notin {"sleeping", "asking"}
  <2>1. took[c] \in Int /\ Share(c) = Most - Smaller(Most, Larger(0, took[c]))
    BY <1>3 DEF Share, TypeOK
  <2> QED
    BY <2>1, Sizes, SMTT(30) DEF Smaller, Larger
<1> QED
  BY <1>1, <1>2, <1>3

LEMMA SharesArePairs == Shares = Pairs(Clients, 2 * Most, Pending)
BY DEF Shares, Pairs, Pending

(* The same of the next state.                                             *)
LEMMA NextShares ==
  /\ TypeOK' /\ Asked' => Pending' \in [Clients -> 0 .. 2 * Most]
  /\ Shares' = Pairs(Clients, 2 * Most, Pending')
<1>1. (TypeOK /\ Asked => Pending \in [Clients -> 0 .. 2 * Most])'
  BY ShareTyped, PTL
<1>2. (Shares = Pairs(Clients, 2 * Most, Pending))'
  BY SharesArePairs, PTL
<1>3. (2 * Most)' = 2 * Most
  BY DEF Most
<1> QED
  BY <1>1, <1>2, <1>3 DEF Pairs

LEMMA CountsTyped ==
  ASSUME TypeOK
  PROVE  /\ Owed \in Int /\ Cardinality(Shares) \in Nat
         /\ Cardinality(Shares) <= N * (2 * Most)
<1>1. Owed \in Int
  BY DEF Owed, TypeOK
<1> QED
  BY <1>1, RegulatedFetchAssumption, Sizes, SharesArePairs, PairsFinite DEF N

(* Both sides of an inequality many times.                                 *)
LEMMA Scaled ==
  ASSUME NEW n \in Nat, NEW a \in Int, NEW b \in Int, NEW m \in Int, b <= a - m
  PROVE  n * b <= n * a - n * m
<1> DEFINE d == (a - m) - b
<1>1. d \in Nat /\ b = (a - m) - d
  OBVIOUS
<1>2. n * b = n * a - n * m - n * d
  BY <1>1
<1>3. n * d \in Nat /\ n * a \in Int /\ n * m \in Int
  BY <1>1
<1> QED
  BY <1>2, <1>3

(* Where nobody's share is less and no more is owed, or each is less by    *)
(* one at most and so is what is owed.                                     *)
LEMMA SharedStill ==
  ASSUME TypeOK, TypeOK', Asked, Asked', DebtShared,
         NEW m \in 0 .. 1, Owed' <= Owed - m,
         \A c \in Clients : Share(c)' >= Share(c) - m
  PROVE  DebtShared'
<1> DEFINE now == Cardinality(Shares)
           next == Cardinality(Shares')
<1>1. /\ Pending \in [Clients -> 0 .. 2 * Most]
      /\ Pending' \in [Clients -> 0 .. 2 * Most]
      /\ Shares = Pairs(Clients, 2 * Most, Pending)
      /\ Shares' = Pairs(Clients, 2 * Most, Pending')
  BY ShareTyped, SharesArePairs, NextShares
<1>2. /\ \A c \in Clients : Pending[c] = Share(c)
      /\ \A c \in Clients : Pending'[c] = Share(c)'
  BY DEF Pending
<1>3. /\ now \in Nat /\ next \in Nat /\ Owed \in Int /\ Owed' \in Int
  BY CountsTyped, <1>1, Sizes, RegulatedFetchAssumption, PairsFinite DEF Owed, TypeOK
<1>4. next >= now - N * m
  <2>1. CASE m = 0
    <3>1. Shares \in SUBSET Shares'
      BY <1>1, <1>2, <2>1 DEF Pairs
    <3>2. IsFiniteSet(Shares')
      BY <1>1, Sizes, RegulatedFetchAssumption, PairsFinite
    <3>3. now <= next
      BY <3>1, <3>2, FS_Subset
    <3> QED
      BY <1>3, <2>1, <3>3, Sizes
  <2>2. CASE m = 1
    <3>1. next >= now - Cardinality(Clients)
      BY <1>1, <1>2, <2>2, Sizes, RegulatedFetchAssumption, PairsShrink
    <3> QED
      BY <2>2, <3>1, Sizes DEF N
  <2> QED
    BY <2>1, <2>2
<1>5. N * (Owed - Most) <= now
  BY DEF DebtShared, N
<1> HIDE DEF now, next
<1>6. N * (Owed' - Most) <= N * (Owed - Most) - N * m
  <2> DEFINE a == Owed
             b == Owed'
  <2>1. a \in Int /\ b \in Int /\ b <= a - m
    BY <1>3
  <2> HIDE DEF a, b
  <2>2. /\ a - Most \in Int /\ b - Most \in Int /\ b - Most <= (a - Most) - m
        /\ m \in Int /\ N \in Nat
    BY <2>1, Sizes
  <2>3. N * (b - Most) <= N * (a - Most) - N * m
    <3> DEFINE x == a - Most
               y == b - Most
    <3>1. x \in Int /\ y \in Int /\ y <= x - m
      BY <2>2
    <3> HIDE DEF x, y
    <3>2. N * y <= N * x - N * m
      BY <2>2, <3>1, Scaled
    <3> QED
      BY <3>2 DEF x, y
  <2> QED
    BY <2>3 DEF a, b
<1>7. N * (Owed' - Most) <= next
  <2>1. N * (Owed - Most) \in Int /\ N * (Owed' - Most) \in Int /\ N * m \in Int
    BY <1>3, Sizes
  <2> QED
    BY <1>3, <1>4, <1>5, <1>6, <2>1
<1>8. Most' = Most /\ Cardinality(Clients)' = N
  BY DEF Most, N
<1> QED
  BY <1>7, <1>8 DEF DebtShared, next

LEMMA Cancelled ==
  ASSUME NEW n \in Nat \ {0}, NEW a \in Int, NEW b \in Int, n * a <= n * b
  PROVE  a <= b
<1>1. ASSUME ~ a <= b PROVE FALSE
  <2>1. b <= a - 1 /\ n \in Nat /\ 1 \in Int
    BY <1>1
  <2>2. n * b <= n * a - n * 1
    BY <2>1, Scaled
  <2>3. n * a \in Int /\ n * b \in Int /\ n * 1 = n
    OBVIOUS
  <2> QED
    BY <2>2, <2>3
<1> QED
  BY <1>1

(* A request of each consumer, as large as one's.                          *)
LEMMA EachUses ==
  ASSUME NEW used \in 0 .. MaxUsed, NEW c \in Clients
  PROVE  N \in Nat \ {0} /\ N * used <= Most /\ used <= Most
<1>1. N \in Nat \ {0}
  <2>1. N # 0
    BY RegulatedFetchAssumption, FS_EmptySet DEF N
  <2> QED
    BY <2>1, Sizes
<1>2. used \in Nat /\ MaxUsed \in Int /\ used <= MaxUsed - 0
  BY Sizes
<1>3. N * used <= N * MaxUsed - N * 0
  BY <1>1, <1>2, Scaled
<1>4. N * used = used + (N - 1) * used /\ (N - 1) * used \in Nat
  BY <1>1, <1>2
<1>5. N * 0 = 0 /\ N * MaxUsed = Most
  BY <1>1 DEF Most, N
<1> HIDE DEF N
<1> QED
  BY <1>1, <1>2, <1>3, <1>4, <1>5, Sizes

(* While no more is owed than Most, it is nobody's in particular.          *)
LEMMA OwedByNobody == TypeOK /\ Owed <= Most => DebtShared
<1> SUFFICES ASSUME TypeOK, Owed <= Most PROVE DebtShared
  OBVIOUS
<1> DEFINE d == Most - Owed
           now == Cardinality(Shares)
<1>1. d \in Nat /\ Owed - Most = - d
  <2> DEFINE e == Owed
  <2>1. e \in Int /\ e <= Most
    BY DEF Owed, TypeOK
  <2> HIDE DEF e
  <2>2. Most - e \in Nat /\ e - Most = - (Most - e)
    BY <2>1, Sizes
  <2> QED
    BY <2>1, <2>2 DEF e
<1>2. now \in Nat
  BY CountsTyped
<1> HIDE DEF d, now
<1>3. N * d \in Nat /\ N * (- d) = - (N * d)
  BY <1>1, Sizes
<1>4. N * (Owed - Most) <= now
  BY <1>1, <1>2, <1>3
<1> QED
  BY <1>4 DEF DebtShared, now, N

(* The debt, once shared, is bounded at the moment the regulator answers.  *)
LEMMA SharedIsBounded ==
  ASSUME TypeOK', DebtShared', NEW c \in Clients
  PROVE  Owed' <= 3 * Most
<1> DEFINE next == Cardinality(Shares')
           a == Owed' - Most
           b == 2 * Most
<1>1. N \in Nat \ {0}
  BY Sizes, EachUses
<1>2. Owed' \in Int /\ a \in Int /\ b \in Int
  <2> DEFINE e == Owed'
  <2>1. e \in Int
    BY DEF Owed, TypeOK
  <2> HIDE DEF e
  <2>2. e - Most \in Int /\ 2 * Most \in Int
    BY <2>1, Sizes
  <2> QED
    BY <2>1, <2>2 DEF e
<1>3. next \in Nat /\ next <= N * b
  BY RegulatedFetchAssumption, Sizes, NextShares, PairsFinite DEF N
<1>4. N * a <= next
  <2>1. Most' = Most /\ Cardinality(Clients)' = N
    BY DEF Most, N
  <2> QED
    BY <2>1 DEF DebtShared
<1>5. a <= b
  <2> HIDE DEF a, b, next
  <2>1. N * a \in Int /\ N * b \in Int
    BY <1>1, <1>2
  <2>2. N * a <= N * b
    BY <1>3, <1>4, <2>1
  <2> QED
    BY <1>1, <1>2, <2>2, Cancelled
<1> DEFINE e == Owed'
<1>6. e \in Int /\ e - Most <= 2 * Most
  BY <1>2, <1>5
<1> HIDE DEF e
<1>7. e <= 3 * Most
  BY <1>6, Sizes
<1> QED
  BY <1>7 DEF e

(* What the regulator counts for one consumer.                             *)
LEMMA Answered ==
  ASSUME TypeOK, Asked, FirstIsEmpty, NEW c \in Clients, Regulate(c)
  PROVE  /\ ask[c].used \in 1 .. MaxUsed /\ ask[c].period \in Nat \ {0}
         /\ sleep'[c] \in Nat /\ Owed' \in Int /\ Owed \in Int
         /\ Owed' <= Owed + ask[c].used \/ Owed' <= ask[c].used
         /\ Owed' > 0 => sleep'[c] >= ask[c].used + Owed' - ask[c].period
         /\ lastAvailable' + setBack' = - Owed'
<1> DEFINE used == ask[c].used
           period == ask[c].period
           core == Core(used, period, Delta)
           available == core.available
           wait == core.wait
<1>1. /\ used \in 1 .. MaxUsed /\ used \in Nat /\ period \in Nat \ {0}
      /\ Delta \in Int /\ lastAvailable \in Int /\ lastAvailable <= Capacity
      /\ since \in Int /\ setBack \in Nat
  BY Sizes DEF Asked, TypeOK, Delta, Regulate
<1>2. /\ lastAvailable' = available /\ since' = 0 /\ setBack' = setBack
      /\ sleep'[c] = wait
  BY DEF Regulate, RegulateUsed, TypeOK, timeVars
<1> HIDE DEF used, period
<1>3. available \in Int /\ wait \in Nat
  BY <1>1, CoreAvailable, CoreWait
<1>4. /\ available >= lastAvailable + Delta - used \/ available >= - used
      /\ available < 0 => wait >= used - available - period
  BY <1>1, CoreOwed
<1> HIDE DEF core, available, wait
<1>5. available >= lastAvailable + since - used \/ available >= - used
  <2>1. CASE first
    BY <1>1, <1>4, <2>1 DEF Delta, FirstIsEmpty
  <2>2. CASE ~ first
    BY <1>4, <2>2 DEF Delta
  <2> QED
    BY <2>1, <2>2
<1>6. Owed' = - (available + setBack) /\ Owed = - (lastAvailable + since + setBack)
  BY <1>1, <1>2, <1>3 DEF Owed
<1>7. /\ Owed' \in Int /\ Owed \in Int
      /\ Owed' <= Owed + used \/ Owed' <= used
      /\ Owed' > 0 => wait >= used + Owed' - period
      /\ available + setBack = - Owed'
  <2> DEFINE x == Owed
             y == Owed'
  <2>1. y = - (available + setBack) /\ x = - (lastAvailable + since + setBack)
    BY <1>6
  <2> HIDE DEF x, y
  <2>2. /\ y \in Int /\ x \in Int
        /\ y <= x + used \/ y <= used
        /\ y > 0 => wait >= used + y - period
        /\ available + setBack = - y
    BY <1>1, <1>3, <1>4, <1>5, <2>1
  <2> QED
    BY <2>2 DEF x, y
<1> QED
  BY <1>1, <1>2, <1>3, <1>7 DEF used, period

(* A consumer that is told to wait takes its share of what is owed.        *)
LEMMA RegulateShared ==
  ASSUME TypeOK, TypeOK', Asked, Asked', FirstIsEmpty, DebtShared,
         NEW c \in Clients, Regulate(c)
  PROVE  DebtShared' /\ DebtBounded'
<1> DEFINE used == ask[c].used
           period == ask[c].period
           wait == sleep'[c]
           x == Owed
           y == Owed'
           now == Cardinality(Shares)
           next == Cardinality(Shares')
<1>1. /\ used \in 1 .. MaxUsed /\ period \in Nat \ {0} /\ wait \in Nat
      /\ x \in Int /\ y \in Int
      /\ y <= x + used \/ y <= used
      /\ y > 0 => wait >= used + y - period
      /\ lastAvailable' + setBack' = - y
  BY Answered
<1>2. N \in Nat \ {0} /\ N * used <= Most /\ used <= Most /\ Most \in Nat
  <2>1. used \in 0 .. MaxUsed
    BY <1>1
  <2> QED
    BY <2>1, EachUses, Sizes
<1>3. DebtShared'
  <2>1. CASE y <= Most
    <3>1. (TypeOK /\ Owed <= Most => DebtShared)'
      BY OwedByNobody, PTL
    <3>2. Most' = Most
      BY DEF Most
    <3> QED
      BY <2>1, <3>1, <3>2
  <2>2. CASE ~ y <= Most
    <3> DEFINE before == Share(c)
               after == Share(c)'
    <3>1. /\ before = Most - Smaller(Most, period - 1)
          /\ after = Most + Smaller(Most, wait)
          /\ \A d \in Clients : d # c => Share(d)' = Share(d)
      BY DEF Share, Regulate, TypeOK, Goes, Most
    <3> HIDE DEF used, period, wait, x, y
    <3>2. wait >= used + y - period /\ y <= x + used
      BY <1>1, <1>2, <2>2
    <3>3. after >= before + Most /\ before \in Int /\ after \in Int
      BY <1>1, <1>2, <2>2, <3>1, <3>2 DEF Smaller
    <3> HIDE DEF before, after
    <3>4. /\ Pending \in [Clients -> 0 .. 2 * Most]
          /\ Pending' \in [Clients -> 0 .. 2 * Most]
          /\ Shares = Pairs(Clients, 2 * Most, Pending)
          /\ Shares' = Pairs(Clients, 2 * Most, Pending')
      BY ShareTyped, SharesArePairs, NextShares
    <3>5. /\ Pending[c] = before /\ Pending'[c] = after
          /\ \A d \in Clients : d # c => Pending'[d] = Pending[d]
      BY <3>1 DEF Pending, before, after
    <3>6. \A d \in Clients : Pending'[d] >= Pending[d]
      <4>1. TAKE d \in Clients
      <4>2. CASE d = c
        BY <1>2, <3>3, <3>5, <4>2
      <4>3. CASE d # c
        BY <3>4, <3>5, <4>3
      <4> QED
        BY <4>2, <4>3
    <3>7. next >= now + Most /\ now \in Nat /\ next \in Nat
      <4>1. next >= now + Most
        BY <1>2, <3>3, <3>4, <3>5, <3>6, Sizes, RegulatedFetchAssumption, PairsGrow
      <4> QED
        BY <3>4, <4>1, Sizes, RegulatedFetchAssumption, PairsFinite
    <3>8. N * (x - Most) <= now
      BY DEF DebtShared, N, x
    <3> HIDE DEF now, next
    <3>9. N * (y - Most) <= N * (x - Most) + N * used
      <4> DEFINE a == x - Most
                 b == y - Most
                 m == - used
      <4>1. a \in Int /\ b \in Int /\ m \in Int /\ b <= a - m /\ m = - used /\ N \in Nat
        BY <1>1, <1>2, <3>2
      <4> HIDE DEF a, b, m
      <4>2. N * b <= N * a - N * m
        BY <4>1, Scaled
      <4>3. N * m = - (N * used) /\ N * used \in Int /\ N * a \in Int /\ N * b \in Int
        BY <1>1, <4>1
      <4>4. N * b <= N * a + N * used
        BY <4>2, <4>3
      <4> QED
        BY <4>4 DEF a, b
    <3>10. N * (y - Most) <= next
      <4>1. N * (y - Most) \in Int /\ N * (x - Most) \in Int /\ N * used \in Int
        BY <1>1, <1>2
      <4> QED
        BY <1>2, <3>7, <3>8, <3>9, <4>1
    <3>11. Most' = Most /\ Cardinality(Clients)' = N
      BY DEF Most, N
    <3> QED
      BY <3>10, <3>11 DEF DebtShared, next, y
  <2> QED
    BY <2>1, <2>2
<1>4. y <= 3 * Most
  BY <1>3, SharedIsBounded
<1> HIDE DEF y
<1>5. lastAvailable' + setBack' >= - (3 * Most)
  BY <1>1, <1>2, <1>4
<1>6. Most' = Most
  BY DEF Most
<1> QED
  BY <1>3, <1>5, <1>6 DEF DebtBounded

LEMMA InitLedger == Init => LedgerInv
<1> SUFFICES ASSUME Init PROVE LedgerInv
  OBVIOUS
<1>1. TypeOK
  BY InitIInv DEF IInv
<1>2. Initial \in Nat
  BY RateLimiterAssumption
<1>3. Asked /\ FirstIsEmpty
  BY DEF Init, InitLimiter, Asked, FirstIsEmpty
<1>4. Owed <= Most
  BY <1>2, Sizes DEF Init, InitLimiter, Owed
<1>5. DebtBounded
  BY <1>2, Sizes DEF Init, InitLimiter, DebtBounded
<1> QED
  BY <1>1, <1>3, <1>4, <1>5, OwedByNobody DEF LedgerInv

(* A step of the consumers that leaves the regulator and the time alone.   *)
LEMMA LeftAlone ==
  ASSUME TypeOK, TypeOK', LedgerInv, Asked',
         UNCHANGED <<limiterVars, timeVars>>,
         \A c \in Clients : Share(c)' >= Share(c)
  PROVE  LedgerInv'
<1>1. FirstIsEmpty' /\ Owed' = Owed /\ Owed \in Int
  BY DEF LedgerInv, FirstIsEmpty, Owed, limiterVars, timeVars, TypeOK
<1>2. DebtBounded'
  BY DEF LedgerInv, DebtBounded, Most, limiterVars, timeVars
<1>3. \A c \in Clients : Share(c)' >= Share(c) - 0
  <2>1. \A c \in Clients : Share(c) \in Int
    BY ShareTyped DEF LedgerInv, Pending
  <2> QED
    BY <2>1
<1>4. Owed' <= Owed - 0
  <2> DEFINE x == Owed
  <2>1. x \in Int /\ Owed' = x
    BY <1>1
  <2> HIDE DEF x
  <2> QED
    BY <2>1 DEF x
<1>5. DebtShared'
  BY <1>3, <1>4, SharedStill DEF LedgerInv
<1> QED
  BY <1>1, <1>2, <1>5 DEF LedgerInv

(* A consumer on its way from its start to its request keeps its share.    *)
LEMMA OnItsWay ==
  ASSUME TypeOK, TypeOK', LedgerInv, NEW c \in Clients, NEW place,
         Goes(c, place), UNCHANGED <<limiterVars, timeVars, took, ask, sleep>>,
         at[c] \in {"idle", "sending", "queued"},
         place \in {"sending", "queued", "fetching", "direct"}
  PROVE  LedgerInv'
<1>1. \A d \in Clients : at'[d] = IF d = c THEN place ELSE at[d]
  BY DEF Goes, TypeOK
<1>2. Asked'
  BY <1>1 DEF LedgerInv, Asked, Measuring
<1>3. \A d \in Clients : Share(d) \in Int /\ Share(d)' = Share(d)
  <2>1. \A d \in Clients : Share(d)' = Share(d)
    BY <1>1 DEF Share, Most
  <2> QED
    BY <2>1, ShareTyped DEF LedgerInv, Pending
<1> QED
  BY <1>2, <1>3, LeftAlone

(* One that has its answer asks the regulator about it, its share no less: *)
(* the period it reports is what it measured, or the shortest there is.    *)
LEMMA UsesKeepsLedger ==
  ASSUME TypeOK, TypeOK', LedgerInv, NEW c \in Clients, NEW used \in 0 .. MaxUsed,
         Uses(c, used), UNCHANGED <<limiterVars, timeVars, sleep>>,
         at[c] \in {"fetching", "direct"}
  PROVE  LedgerInv'
<1>1. /\ \A d \in Clients : d # c => /\ at'[d] = at[d] /\ took'[d] = took[d]
                                    /\ ask'[d] = ask[d] /\ sleep'[d] = sleep[d]
      /\ took'[c] = 0 /\ took[c] \in Int
      /\ used = 0 => at'[c] = "idle"
      /\ used # 0 => /\ at'[c] = "asking" /\ ask'[c].used = used
                     /\ ask'[c].period = PeriodReported(took[c])
  BY DEF Uses, Goes, TypeOK
<1>2. Asked'
  <2>1. SUFFICES ASSUME NEW d \in Clients
                 PROVE  /\ at'[d] = "asking" => /\ ask'[d].used \in 1 .. MaxUsed
                                                /\ ask'[d].period >= 1
                        /\ ~ Measuring(d)' => took'[d] = 0
    BY DEF Asked
  <2>2. CASE d = c
    BY <1>1, <2>2, Sizes DEF Measuring, PeriodReported, Larger
  <2>3. CASE d # c
    BY <1>1, <2>3 DEF LedgerInv, Asked, Measuring
  <2> QED
    BY <2>2, <2>3
<1>3. \A d \in Clients : Share(d) \in Int
  BY ShareTyped DEF LedgerInv, Pending
<1>4. Share(c)' >= Share(c)
  <2>1. Share(c) = Most - Smaller(Most, Larger(0, took[c]))
    BY DEF Share
  <2>2. CASE used = 0
    <3>1. Share(c)' = Most - Smaller(Most, Larger(0, 0))
      BY <1>1, <2>2 DEF Share, Most
    <3> QED
      BY <1>1, <2>1, <3>1, Sizes DEF Smaller, Larger
  <2>3. CASE used # 0
    <3>1. Share(c)' = Most - Smaller(Most, PeriodReported(took[c]) - 1)
      BY <1>1, <2>3 DEF Share, Most
    <3> QED
      BY <1>1, <2>1, <3>1, Sizes DEF Smaller, Larger, PeriodReported
  <2> QED
    BY <2>2, <2>3
<1>5. \A d \in Clients : d # c => Share(d)' = Share(d)
  BY <1>1 DEF Share, Most
<1>6. \A d \in Clients : Share(d)' >= Share(d)
  BY <1>3, <1>4, <1>5
<1> QED
  BY <1>2, <1>6, LeftAlone

(* Every step keeps the ledger.                                            *)
LEMMA NextLedger == IInv /\ IInv' /\ LedgerInv /\ [Next]_vars => LedgerInv'
<1> SUFFICES ASSUME IInv, IInv', LedgerInv, [Next]_vars PROVE LedgerInv'
  OBVIOUS
<1>0. TypeOK /\ TypeOK'
  BY DEF IInv
<1> USE <1>0
<1>1. ASSUME NEW c \in Callers, DoCall(c) PROVE LedgerInv'
  BY <1>1, OnItsWay DEF DoCall, Clients
<1>2. ASSUME NEW c \in Callers, Enqueue(c) PROVE LedgerInv'
  BY <1>2, OnItsWay DEF Enqueue, Clients
<1>3. ASSUME NEW c \in Callers, NEW used \in 1 .. MaxUsed, Fetched(c, used)
      PROVE  LedgerInv'
  <2>1. used \in 0 .. MaxUsed
    BY Sizes
  <2> QED
    BY <1>3, <2>1, UsesKeepsLedger DEF Fetched, Clients
<1>4. ASSUME Receive PROVE LedgerInv'
  <2>1. Head(inCh) \in Callers /\ at[Head(inCh)] = "queued"
    <3>1. inCh \in Seq(Callers) /\ Len(inCh) \in Nat /\ Len(inCh) # 0
      BY <1>4 DEF Receive, TypeOK
    <3>2. 1 \in 1 .. Len(inCh) /\ Head(inCh) = inCh[1]
      BY <3>1
    <3> QED
      BY <3>1, <3>2 DEF IInv, OneRequestAtATime
  <2> QED
    BY <1>4, <2>1, OnItsWay DEF Receive, Clients
<1>5. ASSUME CloseCall \/ CloseAccept PROVE LedgerInv'
  <2>1. UNCHANGED <<limiterVars, clientVars, timeVars>>
    BY <1>5 DEF CloseCall, CloseAccept
  <2>2. Asked'
    BY <2>1 DEF LedgerInv, Asked, Measuring, clientVars
  <2>3. \A c \in Clients : Share(c) \in Int /\ Share(c)' = Share(c)
    <3>1. \A c \in Clients : Share(c)' = Share(c)
      BY <2>1 DEF Share, Most, clientVars
    <3> QED
      BY <3>1, ShareTyped DEF LedgerInv, Pending
  <2> QED
    BY <2>1, <2>2, <2>3, LeftAlone
<1>6. ASSUME NEW c \in Direct, DirectStart(c) PROVE LedgerInv'
  BY <1>6, OnItsWay DEF DirectStart, Clients
<1>7. ASSUME NEW c \in Direct, NEW used \in BodySizes, DirectFetched(c, used)
      PROVE  LedgerInv'
  BY <1>7, UsesKeepsLedger DEF DirectFetched, BodySizes, Clients
<1>8. ASSUME NEW c \in Clients, Regulate(c) PROVE LedgerInv'
  <2>1. \A d \in Clients : d # c => /\ at'[d] = at[d] /\ ask'[d] = ask[d]
                                    /\ took'[d] = took[d]
    BY <1>8 DEF Regulate, Goes, TypeOK
  <2>2. at[c] = "asking" /\ at'[c] = "sleeping" /\ took'[c] = took[c] /\ first' = FALSE
    BY <1>8 DEF Regulate, RegulateUsed, Goes, TypeOK
  <2>3. Asked'
    BY <2>1, <2>2 DEF LedgerInv, Asked, Measuring
  <2>4. FirstIsEmpty'
    BY <2>2 DEF FirstIsEmpty
  <2>5. DebtShared' /\ DebtBounded'
    BY <1>8, <2>3, RegulateShared DEF LedgerInv
  <2> QED
    BY <2>3, <2>4, <2>5 DEF LedgerInv
<1>9. ASSUME NEW c \in Clients, Wake(c) PROVE LedgerInv'
  <2>1. /\ \A d \in Clients : at'[d] = IF d = c THEN "idle" ELSE at[d]
        /\ at[c] = "sleeping" /\ sleep[c] = 0
        /\ UNCHANGED <<limiterVars, took, ask, sleep, timeVars>>
    BY <1>9 DEF Wake, Goes, TypeOK
  <2>2. took[c] = 0
    BY <2>1 DEF LedgerInv, Asked, Measuring
  <2>3. Asked'
    BY <2>1, <2>2 DEF LedgerInv, Asked, Measuring
  <2>4. \A d \in Clients : Share(d) \in Int /\ Share(d)' >= Share(d)
    <3>1. \A d \in Clients : Share(d) \in Int
      BY ShareTyped DEF LedgerInv, Pending
    <3>2. \A d \in Clients : d # c => Share(d)' = Share(d)
      BY <2>1 DEF Share, Most
    <3>3. Share(c) = Most + Smaller(Most, 0)
      BY <2>1 DEF Share
    <3>4. Share(c)' = Most - Smaller(Most, Larger(0, 0))
      BY <2>1, <2>2 DEF Share, Most
    <3>5. Share(c)' >= Share(c)
      BY <3>3, <3>4, Sizes DEF Smaller, Larger
    <3> QED
      BY <3>1, <3>2, <3>5
  <2> QED
    BY <2>1, <2>3, <2>4, LeftAlone
<1>10. ASSUME Tick PROVE LedgerInv'
  <2>1. /\ at' = at /\ ask' = ask /\ since' = since + 1
        /\ lastAvailable' = lastAvailable /\ first' = first /\ setBack' = setBack
        /\ \A d \in Clients :
             /\ took'[d] = IF Measuring(d) THEN took[d] + 1 ELSE took[d]
             /\ sleep'[d] = Larger(0, sleep[d] - 1)
    BY <1>10 DEF Tick
  <2>2. Asked' /\ FirstIsEmpty'
    BY <2>1 DEF LedgerInv, Asked, Measuring, FirstIsEmpty
  <2>3. DebtBounded'
    BY <2>1 DEF LedgerInv, DebtBounded, Most
  <2>4. Owed' <= Owed - 1
    BY <2>1 DEF Owed, TypeOK
  <2>5. \A d \in Clients : Share(d)' >= Share(d) - 1
    <3>1. TAKE d \in Clients
    <3>2. sleep[d] \in Nat /\ took[d] \in Int
      BY DEF TypeOK
    <3>3. CASE at[d] = "sleeping"
      <4>1. /\ Share(d) = Most + Smaller(Most, sleep[d])
            /\ Share(d)' = Most + Smaller(Most, Larger(0, sleep[d] - 1))
        BY <2>1, <3>3 DEF Share, Most
      <4> QED
        BY <3>2, <4>1, Sizes DEF Smaller, Larger
    <3>4. CASE at[d] = "asking"
      <4>1. Share(d)' = Share(d) /\ Share(d) \in Int
        <5>1. Share(d)' = Share(d)
          BY <2>1, <3>4 DEF Share, Most
        <5> QED
          BY <5>1, ShareTyped DEF LedgerInv, Pending
      <4> QED
        BY <4>1
    <3>5. CASE at[d] \notin {"sleeping", "asking"}
      <4>1. /\ Share(d) = Most - Smaller(Most, Larger(0, took[d]))
            /\ Share(d)' = Most - Smaller(Most, Larger(0, took'[d]))
        BY <2>1, <3>5 DEF Share, Most
      <4>2. took'[d] \in {took[d], took[d] + 1}
        BY <2>1
      <4> QED
        BY <3>2, <4>1, <4>2, Sizes DEF Smaller, Larger
    <3> QED
      BY <3>3, <3>4, <3>5
  <2>6. DebtShared'
    <3>1. 1 \in 0 .. 1
      OBVIOUS
    <3> QED
      BY <2>2, <2>4, <2>5, <3>1, SharedStill DEF LedgerInv
  <2> QED
    BY <2>2, <2>3, <2>6 DEF LedgerInv
<1>11. ASSUME ClockBack PROVE LedgerInv'
  <2>1. /\ at' = at /\ ask' = ask /\ sleep' = sleep /\ since' = since - 1
        /\ lastAvailable' = lastAvailable /\ first' = first /\ setBack' = setBack + 1
        /\ \A d \in Clients :
             took'[d] = IF Measuring(d) THEN took[d] - 1 ELSE took[d]
    BY <1>11 DEF ClockBack
  <2>2. Asked' /\ FirstIsEmpty'
    BY <2>1 DEF LedgerInv, Asked, Measuring, FirstIsEmpty
  <2>3. DebtBounded'
    <3>1. /\ lastAvailable + setBack >= - (3 * Most)
          /\ lastAvailable \in Int /\ setBack \in Nat
      BY DEF LedgerInv, DebtBounded, TypeOK
    <3>2. lastAvailable' + setBack' >= - (3 * Most)
      BY <2>1, <3>1, Sizes
    <3> QED
      BY <3>2 DEF DebtBounded, Most
  <2>4. Owed' <= Owed - 0
    BY <2>1 DEF Owed, TypeOK
  <2>5. \A d \in Clients : Share(d)' >= Share(d) - 0
    <3>1. TAKE d \in Clients
    <3>2. took[d] \in Int
      BY DEF TypeOK
    <3>3. CASE at[d] \in {"sleeping", "asking"}
      <4>1. Share(d)' = Share(d) /\ Share(d) \in Int
        <5>1. Share(d)' = Share(d)
          BY <2>1, <3>3 DEF Share, Most
        <5> QED
          BY <5>1, ShareTyped DEF LedgerInv, Pending
      <4> QED
        BY <4>1
    <3>4. CASE at[d] \notin {"sleeping", "asking"}
      <4>1. /\ Share(d) = Most - Smaller(Most, Larger(0, took[d]))
            /\ Share(d)' = Most - Smaller(Most, Larger(0, took'[d]))
        BY <2>1, <3>4 DEF Share, Most
      <4>2. took'[d] \in {took[d], took[d] - 1}
        BY <2>1
      <4> QED
        BY <3>2, <4>1, <4>2, Sizes DEF Smaller, Larger
    <3> QED
      BY <3>3, <3>4
  <2>6. DebtShared'
    <3>1. 0 \in 0 .. 1
      OBVIOUS
    <3> QED
      BY <2>2, <2>4, <2>5, <3>1, SharedStill DEF LedgerInv
  <2> QED
    BY <2>2, <2>3, <2>6 DEF LedgerInv
<1>12. CASE UNCHANGED vars
  <2>1. UNCHANGED <<limiterVars, clientVars, timeVars>>
    BY <1>12 DEF vars
  <2>2. Asked'
    BY <2>1 DEF LedgerInv, Asked, Measuring, clientVars
  <2>3. \A c \in Clients : Share(c) \in Int /\ Share(c)' = Share(c)
    <3>1. \A c \in Clients : Share(c)' = Share(c)
      BY <2>1 DEF Share, Most, clientVars
    <3> QED
      BY <3>1, ShareTyped DEF LedgerInv, Pending
  <2> QED
    BY <2>1, <2>2, <2>3, LeftAlone
<1> QED
  BY <1>1, <1>2, <1>3, <1>4, <1>5, <1>6, <1>7, <1>8, <1>9, <1>10, <1>11,
     <1>12 DEF Next

LEMMA LedgerInvariance == Spec => []LedgerInv
BY InitLedger, NextLedger, Invariance, PTL DEF Spec

(* Whatever is owed beyond one request of each consumer is owed by those   *)
(* who have yet to wait for it, or to spend that time on a request: no use *)
(* is waited for by nobody.                                                *)
THEOREM DebtIsShared == Spec => []DebtShared
BY LedgerInvariance, PTL DEF LedgerInv

(* Any number of consumers that wait as told owe no more than three        *)
(* requests of each, however their periods overlap, and the ticks that     *)
(* were lost when the clock was set back.                                  *)
THEOREM NoRunningDebt == Spec => []DebtBounded
BY LedgerInvariance, PTL DEF LedgerInv

(* core asks for waits that are long enough to keep the debts of all       *)
(* consumers bounded, and for none that is longer than what is owed.       *)
THEOREM WaitsRight == Spec => WaitsAreRight
BY TypeCorrect, DebtIsShared, NoRunningDebt, NoWaitInVain, PTL DEF WaitsAreRight
============================================================================
