------------------------ MODULE PeriodicFetcherProofs ------------------------
(***************************************************************************)
(* Proofs about PeriodicFetcher, for every interval, every first retry     *)
(* delay no longer than it, and every length of a fetch.                   *)
(***************************************************************************)
EXTENDS PeriodicFetcher, FiniteSetTheorems, TLAPS

(* A timer that runs has time left.                                        *)
Armed(t) == t.running => t.left >= 1

(* Until it is stopped the loop has something that will wake it up: once   *)
(* intervalTicker is stopped, shortTimer is set.  A tick left in the       *)
(* channel of the stopped ticker does not count: TickerFires takes it.     *)
Awake == at # "stopped" => ticker.running \/ ~AtRest(short)

(* What runs wakes the loop before it has been idle for Interval.          *)
IdleBound ==
  /\ at \in {"exec", "send"} => idle = 0
  /\ at = "select" =>
       /\ idle <= Interval
       /\ ticker.running /\ ~ticker.full => idle + ticker.left <= Interval
       /\ short.running => idle + short.left <= Interval

IInv == TypeOK /\ Armed(ticker) /\ Armed(short) /\ Awake /\ IdleBound

(* A request asks for everything, or goes back no further than Window by   *)
(* our clock.  How far that is by the server's is never mistaken for       *)
(* Everything.                                                             *)
LEMMA ComputeTType ==
  ASSUME NEW a \in -MaxSkew .. Never, skew \in -MaxSkew .. MaxSkew
  PROVE  /\ ComputeT(a) = Everything \/ ComputeT(a) \in -MaxSkew .. Window
         /\ OnServer(ComputeT(a)) \in -2 * MaxSkew .. Everything
<1> USE PeriodicAssumption
<1>1. ComputeT(a) = Everything \/ ComputeT(a) \in -MaxSkew .. Window
  BY DEF ComputeT, Never, Lesser
<1> QED
  BY <1>1 DEF OnServer, Everything

(* NextDelay is capped.                                                    *)
LEMMA NextDelayType ==
  ASSUME NEW d \in 0 .. Interval
  PROVE  NextDelay(d) \in 0 .. Interval
BY PeriodicAssumption DEF NextDelay, Lesser

LEMMA NewTickerType ==
  /\ NewTicker \in Timers
  /\ Armed(NewTicker)
  /\ NewTicker.running
  /\ NewTicker.left = Interval
BY PeriodicAssumption DEF NewTicker, Timers, Armed

(* Reset leaves the timer running for d, or, if d is zero, fires it.       *)
LEMMA ResetType ==
  ASSUME NEW t \in Timers, NEW d \in 0 .. Interval
  PROVE  /\ Reset(t, d) \in Timers
         /\ Armed(Reset(t, d))
         /\ ~AtRest(Reset(t, d))
         /\ Reset(t, d).running => Reset(t, d).left = d
<1>1. CASE d = 0
  <2>1. Reset(t, d) = [running |-> FALSE, left |-> 0, full |-> TRUE]
    BY <1>1 DEF Reset
  <2> QED
    BY <2>1, PeriodicAssumption DEF Timers, Armed, AtRest
<1>2. CASE d # 0
  <2>1. Reset(t, d) = [running |-> TRUE, left |-> d, full |-> t.full]
    BY <1>2 DEF Reset, Timers
  <2> QED
    BY <1>2, <2>1, PeriodicAssumption DEF Timers, Armed, AtRest
<1> QED
  BY <1>1, <1>2

LEMMA StoppedType ==
  ASSUME NEW t \in Timers
  PROVE  /\ Stopped(t) \in Timers
         /\ ~Stopped(t).running
BY DEF Stopped, Timers

LEMMA DrainedType ==
  ASSUME NEW t \in Timers
  PROVE  /\ Drained(t) \in Timers
         /\ Drained(t).running = t.running
         /\ Drained(t).left = t.left
BY DEF Drained, Timers

(* The invariant holds at the start.                                       *)
LEMMA InitIInv == Init => IInv
<1> SUFFICES ASSUME Init PROVE IInv
  OBVIOUS
<1>1. asked \in -2 * MaxSkew .. Everything
  <2>1. Never \in -MaxSkew .. Never
    BY PeriodicAssumption DEF Never
  <2> QED
    BY <2>1, ComputeTType DEF Init
<1>2. short \in Timers /\ Armed(short) /\ ~short.running
  BY PeriodicAssumption DEF Init, Timers, Armed
<1>3. TypeOK
  <2>1. /\ 0 \in 0 .. Interval
        /\ Never \in -MaxSkew .. Never
        /\ 0 \in 0 .. MaxFetch + MaxBlock
        /\ 0 \in 0 .. MaxFailures + 1
    BY PeriodicAssumption DEF Never
  <2> QED
    BY <1>1, <1>2, <2>1, NewTickerType DEF Init, TypeOK
<1>4. Awake /\ IdleBound
  BY NewTickerType DEF Init, Awake, IdleBound
<1> QED
  BY <1>2, <1>3, <1>4, NewTickerType DEF IInv, Init

(* A fetch begins from the select with a timer still to wake the loop.     *)
LEMMA ExecIInv ==
  ASSUME IInv, NEW c \in {"doTick", "doRetry"}, Exec(c),
         ticker' \in Timers, Armed(ticker'), short' \in Timers, Armed(short'),
         ticker'.running \/ ~AtRest(short'),
         UNCHANGED <<retryFetch, shortDuration, age, failures, overran>>
  PROVE  IInv'
<1>1. asked' \in -2 * MaxSkew .. Everything
  BY ComputeTType DEF Exec, IInv, TypeOK
<1>2. TypeOK'
  BY <1>1, PeriodicAssumption DEF IInv, TypeOK, Exec
<1>3. Awake' /\ IdleBound'
  BY DEF Exec, Awake, IdleBound, AtRest
<1> QED
  BY <1>2, <1>3 DEF IInv, Armed

LEMMA StepIInv == IInv /\ [Next]_vars => IInv'
<1> SUFFICES ASSUME IInv, [Next]_vars PROVE IInv'
  OBVIOUS
<1> USE PeriodicAssumption
<1>t. ticker \in Timers /\ short \in Timers /\ shortDuration \in 0 .. Interval
  BY DEF IInv, TypeOK
<1>1. CASE Fetched
  <2>1. age' \in -MaxSkew .. Never /\ skew' = skew
    <3>1. age \in -MaxSkew .. Never /\ skew \in -MaxSkew .. MaxSkew
      BY DEF IInv, TypeOK
    <3>2. CASE UNCHANGED age
      BY <1>1, <3>1, <3>2 DEF Fetched
    <3>3. CASE \E a \in 0 .. MaxAge + skew : age' = Lesser(a - skew, age)
      <4>1. PICK a \in 0 .. MaxAge + skew : age' = Lesser(a - skew, age)
        BY <3>3
      <4>2. a - skew \in -MaxSkew .. Never
        BY <3>1 DEF Never
      <4> QED
        BY <1>1, <3>1, <4>1, <4>2 DEF Fetched, Lesser
    <3> QED
      BY <1>1, <3>2, <3>3 DEF Fetched
  <2>2. TypeOK'
    BY <1>1, <2>1 DEF IInv, TypeOK, Fetched
  <2> QED
    BY <1>1, <2>2 DEF IInv, Fetched, Armed, Awake, IdleBound, AtRest
<1>2. CASE TickReturns
  <2>1. CASE retryFetch
    <3>1. RetryAfter \in 0 .. Interval
      OBVIOUS
    <3>2. ticker' \in Timers /\ Armed(ticker') /\ short' \in Timers
          /\ Armed(short') /\ ~AtRest(short') /\ ~ticker'.running
          /\ (short'.running => short'.left <= Interval)
      BY <1>t, <1>2, <2>1, <3>1, ResetType, StoppedType DEF TickReturns, Armed
    <3>3. TypeOK'
      BY <1>2, <2>1, <3>2 DEF IInv, TypeOK, TickReturns
    <3>4. idle' = 0
      BY <1>2 DEF IInv, IdleBound, TickReturns
    <3> QED
      BY <1>2, <3>2, <3>3, <3>4 DEF IInv, Awake, IdleBound, TickReturns,
         Timers, Armed, AtRest
  <2>2. CASE ~retryFetch
    <3>1. TypeOK'
      BY <1>2, <2>2 DEF IInv, TypeOK, TickReturns
    <3> QED
      BY <1>2, <2>2, <1>t, <3>1 DEF IInv, TickReturns, Armed, Awake,
         IdleBound, AtRest, Timers
  <2> QED
    BY <2>1, <2>2 DEF IInv, TypeOK
<1>3. CASE RetryReturns
  <2>1. CASE retryFetch
    <3>1. NextDelay(shortDuration) \in 0 .. Interval
      BY <1>t, NextDelayType
    <3>2. ticker' \in Timers /\ Armed(ticker') /\ short' \in Timers
          /\ Armed(short') /\ ~AtRest(short') /\ ~ticker'.running
          /\ (short'.running => short'.left <= Interval)
      BY <1>t, <1>3, <2>1, <3>1, ResetType, StoppedType DEF RetryReturns, Armed
    <3>3. failures' \in 0 .. MaxFailures + 1
      BY <1>3, <2>1 DEF RetryReturns, IInv, TypeOK, Lesser
    <3>4. TypeOK'
      BY <1>3, <2>1, <3>1, <3>2, <3>3 DEF IInv, TypeOK, RetryReturns
    <3>5. idle' = 0
      BY <1>3 DEF IInv, IdleBound, RetryReturns
    <3> QED
      BY <1>3, <3>2, <3>4, <3>5 DEF IInv, Awake, IdleBound, RetryReturns,
         Timers, Armed, AtRest
  <2>2. CASE ~retryFetch
    <3>1. TypeOK'
      BY <1>3, <2>2, NewTickerType DEF IInv, TypeOK, RetryReturns
    <3> QED
      BY <1>3, <2>2, <1>t, <3>1, NewTickerType DEF IInv, RetryReturns, Armed,
         Awake, IdleBound, AtRest, Timers
  <2> QED
    BY <2>1, <2>2 DEF IInv, TypeOK
<1>4. CASE TickerFires
  <2>1. ticker' \in Timers /\ Armed(ticker') /\ short' = short
        /\ (ticker'.running \/ ~AtRest(short'))
    BY <1>4, <1>t, DrainedType DEF IInv, TickerFires, Armed, Awake, AtRest
  <2>2. Armed(short')
    BY <2>1 DEF IInv
  <2> QED
    BY <1>4, <1>t, <2>1, <2>2, ExecIInv DEF TickerFires
<1>5. CASE ShortTimerFires
  <2>1. short' \in Timers /\ Armed(short')
    BY <1>5, <1>t, DrainedType DEF IInv, ShortTimerFires, Armed
  <2>2. ticker' \in Timers /\ Armed(ticker') /\ ticker'.running
    BY <1>5, NewTickerType DEF ShortTimerFires
  <2> QED
    BY <1>5, <2>1, <2>2, ExecIInv DEF ShortTimerFires
<1>6. CASE Stop
  <2>1. ticker' \in Timers /\ Armed(ticker') /\ short' \in Timers /\ Armed(short')
    BY <1>6, <1>t, StoppedType DEF Stop, Armed
  <2>2. TypeOK'
    BY <1>6, <2>1 DEF IInv, TypeOK, Stop
  <2> QED
    BY <1>6, <2>1, <2>2 DEF IInv, Stop, Awake, IdleBound
<1>7. CASE Tick
  <2>1. /\ ticker' \in Timers
        /\ Armed(ticker')
        /\ ticker'.running = ticker.running
        /\ ~ticker.full /\ ~ticker'.full /\ ticker.running
             => ticker.left - 1 = ticker'.left
    <3>1. CASE Fires(ticker)
      <4>1. ticker' = [running |-> ticker.running, left |-> Interval, full |-> TRUE]
        BY <1>7, <1>t, <3>1 DEF Tick, TickerAfterTick, Timers
      <4> QED
        BY <1>t, <4>1 DEF Timers, Armed
    <3>2. CASE ~Fires(ticker) /\ ticker.running
      <4>1. ticker' = [running |-> ticker.running, left |-> ticker.left - 1,
                       full |-> ticker.full]
        BY <1>7, <1>t, <3>2 DEF Tick, TickerAfterTick, Timers
      <4>2. ticker.left - 1 \in 1 .. Interval
        BY <1>t, <3>2 DEF IInv, Fires, Timers, Armed
      <4> QED
        BY <1>t, <4>1, <4>2 DEF Timers, Armed
    <3>3. CASE ~ticker.running
      BY <1>7, <1>t, <3>3 DEF Tick, TickerAfterTick, Fires, Armed
    <3> QED
      BY <3>1, <3>2, <3>3
  <2>2. /\ short' \in Timers
        /\ Armed(short')
        /\ ~AtRest(short) => ~AtRest(short')
        /\ short'.running => short.running /\ short'.left = short.left - 1
    BY <1>7, <1>t DEF IInv, Tick, ShortAfterTick, Fires, Timers, Armed, AtRest
  <2>3. age' \in -MaxSkew .. Never /\ overran' \in BOOLEAN
    BY <1>7 DEF IInv, TypeOK, Tick, Lesser, Never
  <2>4. /\ elapsed' \in 0 .. MaxFetch + MaxBlock
        /\ idle' \in Nat
    BY <1>7 DEF IInv, TypeOK, Tick, Waiting
  <2>5. TypeOK'
    BY <1>7, <2>1, <2>2, <2>3, <2>4 DEF IInv, TypeOK, Tick
  <2>6. Awake'
    BY <1>7, <2>1, <2>2 DEF IInv, Awake, Tick
  <2>7. IdleBound'
    <3>1. CASE at # "select"
      BY <1>7, <3>1 DEF IInv, IdleBound, Tick, TypeOK
    <3>2. CASE at = "select"
      <4>1. ~ticker.full /\ ~short.full /\ idle' = idle + 1 /\ idle \in Nat
        BY <1>7, <3>2 DEF Tick, Waiting, IInv, TypeOK
      <4>2. ticker.running \/ short.running
        BY <3>2, <4>1 DEF IInv, Awake, AtRest
      <4>3. /\ ticker.running => idle + ticker.left <= Interval /\ ticker.left >= 1
            /\ short.running => idle + short.left <= Interval /\ short.left >= 1
            /\ ticker.left \in Nat /\ short.left \in Nat
        BY <1>t, <3>2, <4>1 DEF IInv, IdleBound, Armed, Timers
      <4>4. idle' <= Interval
        BY <4>1, <4>2, <4>3
      <4>5. at' = "select"
        BY <1>7, <3>2 DEF Tick
      <4>6. ticker'.running /\ ~ticker'.full => idle' + ticker'.left <= Interval
        BY <2>1, <4>1, <4>3
      <4>7. short'.running => idle' + short'.left <= Interval
        BY <2>2, <4>1, <4>3
      <4> QED
        BY <4>4, <4>5, <4>6, <4>7 DEF IdleBound
    <3> QED
      BY <3>1, <3>2
  <2> QED
    BY <2>1, <2>2, <2>5, <2>6, <2>7 DEF IInv
<1>8. CASE ServerAdjustsTime
  BY <1>8 DEF ServerAdjustsTime, IInv, TypeOK, Armed, Awake, IdleBound, AtRest
<1>9. CASE UNCHANGED vars
  BY <1>9 DEF vars, IInv, TypeOK, Armed, Awake, IdleBound, AtRest, Timers
<1> QED
  BY <1>1, <1>2, <1>3, <1>4, <1>5, <1>6, <1>7, <1>8, <1>9 DEF Next

(* The inductive invariant holds in every reachable state.                 *)
THEOREM Invariant == Spec => []IInv
BY InitIInv, StepIInv, PTL DEF Spec

(* The types, among them that neither timer is ever set beyond Interval.   *)
THEOREM TypeCorrect == Spec => []TypeOK
<1>1. IInv => TypeOK
  BY DEF IInv
<1> QED
  BY <1>1, Invariant, PTL

(* The loop is never at its select for longer than the interval.           *)
THEOREM NeverIdle == Spec => []NeverIdleLong
<1>1. IInv => NeverIdleLong
  BY DEF IInv, IdleBound, NeverIdleLong
<1> QED
  BY <1>1, Invariant, PTL

(* However long the fetches take, whatever fails, however long there is no *)
(* answer and whatever the server does to its clock: but for what the two  *)
(* clocks differ by, no request goes back further than NextBus allows, or  *)
(* leaves a gap it could have closed.                                      *)
THEOREM RequestsLeaveNoGap == Spec => RequestsCover
<1> DEFINE since == age + skew
           Cover == at = "select" /\ at' = "exec" =>
                      /\ asked' = Everything \/ asked' <= Window + skew
                      /\ since <= Window + skew => asked' >= since
<1>1. IInv /\ [Next]_vars => [Cover]_vars
  <2> SUFFICES ASSUME IInv, Next, at = "select", at' = "exec"
               PROVE  Cover
    OBVIOUS
  <2>1. asked' = OnServer(ComputeT(age))
    BY DEF Next, Fetched, TickReturns, RetryReturns, TickerFires,
       ShortTimerFires, Stop, Tick, ServerAdjustsTime, Exec
  <2>2. age \in -MaxSkew .. Never /\ skew \in -MaxSkew .. MaxSkew
    BY DEF IInv, TypeOK
  <2>3. ComputeT(age) = Everything \/ ComputeT(age) \in -MaxSkew .. Window
    BY <2>2, ComputeTType
  <2>4. age <= Window => ComputeT(age) >= age
    BY <2>2, PeriodicAssumption DEF ComputeT, Lesser, Everything, Never
  <2> QED
    BY <2>1, <2>2, <2>3, <2>4, PeriodicAssumption DEF OnServer, Everything
<1> QED
  BY <1>1, Invariant, PTL DEF Spec, RequestsCover

----------------------------------------------------------------------------
(* The backoff.                                                            *)

(* A power of two is the number of subsets, and one more element doubles   *)
(* it: each subset comes without the element and with it.                  *)
LEMMA PowerDoubles ==
  ASSUME NEW n \in Nat
  PROVE  2 ^ n \in Nat \ {0} /\ 2 ^ (n + 1) = 2 * 2 ^ n
<1> DEFINE S == 1 .. n
           T == 1 .. n + 1
           A == SUBSET S
           with == [s \in A |-> s \cup {n + 1}]
           B == {with[s] : s \in A}
<1>1. /\ IsFiniteSet(S) /\ Cardinality(S) = n
      /\ IsFiniteSet(T) /\ Cardinality(T) = n + 1
  BY FS_Interval
<1>2. /\ IsFiniteSet(A) /\ Cardinality(A) = 2 ^ n
      /\ IsFiniteSet(SUBSET T) /\ Cardinality(SUBSET T) = 2 ^ (n + 1)
  BY <1>1, FS_SUBSET
<1>3. T = S \cup {n + 1} /\ n + 1 \notin S
  OBVIOUS
<1> HIDE DEF S, T
<1>4. with \in Bijection(A, B)
  <2>1. with \in [A -> B]
    OBVIOUS
  <2>2. ASSUME NEW a \in A, NEW b \in A, with[a] = with[b]
        PROVE  a = b
    <3>1. a \cup {n + 1} = b \cup {n + 1}
      BY <2>2
    <3>2. n + 1 \notin a /\ n + 1 \notin b
      BY <1>3
    <3> QED
      BY <3>1, <3>2
  <2>3. \A t \in B : \E s \in A : with[s] = t
    OBVIOUS
  <2> HIDE DEF A, B, with
  <2> QED
    BY <2>1, <2>2, <2>3 DEF Bijection, Injection, Surjection, IsInjective
<1>5. A \cap B = {} /\ A \cup B = SUBSET T
  <2>1. A \cap B = {}
    BY <1>3
  <2>2. ASSUME NEW t \in SUBSET T PROVE t \in A \cup B
    <3>1. CASE n + 1 \in t
      <4>1. t \ {n + 1} \in A /\ t = (t \ {n + 1}) \cup {n + 1}
        BY <1>3, <3>1
      <4>2. with[t \ {n + 1}] = t
        BY <4>1
      <4> QED
        BY <4>1, <4>2
    <3>2. CASE n + 1 \notin t
      BY <1>3, <3>2
    <3> QED
      BY <3>1, <3>2
  <2>3. A \cup B \subseteq SUBSET T
    BY <1>3
  <2> QED
    BY <2>1, <2>2, <2>3
<1> HIDE DEF A, B, with
<1>6. IsFiniteSet(B) /\ Cardinality(B) = Cardinality(A)
  <2>1. B \in {B} /\ ExistsBijection(A, B)
    BY <1>4 DEF ExistsBijection
  <2> QED
    BY <1>2, <1>4, <2>1, FS_Bijection
<1>7. /\ Cardinality(A \cup B) = Cardinality(A) + Cardinality(B) - Cardinality(A \cap B)
      /\ Cardinality(A \cap B) = 0 /\ Cardinality(A) \in Nat
  BY <1>2, <1>5, <1>6, FS_Union, FS_EmptySet, FS_CardinalityType
<1> DEFINE p == 2 ^ n
           q == 2 ^ (n + 1)
<1>8. p \in Nat \ {0} /\ q = p + p
  <2>1. Cardinality(A) # 0
    <3>1. {} \in A
      BY DEF A
    <3> QED
      BY <1>2, <3>1, FS_EmptySet
  <2> QED
    BY <1>2, <1>5, <1>6, <1>7, <2>1
<1> HIDE DEF p, q
<1>9. q = 2 * p
  BY <1>8
<1> QED
  BY <1>8, <1>9 DEF p, q

(* The delay after the next failure is NextDelay of the delay after this.  *)
LEMMA BackoffGrows ==
  /\ Backoff(1) = RetryAfter
  /\ \A n \in 1 .. MaxFailures :
       /\ Backoff(n) \in 1 .. Interval
       /\ NextDelay(Backoff(n)) = Backoff(Lesser(n + 1, MaxFailures))
<1> USE PeriodicAssumption
<1>1. Backoff(1) = RetryAfter
  <2>1. 2 ^ (1 - 1) = 1
    OBVIOUS
  <2>2. RetryAfter * 1 = RetryAfter
    OBVIOUS
  <2> QED
    BY <2>1, <2>2 DEF Backoff, Lesser
<1>2. ASSUME NEW n \in 1 .. MaxFailures
      PROVE  /\ Backoff(n) \in 1 .. Interval
             /\ NextDelay(Backoff(n)) = Backoff(Lesser(n + 1, MaxFailures))
  <2> DEFINE p == 2 ^ (n - 1)
             r == RetryAfter * p
  <2>1. n - 1 \in Nat /\ (n - 1) + 1 = n /\ (n + 1) - 1 = n
    OBVIOUS
  <2>2. p \in Nat \ {0} /\ 2 ^ n = 2 * p
    BY <2>1, PowerDoubles
  <2>3. r \in Nat \ {0} /\ RetryAfter * (2 * p) = 2 * r
    <3> HIDE DEF p
    <3>1. RetryAfter * p \in Nat /\ RetryAfter * p >= 1
      BY <2>2
    <3>2. RetryAfter * (2 * p) = 2 * (RetryAfter * p)
      BY <2>2
    <3> QED
      BY <3>1, <3>2
  <2>4. Backoff(n) = Lesser(r, Interval)
    BY DEF Backoff
  <2>5. Backoff(n + 1) = Lesser(2 * r, Interval)
    BY <2>1, <2>2, <2>3 DEF Backoff
  <2>6. n = MaxFailures => Interval <= r
    BY FailuresAssumption
  <2> HIDE DEF p, r
  <2>7. Backoff(n) \in 1 .. Interval
    BY <2>3, <2>4 DEF Lesser
  <2>8. CASE n < MaxFailures
    <3>1. Lesser(n + 1, MaxFailures) = n + 1
      <4>1. MaxFailures \in Nat /\ n \in Nat
        OBVIOUS
      <4> QED
        BY <2>8, <4>1 DEF Lesser
    <3>2. NextDelay(Backoff(n)) = Lesser(2 * r, Interval)
      BY <2>3, <2>4 DEF NextDelay, Lesser
    <3> QED
      BY <2>5, <2>7, <3>1, <3>2
  <2>9. CASE n = MaxFailures
    <3>1. Lesser(n + 1, MaxFailures) = n
      BY <2>9 DEF Lesser
    <3>2. Backoff(n) = Interval
      BY <2>3, <2>4, <2>6, <2>9 DEF Lesser
    <3>3. NextDelay(Interval) = Interval
      BY DEF NextDelay, Lesser
    <3> QED
      BY <2>7, <3>1, <3>2, <3>3
  <2> QED
    BY <2>8, <2>9
<1> QED
  BY <1>1, <1>2

(* Where the timers are as long as no tick was left over by a fetch.  Of   *)
(* the two only one is ever in use: intervalTicker, or, once a fetch has   *)
(* failed and until the next begins, shortTimer.                           *)
FetchInTurn ==
  at \in {"exec", "send"} =>
    /\ ~ticker.full /\ AtRest(short)
    /\ caller = "doRetry" <=> failures > 0

WaitInTurn ==
  at = "select" =>
    IF failures = 0 THEN AtRest(short)
    ELSE /\ ~ticker.running /\ ~ticker.full
         /\ \/ /\ short.running /\ ~short.full
               /\ idle + short.left = shortDuration
            \/ /\ ~short.running /\ short.full
               /\ idle = shortDuration

DelayGrown ==
  failures > 0 =>
    /\ failures <= MaxFailures
    /\ shortDuration = Backoff(failures)

InTurn == ~overran => FetchInTurn /\ WaitInTurn /\ DelayGrown

LEMMA InitInTurn == Init => InTurn
BY DEF Init, InTurn, FetchInTurn, WaitInTurn, DelayGrown, NewTicker, AtRest

LEMMA StepInTurn == IInv /\ InTurn /\ [Next]_vars => InTurn'
<1> SUFFICES ASSUME IInv, InTurn, [Next]_vars, ~overran'
             PROVE  FetchInTurn' /\ WaitInTurn' /\ DelayGrown'
  BY DEF InTurn
<1> USE PeriodicAssumption
<1>t. /\ ticker \in Timers /\ short \in Timers
      /\ shortDuration \in 0 .. Interval
      /\ failures \in Nat /\ idle \in Nat /\ overran \in BOOLEAN
      /\ Armed(ticker) /\ Armed(short) /\ IdleBound
  BY DEF IInv, TypeOK
<1>n. ASSUME ~overran PROVE FetchInTurn /\ WaitInTurn /\ DelayGrown
  BY <1>n DEF InTurn
<1>1. CASE Fetched
  BY <1>1, <1>n DEF Fetched, FetchInTurn, WaitInTurn, DelayGrown, AtRest
<1>2. CASE TickReturns
  <2>1. CASE retryFetch
    <3>1. ~ticker.full /\ AtRest(short)
      BY <1>2, <1>n, <2>1 DEF TickReturns, FetchInTurn
    <3>2. /\ ~ticker'.running /\ ~ticker'.full
          /\ short'.running /\ ~short'.full /\ short'.left = RetryAfter
      BY <1>2, <1>t, <2>1, <3>1 DEF TickReturns, Stopped, Reset, Timers, AtRest
    <3>3. idle' = 0 /\ failures' = 1 /\ shortDuration' = RetryAfter
          /\ at' = "select"
      BY <1>2, <1>t, <2>1 DEF TickReturns, IdleBound
    <3>4. FetchInTurn' /\ WaitInTurn'
      BY <3>2, <3>3 DEF FetchInTurn, WaitInTurn
    <3>5. DelayGrown'
      BY <3>3, BackoffGrows DEF DelayGrown, Backoff
    <3> QED
      BY <3>4, <3>5
  <2>2. CASE ~retryFetch
    <3>1. AtRest(short) /\ at' = "select" /\ failures' = 0 /\ short' = short
      BY <1>2, <1>n, <2>2 DEF TickReturns, FetchInTurn
    <3> QED
      BY <3>1 DEF FetchInTurn, WaitInTurn, DelayGrown, AtRest
  <2> QED
    BY <2>1, <2>2
<1>3. CASE RetryReturns
  <2>1. CASE retryFetch
    <3>1. /\ ~ticker.full /\ AtRest(short)
          /\ failures \in 1 .. MaxFailures
          /\ shortDuration = Backoff(failures)
      BY <1>3, <1>n, <1>t, <2>1 DEF RetryReturns, FetchInTurn, DelayGrown
    <3>2. /\ shortDuration' = Backoff(failures')
          /\ shortDuration' \in 1 .. Interval
          /\ failures' \in 1 .. MaxFailures
      <4>1. failures' \in 1 .. MaxFailures
        BY <1>3, <2>1, <3>1 DEF RetryReturns, Lesser
      <4>2. shortDuration' = Backoff(failures')
        BY <1>3, <2>1, <3>1, BackoffGrows DEF RetryReturns
      <4> QED
        BY <4>1, <4>2, BackoffGrows
    <3>3. /\ ~ticker'.running /\ ~ticker'.full
          /\ short'.running /\ ~short'.full /\ short'.left = shortDuration'
      <4>1. ticker' = Stopped(ticker) /\ short' = Reset(short, shortDuration')
        BY <1>3, <2>1 DEF RetryReturns
      <4>2. shortDuration' # 0
        BY <3>2
      <4>3. Reset(short, shortDuration')
              = [running |-> TRUE, left |-> shortDuration', full |-> FALSE]
        BY <1>t, <3>1, <4>2 DEF Reset, Timers, AtRest
      <4> QED
        BY <1>t, <3>1, <4>1, <4>3 DEF Stopped, Timers
    <3>4. idle' = 0 /\ at' = "select"
      BY <1>3, <1>t DEF RetryReturns, IdleBound
    <3>5. FetchInTurn' /\ WaitInTurn'
      BY <3>2, <3>3, <3>4 DEF FetchInTurn, WaitInTurn
    <3>6. DelayGrown'
      BY <3>2 DEF DelayGrown, Backoff
    <3> QED
      BY <3>5, <3>6
  <2>2. CASE ~retryFetch
    <3>1. AtRest(short) /\ at' = "select" /\ failures' = 0 /\ short' = short
      BY <1>3, <1>n, <2>2 DEF RetryReturns, FetchInTurn
    <3> QED
      BY <3>1 DEF FetchInTurn, WaitInTurn, DelayGrown, AtRest
  <2> QED
    BY <2>1, <2>2
<1>4. CASE TickerFires
  <2>1. /\ ~overran /\ at = "select" /\ ticker.full
        /\ at' = "exec" /\ caller' = "doTick"
        /\ UNCHANGED <<short, shortDuration, failures>>
    BY <1>4 DEF TickerFires, Exec
  <2>2. failures = 0 /\ AtRest(short)
    BY <1>n, <2>1 DEF WaitInTurn
  <2>3. ~ticker'.full
    BY <1>4, <1>t DEF TickerFires, Drained, Timers
  <2> QED
    BY <2>1, <2>2, <2>3 DEF FetchInTurn, WaitInTurn, DelayGrown, AtRest
<1>5. CASE ShortTimerFires
  <2>1. /\ ~overran /\ at = "select" /\ short.full
        /\ at' = "exec" /\ caller' = "doRetry"
        /\ UNCHANGED <<shortDuration, failures>>
    BY <1>5 DEF ShortTimerFires, Exec
  <2>2. failures > 0 /\ ~short.running
    BY <1>n, <1>t, <2>1 DEF WaitInTurn, AtRest
  <2>3. ~ticker'.full /\ ~short'.full /\ ~short'.running
    BY <1>5, <1>t, <2>2 DEF ShortTimerFires, NewTicker, Drained, Timers
  <2> QED
    BY <1>n, <2>1, <2>2, <2>3 DEF FetchInTurn, WaitInTurn, DelayGrown, AtRest
<1>6. CASE Stop
  BY <1>6, <1>n DEF Stop, FetchInTurn, WaitInTurn, DelayGrown
<1>7. CASE Tick
  <2>1. /\ ~overran /\ ~(at # "select" /\ Fires(ticker))
        /\ UNCHANGED <<at, caller, shortDuration, failures>>
    BY <1>7, <1>t DEF Tick
  <2>2. FetchInTurn'
    <3>1. SUFFICES ASSUME at \in {"exec", "send"}
                   PROVE  ~ticker'.full /\ AtRest(short')
                          /\ (caller = "doRetry" <=> failures > 0)
      BY <2>1 DEF FetchInTurn
    <3>2. ~ticker.full /\ AtRest(short) /\ ~Fires(ticker)
          /\ (caller = "doRetry" <=> failures > 0)
      BY <1>n, <2>1, <3>1 DEF FetchInTurn
    <3>3. ~ticker'.full
      BY <1>7, <1>t, <3>2 DEF Tick, TickerAfterTick, Timers
    <3>4. short' = short
      BY <1>7, <3>2 DEF Tick, ShortAfterTick, Fires, AtRest
    <3> QED
      BY <3>2, <3>3, <3>4
  <2>3. WaitInTurn'
    <3> SUFFICES ASSUME at = "select" PROVE WaitInTurn'
      BY <2>1 DEF WaitInTurn
    <3>1. ~ticker.full /\ ~short.full /\ idle' = idle + 1
      BY <1>7 DEF Tick, Waiting
    <3>2. CASE failures = 0
      <4>1. AtRest(short)
        BY <1>n, <2>1, <3>2 DEF WaitInTurn
      <4>2. short' = short
        BY <1>7, <4>1 DEF Tick, ShortAfterTick, Fires, AtRest
      <4> QED
        BY <2>1, <3>2, <4>1, <4>2 DEF WaitInTurn, AtRest
    <3>3. CASE failures # 0
      <4>1. /\ ~ticker.running /\ short.running
            /\ idle + short.left = shortDuration
        BY <1>n, <1>t, <2>1, <3>1, <3>3 DEF WaitInTurn
      <4>2. ticker' = ticker
        BY <1>7, <4>1 DEF Tick, TickerAfterTick, Fires
      <4>3. short.left >= 1 /\ short.left \in Nat
        BY <1>t, <4>1 DEF Armed, Timers
      <4>4. CASE short.left = 1
        <5>1. short' = [running |-> FALSE, left |-> 0, full |-> TRUE]
          BY <1>7, <4>1, <4>4 DEF Tick, ShortAfterTick, Fires
        <5> QED
          BY <2>1, <3>1, <3>3, <4>1, <4>2, <4>4, <5>1, <1>t DEF WaitInTurn
      <4>5. CASE short.left # 1
        <5>1. short' = [running |-> TRUE, left |-> short.left - 1, full |-> FALSE]
          BY <1>7, <1>t, <3>1, <4>1, <4>5 DEF Tick, ShortAfterTick, Fires, Timers
        <5> QED
          BY <2>1, <3>1, <3>3, <4>1, <4>2, <4>3, <5>1, <1>t DEF WaitInTurn
      <4> QED
        BY <4>4, <4>5
    <3> QED
      BY <3>2, <3>3
  <2>4. DelayGrown'
    BY <1>n, <2>1 DEF DelayGrown
  <2> QED
    BY <2>2, <2>3, <2>4
<1>8. CASE ServerAdjustsTime
  BY <1>8, <1>n DEF ServerAdjustsTime, FetchInTurn, WaitInTurn, DelayGrown, AtRest
<1>9. CASE UNCHANGED vars
  BY <1>9, <1>n DEF vars, FetchInTurn, WaitInTurn, DelayGrown, AtRest
<1> QED
  BY <1>1, <1>2, <1>3, <1>4, <1>5, <1>6, <1>7, <1>8, <1>9 DEF Next

(* Unless a fetch has outlasted the interval, after n failures in a row    *)
(* the loop waits RetryAfter * 2^(n-1), capped at Interval, before it      *)
(* fetches again, neither more nor less.                                   *)
THEOREM RetriesBackOff == Spec => BackoffKept
<1>1. Spec => []InTurn
  BY InitInTurn, StepInTurn, Invariant, PTL DEF Spec
<1>2. IInv /\ InTurn /\ [Next]_vars
      => [at = "select" /\ at' = "exec" /\ failures > 0 /\ ~overran
            => idle = Backoff(failures)]_vars
  <2> SUFFICES ASSUME IInv, InTurn, Next,
                      at = "select", at' = "exec", failures > 0, ~overran
               PROVE  idle = Backoff(failures)
    OBVIOUS
  <2>1. /\ WaitInTurn /\ shortDuration = Backoff(failures)
        /\ shortDuration \in Nat /\ idle \in Nat /\ failures \in Nat
    BY PeriodicAssumption DEF InTurn, DelayGrown, IInv, TypeOK
  <2>2. ~ticker.full
    BY <2>1 DEF WaitInTurn
  <2>3. ShortTimerFires
    BY <2>2 DEF Next, Fetched, TickReturns, RetryReturns, TickerFires, Stop, Tick,
       ServerAdjustsTime
  <2>4. short.full /\ ~short.running
    BY <2>1, <2>3 DEF ShortTimerFires, WaitInTurn, IInv, TypeOK, Timers
  <2> QED
    BY <2>1, <2>4 DEF WaitInTurn
<1> QED
  BY <1>1, <1>2, Invariant, PTL DEF Spec, BackoffKept
============================================================================
