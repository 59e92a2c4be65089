---------------------------- MODULE HiLoFetcher ----------------------------
(***************************************************************************)
(* util/hi_lo_http_fetcher2.go: one goroutine serves two priorities of     *)
(* HTTP requests.  A high priority request is fetched inside its select    *)
(* loop; a low priority one in a goroutine of its own, whose response      *)
(* comes back through pendingLoRespCh.  Every response carries WaitFor,    *)
(* how long the rate regulator wants the next request delayed; the loop    *)
(* makes low priority requests pay for it, with permitLoTimer.             *)
(*                                                                         *)
(* Channels are unbuffered, so a send and its receive are one step.  Time  *)
(* is counted in ticks.                                                    *)
(***************************************************************************)
EXTENDS Integers, FiniteSets

CONSTANTS
  HiClients,  (* goroutines calling Do(true, ...)                          *)
  LoClients,  (* goroutines calling Do(false, ...)                         *)
  Closers,    (* goroutines calling Close                                  *)
  None,       (* a nil channel or request                                  *)
  MaxWait,    (* bound: largest WaitFor of one response, in ticks          *)
  MaxDelay    (* bound: largest delayAfterLoResp that is explored          *)

Clients == HiClients \union LoClients

ASSUME HiLoAssumption ==
  /\ HiClients \intersect LoClients = {}
  /\ None \notin Clients \union Closers
  /\ MaxWait \in Nat
  /\ MaxDelay \in Nat /\ MaxWait <= MaxDelay

VARIABLES
  closed,            (* hiLoHttpFetcher2State.closed                       *)
  client,            (* where each caller of Do is                         *)
  closer,            (* where each caller of Close is                      *)
  loop,              (* where the select loop is                           *)
  hiReq,             (* the request the loop itself is fetching            *)
  loCh,              (* is the local loCh non-nil?                         *)
  pendingLoRequest,  (* the low priority request in progress               *)
  loFetch,           (* the goroutine fetching for each low client, if any *)
  loWait,            (* WaitFor of the response such a goroutine has       *)
  timerArmed,        (* is permitLoTimer running?                          *)
  timerLeft,         (* ticks until it fires                               *)
  permitLoCh,        (* does permitLoTimer.C (capacity 1) hold a value?    *)
  delayAfterLoResp,
  closeCh,           (* the closer the loop is to answer                   *)
  owed               (* history: ticks for which the responses seen still  *)
                     (* forbid a low request, leaving out those that came  *)
                     (* while the timer was running: when it fires,        *)
                     (* PermitLo forgets what they asked for               *)

callVars  == <<closed, client, closer>>
loVars    == <<loCh, pendingLoRequest, loFetch, loWait>>
timerVars == <<timerArmed, timerLeft, permitLoCh>>
vars == <<callVars, loop, hiReq, loVars, timerVars, delayAfterLoResp, closeCh, owed>>

WaitFors == 0 .. MaxWait
Later(a, b) == IF a >= b THEN a ELSE b

(* permitLoTimer starts with 1 ms: low requests are not taken before that. *)
InitialPermit == 1

Init ==
  /\ closed = FALSE
  /\ client = [c \in Clients |-> "idle"]
  /\ closer = [k \in Closers |-> "idle"]
  /\ loop = "select"
  /\ hiReq = None
  /\ loCh = FALSE
  /\ pendingLoRequest = None
  /\ loFetch = [c \in LoClients |-> "none"]
  /\ loWait = [c \in LoClients |-> 0]
  /\ timerArmed = TRUE
  /\ timerLeft = InitialPermit
  /\ permitLoCh = FALSE
  /\ delayAfterLoResp = 0
  /\ closeCh = None
  /\ owed = 0

(* Callers blocked sending on hiCh and on loCh.                            *)
HiChSenders == {c \in HiClients : client[c] = "sending"}
LoChSenders == {c \in LoClients : client[c] = "sending"}

(* Is the loop waiting in its select statement?                            *)
AtSelect == loop = "select"

----------------------------------------------------------------------------
(* Operators named X_Y are X with a fault Y seeded; PROJECT.json says      *)
(* which property each must break.  No action uses them.                   *)
(*                                                                         *)
(* Callers.  p.closed is read and written without synchronisation.         *)

(* Do: the check of p.closed; a caller that finds it set returns at once.  *)
DoCall(c) ==
  /\ client[c] = "idle"
  /\ ~closed
  /\ client' = [client EXCEPT ![c] = "sending"]
  /\ UNCHANGED <<closed, closer, loop, hiReq, loVars, timerVars,
                 delayAfterLoResp, closeCh, owed>>

CloseCall(k) ==
  /\ closer[k] = "idle"
  /\ closer' = [closer EXCEPT ![k] = IF closed THEN "done" ELSE "closing"]
  /\ UNCHANGED <<closed, client, loop, hiReq, loVars, timerVars,
                 delayAfterLoResp, closeCh, owed>>

CloseMark(k) ==
  /\ closer[k] = "closing"
  /\ closed' = TRUE
  /\ closer' = [closer EXCEPT ![k] = "sending"]
  /\ UNCHANGED <<client, loop, hiReq, loVars, timerVars,
                 delayAfterLoResp, closeCh, owed>>

----------------------------------------------------------------------------
(* The end of an iteration.  By continue, closeCh is not looked at.  The   *)
(* cases that reach the end of the loop's body check it: when Close has    *)
(* been asked for and pending, the low request in progress, is none, the   *)
(* loop answers the closer, stops the timer and returns.                   *)
Continue(armed) ==
  /\ loop' = "select"
  /\ timerArmed' = armed
  /\ UNCHANGED closer

LoopEnd_NotReached(pending, armed) == Continue(armed)

LoopEnd_PendingIgnored(pending, armed) ==
  IF closeCh # None
  THEN /\ loop' = "stopped"
       /\ closer' = [closer EXCEPT ![closeCh] = "done"]
       /\ timerArmed' = FALSE
  ELSE Continue(armed)

LoopEnd(pending, armed) ==
  IF closeCh # None /\ pending = None
  THEN /\ loop' = "stopped"
       /\ closer' = [closer EXCEPT ![closeCh] = "done"]
       /\ timerArmed' = FALSE
  ELSE Continue(armed)

HiAccept(c) ==
  /\ AtSelect
  /\ c \in HiChSenders
  /\ client' = [client EXCEPT ![c] = "waiting"]
  /\ hiReq' = c
  /\ loop' = "hiFetch"
  /\ UNCHANGED <<closed, closer, loVars, timerVars, delayAfterLoResp,
                 closeCh, owed>>

(* May a high priority response stop the loop from taking low requests at  *)
(* once?  Otherwise its wait goes to delayAfterLoResp.                     *)
CanPauseNow_AnyTime == TRUE
CanPauseNow_LoChNotChecked == pendingLoRequest = None
CanPauseNow == pendingLoRequest = None /\ loCh

HiRespond(w) ==
  /\ loop = "hiFetch"
  /\ delayAfterLoResp + w <= MaxDelay
  /\ client' = [client EXCEPT ![hiReq] = "idle"]
  /\ hiReq' = None
  /\ IF w = 0
     THEN Continue(timerArmed) /\ UNCHANGED <<loCh, timerLeft, delayAfterLoResp>>
     ELSE IF CanPauseNow
     THEN /\ loCh' = FALSE
          /\ timerLeft' = w
          /\ LoopEnd(pendingLoRequest, TRUE)
          /\ UNCHANGED delayAfterLoResp
     ELSE /\ delayAfterLoResp' = delayAfterLoResp + w
          /\ LoopEnd(pendingLoRequest, timerArmed)
          /\ UNCHANGED <<loCh, timerLeft>>
  /\ owed' = IF timerArmed \/ permitLoCh THEN owed ELSE Later(owed, w)
  /\ UNCHANGED <<closed, pendingLoRequest, loFetch, loWait, permitLoCh, closeCh>>

LoAccept(c) ==
  /\ AtSelect
  /\ loCh
  /\ c \in LoChSenders
  /\ client' = [client EXCEPT ![c] = "waiting"]
  /\ loFetch' = [loFetch EXCEPT ![c] = "fetching"]
  /\ pendingLoRequest' = c
  /\ loCh' = FALSE
  /\ UNCHANGED <<closed, closer, loop, hiReq, loWait, timerVars,
                 delayAfterLoResp, closeCh, owed>>

(* The goroutine's fetch returns, with WaitFor = w, or fails or times out. *)
LoFetched(c, w) ==
  /\ loFetch[c] = "fetching"
  /\ loFetch' = [loFetch EXCEPT ![c] = "responding"]
  /\ loWait' = [loWait EXCEPT ![c] = w]
  /\ UNCHANGED <<callVars, loop, hiReq, loCh, pendingLoRequest, timerVars,
                 delayAfterLoResp, closeCh, owed>>

(* How long low requests are to be held back after the response for c.     *)
DelayAfter_AccumulatedDropped(c) == loWait[c]
DelayAfter(c) == delayAfterLoResp + loWait[c]

(* The goroutine of c hands its response over: pendingLoRequest gets it.   *)
LoRespond(c) ==
  /\ AtSelect
  /\ loFetch[c] = "responding"
  /\ client' = [client EXCEPT ![pendingLoRequest] = "idle"]
  /\ loFetch' = [loFetch EXCEPT ![c] = "none"]
  /\ loWait' = [loWait EXCEPT ![c] = 0]
  /\ pendingLoRequest' = None
  /\ IF DelayAfter(c) > 0
     THEN /\ timerLeft' = DelayAfter(c)
          /\ delayAfterLoResp' = 0
          /\ Continue(TRUE)
          /\ UNCHANGED loCh
     ELSE /\ loCh' = TRUE
          /\ LoopEnd(None, timerArmed)
          /\ UNCHANGED <<timerLeft, delayAfterLoResp>>
  /\ owed' = Later(owed, loWait[c])
  /\ UNCHANGED <<closed, hiReq, permitLoCh, closeCh>>

PermitLo ==
  /\ AtSelect
  /\ permitLoCh
  /\ permitLoCh' = FALSE
  /\ loCh' = TRUE
  /\ delayAfterLoResp' = 0
  /\ LoopEnd(pendingLoRequest, timerArmed)
  /\ UNCHANGED <<closed, client, hiReq, pendingLoRequest, loFetch, loWait,
                 timerLeft, closeCh, owed>>

CloseAccept(k) ==
  /\ AtSelect
  /\ closer[k] = "sending"
  /\ closer' = [closer EXCEPT ![k] = "waiting"]
  /\ closeCh' = k
  /\ UNCHANGED <<closed, client, loop, hiReq, loVars, timerVars,
                 delayAfterLoResp, owed>>

----------------------------------------------------------------------------
(* The runtime's timer, and time.                                          *)

TimerFire ==
  /\ timerArmed
  /\ timerLeft = 0
  /\ timerArmed' = FALSE
  /\ permitLoCh' = TRUE
  /\ UNCHANGED <<callVars, loop, hiReq, loVars, timerLeft, delayAfterLoResp,
                 closeCh, owed>>

Down(n) == IF n > 0 THEN n - 1 ELSE n

Tick ==
  /\ (timerArmed /\ timerLeft > 0) \/ owed > 0
  /\ timerLeft' = IF timerArmed THEN Down(timerLeft) ELSE timerLeft
  /\ owed' = Down(owed)
  /\ UNCHANGED <<callVars, loop, hiReq, loVars, timerArmed, permitLoCh,
                 delayAfterLoResp, closeCh>>

Next ==
  \/ \E c \in Clients : DoCall(c) \/ HiAccept(c)
  \/ \E k \in Closers : CloseCall(k) \/ CloseMark(k) \/ CloseAccept(k)
  \/ \E w \in WaitFors : HiRespond(w)
  \/ \E c \in LoClients : LoAccept(c) \/ LoRespond(c)
  \/ \E c \in LoClients, w \in WaitFors : LoFetched(c, w)
  \/ PermitLo
  \/ TimerFire
  \/ Tick

(* Goroutines that can run do run, fetches end (DoHttpRequest's client has *)
(* a timeout), timers fire.  A select among ready cases chooses one        *)
(* uniformly at random, hence strong fairness of each of the loop's cases. *)
(* Nobody has to call Do or Close.                                         *)
Fairness ==
  /\ \A c \in HiClients : SF_vars(HiAccept(c))
  /\ WF_vars(\E w \in WaitFors : HiRespond(w))
  /\ \A c \in LoClients : SF_vars(LoAccept(c)) /\ SF_vars(LoRespond(c))
  /\ \A c \in LoClients : WF_vars(\E w \in WaitFors : LoFetched(c, w))
  /\ SF_vars(PermitLo)
  /\ \A k \in Closers : WF_vars(CloseMark(k)) /\ SF_vars(CloseAccept(k))
  /\ WF_vars(TimerFire)
  /\ WF_vars(Tick)

Spec == Init /\ [][Next]_vars
FairSpec == Spec /\ Fairness

----------------------------------------------------------------------------
(* Properties.                                                             *)

(* Every variable keeps its type.                                          *)
TypeOK ==
  /\ closed \in BOOLEAN
  /\ client \in [Clients -> {"idle", "sending", "waiting"}]
  /\ closer \in [Closers -> {"idle", "closing", "sending", "waiting", "done"}]
  /\ loop \in {"select", "hiFetch", "stopped"}
  /\ hiReq \in HiClients \union {None}
  /\ loCh \in BOOLEAN
  /\ pendingLoRequest \in LoClients \union {None}
  /\ loFetch \in [LoClients -> {"none", "fetching", "responding"}]
  /\ loWait \in [LoClients -> WaitFors]
  /\ timerArmed \in BOOLEAN
  /\ timerLeft \in Nat
  /\ permitLoCh \in BOOLEAN
  /\ delayAfterLoResp \in 0 .. MaxDelay
  /\ closeCh \in Closers \union {None}
  /\ owed \in WaitFors

InProgress(c) == loFetch[c] # "none"

(* The permission to start a low priority request is in exactly one place: *)
(* with the running timer, in the timer's channel, in loCh, or with the    *)
(* request in progress.  Were it in two, two low requests could overlap or *)
(* pendingLoRequest be overwritten; were it in none, no low request would  *)
(* ever be taken again.                                                    *)
OneLoPermit ==
  loop # "stopped" =>
    \/ timerArmed  /\ ~permitLoCh /\ ~loCh /\ pendingLoRequest = None
    \/ ~timerArmed /\ permitLoCh  /\ ~loCh /\ pendingLoRequest = None
    \/ ~timerArmed /\ ~permitLoCh /\ loCh  /\ pendingLoRequest = None
    \/ ~timerArmed /\ ~permitLoCh /\ ~loCh /\ pendingLoRequest # None

(* At most one goroutine fetches low priority requests, its request is     *)
(* pendingLoRequest (so the response goes to the caller that asked), that  *)
(* caller is waiting, and none is left behind when the loop returns.       *)
LoResponseReachesCaller ==
  \A c \in LoClients :
    /\ InProgress(c) <=> pendingLoRequest = c
    /\ InProgress(c) <=> client[c] = "waiting"
    /\ InProgress(c) => loop # "stopped"

(* The request the loop fetches itself is that of a waiting caller, the    *)
(* only one of its priority.                                               *)
HiResponseReachesCaller ==
  /\ loop = "hiFetch" <=> hiReq # None
  /\ \A c \in HiClients : client[c] = "waiting" <=> hiReq = c

(* Requests of a priority are served one by one, and each response goes to *)
(* the caller that asked.                                                  *)
ServedOneByOne == OneLoPermit /\ LoResponseReachesCaller /\ HiResponseReachesCaller

(* A delay noted while low requests were held back is paid once: none is   *)
(* left over when low requests are taken again.                            *)
DelayPaidOnce == loop # "stopped" /\ loCh => delayAfterLoResp = 0

(* No low priority request starts before the WaitFor of each earlier       *)
(* response has passed, for the responses the loop got while the timer was *)
(* not running; and none leaves a delay behind to be paid a second time.   *)
WaitHonoured ==
  [][\A c \in LoClients : LoAccept(c) => owed = 0 /\ delayAfterLoResp = 0]_vars

(* What makes WaitHonoured inductive: wherever the permission is, it will  *)
(* not be used before the owed ticks are over.                             *)
OwedCovered ==
  loop # "stopped" =>
    /\ loCh \/ permitLoCh => owed = 0
    /\ timerArmed => owed <= timerLeft
    /\ pendingLoRequest # None => owed <= delayAfterLoResp

(* Close returns: "we'll do so once there is no low priority request in    *)
(* progress" (hi_lo_http_fetcher2.go:77).                                  *)
CloseReturns == \A k \in Closers : closer[k] = "sending" ~> closer[k] = "done"

(* What Close does reach: with a low request in progress or low requests   *)
(* held back, the loop drains and answers the closer.                      *)
CloseDrains ==
  \A k \in Closers :
    closeCh = k /\ (pendingLoRequest # None \/ timerArmed \/ permitLoCh)
      ~> closer[k] = "done"

(* How far each call has got, for the service the callers see.             *)
callState ==
  [c \in Clients |->
     CASE client[c] = "idle" -> "idle"
       [] client[c] = "sending" -> "queued"
       [] client[c] = "waiting" -> "served"]

Service == INSTANCE PriorityService WITH call <- callState

(* Callers get what PriorityService promises, save that a call queued when *)
(* Close is called may never be started.                                   *)
ImplementsClosableService == Service!ClosableSpec

(* Unless Close is called, every call of Do is started and answered, low   *)
(* priority ones included: neither the high priority requests that keep    *)
(* coming nor the waits they ask for starve them.                          *)
NobodyStarves == (\A k \in Closers : [](closer[k] = "idle")) => Service!Fairness
============================================================================
