------------------------- MODULE HiLoFetcherProofs -------------------------
(***************************************************************************)
(* Proofs about HiLoFetcher, for any numbers of callers and any waits.     *)
(***************************************************************************)
EXTENDS HiLoFetcher, TLAPS

(* The inductive invariant: where the permission for a low request is,     *)
(* whose request the goroutine and the loop are fetching, and how much of  *)
(* the owed delay is still covered.                                        *)
IInv ==
  /\ TypeOK
  /\ OneLoPermit
  /\ LoResponseReachesCaller
  /\ HiResponseReachesCaller
  /\ DelayPaidOnce
  /\ OwedCovered

(* The bounds leave room for no wait at all.                               *)
LEMMA ZeroWait == 0 \in WaitFors /\ 0 \in 0 .. MaxDelay
BY HiLoAssumption DEF WaitFors

(* The first iteration's state satisfies the invariant.                    *)
LEMMA InitIInv == Init => IInv
<1> SUFFICES ASSUME Init PROVE IInv
  OBVIOUS
<1> USE DEF Init, Clients
<1>1. TypeOK
  BY ZeroWait DEF TypeOK, InitialPermit
<1>2. OneLoPermit /\ DelayPaidOnce
  BY DEF OneLoPermit, DelayPaidOnce
<1>3. LoResponseReachesCaller /\ HiResponseReachesCaller
  BY HiLoAssumption DEF LoResponseReachesCaller, HiResponseReachesCaller,
     InProgress
<1>4. OwedCovered
  BY DEF OwedCovered, InitialPermit
<1> QED
  BY <1>1, <1>2, <1>3, <1>4 DEF IInv

(* Every step of a caller, of the loop, of the goroutine and of the timer  *)
(* keeps the invariant.                                                    *)
LEMMA NextIInv == IInv /\ [Next]_vars => IInv'
<1> SUFFICES ASSUME IInv, [Next]_vars PROVE IInv'
  OBVIOUS
<1> USE HiLoAssumption
    DEF callVars, loVars, timerVars, Clients, AtSelect, HiChSenders,
        LoChSenders
<1>1. ASSUME NEW c \in Clients, DoCall(c) PROVE IInv'
  <2>1. TypeOK'
    BY <1>1 DEF IInv, TypeOK, WaitFors, Later, Down, HiResponseReachesCaller,
       LoResponseReachesCaller, InProgress, DoCall
  <2>2. OneLoPermit'
    BY <1>1 DEF IInv, OneLoPermit, TypeOK, DoCall
  <2>3. LoResponseReachesCaller'
    BY <1>1 DEF IInv, LoResponseReachesCaller, HiResponseReachesCaller,
       InProgress, TypeOK, OneLoPermit, DoCall
  <2>4. HiResponseReachesCaller'
    BY <1>1 DEF IInv, HiResponseReachesCaller, LoResponseReachesCaller,
       InProgress, TypeOK, DoCall
  <2>5. DelayPaidOnce'
    BY <1>1 DEF IInv, DelayPaidOnce, OneLoPermit, TypeOK, DoCall
  <2>6. OwedCovered'
    BY <1>1 DEF IInv, OwedCovered, OneLoPermit, DelayPaidOnce, TypeOK,
       WaitFors, Later, Down, DoCall
  <2> QED
    BY <2>1, <2>2, <2>3, <2>4, <2>5, <2>6 DEF IInv
<1>2. ASSUME NEW k \in Closers, CloseCall(k) PROVE IInv'
  <2>1. TypeOK'
    BY <1>2 DEF IInv, TypeOK, WaitFors, Later, Down, HiResponseReachesCaller,
       LoResponseReachesCaller, InProgress, CloseCall
  <2>2. OneLoPermit'
    BY <1>2 DEF IInv, OneLoPermit, TypeOK, CloseCall
  <2>3. LoResponseReachesCaller'
    BY <1>2 DEF IInv, LoResponseReachesCaller, HiResponseReachesCaller,
       InProgress, TypeOK, OneLoPermit, CloseCall
  <2>4. HiResponseReachesCaller'
    BY <1>2 DEF IInv, HiResponseReachesCaller, LoResponseReachesCaller,
       InProgress, TypeOK, CloseCall
  <2>5. DelayPaidOnce'
    BY <1>2 DEF IInv, DelayPaidOnce, OneLoPermit, TypeOK, CloseCall
  <2>6. OwedCovered'
    BY <1>2 DEF IInv, OwedCovered, OneLoPermit, DelayPaidOnce, TypeOK,
       WaitFors, Later, Down, CloseCall
  <2> QED
    BY <2>1, <2>2, <2>3, <2>4, <2>5, <2>6 DEF IInv
<1>3. ASSUME NEW k \in Closers, CloseMark(k) PROVE IInv'
  <2>1. TypeOK'
    BY <1>3 DEF IInv, TypeOK, WaitFors, Later, Down, HiResponseReachesCaller,
       LoResponseReachesCaller, InProgress, CloseMark
  <2>2. OneLoPermit'
    BY <1>3 DEF IInv, OneLoPermit, TypeOK, CloseMark
  <2>3. LoResponseReachesCaller'
    BY <1>3 DEF IInv, LoResponseReachesCaller, HiResponseReachesCaller,
       InProgress, TypeOK, OneLoPermit, CloseMark
  <2>4. HiResponseReachesCaller'
    BY <1>3 DEF IInv, HiResponseReachesCaller, LoResponseReachesCaller,
       InProgress, TypeOK, CloseMark
  <2>5. DelayPaidOnce'
    BY <1>3 DEF IInv, DelayPaidOnce, OneLoPermit, TypeOK, CloseMark
  <2>6. OwedCovered'
    BY <1>3 DEF IInv, OwedCovered, OneLoPermit, DelayPaidOnce, TypeOK,
       WaitFors, Later, Down, CloseMark
  <2> QED
    BY <2>1, <2>2, <2>3, <2>4, <2>5, <2>6 DEF IInv
<1>4. ASSUME NEW k \in Closers, CloseAccept(k) PROVE IInv'
  <2>1. TypeOK'
    BY <1>4 DEF IInv, TypeOK, WaitFors, Later, Down, HiResponseReachesCaller,
       LoResponseReachesCaller, InProgress, CloseAccept
  <2>2. OneLoPermit'
    BY <1>4 DEF IInv, OneLoPermit, TypeOK, CloseAccept
  <2>3. LoResponseReachesCaller'
    BY <1>4 DEF IInv, LoResponseReachesCaller, HiResponseReachesCaller,
       InProgress, TypeOK, OneLoPermit, CloseAccept
  <2>4. HiResponseReachesCaller'
    BY <1>4 DEF IInv, HiResponseReachesCaller, LoResponseReachesCaller,
       InProgress, TypeOK, CloseAccept
  <2>5. DelayPaidOnce'
    BY <1>4 DEF IInv, DelayPaidOnce, OneLoPermit, TypeOK, CloseAccept
  <2>6. OwedCovered'
    BY <1>4 DEF IInv, OwedCovered, OneLoPermit, DelayPaidOnce, TypeOK,
       WaitFors, Later, Down, CloseAccept
  <2> QED
    BY <2>1, <2>2, <2>3, <2>4, <2>5, <2>6 DEF IInv
<1>5. ASSUME NEW c \in Clients, HiAccept(c) PROVE IInv'
  <2>1. TypeOK'
    BY <1>5 DEF IInv, TypeOK, WaitFors, Later, Down, HiResponseReachesCaller,
       LoResponseReachesCaller, InProgress, HiAccept
  <2>2. OneLoPermit'
    BY <1>5 DEF IInv, OneLoPermit, TypeOK, HiAccept
  <2>3. LoResponseReachesCaller'
    BY <1>5 DEF IInv, LoResponseReachesCaller, HiResponseReachesCaller,
       InProgress, TypeOK, OneLoPermit, HiAccept
  <2>4. HiResponseReachesCaller'
    BY <1>5 DEF IInv, HiResponseReachesCaller, LoResponseReachesCaller,
       InProgress, TypeOK, HiAccept
  <2>5. DelayPaidOnce'
    BY <1>5 DEF IInv, DelayPaidOnce, OneLoPermit, TypeOK, HiAccept
  <2>6. OwedCovered'
    BY <1>5 DEF IInv, OwedCovered, OneLoPermit, DelayPaidOnce, TypeOK,
       WaitFors, Later, Down, HiAccept
  <2> QED
    BY <2>1, <2>2, <2>3, <2>4, <2>5, <2>6 DEF IInv
<1>6. ASSUME NEW w \in WaitFors, HiRespond(w) PROVE IInv'
  <2>1. TypeOK'
    <3>1. (loop' \in {"select", "stopped"}) /\ (timerArmed' \in BOOLEAN)
          /\ closer' \in [Closers -> {"idle", "closing", "sending", "waiting", "done"}]
      BY <1>6 DEF IInv, TypeOK, HiRespond, Continue, LoopEnd
    <3>2. loCh' \in BOOLEAN
      BY <1>6 DEF IInv, TypeOK, HiRespond
    <3>3. /\ timerLeft' \in {timerLeft, w}
           /\ delayAfterLoResp' \in {delayAfterLoResp, delayAfterLoResp + w}
           /\ delayAfterLoResp + w <= MaxDelay
      BY <1>6 DEF HiRespond
    <3>4. timerLeft' \in Nat /\ delayAfterLoResp' \in 0 .. MaxDelay
      BY <3>3 DEF IInv, TypeOK, WaitFors
    <3>5. hiReq' = None /\ client' \in [Clients -> {"idle", "sending", "waiting"}]
      BY <1>6 DEF IInv, TypeOK, HiRespond
    <3>6. owed' \in WaitFors
      BY <1>6 DEF IInv, TypeOK, HiRespond, Later
    <3> QED
      BY <1>6, <3>1, <3>2, <3>3, <3>4, <3>5, <3>6, ZeroWait DEF IInv, TypeOK,
         HiRespond
  <2>2. OneLoPermit'
    BY <1>6 DEF IInv, OneLoPermit, TypeOK, HiRespond, Continue, LoopEnd,
       CanPauseNow
  <2>3. LoResponseReachesCaller'
    BY <1>6 DEF IInv, LoResponseReachesCaller, HiResponseReachesCaller,
       InProgress, TypeOK, OneLoPermit, HiRespond, Continue, LoopEnd, CanPauseNow
  <2>4. HiResponseReachesCaller'
    BY <1>6 DEF IInv, HiResponseReachesCaller, LoResponseReachesCaller,
       InProgress, TypeOK, HiRespond, Continue, LoopEnd, CanPauseNow
  <2>5. DelayPaidOnce'
    BY <1>6 DEF IInv, DelayPaidOnce, OneLoPermit, TypeOK, HiRespond,
       Continue, LoopEnd, CanPauseNow
  <2>6. OwedCovered'
    BY <1>6 DEF IInv, OwedCovered, OneLoPermit, DelayPaidOnce, TypeOK,
       WaitFors, Later, Down, HiRespond, Continue, LoopEnd, CanPauseNow
  <2> QED
    BY <2>1, <2>2, <2>3, <2>4, <2>5, <2>6 DEF IInv
<1>7. ASSUME NEW c \in LoClients, LoAccept(c) PROVE IInv'
  <2>1. TypeOK'
    BY <1>7 DEF IInv, TypeOK, WaitFors, Later, Down, HiResponseReachesCaller,
       LoResponseReachesCaller, InProgress, LoAccept
  <2>2. OneLoPermit'
    BY <1>7 DEF IInv, OneLoPermit, TypeOK, LoAccept
  <2>3. LoResponseReachesCaller'
    BY <1>7 DEF IInv, LoResponseReachesCaller, HiResponseReachesCaller,
       InProgress, TypeOK, OneLoPermit, LoAccept
  <2>4. HiResponseReachesCaller'
    BY <1>7 DEF IInv, HiResponseReachesCaller, LoResponseReachesCaller,
       InProgress, TypeOK, LoAccept
  <2>5. DelayPaidOnce'
    BY <1>7 DEF IInv, DelayPaidOnce, OneLoPermit, TypeOK, LoAccept
  <2>6. OwedCovered'
    BY <1>7 DEF IInv, OwedCovered, OneLoPermit, DelayPaidOnce, TypeOK,
       WaitFors, Later, Down, LoAccept
  <2> QED
    BY <2>1, <2>2, <2>3, <2>4, <2>5, <2>6 DEF IInv
<1>8. ASSUME NEW c \in LoClients, LoRespond(c) PROVE IInv'
  <2> DEFINE delay == DelayAfter(c)
  <2>1. /\ pendingLoRequest = c
        /\ loop = "select" /\ hiReq = None
        /\ ~timerArmed /\ ~permitLoCh /\ ~loCh
        /\ loWait[c] \in WaitFors
        /\ delayAfterLoResp \in 0 .. MaxDelay
        /\ owed \in WaitFors /\ owed <= delayAfterLoResp
    BY <1>8 DEF IInv, LoRespond, TypeOK, OneLoPermit, LoResponseReachesCaller,
       HiResponseReachesCaller, InProgress, OwedCovered
  <2>2. delay \in Nat /\ loWait[c] <= delay /\ owed <= delay
    BY <2>1 DEF WaitFors, DelayAfter
  <2>3. CASE delay > 0
    <3>1. /\ timerLeft' = delay /\ delayAfterLoResp' = 0 /\ loop' = "select"
          /\ timerArmed' = TRUE /\ loCh' = FALSE
          /\ UNCHANGED closer
      BY <1>8, <2>1, <2>3 DEF LoRespond, Continue
    <3> HIDE DEF delay
    <3>2. TypeOK'
      BY <1>8, <2>1, <2>2, <3>1, ZeroWait DEF IInv, TypeOK, LoRespond, Later
    <3>3. OneLoPermit' /\ DelayPaidOnce'
      BY <1>8, <2>1, <3>1 DEF OneLoPermit, DelayPaidOnce, LoRespond
    <3>4. OwedCovered'
      BY <1>8, <2>1, <2>2, <3>1 DEF OwedCovered, LoRespond, Later, WaitFors
    <3>5. LoResponseReachesCaller' /\ HiResponseReachesCaller'
      BY <1>8, <2>1, <3>1 DEF IInv, TypeOK, LoResponseReachesCaller,
         HiResponseReachesCaller, InProgress, LoRespond
    <3> QED
      BY <3>2, <3>3, <3>4, <3>5 DEF IInv
  <2>4. CASE ~(delay > 0)
    <3>1. delayAfterLoResp = 0 /\ loWait[c] = 0 /\ owed = 0
      BY <2>1, <2>4 DEF WaitFors, DelayAfter
    <3>2. /\ loCh' = TRUE /\ UNCHANGED <<timerLeft, delayAfterLoResp>>
          /\ timerArmed' = FALSE
          /\ loop' \in {"select", "stopped"}
          /\ closer' \in [Closers -> {"idle", "closing", "sending", "waiting", "done"}]
      BY <1>8, <2>1, <2>4 DEF LoRespond, LoopEnd, Continue, IInv, TypeOK
    <3>3. owed' = 0
      BY <1>8, <3>1 DEF LoRespond, Later
    <3>4. TypeOK'
      BY <1>8, <2>1, <3>1, <3>2, <3>3 DEF IInv, TypeOK, LoRespond, Later,
         WaitFors
    <3>5. OneLoPermit' /\ DelayPaidOnce' /\ OwedCovered'
      BY <1>8, <2>1, <3>1, <3>2, <3>3
         DEF OneLoPermit, DelayPaidOnce, OwedCovered, LoRespond
    <3>6. LoResponseReachesCaller' /\ HiResponseReachesCaller'
      BY <1>8, <2>1, <3>2 DEF IInv, TypeOK, LoResponseReachesCaller,
         HiResponseReachesCaller, InProgress, LoRespond
    <3> QED
      BY <3>4, <3>5, <3>6 DEF IInv
  <2> QED
    BY <2>3, <2>4
<1>9. ASSUME NEW c \in LoClients, NEW w \in WaitFors, LoFetched(c, w) PROVE IInv'
  <2>1. TypeOK'
    BY <1>9 DEF IInv, TypeOK, WaitFors, Later, Down, HiResponseReachesCaller,
       LoResponseReachesCaller, InProgress, LoFetched
  <2>2. OneLoPermit'
    BY <1>9 DEF IInv, OneLoPermit, TypeOK, LoFetched
  <2>3. LoResponseReachesCaller'
    BY <1>9 DEF IInv, LoResponseReachesCaller, HiResponseReachesCaller,
       InProgress, TypeOK, OneLoPermit, LoFetched
  <2>4. HiResponseReachesCaller'
    BY <1>9 DEF IInv, HiResponseReachesCaller, LoResponseReachesCaller,
       InProgress, TypeOK, LoFetched
  <2>5. DelayPaidOnce'
    BY <1>9 DEF IInv, DelayPaidOnce, OneLoPermit, TypeOK, LoFetched
  <2>6. OwedCovered'
    BY <1>9 DEF IInv, OwedCovered, OneLoPermit, DelayPaidOnce, TypeOK,
       WaitFors, Later, Down, LoFetched
  <2> QED
    BY <2>1, <2>2, <2>3, <2>4, <2>5, <2>6 DEF IInv
<1>10. CASE PermitLo
  <2>1. TypeOK'
    <3>1. (loop' \in {"select", "stopped"}) /\ (timerArmed' \in BOOLEAN)
          /\ closer' \in [Closers -> {"idle", "closing", "sending", "waiting", "done"}]
      BY <1>10 DEF IInv, TypeOK, PermitLo, LoopEnd, Continue
    <3> QED
      BY <1>10, <3>1, ZeroWait DEF IInv, TypeOK, PermitLo
  <2>2. OneLoPermit'
    BY <1>10 DEF IInv, OneLoPermit, TypeOK, PermitLo, LoopEnd, Continue
  <2>3. LoResponseReachesCaller'
    BY <1>10 DEF IInv, LoResponseReachesCaller, HiResponseReachesCaller,
       InProgress, TypeOK, OneLoPermit, PermitLo, LoopEnd, Continue
  <2>4. HiResponseReachesCaller'
    BY <1>10 DEF IInv, HiResponseReachesCaller, LoResponseReachesCaller,
       InProgress, TypeOK, PermitLo, LoopEnd, Continue
  <2>5. DelayPaidOnce'
    BY <1>10 DEF IInv, DelayPaidOnce, OneLoPermit, TypeOK, PermitLo, LoopEnd,
       Continue
  <2>6. OwedCovered'
    BY <1>10 DEF IInv, OwedCovered, OneLoPermit, DelayPaidOnce, TypeOK,
       WaitFors, Later, Down, PermitLo, LoopEnd, Continue
  <2> QED
    BY <2>1, <2>2, <2>3, <2>4, <2>5, <2>6 DEF IInv
<1>11. CASE TimerFire
  <2>1. TypeOK'
    BY <1>11 DEF IInv, TypeOK, WaitFors, Later, Down,
       HiResponseReachesCaller, LoResponseReachesCaller, InProgress, TimerFire
  <2>2. OneLoPermit'
    BY <1>11 DEF IInv, OneLoPermit, TypeOK, TimerFire
  <2>3. LoResponseReachesCaller'
    BY <1>11 DEF IInv, LoResponseReachesCaller, HiResponseReachesCaller,
       InProgress, TypeOK, OneLoPermit, TimerFire
  <2>4. HiResponseReachesCaller'
    BY <1>11 DEF IInv, HiResponseReachesCaller, LoResponseReachesCaller,
       InProgress, TypeOK, TimerFire
  <2>5. DelayPaidOnce'
    BY <1>11 DEF IInv, DelayPaidOnce, OneLoPermit, TypeOK, TimerFire
  <2>6. OwedCovered'
    BY <1>11 DEF IInv, OwedCovered, OneLoPermit, DelayPaidOnce, TypeOK,
       WaitFors, Later, Down, TimerFire
  <2> QED
    BY <2>1, <2>2, <2>3, <2>4, <2>5, <2>6 DEF IInv
<1>12. CASE Tick
  <2>1. TypeOK'
    BY <1>12 DEF IInv, TypeOK, WaitFors, Later, Down,
       HiResponseReachesCaller, LoResponseReachesCaller, InProgress, Tick
  <2>2. OneLoPermit'
    BY <1>12 DEF IInv, OneLoPermit, TypeOK, Tick
  <2>3. LoResponseReachesCaller'
    BY <1>12 DEF IInv, LoResponseReachesCaller, HiResponseReachesCaller,
       InProgress, TypeOK, OneLoPermit, Tick
  <2>4. HiResponseReachesCaller'
    BY <1>12 DEF IInv, HiResponseReachesCaller, LoResponseReachesCaller,
       InProgress, TypeOK, Tick
  <2>5. DelayPaidOnce'
    BY <1>12 DEF IInv, DelayPaidOnce, OneLoPermit, TypeOK, Tick
  <2>6. OwedCovered'
    BY <1>12 DEF IInv, OwedCovered, OneLoPermit, DelayPaidOnce, TypeOK,
       WaitFors, Later, Down, Tick
  <2> QED
    BY <2>1, <2>2, <2>3, <2>4, <2>5, <2>6 DEF IInv
<1>13. CASE UNCHANGED vars
  BY <1>13 DEF vars, IInv, TypeOK, OneLoPermit, LoResponseReachesCaller,
     InProgress, HiResponseReachesCaller, DelayPaidOnce, OwedCovered
<1> QED
  BY <1>1, <1>2, <1>3, <1>4, <1>5, <1>6, <1>7, <1>8, <1>9, <1>10, <1>11,
     <1>12, <1>13 DEF Next

(* Type correctness.                                                       *)
THEOREM TypeCorrect == Spec => []TypeOK
<1>1. IInv => TypeOK
  BY DEF IInv
<1> QED
  BY <1>1, InitIInv, NextIInv, PTL DEF Spec

(* The permission to start a low priority request is never duplicated and  *)
(* never lost.                                                             *)
THEOREM PermitConserved == Spec => []OneLoPermit
<1>1. IInv => OneLoPermit
  BY DEF IInv
<1> QED
  BY <1>1, InitIInv, NextIInv, PTL DEF Spec

(* Requests of a priority are served one by one, and the responses reach   *)
(* the callers that asked.                                                 *)
THEOREM ResponsesReachCallers == Spec => []ServedOneByOne
<1>1. IInv => ServedOneByOne
  BY DEF IInv, ServedOneByOne
<1> QED
  BY <1>1, InitIInv, NextIInv, PTL DEF Spec

(* A delay is paid once.                                                   *)
THEOREM DelayOnce == Spec => []DelayPaidOnce
<1>1. IInv => DelayPaidOnce
  BY DEF IInv
<1> QED
  BY <1>1, InitIInv, NextIInv, PTL DEF Spec

(* A low priority request does not start while a wait is owed to a         *)
(* response that came when the timer was not running.                      *)
THEOREM WaitsHonoured == Spec => WaitHonoured
<1>1. IInv => \A c \in LoClients : LoAccept(c) => owed = 0 /\ delayAfterLoResp = 0
  BY DEF IInv, OwedCovered, DelayPaidOnce, LoAccept, AtSelect
<1> QED
  BY <1>1, InitIInv, NextIInv, PTL DEF Spec, WaitHonoured

(* Safety of the refinement: every step of the fetcher is a step of        *)
(* PriorityService or leaves the calls as they are.                        *)
THEOREM ServiceSafety == Spec => Service!Init /\ [][Service!Next]_callState
<1>1. Init => Service!Init
  BY DEF Init, Service!Init, Service!Clients, Clients, callState
<1>2. IInv /\ [Next]_vars => [Service!Next]_callState
  <2> SUFFICES ASSUME IInv, [Next]_vars PROVE [Service!Next]_callState
    OBVIOUS
  <2> USE HiLoAssumption
      DEF Clients, Service!Clients, callState, AtSelect, HiChSenders, LoChSenders
  <2>1. ASSUME NEW c \in Clients, DoCall(c) PROVE Service!Submit(c)
    BY <2>1 DEF DoCall, IInv, TypeOK, Service!Submit
  <2>2. ASSUME NEW c \in Clients, HiAccept(c) PROVE Service!Start(c)
    <3>1. c \in HiClients /\ hiReq = None /\ client[c] = "sending"
      BY <2>2 DEF HiAccept, IInv, HiResponseReachesCaller
    <3> QED
      BY <2>2, <3>1 DEF HiAccept, IInv, TypeOK, HiResponseReachesCaller,
         Service!Start, Service!Peers
  <2>3. ASSUME NEW c \in LoClients, LoAccept(c) PROVE Service!Start(c)
    BY <2>3 DEF LoAccept, IInv, TypeOK, OneLoPermit, LoResponseReachesCaller,
       InProgress, Service!Start, Service!Peers
  <2>4. ASSUME NEW w \in WaitFors, HiRespond(w)
        PROVE hiReq \in Clients /\ Service!Answer(hiReq)
    BY <2>4 DEF HiRespond, IInv, TypeOK, HiResponseReachesCaller,
       Service!Answer
  <2>5. ASSUME NEW c \in LoClients, LoRespond(c) PROVE Service!Answer(c)
    BY <2>5 DEF LoRespond, IInv, TypeOK, LoResponseReachesCaller, InProgress,
       Service!Answer
  <2>6. ASSUME UNCHANGED client PROVE UNCHANGED callState
    BY <2>6
  <2>7. ASSUME \/ \E k \in Closers : CloseCall(k) \/ CloseMark(k) \/ CloseAccept(k)
               \/ \E c \in LoClients, w \in WaitFors : LoFetched(c, w)
               \/ PermitLo \/ TimerFire \/ Tick \/ UNCHANGED vars
        PROVE UNCHANGED client
    BY <2>7 DEF CloseCall, CloseMark, CloseAccept, LoFetched, PermitLo,
       TimerFire, Tick, vars, callVars
  <2> HIDE DEF callState
  <2> QED
    BY <2>1, <2>2, <2>3, <2>4, <2>5, <2>6, <2>7 DEF Next, Service!Next
<1> QED
  BY <1>1, <1>2, InitIInv, NextIInv, PTL DEF Spec
============================================================================
