-------------------------- MODULE PriorityService --------------------------
(***************************************************************************)
(* What util.HiLoHttpFetcher promises its callers: a call of Do is queued, *)
(* served and answered once, and two calls of the same priority are never  *)
(* served at the same time (the web service must not see two parallel      *)
(* requests for configuration, nor two for locations).                     *)
(***************************************************************************)
CONSTANTS
  HiClients,  (* callers of Do(true, ...)  *)
  LoClients   (* callers of Do(false, ...) *)

VARIABLE call (* call[c]: how far the call of Do made by c has got *)

Clients == HiClients \union LoClients

Init == call = [c \in Clients |-> "idle"]

Peers(c) == IF c \in HiClients THEN HiClients ELSE LoClients

Submit(c) ==
  /\ call[c] = "idle"
  /\ call' = [call EXCEPT ![c] = "queued"]

Start(c) ==
  /\ call[c] = "queued"
  /\ \A d \in Peers(c) : call[d] # "served"
  /\ call' = [call EXCEPT ![c] = "served"]

Answer(c) ==
  /\ call[c] = "served"
  /\ call' = [call EXCEPT ![c] = "idle"]

Next == \E c \in Clients : Submit(c) \/ Start(c) \/ Answer(c)

(* A caller may never call; a call that is queued is started, one that is  *)
(* served is answered.                                                     *)
Fairness == \A c \in Clients : SF_call(Start(c)) /\ WF_call(Answer(c))

(* The promise once Close may be called: a call that is being served is    *)
(* still answered, a queued one may be left queued.                        *)
ClosableSpec == Init /\ [][Next]_call /\ \A c \in Clients : WF_call(Answer(c))

Spec == Init /\ [][Next]_call /\ Fairness
============================================================================
