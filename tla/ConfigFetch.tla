----------------------------- MODULE ConfigFetch -----------------------------
(***************************************************************************)
(* configfetch/configfetch.go: PeriodicConfigFetcher, the goroutine        *)
(* fetchAll that it starts for each fetch, and main, composed with the     *)
(* culler.                                                                 *)
(*                                                                         *)
(*   main --stopPCFCh--> PeriodicConfigFetcher --stopCh--> fetchAll        *)
(*                         |     ^---doneCh, stopResponseCh---|            *)
(*                         +--recvCh, stopCh--> culler                     *)
(*                                                                         *)
(* File 1 is the list of routes, which is fetched first; the others follow *)
(* if it was received.  A fetch is for the next number in Dirs, whenever   *)
(* it is time.                                                             *)
(***************************************************************************)
EXTENDS ConfigCuller

CONSTANTS
  MaxWait,     (* retries are given up when the wait would be so long (60) *)
  MaxRestarts  (* bound: restarts of the program                           *)

ASSUME FetchAssumption ==
  /\ MaxWait \in Nat \ {0} /\ MaxRestarts \in Nat
  /\ 1 \in Dirs
  /\ 1 \in Files

VARIABLES
  main,       (* "run", "sending", "waiting" or "answered"                 *)
  pcf,        (* PeriodicConfigFetcher: "fetching", "adding", "waiting",   *)
              (* "stopping", "stopSent", "stopTaken", "answering", "done"  *)
  stopping,   (* is stoppedPCFCh set (and stopPCFCh nil)?                  *)
  fetcher,    (* fetchAll: "none", "check", "fetch", "wait", "answer"      *)
  file,       (* the file it fetches                                       *)
  waitFor,    (* n of fetchWithRetries                                     *)
  stopCh,     (* is there a value in the channel?                          *)
  doneCh,     (* and in this one?                                          *)
  fetches,    (* fetches started, the last into the directory of that name *)
  restarts

fetchVars == <<fetcher, file, waitFor, stopCh, doneCh>>
vars == <<diskVars, cullerVars, main, pcf, stopping, fetchVars, fetches,
          restarts>>

RouteList == 1

(* A fetch starts: fetchOnce and StartAgencyConfigFetcher.                 *)
StartAgencyConfigFetcher ==
  /\ fetches' = fetches + 1
  /\ pcf' = "fetching"
  /\ fetcher' = "check"
  /\ file' = RouteList
  /\ waitFor' = 1
  /\ stopCh' = FALSE
  /\ doneCh' = FALSE

Init ==
  /\ InitDisk
  /\ InitCuller
  /\ main = "run"
  /\ pcf = "fetching"
  /\ stopping = FALSE
  /\ fetcher = "check"
  /\ file = RouteList
  /\ waitFor = 1
  /\ stopCh = FALSE
  /\ doneCh = FALSE
  /\ fetches = 1
  /\ restarts = 0

----------------------------------------------------------------------------
(* fetchAll, in its own goroutine.                                         *)

(* It takes the request to stop, and returns from all its calls.           *)
FetcherStops ==
  /\ fetcher \in {"check", "wait"}
  /\ stopCh
  /\ stopCh' = FALSE
  /\ fetcher' = "answer"
  /\ file' = RouteList
  /\ waitFor' = 1
  /\ UNCHANGED <<doneCh, diskVars>>

(* doWait(0): the timer may be chosen although there is a request to stop. *)
Check ==
  /\ fetcher = "check"
  /\ fetcher' = "fetch"
  /\ UNCHANGED <<file, waitFor, stopCh, doneCh, diskVars>>

(* On to the next file, if there is one, else report on doneCh.            *)
NextFile(received) ==
  /\ waitFor' = 1
  /\ IF file + 1 \in Files /\ (received \/ file # RouteList)
     THEN file' = file + 1 /\ fetcher' = "check" /\ UNCHANGED doneCh
     ELSE file' = RouteList /\ fetcher' = "none" /\ doneCh' = TRUE
  /\ UNCHANGED stopCh

(* The file is fetched and written.                                        *)
Fetched ==
  /\ fetcher = "fetch"
  /\ \E p \in Items :
       /\ p[1] = file
       /\ disk' = [disk EXCEPT ![fetches] = @ \union {p}]
       /\ written' = [written EXCEPT ![fetches] = @ \union {p}]
  /\ exists' = exists \union {fetches}
  /\ NextFile(TRUE)
  /\ UNCHANGED <<marked, unmarkable>>

(* Written it is not: the write fails, or the response is an error for     *)
(* which fetchWithRetries does not try again or has the wrong status.      *)
NotSaved ==
  /\ fetcher = "fetch"
  /\ \E received \in BOOLEAN : NextFile(received)
  /\ UNCHANGED diskVars

FetchFails ==
  /\ fetcher = "fetch"
  /\ fetcher' = "wait"
  /\ UNCHANGED <<file, waitFor, stopCh, doneCh, diskVars>>

WaitOver ==
  /\ fetcher = "wait"
  /\ IF 2 * waitFor < MaxWait
     THEN /\ waitFor' = 2 * waitFor
          /\ fetcher' = "fetch"
          /\ UNCHANGED <<file, stopCh, doneCh>>
     ELSE NextFile(FALSE)
  /\ UNCHANGED diskVars

FetcherStep ==
  /\ \/ FetcherStops
     \/ Check
     \/ Fetched
     \/ NotSaved
     \/ FetchFails
     \/ WaitOver
  /\ UNCHANGED <<cullerVars, main, pcf, stopping, fetches, restarts>>

----------------------------------------------------------------------------
(* PeriodicConfigFetcher.                                                  *)

(* fetchOnce: the fetch is finished; AddDir waits for the culler.          *)
FetchDone ==
  /\ pcf = "fetching"
  /\ doneCh
  /\ doneCh' = FALSE
  /\ pcf' = "adding"
  /\ UNCHANGED <<main, stopping, fetcher, file, waitFor, stopCh, fetches,
                 cullerVars>>

AfterFetch_StopForgotten == "waiting"
AfterFetch == IF stopping THEN "stopping" ELSE "waiting"

AddDir ==
  /\ pcf = "adding"
  /\ ReceiveDir(fetches)
  /\ pcf' = AfterFetch
  /\ UNCHANGED <<main, stopping, fetchVars, fetches>>

(* fetchOnce: main asks to stop during a fetch.                            *)
StopFetch ==
  /\ pcf = "fetching"
  /\ main = "sending"
  /\ main' = "waiting"
  /\ stopping' = TRUE
  /\ stopCh' = TRUE
  /\ UNCHANGED <<pcf, fetcher, file, waitFor, doneCh, fetches, cullerVars>>

(* fetchOnce: the fetch has been stopped.                                  *)
FetchStopped ==
  /\ pcf = "fetching"
  /\ fetcher = "answer"
  /\ fetcher' = "none"
  /\ pcf' = AfterFetch
  /\ UNCHANGED <<main, stopping, file, waitFor, stopCh, doneCh, fetches,
                 cullerVars>>

(* fetchToday: main asks to stop between fetches.                          *)
StopWaiting ==
  /\ pcf = "waiting"
  /\ main = "sending"
  /\ main' = "waiting"
  /\ stopping' = TRUE
  /\ pcf' = "stopping"
  /\ UNCHANGED <<fetchVars, fetches, cullerVars>>

(* fetchToday: one of the fetch times is reached.                          *)
FetchTime ==
  /\ pcf = "waiting"
  /\ fetches + 1 \in Dirs
  /\ StartAgencyConfigFetcher
  /\ UNCHANGED <<main, stopping, cullerVars>>

(* configCuller.Stop, in RequestStop: doStop is set, then the request is   *)
(* sent, when the culler is at its select, and then answered.              *)
RequestStop_DoStopNotSet ==
  /\ pcf = "stopping"
  /\ pcf' = "stopSent"
  /\ UNCHANGED <<main, stopping, fetchVars, fetches, cullerVars>>

RequestStop ==
  /\ pcf = "stopping"
  /\ doStop' = TRUE
  /\ pcf' = "stopSent"
  /\ UNCHANGED <<main, stopping, fetchVars, fetches, culler, seqVars, cullVars,
                 chVars>>

StopTaken ==
  /\ pcf = "stopSent"
  /\ ReceiveStop
  /\ pcf' = "stopTaken"
  /\ UNCHANGED <<main, stopping, fetchVars, fetches>>

CullerStopped ==
  /\ pcf = "stopTaken"
  /\ AnswerStop
  /\ pcf' = "answering"
  /\ UNCHANGED <<main, stopping, fetchVars, fetches>>

Answer ==
  /\ pcf = "answering"
  /\ main = "waiting"
  /\ main' = "answered"
  /\ pcf' = "done"
  /\ UNCHANGED <<stopping, fetchVars, fetches, cullerVars>>

PcfStep ==
  /\ \/ FetchDone
     \/ AddDir
     \/ StopFetch
     \/ FetchStopped
     \/ StopWaiting
     \/ FetchTime
     \/ RequestStop
     \/ StopTaken
     \/ CullerStopped
     \/ Answer
  /\ UNCHANGED <<diskVars, restarts>>

----------------------------------------------------------------------------
CullerRuns ==
  /\ CullerStep
  /\ UNCHANGED <<main, pcf, stopping, fetchVars, fetches, restarts>>

(* A signal: main asks to stop.                                            *)
AskStop ==
  /\ main = "run"
  /\ main' = "sending"
  /\ UNCHANGED <<diskVars, cullerVars, pcf, stopping, fetchVars, fetches,
                 restarts>>

(* The process ends, by a second signal or otherwise, and is started anew. *)
Restart ==
  /\ restarts < MaxRestarts
  /\ fetches + 1 \in Dirs
  /\ restarts' = restarts + 1
  /\ main' = "run"
  /\ stopping' = FALSE
  /\ StartAgencyConfigFetcher
  /\ culler' = "select"
  /\ firstDir' = NoDir
  /\ prevDir' = NoDir
  /\ currentDir' = NoDir
  /\ toCull' = <<>>
  /\ toVisit' = {}
  /\ encounteredError' = FALSE
  /\ doStop' = FALSE
  /\ UNCHANGED <<diskVars, chVars>>

Next ==
  \/ FetcherStep
  \/ PcfStep
  \/ CullerRuns
  \/ AskStop
  \/ Restart

(* Goroutines run, and a fetch and an I/O operation end.                   *)
Fairness == WF_vars(FetcherStep) /\ WF_vars(PcfStep) /\ WF_vars(CullerRuns)

Spec == Init /\ [][Next]_vars
FairSpec == Spec /\ Fairness

----------------------------------------------------------------------------
(* Properties.                                                             *)

(* Every variable keeps its type.                                          *)
TypeOK ==
  /\ CullerTypeOK
  /\ main \in {"run", "sending", "waiting", "answered"}
  /\ pcf \in {"fetching", "adding", "waiting", "stopping", "stopSent",
              "stopTaken", "answering", "done"}
  /\ stopping \in BOOLEAN
  /\ fetcher \in {"none", "check", "fetch", "wait", "answer"}
  /\ file \in Files
  /\ waitFor \in 1 .. MaxWait
  /\ stopCh \in BOOLEAN /\ doneCh \in BOOLEAN
  /\ fetches \in Dirs
  /\ restarts \in 0 .. MaxRestarts

(* "Signal culler to stop immediately" (config_dir_cull.go:267): once the  *)
(* culler has been asked to stop nothing is written any more, and no file  *)
(* is removed but the one that had been found when there was no request;   *)
(* once it has taken the request none is.  Once main is told that all has  *)
(* stopped nothing on the disk changes unless the program is started       *)
(* again: neither a fetch nor a deletion goes on in the background.        *)
StoppedMeansQuiet ==
  /\ []TypeOK
  /\ [][restarts' = restarts =>
          /\ pcf = "stopSent" =>
               /\ UNCHANGED written
               /\ UNCHANGED disk \/ culler = "remove"
               /\ culler' = "remove" => culler = "remove"
          /\ pcf \in {"stopTaken", "answering"} => UNCHANGED disk
          /\ main = "answered" => UNCHANGED diskVars]_vars

(* A request to stop is answered, whether it comes during a fetch, as the  *)
(* fetch is finishing, while the culler is comparing or deleting or while  *)
(* a directory waits to be added.                                          *)
StopAnswered ==
  main \in {"sending", "waiting"} ~> main = "answered" \/ main = "run"
============================================================================
