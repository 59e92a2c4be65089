--------------------------- MODULE FetchPipeline ---------------------------
(***************************************************************************)
(* nblocations/controller.go: the goroutines that fetch vehicle locations, *)
(* split the responses, archive them and aggregate them, the channels      *)
(* between them, and the cleaner that shuts them down when main asks:      *)
(*                                                                         *)
(*   PeriodicFetcher --splitter--> RunSplitter --csv--> RunAggegator       *)
(*                                             --vlr--> RunVLRArchiver     *)
(*                                                                         *)
(* Responses are numbered in the order they are fetched.  A select chooses *)
(* any of its ready cases.  PeriodicFetcher's timers and retries have a    *)
(* module of their own; here it fetches whenever it is at its select.      *)
(***************************************************************************)
EXTENDS Naturals, Sequences, FiniteSets

CONSTANTS
  Cap,           (* capacity of the three response channels (10)           *)
  MaxErrors,     (* archiving errors in a row that are survived (10)       *)
  Empties,       (* the responses with no vehicle location in them         *)
  Nils,          (* those that are nil: there was no answer at all         *)
  Slow,          (* can work take longer than the cleaner's 20 s timeouts? *)
  Ticking,       (* does RunAggegator's 10 minute ticker fire?             *)
  Failing,       (* can AddResponse fail?                                  *)
  Breaking,      (* can a response have what the aggregator panics on?     *)
  MaxResponses   (* bound: responses fetched                               *)

ASSUME PipelineAssumption ==
  /\ Cap \in Nat \ {0}
  /\ MaxErrors \in Nat
  /\ MaxResponses \in Nat
  /\ Slow \in BOOLEAN /\ Ticking \in BOOLEAN /\ Failing \in BOOLEAN
  /\ Breaking \in BOOLEAN

Channels == {"splitter", "csv", "vlr"}
Sinks    == {"csv", "vlr"}
Stoppable == {"fetcher", "csv", "vlr"}
None == 0  (* no response *)

VARIABLES
  pc,          (* where each goroutine is                                  *)
  queue,       (* contents of the response channels                        *)
  isClosed,    (* have they been closed?                                   *)
  hand,        (* the response a goroutine is working on                   *)
  fetched,     (* responses fetched so far                                 *)
  handled,     (* history: responses each sink has taken and dealt with    *)
  errorCount,  (* RunVLRArchiver's errorCount                              *)
  unwritten,   (* aggregated responses whose locations are not all written *)
  csvOpen,     (* are the aggregator and the CSV archiver open (non-nil)?  *)
  stopAsked,   (* has main sent on primaryStopCh?                          *)
  step,        (* how far RunCleaner is in CleanupPlan                     *)
  awaiting,    (* is it waiting within that step?                          *)
  timedOut,    (* history: has the cleaner given up waiting?               *)
  dead         (* why the process died, if it did                          *)

vars == <<pc, queue, isClosed, hand, fetched, handled, errorCount, unwritten,
          csvOpen, stopAsked, step, awaiting, timedOut, dead>>

cleanerVars == <<stopAsked, step, awaiting, timedOut>>
csvVars == <<unwritten, csvOpen>>

Init ==
  /\ pc = [fetcher |-> "fetch", splitter |-> "receive", csv |-> "select",
           vlr |-> "select"]
  /\ queue = [c \in Channels |-> <<>>]
  /\ isClosed = [c \in Channels |-> FALSE]
  /\ hand = [fetcher |-> None, splitter |-> None, csv |-> None, vlr |-> None]
  /\ fetched = 0
  /\ handled = [s \in Sinks |-> <<>>]
  /\ errorCount = 0
  /\ unwritten = {}
  /\ csvOpen = TRUE
  /\ stopAsked = FALSE
  /\ step = 0
  /\ awaiting = FALSE
  /\ timedOut = FALSE
  /\ dead = "no"

Goto(g, from, to) == pc[g] = from /\ pc' = [pc EXCEPT ![g] = to]

(* Send and receive on a buffered channel.  (X_Y is X with the fault Y     *)
(* seeded; PROJECT.json says which property it must break.)                *)
Put_DropsWhenFull(c, v) ==
  queue' = [queue EXCEPT ![c] = IF Len(@) < Cap THEN Append(@, v) ELSE @]

Put(c, v) ==
  /\ Len(queue[c]) < Cap
  /\ queue' = [queue EXCEPT ![c] = Append(@, v)]

Take(c) ==
  /\ queue[c] # <<>>
  /\ queue' = [queue EXCEPT ![c] = Tail(@)]

Drained(c) == isClosed[c] /\ queue[c] = <<>>

----------------------------------------------------------------------------
(* PeriodicFetcher.                                                        *)

FetcherTick ==
  /\ fetched < MaxResponses
  /\ Goto("fetcher", "select", "fetch")
  /\ UNCHANGED <<queue, isClosed, hand, fetched, handled, errorCount, csvVars,
                 cleanerVars, dead>>

Fetch ==
  /\ fetched < MaxResponses
  /\ Goto("fetcher", "fetch", "send")
  /\ fetched' = fetched + 1
  /\ hand' = [hand EXCEPT !.fetcher = fetched + 1]
  /\ UNCHANGED <<queue, isClosed, handled, errorCount, csvVars, cleanerVars, dead>>

FetcherSend ==
  /\ Goto("fetcher", "send", "select")
  /\ Put("splitter", hand.fetcher)
  /\ hand' = [hand EXCEPT !.fetcher = None]
  /\ UNCHANGED <<isClosed, fetched, handled, errorCount, csvVars, cleanerVars, dead>>

(* Told to stop: the response channel is closed, then the cleaner answered.*)
FetcherClose ==
  /\ Goto("fetcher", "stopping", "answer")
  /\ isClosed' = [isClosed EXCEPT !.splitter = TRUE]
  /\ UNCHANGED <<queue, hand, fetched, handled, errorCount, csvVars,
                 cleanerVars, dead>>

----------------------------------------------------------------------------
(* RunSplitter: each response goes to csv first, then to vlr.              *)

SplitterReceive ==
  /\ Goto("splitter", "receive", "csv")
  /\ Take("splitter")
  /\ hand' = [hand EXCEPT !.splitter = Head(queue.splitter)]
  /\ UNCHANGED <<isClosed, fetched, handled, errorCount, csvVars, cleanerVars, dead>>

SplitterToCsv ==
  /\ Goto("splitter", "csv", "vlr")
  /\ Put("csv", hand.splitter)
  /\ UNCHANGED <<isClosed, hand, fetched, handled, errorCount, csvVars,
                 cleanerVars, dead>>

SplitterToVlr ==
  /\ Goto("splitter", "vlr", "receive")
  /\ Put("vlr", hand.splitter)
  /\ hand' = [hand EXCEPT !.splitter = None]
  /\ UNCHANGED <<isClosed, fetched, handled, errorCount, csvVars, cleanerVars, dead>>

SplitterCloseCsv ==
  /\ Drained("splitter")
  /\ Goto("splitter", "receive", "closeVlr")
  /\ isClosed' = [isClosed EXCEPT !.csv = TRUE]
  /\ UNCHANGED <<queue, hand, fetched, handled, errorCount, csvVars,
                 cleanerVars, dead>>

SplitterCloseVlr ==
  /\ Goto("splitter", "closeVlr", "returned")
  /\ isClosed' = [isClosed EXCEPT !.vlr = TRUE]
  /\ UNCHANGED <<queue, hand, fetched, handled, errorCount, csvVars,
                 cleanerVars, dead>>

----------------------------------------------------------------------------
(* RunVLRArchiver.  (Once its input is closed and drained it sets the      *)
(* field vlrArchiverInputCh to nil without synchronisation; the cleaner,   *)
(* which reads the field, finds length 0 either way.)                      *)

VlrReceive ==
  /\ Goto("vlr", "select", "add")
  /\ Take("vlr")
  /\ hand' = [hand EXCEPT !.vlr = Head(queue.vlr)]
  /\ UNCHANGED <<isClosed, fetched, handled, errorCount, csvVars, cleanerVars, dead>>

(* archiver.AddResponse, and the count of errors in a row.                 *)
VlrAdd ==
  /\ hand.vlr \notin Nils
  /\ Goto("vlr", "add", "select")
  /\ hand' = [hand EXCEPT !.vlr = None]
  /\ handled' = [handled EXCEPT !.vlr = Append(@, hand.vlr)]
  /\ \/ errorCount' = 0 /\ UNCHANGED dead
     \/ /\ Failing
        /\ errorCount' = errorCount + 1
        /\ dead' = IF errorCount + 1 > MaxErrors THEN "fatal" ELSE dead
  /\ UNCHANGED <<queue, isClosed, fetched, csvVars, cleanerVars>>

(* AddResponse looks into what may be nil.                                 *)
VlrPanics ==
  /\ pc.vlr = "add"
  /\ hand.vlr \in Nils
  /\ dead' = "panic"
  /\ UNCHANGED <<pc, queue, isClosed, hand, fetched, handled, errorCount,
                 csvVars, cleanerVars>>

VlrClose ==
  /\ Goto("vlr", "stopping", "answer")
  /\ UNCHANGED <<queue, isClosed, hand, fetched, handled, errorCount, csvVars,
                 cleanerVars, dead>>

----------------------------------------------------------------------------
(* RunAggegator.                                                           *)

(* doClose: what the aggregator still holds is written, and both closed.   *)
CsvDoClose == csvOpen' = FALSE /\ unwritten' = {}

CsvReceive ==
  /\ Goto("csv", "select", "insert")
  /\ Take("csv")
  /\ hand' = [hand EXCEPT !.csv = Head(queue.csv)]
  /\ UNCHANGED <<isClosed, fetched, handled, errorCount, csvVars, cleanerVars, dead>>

(* Insert, RemoveStaleReports and WriteLocations: the locations of some of *)
(* the responses are now all written.                                      *)
CsvInsert ==
  /\ hand.csv \notin Nils
  /\ Goto("csv", "insert", "select")
  /\ hand' = [hand EXCEPT !.csv = None]
  /\ handled' = [handled EXCEPT !.csv = Append(@, hand.csv)]
  /\ IF hand.csv \in Empties
     THEN UNCHANGED unwritten
     ELSE \E kept \in SUBSET (unwritten \union {hand.csv}) : unwritten' = kept
  /\ UNCHANGED <<queue, isClosed, fetched, errorCount, csvOpen, cleanerVars, dead>>

(* RunAggegator looks into what may be nil; and Insert does not expect a   *)
(* location that is nil, nor one vehicle twice.                            *)
CsvPanics ==
  /\ pc.csv = "insert"
  /\ hand.csv \in Nils \/ (Breaking /\ hand.csv \notin Empties)
  /\ dead' = "panic"
  /\ UNCHANGED <<pc, queue, isClosed, hand, fetched, handled, errorCount,
                 csvVars, cleanerVars>>

CsvInputClosed ==
  /\ pc.csv = "select"
  /\ Drained("csv")
  /\ CsvDoClose
  /\ UNCHANGED <<pc, queue, isClosed, hand, fetched, handled, errorCount,
                 cleanerVars, dead>>

(* archiver.PartialFlush(), whatever doClose did to archiver.              *)
CsvTick ==
  /\ Ticking
  /\ pc.csv = "select"
  /\ dead' = IF csvOpen THEN dead ELSE "panic"
  /\ UNCHANGED <<pc, queue, isClosed, hand, fetched, handled, errorCount,
                 csvVars, cleanerVars>>

CsvClose ==
  /\ Goto("csv", "stopping", "answer")
  /\ IF csvOpen THEN CsvDoClose ELSE UNCHANGED csvVars
  /\ UNCHANGED <<queue, isClosed, hand, fetched, handled, errorCount,
                 cleanerVars, dead>>

----------------------------------------------------------------------------
(* RunCleaner.                                                             *)

Stop(g)  == [op |-> "stop", who |-> g]
Empty(c) == [op |-> "empty", who |-> c]

CleanupPlan_ArchiversFirst ==
  <<Stop("vlr"), Stop("csv"), Stop("fetcher")>>

CleanupPlan_NoWaitForVlr ==
  <<Stop("fetcher"), Empty("splitter"), Stop("vlr"), Empty("csv"), Stop("csv")>>

CleanupPlan ==
  <<Stop("fetcher"), Empty("splitter"), Empty("vlr"), Stop("vlr"),
    Empty("csv"), Stop("csv")>>

Current(op, who) == step \in DOMAIN CleanupPlan /\ CleanupPlan[step] = [op |-> op, who |-> who]
Reported == step = Len(CleanupPlan) + 1

AskStop ==
  /\ ~stopAsked
  /\ stopAsked' = TRUE
  /\ UNCHANGED <<pc, queue, isClosed, hand, fetched, handled, errorCount,
                 csvVars, step, awaiting, timedOut, dead>>

CleanerStart ==
  /\ stopAsked
  /\ step = 0
  /\ step' = 1
  /\ UNCHANGED <<pc, queue, isClosed, hand, fetched, handled, errorCount,
                 csvVars, stopAsked, awaiting, timedOut, dead>>

(* stopOne: ch <- stoppedCh, which has no timeout, meets g's select ...    *)
StopSend(g) ==
  /\ Current("stop", g)
  /\ ~awaiting
  /\ Goto(g, "select", "stopping")
  /\ awaiting' = TRUE
  /\ UNCHANGED <<queue, isClosed, hand, fetched, handled, errorCount, csvVars,
                 stopAsked, step, timedOut, dead>>

(* ... and g's answer meets the cleaner's receive.                         *)
StopAnswered(g) ==
  /\ Current("stop", g)
  /\ awaiting
  /\ Goto(g, "answer", "returned")
  /\ awaiting' = FALSE
  /\ step' = step + 1
  /\ UNCHANGED <<queue, isClosed, hand, fetched, handled, errorCount, csvVars,
                 stopAsked, timedOut, dead>>

(* waitForEmpty returns when it finds len(inputCh) = 0 ...                 *)
EmptyDone(c) ==
  /\ Current("empty", c)
  /\ queue[c] = <<>>
  /\ awaiting' = FALSE
  /\ step' = step + 1
  /\ UNCHANGED <<pc, queue, isClosed, hand, fetched, handled, errorCount,
                 csvVars, stopAsked, timedOut, dead>>

EmptyWait(c) ==
  /\ Current("empty", c)
  /\ ~awaiting
  /\ queue[c] # <<>>
  /\ awaiting' = TRUE
  /\ UNCHANGED <<pc, queue, isClosed, hand, fetched, handled, errorCount,
                 csvVars, stopAsked, step, timedOut, dead>>

(* ... and either of them when its 20 s timer fires.                       *)
CleanerTimeout ==
  /\ Slow
  /\ awaiting
  /\ awaiting' = FALSE
  /\ step' = step + 1
  /\ timedOut' = TRUE
  /\ UNCHANGED <<pc, queue, isClosed, hand, fetched, handled, errorCount,
                 csvVars, stopAsked, dead>>

----------------------------------------------------------------------------
FetcherStep  == FetcherTick \/ Fetch \/ FetcherSend \/ FetcherClose
SplitterStep ==
  SplitterReceive \/ SplitterToCsv \/ SplitterToVlr \/ SplitterCloseCsv \/ SplitterCloseVlr
VlrStep == VlrReceive \/ VlrAdd \/ VlrPanics \/ VlrClose
CsvStep == CsvReceive \/ CsvInsert \/ CsvPanics \/ CsvInputClosed \/ CsvClose
CleanerStep ==
  \/ CleanerStart
  \/ \E g \in Stoppable : StopAnswered(g)
  \/ \E c \in Channels : EmptyDone(c) \/ EmptyWait(c)

Next ==
  /\ dead = "no"
  /\ \/ FetcherStep
     \/ SplitterStep
     \/ VlrStep
     \/ CsvStep
     \/ CsvTick
     \/ CleanerStep
     \/ \E g \in Stoppable : StopSend(g)
     \/ CleanerTimeout
     \/ AskStop

Running(A) == dead = "no" /\ A

(* Goroutines that can run do run.  A goroutine at a select that is again  *)
(* and again ready to take the stop request takes it (the choice is        *)
(* random), hence strong fairness of StopSend.  Main need not ask to stop, *)
(* and timeouts and ticks need not happen.                                 *)
Fairness ==
  /\ WF_vars(Running(FetcherStep))
  /\ WF_vars(Running(SplitterStep))
  /\ WF_vars(Running(VlrStep))
  /\ WF_vars(Running(CsvStep))
  /\ WF_vars(Running(CleanerStep))
  /\ \A g \in Stoppable : SF_vars(Running(StopSend(g)))

Spec == Init /\ [][Next]_vars
FairSpec == Spec /\ Fairness

----------------------------------------------------------------------------
(* Properties.                                                             *)

Responses == 1 .. MaxResponses
MaybeResponse == Responses \union {None}

(* Every variable keeps its type, and no channel holds more than Cap.      *)
TypeOK ==
  /\ pc.fetcher \in {"fetch", "send", "select", "stopping", "answer", "returned"}
  /\ pc.splitter \in {"receive", "csv", "vlr", "closeVlr", "returned"}
  /\ pc.csv \in {"select", "insert", "stopping", "answer", "returned"}
  /\ pc.vlr \in {"select", "add", "stopping", "answer", "returned"}
  /\ DOMAIN queue = Channels
  /\ \A c \in Channels : queue[c] \in Seq(Responses) /\ Len(queue[c]) <= Cap
  /\ isClosed \in [Channels -> BOOLEAN]
  /\ DOMAIN hand = {"fetcher", "splitter", "csv", "vlr"}
  /\ \A g \in DOMAIN hand : hand[g] \in MaybeResponse
  /\ fetched \in 0 .. MaxResponses
  /\ DOMAIN handled = Sinks
  /\ \A s \in Sinks : handled[s] \in Seq(Responses)
  /\ errorCount \in 0 .. MaxErrors + 1
  /\ unwritten \in SUBSET Responses
  /\ csvOpen \in BOOLEAN
  /\ stopAsked \in BOOLEAN
  /\ step \in 0 .. Len(CleanupPlan) + 1
  /\ awaiting \in BOOLEAN
  /\ timedOut \in BOOLEAN
  /\ dead \in {"no", "panic", "fatal"}

One(v) == IF v = None THEN <<>> ELSE <<v>>

(* What the splitter still owes a sink of the response in its hand.        *)
OwedTo(s) ==
  IF s = "csv" /\ pc.splitter = "vlr" THEN <<>> ELSE One(hand.splitter)

Pipe(s) ==
  handled[s] \o One(hand[s]) \o queue[s] \o OwedTo(s) \o queue.splitter
    \o One(hand.fetcher)

(* Whatever the interleaving, the responses a sink has dealt with, those   *)
(* on their way to it and the one in the fetcher's hand are exactly those  *)
(* fetched, in order: nothing is lost, repeated or overtaken on the way.   *)
NothingLostOnTheWay ==
  \A s \in Sinks : Pipe(s) = [i \in 1 .. fetched |-> i]

(* A channel is closed only once nothing will be sent on it: Go panics on  *)
(* a send on a closed channel.                                             *)
NoSendOnClosed ==
  /\ isClosed.splitter => pc.fetcher \in {"answer", "returned"}
  /\ \A s \in Sinks : isClosed[s] =>
       isClosed.splitter /\ queue.splitter = <<>> /\ hand.splitter = None

Missing(s) == Responses \ {handled[s][i] : i \in DOMAIN handled[s]}

(* Once the cleaner reports that all is stopped, without having timed out, *)
(* each sink has dealt with every response fetched, and all that was       *)
(* aggregated has been written ("it will close its output channel, which   *)
(* will propagate to the splitter's output channels once it has drained    *)
(* its input channel", controller.go:281).  The last response fetched is   *)
(* the exception: a channel is empty while the splitter holds what it took *)
(* from it, and waitForEmpty looks at the channel alone.                   *)
OnlyLastLost ==
  Reported /\ ~timedOut =>
    /\ \A s \in Sinks : Missing(s) \intersect (1 .. fetched - 1) = {}
    /\ unwritten = {} /\ ~csvOpen

(* The pipeline is sound: together, all of the above.                      *)
ResponsesKept ==
  /\ TypeOK
  /\ NothingLostOnTheWay
  /\ NoSendOnClosed
  /\ OnlyLastLost

(* "Stops when it receives a |chan bool| on stopFetchAndArchiveCh; after   *)
(* stopping it sends true back" (controller.go:28): a request to stop is   *)
(* answered, whatever is queued and whether or not the cleaner times out:  *)
(* no goroutine waits for one that waits for it.  The exception is that    *)
(* the process may have died: by too many archiving errors, by a response  *)
(* that is nil or that the aggregator panics on, or because the ticker     *)
(* fired between the closing of the archiver and the stop.                 *)
StopAnsweredOrDead == stopAsked ~> Reported \/ dead # "no"

LastHandled(s) == IF handled[s] = <<>> THEN 0 ELSE handled[s][Len(handled[s])]

(* Each sink gets the responses in the order they were fetched, without a  *)
(* gap and without a repetition: the pipeline implements Tee.              *)
Delivery == INSTANCE Tee WITH got <- [s \in Sinks |-> LastHandled(s)]
ImplementsTee == Delivery!Spec
============================================================================
