------------------------ MODULE FetchPipelineProofs ------------------------
(***************************************************************************)
(* Proofs about FetchPipeline, for channels of any capacity, any number of *)
(* responses and of errors survived, with and without timeouts, ticks and  *)
(* failing writes.                                                         *)
(***************************************************************************)
EXTENDS FetchPipeline, SequenceTheorems, TLAPS

Goroutines == {"fetcher", "splitter", "csv", "vlr"}

(* A goroutine has a response in its hand where it works on one.           *)
HandsMatch ==
  /\ DOMAIN pc = Goroutines
  /\ hand.fetcher # None <=> pc.fetcher = "send"
  /\ hand.splitter # None <=> pc.splitter \in {"csv", "vlr"}
  /\ hand.vlr # None <=> pc.vlr = "add"
  /\ hand.csv # None <=> pc.csv = "insert"

----------------------------------------------------------------------------
(* Where the responses are, by their numbers: how many are at each place   *)
(* of the way to a sink, and that they follow those further on.            *)

(* q holds what comes after a.                                             *)
Runs(q, a) == \A i \in 1 .. Len(q) : q[i] = a + i

InHand(g) == IF hand[g] = None THEN 0 ELSE 1
Owed(s) == IF s = "csv" /\ pc.splitter = "vlr" THEN 0 ELSE InHand("splitter")

Taken(s)  == Len(handled[s]) + InHand(s)
Queued(s) == Taken(s) + Len(queue[s])
Split(s)  == Queued(s) + Owed(s)
Sent(s)   == Split(s) + Len(queue.splitter)

InOrder(s) ==
  /\ Runs(handled[s], 0)
  /\ hand[s] # None => hand[s] = Len(handled[s]) + 1
  /\ Runs(queue[s], Taken(s))
  /\ Owed(s) = 1 => hand.splitter = Queued(s) + 1
  /\ Runs(queue.splitter, Split(s))
  /\ hand.fetcher # None => hand.fetcher = Sent(s) + 1
  /\ fetched = Sent(s) + InHand("fetcher")

----------------------------------------------------------------------------
(* How the channels are closed, and what the cleaner knows at each step.   *)

ClosedInTurn ==
  /\ pc.fetcher \in {"answer", "returned"} => isClosed.splitter
  /\ pc.splitter \in {"closeVlr", "returned"} => isClosed.csv
  /\ pc.csv \in {"answer", "returned"} => ~ csvOpen
  /\ ~ csvOpen =>
       /\ unwritten = {}
       /\ \/ pc.csv \in {"answer", "returned"}
          \/ pc.csv \in {"select", "stopping"} /\ Drained("csv")

(* Unless it timed out: the fetcher is stopped first, and from the moment  *)
(* that a channel was found empty it holds one response at the most, that  *)
(* the splitter had in its hand.                                           *)
StoppedInTurn ==
  ~ timedOut =>
    /\ step >= 2 => pc.fetcher = "returned"
    /\ step >= 3 => queue.splitter = <<>>
    /\ step >= 4 => Len(queue.vlr) + Owed("vlr") <= 1
    /\ step >= 5 => pc.vlr = "returned"
    /\ step >= 6 => Len(queue.csv) + Owed("csv") <= 1
    /\ step >= 7 => pc.csv = "returned"

(* The cleaner waits within a step; the process survives no more errors in *)
(* a row than it may.                                                      *)
Counted ==
  /\ awaiting => step \in 1 .. 6
  /\ dead = "no" => errorCount <= MaxErrors

(* The inductive invariant.                                                *)
IInv ==
  /\ TypeOK /\ HandsMatch /\ NoSendOnClosed /\ ClosedInTurn
  /\ StoppedInTurn /\ Counted
  /\ \A s \in Sinks : InOrder(s)

----------------------------------------------------------------------------
(* The cleaner's plan, step by step.                                       *)
LEMMA PlanSteps ==
  /\ Len(CleanupPlan) = 6
  /\ \A g : Current("stop", g) =>
       \/ g = "fetcher" /\ step = 1
       \/ g = "vlr" /\ step = 4
       \/ g = "csv" /\ step = 6
  /\ \A c : Current("empty", c) =>
       \/ c = "splitter" /\ step = 2
       \/ c = "vlr" /\ step = 3
       \/ c = "csv" /\ step = 5
<1>1. Len(CleanupPlan) = 6 /\ DOMAIN CleanupPlan = 1 .. 6
  BY DEF CleanupPlan
<1>2. /\ CleanupPlan[1] = Stop("fetcher") /\ CleanupPlan[2] = Empty("splitter")
      /\ CleanupPlan[3] = Empty("vlr") /\ CleanupPlan[4] = Stop("vlr")
      /\ CleanupPlan[5] = Empty("csv") /\ CleanupPlan[6] = Stop("csv")
  BY DEF CleanupPlan
<1>3. \A g, h : Stop(g) = [op |-> "stop", who |-> h] => g = h
  BY DEF Stop
<1>4. \A g, h : Empty(g) = [op |-> "empty", who |-> h] => g = h
  BY DEF Empty
<1>5. \A g, h : Stop(g) # [op |-> "empty", who |-> h]
                /\ Empty(g) # [op |-> "stop", who |-> h]
  BY DEF Stop, Empty
<1>6. ASSUME NEW op, NEW g, Current(op, g)
      PROVE  /\ step \in {1, 2, 3, 4, 5, 6}
             /\ CleanupPlan[step] = [op |-> op, who |-> g]
  BY <1>1, <1>6 DEF Current
<1> HIDE DEF CleanupPlan
<1>7. ASSUME NEW op, NEW g, Current(op, g)
      PROVE  \/ step = 1 /\ Stop("fetcher") = [op |-> op, who |-> g]
             \/ step = 2 /\ Empty("splitter") = [op |-> op, who |-> g]
             \/ step = 3 /\ Empty("vlr") = [op |-> op, who |-> g]
             \/ step = 4 /\ Stop("vlr") = [op |-> op, who |-> g]
             \/ step = 5 /\ Empty("csv") = [op |-> op, who |-> g]
             \/ step = 6 /\ Stop("csv") = [op |-> op, who |-> g]
  BY <1>2, <1>6, <1>7
<1>8. ASSUME NEW g, Current("stop", g)
      PROVE  \/ g = "fetcher" /\ step = 1
             \/ g = "vlr" /\ step = 4
             \/ g = "csv" /\ step = 6
  BY <1>3, <1>5, <1>7, <1>8
<1>9. ASSUME NEW c, Current("empty", c)
      PROVE  \/ c = "splitter" /\ step = 2
             \/ c = "vlr" /\ step = 3
             \/ c = "csv" /\ step = 5
  BY <1>4, <1>5, <1>7, <1>9
<1> QED
  BY <1>1, <1>8, <1>9

(* Taking the head of a channel keeps its numbers in a row.                *)
LEMMA RunsTail ==
  ASSUME NEW q \in Seq(Responses), q # <<>>, NEW a \in Nat, Runs(q, a)
  PROVE  /\ Head(q) = a + 1 /\ Head(q) \in Responses
         /\ Tail(q) \in Seq(Responses) /\ Len(Tail(q)) = Len(q) - 1
         /\ Runs(Tail(q), a + 1)
<1>1. /\ Head(q) = q[1] /\ Len(q) \in Nat \ {0} /\ Head(q) \in Responses
      /\ Tail(q) \in Seq(Responses) /\ Len(Tail(q)) = Len(q) - 1
      /\ \A i \in 1 .. Len(Tail(q)) : Tail(q)[i] = q[i + 1]
  BY HeadTailProperties, EmptySeq
<1>2. \A i \in 1 .. Len(Tail(q)) : i + 1 \in 1 .. Len(q)
  BY <1>1
<1> QED
  BY <1>1, <1>2 DEF Runs

(* Appending the number that comes next keeps them in a row.               *)
LEMMA RunsAppend ==
  ASSUME NEW q \in Seq(Responses), NEW a \in Nat, Runs(q, a),
         NEW v \in Responses, v = a + Len(q) + 1
  PROVE  /\ Append(q, v) \in Seq(Responses)
         /\ Len(Append(q, v)) = Len(q) + 1
         /\ Runs(Append(q, v), a)
<1>1. /\ Append(q, v) \in Seq(Responses) /\ Len(Append(q, v)) = Len(q) + 1
      /\ Len(q) \in Nat
      /\ \A i \in 1 .. Len(q) : Append(q, v)[i] = q[i]
      /\ Append(q, v)[Len(q) + 1] = v
  BY AppendProperties
<1> QED
  BY <1>1 DEF Runs

(* What is counted are numbers.                                            *)
LEMMA Counts ==
  ASSUME TypeOK, NEW s \in Sinks
  PROVE  /\ InHand("fetcher") \in {0, 1} /\ InHand("splitter") \in {0, 1}
         /\ InHand(s) \in {0, 1} /\ Owed(s) \in {0, 1}
         /\ handled[s] \in Seq(Responses) /\ Len(handled[s]) \in Nat
         /\ queue[s] \in Seq(Responses) /\ Len(queue[s]) \in Nat
         /\ queue.splitter \in Seq(Responses) /\ Len(queue.splitter) \in Nat
         /\ Taken(s) \in Nat /\ Queued(s) \in Nat /\ Split(s) \in Nat
         /\ Sent(s) \in Nat
<1>1. s \in Channels /\ "splitter" \in Channels
  BY DEF Sinks, Channels
<1>2. /\ handled[s] \in Seq(Responses) /\ queue[s] \in Seq(Responses)
      /\ queue["splitter"] \in Seq(Responses)
  BY <1>1 DEF TypeOK
<1>3. /\ Len(handled[s]) \in Nat /\ Len(queue[s]) \in Nat
      /\ Len(queue.splitter) \in Nat
  BY <1>2
<1>4. /\ InHand("fetcher") \in {0, 1} /\ InHand("splitter") \in {0, 1}
      /\ InHand(s) \in {0, 1}
  BY DEF InHand
<1>5. Owed(s) \in {0, 1}
  BY <1>4 DEF Owed
<1>6. Taken(s) \in Nat
  BY <1>3, <1>4 DEF Taken
<1>7. Queued(s) \in Nat
  BY <1>3, <1>6 DEF Queued
<1>8. Split(s) \in Nat
  BY <1>5, <1>7 DEF Split
<1>9. Sent(s) \in Nat
  BY <1>3, <1>8 DEF Sent
<1> QED
  BY <1>2, <1>3, <1>4, <1>5, <1>6, <1>7, <1>8, <1>9

----------------------------------------------------------------------------
(* The first state satisfies the invariant.                                *)
LEMMA InitIInv == Init => IInv
<1> SUFFICES ASSUME Init PROVE IInv
  OBVIOUS
<1> USE DEF Init
<1>1. Len(CleanupPlan) = 6 /\ MaxErrors \in Nat /\ MaxResponses \in Nat
      /\ Cap \in Nat
  BY PlanSteps, PipelineAssumption
<1>2. TypeOK
  <2>1. \A c \in Channels : queue[c] = <<>> /\ Len(queue[c]) <= Cap
    BY <1>1
  <2>2. \A g \in Goroutines : hand[g] = None
    BY DEF Goroutines
  <2>3. DOMAIN hand = Goroutines
    BY DEF Goroutines
  <2>4. \A s \in Sinks : handled[s] = <<>>
    OBVIOUS
  <2>5. /\ isClosed \in [Channels -> BOOLEAN] /\ csvOpen \in BOOLEAN
        /\ stopAsked \in BOOLEAN /\ awaiting \in BOOLEAN /\ timedOut \in BOOLEAN
    OBVIOUS
  <2>6. fetched \in 0 .. MaxResponses /\ errorCount \in 0 .. MaxErrors + 1
        /\ step \in 0 .. Len(CleanupPlan) + 1
    BY <1>1
  <2> QED
    BY <2>1, <2>2, <2>3, <2>4, <2>5, <2>6
       DEF TypeOK, MaybeResponse, Goroutines
<1>3. HandsMatch
  BY DEF HandsMatch, None, Goroutines
<1>4. NoSendOnClosed /\ ClosedInTurn /\ StoppedInTurn /\ Counted
  BY <1>1 DEF NoSendOnClosed, ClosedInTurn, StoppedInTurn, Counted, Sinks,
     Channels
<1>5. ASSUME NEW s \in Sinks PROVE InOrder(s)
  <2>1. handled[s] = <<>> /\ queue[s] = <<>> /\ queue.splitter = <<>>
    BY <1>5 DEF Sinks, Channels
  <2>2. hand[s] = None /\ hand.splitter = None /\ hand.fetcher = None
    BY <1>5 DEF Sinks
  <2>3. InHand(s) = 0 /\ InHand("splitter") = 0 /\ InHand("fetcher") = 0
        /\ Owed(s) = 0
    BY <2>2 DEF InHand, Owed
  <2>4. Taken(s) = 0 /\ Queued(s) = 0 /\ Split(s) = 0 /\ Sent(s) = 0
    <3>1. Len(handled[s]) = 0 /\ Len(queue[s]) = 0 /\ Len(queue.splitter) = 0
      BY <2>1, EmptySeq
    <3>2. Taken(s) = 0
      BY <2>3, <3>1 DEF Taken
    <3>3. Queued(s) = 0
      BY <3>1, <3>2 DEF Queued
    <3>4. Split(s) = 0
      BY <2>3, <3>3 DEF Split
    <3> QED
      BY <3>1, <3>2, <3>3, <3>4 DEF Sent
  <2>5. Runs(<<>>, 0)
    BY DEF Runs
  <2> QED
    BY <2>1, <2>2, <2>3, <2>4, <2>5 DEF InOrder
<1> QED
  BY <1>2, <1>3, <1>4, <1>5 DEF IInv

(* Every step keeps hands and places together.                             *)
LEMMA HandsKept == IInv /\ [Next]_vars => HandsMatch'
<1> SUFFICES ASSUME IInv, [Next]_vars PROVE HandsMatch'
  OBVIOUS
<1> USE DEF Goto, HandsMatch, Goroutines, None
<1>1. /\ HandsMatch /\ DOMAIN hand = Goroutines /\ fetched + 1 # 0
      /\ \A c \in Channels : queue[c] # <<>> => Head(queue[c]) # None
  <2>1. HandsMatch /\ DOMAIN hand = Goroutines
    BY DEF IInv, TypeOK
  <2>2. fetched + 1 # 0
    BY DEF IInv, TypeOK
  <2>3. ASSUME NEW c \in Channels, queue[c] # <<>> PROVE Head(queue[c]) # None
    <3>1. queue[c] \in Seq(Responses)
      BY DEF IInv, TypeOK
    <3>2. Head(queue[c]) \in Responses
      BY <2>3, <3>1, HeadTailProperties
    <3> QED
      BY <3>2 DEF Responses
  <2> QED
    BY <2>1, <2>2, <2>3
<1>2. ASSUME FetcherTick PROVE HandsMatch'
  BY <1>1, <1>2 DEF FetcherTick, Take, Channels, Stoppable
<1>3. ASSUME Fetch PROVE HandsMatch'
  BY <1>1, <1>3 DEF Fetch, Take, Channels, Stoppable
<1>4. ASSUME FetcherSend PROVE HandsMatch'
  BY <1>1, <1>4 DEF FetcherSend, Take, Channels, Stoppable
<1>5. ASSUME FetcherClose PROVE HandsMatch'
  BY <1>1, <1>5 DEF FetcherClose, Take, Channels, Stoppable
<1>6. ASSUME SplitterReceive PROVE HandsMatch'
  BY <1>1, <1>6 DEF SplitterReceive, Take, Channels, Stoppable
<1>7. ASSUME SplitterToCsv PROVE HandsMatch'
  BY <1>1, <1>7 DEF SplitterToCsv, Take, Channels, Stoppable
<1>8. ASSUME SplitterToVlr PROVE HandsMatch'
  BY <1>1, <1>8 DEF SplitterToVlr, Take, Channels, Stoppable
<1>9. ASSUME SplitterCloseCsv PROVE HandsMatch'
  BY <1>1, <1>9 DEF SplitterCloseCsv, Take, Channels, Stoppable
<1>10. ASSUME SplitterCloseVlr PROVE HandsMatch'
  BY <1>1, <1>10 DEF SplitterCloseVlr, Take, Channels, Stoppable
<1>11. ASSUME VlrReceive PROVE HandsMatch'
  BY <1>1, <1>11 DEF VlrReceive, Take, Channels, Stoppable
<1>12. ASSUME VlrAdd PROVE HandsMatch'
  BY <1>1, <1>12 DEF VlrAdd, Take, Channels, Stoppable
<1>13. ASSUME VlrClose PROVE HandsMatch'
  BY <1>1, <1>13 DEF VlrClose, Take, Channels, Stoppable
<1>14. ASSUME CsvReceive PROVE HandsMatch'
  BY <1>1, <1>14 DEF CsvReceive, Take, Channels, Stoppable
<1>15. ASSUME CsvInsert PROVE HandsMatch'
  BY <1>1, <1>15 DEF CsvInsert, Take, Channels, Stoppable
<1>16. ASSUME CsvInputClosed PROVE HandsMatch'
  BY <1>1, <1>16 DEF CsvInputClosed, Take, Channels, Stoppable
<1>17. ASSUME CsvTick \/ CsvPanics \/ VlrPanics PROVE HandsMatch'
  BY <1>1, <1>17 DEF CsvTick, CsvPanics, VlrPanics, Take, Channels, Stoppable
<1>18. ASSUME CsvClose PROVE HandsMatch'
  BY <1>1, <1>18 DEF CsvClose, Take, Channels, Stoppable
<1>19. ASSUME CleanerStart PROVE HandsMatch'
  BY <1>1, <1>19 DEF CleanerStart, Take, Channels, Stoppable
<1>20. ASSUME NEW g \in Stoppable, StopAnswered(g) PROVE HandsMatch'
  BY <1>1, <1>20 DEF StopAnswered, Take, Channels, Stoppable
<1>21. ASSUME NEW g \in Stoppable, StopSend(g) PROVE HandsMatch'
  BY <1>1, <1>21 DEF StopSend, Take, Channels, Stoppable
<1>22. ASSUME NEW c \in Channels, EmptyDone(c) PROVE HandsMatch'
  BY <1>1, <1>22 DEF EmptyDone, Take, Channels, Stoppable
<1>23. ASSUME NEW c \in Channels, EmptyWait(c) PROVE HandsMatch'
  BY <1>1, <1>23 DEF EmptyWait, Take, Channels, Stoppable
<1>24. ASSUME CleanerTimeout PROVE HandsMatch'
  BY <1>1, <1>24 DEF CleanerTimeout, Take, Channels, Stoppable
<1>25. ASSUME AskStop PROVE HandsMatch'
  BY <1>1, <1>25 DEF AskStop, Take, Channels, Stoppable
<1>26. CASE UNCHANGED vars
  BY <1>1, <1>26 DEF vars
<1> QED
  BY <1>2, <1>3, <1>4, <1>5, <1>6, <1>7, <1>8, <1>9, <1>10, <1>11, <1>12,
     <1>13, <1>14, <1>15, <1>16, <1>17, <1>18, <1>19, <1>20, <1>21, <1>22,
     <1>23, <1>24, <1>25, <1>26 DEF Next, FetcherStep, SplitterStep,
     VlrStep, CsvStep, CleanerStep

(* Every step keeps the order of closing.                                  *)
LEMMA ClosedKept == IInv /\ [Next]_vars => (NoSendOnClosed /\ ClosedInTurn)'
<1> SUFFICES ASSUME IInv, [Next]_vars PROVE (NoSendOnClosed /\ ClosedInTurn)'
  OBVIOUS
<1> USE DEF Goto, NoSendOnClosed, ClosedInTurn, Goroutines, None, Sinks,
        cleanerVars, csvVars
<1>1. /\ NoSendOnClosed /\ ClosedInTurn /\ HandsMatch /\ DOMAIN hand = Goroutines
      /\ DOMAIN queue = Channels /\ isClosed \in [Channels -> BOOLEAN]
  BY DEF IInv, TypeOK
<1>2. ASSUME FetcherTick PROVE (NoSendOnClosed /\ ClosedInTurn)'
  BY <1>1, <1>2 DEF FetcherTick, HandsMatch, Take, Put, Drained, CsvDoClose,
     Channels, Stoppable
<1>3. ASSUME Fetch PROVE (NoSendOnClosed /\ ClosedInTurn)'
  BY <1>1, <1>3 DEF Fetch, HandsMatch, Take, Put, Drained, CsvDoClose,
     Channels, Stoppable
<1>4. ASSUME FetcherSend PROVE (NoSendOnClosed /\ ClosedInTurn)'
  BY <1>1, <1>4 DEF FetcherSend, HandsMatch, Take, Put, Drained, CsvDoClose,
     Channels, Stoppable
<1>5. ASSUME FetcherClose PROVE (NoSendOnClosed /\ ClosedInTurn)'
  BY <1>1, <1>5 DEF FetcherClose, HandsMatch, Take, Put, Drained, CsvDoClose,
     Channels, Stoppable
<1>6. ASSUME SplitterReceive PROVE (NoSendOnClosed /\ ClosedInTurn)'
  BY <1>1, <1>6 DEF SplitterReceive, HandsMatch, Take, Put, Drained,
     CsvDoClose, Channels, Stoppable
<1>7. ASSUME SplitterToCsv PROVE (NoSendOnClosed /\ ClosedInTurn)'
  BY <1>1, <1>7 DEF SplitterToCsv, HandsMatch, Take, Put, Drained, CsvDoClose,
     Channels, Stoppable
<1>8. ASSUME SplitterToVlr PROVE (NoSendOnClosed /\ ClosedInTurn)'
  BY <1>1, <1>8 DEF SplitterToVlr, HandsMatch, Take, Put, Drained, CsvDoClose,
     Channels, Stoppable
<1>9. ASSUME SplitterCloseCsv PROVE (NoSendOnClosed /\ ClosedInTurn)'
  BY <1>1, <1>9 DEF SplitterCloseCsv, HandsMatch, Take, Put, Drained,
     CsvDoClose, Channels, Stoppable
<1>10. ASSUME SplitterCloseVlr PROVE (NoSendOnClosed /\ ClosedInTurn)'
  BY <1>1, <1>10 DEF SplitterCloseVlr, HandsMatch, Take, Put, Drained,
     CsvDoClose, Channels, Stoppable
<1>11. ASSUME VlrReceive PROVE (NoSendOnClosed /\ ClosedInTurn)'
  BY <1>1, <1>11 DEF VlrReceive, HandsMatch, Take, Put, Drained, CsvDoClose,
     Channels, Stoppable
<1>12. ASSUME VlrAdd PROVE (NoSendOnClosed /\ ClosedInTurn)'
  BY <1>1, <1>12 DEF VlrAdd, HandsMatch, Take, Put, Drained, CsvDoClose,
     Channels, Stoppable
<1>13. ASSUME VlrClose PROVE (NoSendOnClosed /\ ClosedInTurn)'
  BY <1>1, <1>13 DEF VlrClose, HandsMatch, Take, Put, Drained, CsvDoClose,
     Channels, Stoppable
<1>14. ASSUME CsvReceive PROVE (NoSendOnClosed /\ ClosedInTurn)'
  BY <1>1, <1>14 DEF CsvReceive, HandsMatch, Take, Put, Drained, CsvDoClose,
     Channels, Stoppable
<1>15. ASSUME CsvInsert PROVE (NoSendOnClosed /\ ClosedInTurn)'
  BY <1>1, <1>15 DEF CsvInsert, HandsMatch, Take, Put, Drained, CsvDoClose,
     Channels, Stoppable
<1>16. ASSUME CsvInputClosed PROVE (NoSendOnClosed /\ ClosedInTurn)'
  BY <1>1, <1>16 DEF CsvInputClosed, HandsMatch, Take, Put, Drained,
     CsvDoClose, Channels, Stoppable
<1>17. ASSUME CsvTick \/ CsvPanics \/ VlrPanics PROVE (NoSendOnClosed /\ ClosedInTurn)'
  BY <1>1, <1>17 DEF CsvTick, CsvPanics, VlrPanics, HandsMatch, Take, Put, Drained,
     CsvDoClose, Channels, Stoppable
<1>18. ASSUME CsvClose PROVE (NoSendOnClosed /\ ClosedInTurn)'
  BY <1>1, <1>18 DEF CsvClose, HandsMatch, Take, Put, Drained, CsvDoClose,
     Channels, Stoppable
<1>19. ASSUME CleanerStart PROVE (NoSendOnClosed /\ ClosedInTurn)'
  BY <1>1, <1>19 DEF CleanerStart, HandsMatch, Take, Put, Drained, CsvDoClose,
     Channels, Stoppable
<1>20. ASSUME NEW g \in Stoppable, StopAnswered(g) PROVE (NoSendOnClosed /\ ClosedInTurn)'
  BY <1>1, <1>20 DEF StopAnswered, HandsMatch, Take, Put, Drained, CsvDoClose,
     Channels, Stoppable
<1>21. ASSUME NEW g \in Stoppable, StopSend(g) PROVE (NoSendOnClosed /\ ClosedInTurn)'
  BY <1>1, <1>21 DEF StopSend, HandsMatch, Take, Put, Drained, CsvDoClose,
     Channels, Stoppable
<1>22. ASSUME NEW c \in Channels, EmptyDone(c) PROVE (NoSendOnClosed /\ ClosedInTurn)'
  BY <1>1, <1>22 DEF EmptyDone, HandsMatch, Take, Put, Drained, CsvDoClose,
     Channels, Stoppable
<1>23. ASSUME NEW c \in Channels, EmptyWait(c) PROVE (NoSendOnClosed /\ ClosedInTurn)'
  BY <1>1, <1>23 DEF EmptyWait, HandsMatch, Take, Put, Drained, CsvDoClose,
     Channels, Stoppable
<1>24. ASSUME CleanerTimeout PROVE (NoSendOnClosed /\ ClosedInTurn)'
  BY <1>1, <1>24 DEF CleanerTimeout, HandsMatch, Take, Put, Drained,
     CsvDoClose, Channels, Stoppable
<1>25. ASSUME AskStop PROVE (NoSendOnClosed /\ ClosedInTurn)'
  BY <1>1, <1>25 DEF AskStop, HandsMatch, Take, Put, Drained, CsvDoClose,
     Channels, Stoppable
<1>26. CASE UNCHANGED vars
  BY <1>1, <1>26 DEF vars, HandsMatch, Take, Put, Drained, CsvDoClose,
     Channels, Stoppable
<1> QED
  BY <1>2, <1>3, <1>4, <1>5, <1>6, <1>7, <1>8, <1>9, <1>10, <1>11,
     <1>12, <1>13, <1>14, <1>15, <1>16, <1>17, <1>18, <1>19, <1>20, <1>21,
     <1>22, <1>23, <1>24, <1>25, <1>26 DEF Next, FetcherStep, SplitterStep,
     VlrStep, CsvStep, CleanerStep

(* Every step keeps the counts.                                            *)
LEMMA CountedKept == IInv /\ [Next]_vars => Counted'
<1> SUFFICES ASSUME IInv, [Next]_vars PROVE Counted'
  OBVIOUS
<1> USE DEF Counted, cleanerVars, csvVars
<1>1. /\ Counted /\ step \in Nat /\ errorCount \in Nat /\ awaiting \in BOOLEAN
      /\ MaxErrors \in Nat
  BY PlanSteps, PipelineAssumption DEF IInv, TypeOK
<1>2. ASSUME FetcherTick PROVE Counted'
  BY <1>1, <1>2 DEF FetcherTick, Stoppable
<1>3. ASSUME Fetch PROVE Counted'
  BY <1>1, <1>3 DEF Fetch, Stoppable
<1>4. ASSUME FetcherSend PROVE Counted'
  BY <1>1, <1>4 DEF FetcherSend, Stoppable
<1>5. ASSUME FetcherClose PROVE Counted'
  BY <1>1, <1>5 DEF FetcherClose, Stoppable
<1>6. ASSUME SplitterReceive PROVE Counted'
  BY <1>1, <1>6 DEF SplitterReceive, Stoppable
<1>7. ASSUME SplitterToCsv PROVE Counted'
  BY <1>1, <1>7 DEF SplitterToCsv, Stoppable
<1>8. ASSUME SplitterToVlr PROVE Counted'
  BY <1>1, <1>8 DEF SplitterToVlr, Stoppable
<1>9. ASSUME SplitterCloseCsv PROVE Counted'
  BY <1>1, <1>9 DEF SplitterCloseCsv, Stoppable
<1>10. ASSUME SplitterCloseVlr PROVE Counted'
  BY <1>1, <1>10 DEF SplitterCloseVlr, Stoppable
<1>11. ASSUME VlrReceive PROVE Counted'
  BY <1>1, <1>11 DEF VlrReceive, Stoppable
<1>12. ASSUME VlrAdd PROVE Counted'
  BY <1>1, <1>12 DEF VlrAdd, Stoppable
<1>13. ASSUME VlrClose PROVE Counted'
  BY <1>1, <1>13 DEF VlrClose, Stoppable
<1>14. ASSUME CsvReceive PROVE Counted'
  BY <1>1, <1>14 DEF CsvReceive, Stoppable
<1>15. ASSUME CsvInsert PROVE Counted'
  BY <1>1, <1>15 DEF CsvInsert, Stoppable
<1>16. ASSUME CsvInputClosed PROVE Counted'
  BY <1>1, <1>16 DEF CsvInputClosed, Stoppable
<1>17. ASSUME CsvTick \/ CsvPanics \/ VlrPanics PROVE Counted'
  BY <1>1, <1>17 DEF CsvTick, CsvPanics, VlrPanics, Stoppable
<1>18. ASSUME CsvClose PROVE Counted'
  BY <1>1, <1>18 DEF CsvClose, Stoppable
<1>19. ASSUME CleanerStart PROVE Counted'
  BY <1>1, <1>19 DEF CleanerStart, Stoppable
<1>20. ASSUME NEW g \in Stoppable, StopAnswered(g) PROVE Counted'
  BY <1>1, <1>20 DEF StopAnswered, Stoppable
<1>21. ASSUME NEW g \in Stoppable, StopSend(g) PROVE Counted'
  BY <1>1, <1>21, PlanSteps DEF StopSend
<1>22. ASSUME NEW c \in Channels, EmptyDone(c) PROVE Counted'
  BY <1>1, <1>22 DEF EmptyDone, Stoppable
<1>23. ASSUME NEW c \in Channels, EmptyWait(c) PROVE Counted'
  BY <1>1, <1>23, PlanSteps DEF EmptyWait
<1>24. ASSUME CleanerTimeout PROVE Counted'
  BY <1>1, <1>24 DEF CleanerTimeout, Stoppable
<1>25. ASSUME AskStop PROVE Counted'
  BY <1>1, <1>25 DEF AskStop, Stoppable
<1>26. CASE UNCHANGED vars
  BY <1>1, <1>26 DEF vars, Stoppable
<1> QED
  BY <1>2, <1>3, <1>4, <1>5, <1>6, <1>7, <1>8, <1>9, <1>10, <1>11,
     <1>12, <1>13, <1>14, <1>15, <1>16, <1>17, <1>18, <1>19, <1>20, <1>21,
     <1>22, <1>23, <1>24, <1>25, <1>26 DEF Next, FetcherStep, SplitterStep,
     VlrStep, CsvStep, CleanerStep

(* Taking from a channel keeps its type.                                   *)
LEMMA TakeTyped ==
  ASSUME TypeOK, NEW c \in Channels, Take(c)
  PROVE  /\ Head(queue[c]) \in Responses
         /\ DOMAIN queue' = Channels
         /\ \A d \in Channels :
              queue'[d] \in Seq(Responses) /\ Len(queue'[d]) <= Cap
<1>1. queue[c] \in Seq(Responses) /\ queue[c] # <<>> /\ Len(queue[c]) <= Cap
  BY DEF TypeOK, Take
<1>2. Head(queue[c]) \in Responses /\ Tail(queue[c]) \in Seq(Responses)
      /\ Len(Tail(queue[c])) = Len(queue[c]) - 1 /\ Len(queue[c]) \in Nat
  BY <1>1, HeadTailProperties
<1>3. Cap \in Nat /\ Len(Tail(queue[c])) <= Cap
  BY <1>1, <1>2, PipelineAssumption
<1> QED
  BY <1>2, <1>3 DEF TypeOK, Take

(* Putting into a channel keeps its type.                                  *)
LEMMA PutTyped ==
  ASSUME TypeOK, NEW c \in Channels, NEW v \in Responses, Put(c, v)
  PROVE  /\ DOMAIN queue' = Channels
         /\ \A d \in Channels :
              queue'[d] \in Seq(Responses) /\ Len(queue'[d]) <= Cap
<1>1. queue[c] \in Seq(Responses) /\ Len(queue[c]) < Cap
  BY DEF TypeOK, Put
<1>2. Append(queue[c], v) \in Seq(Responses)
      /\ Len(Append(queue[c], v)) = Len(queue[c]) + 1 /\ Len(queue[c]) \in Nat
  BY <1>1, AppendProperties
<1>3. Cap \in Nat /\ Len(Append(queue[c], v)) <= Cap
  BY <1>1, <1>2, PipelineAssumption
<1> QED
  BY <1>2, <1>3 DEF TypeOK, Put

(* Every step keeps the types.                                             *)
LEMMA TypeKept == IInv /\ [Next]_vars => TypeOK'
<1> SUFFICES ASSUME IInv, [Next]_vars PROVE TypeOK'
  OBVIOUS
<1> USE DEF Goto, csvVars, cleanerVars
<1>1. TypeOK /\ HandsMatch /\ Counted
      /\ Len(CleanupPlan) = 6 /\ Cap \in Nat /\ MaxErrors \in Nat
      /\ MaxResponses \in Nat
  BY PlanSteps, PipelineAssumption DEF IInv
<1>2. ASSUME FetcherTick PROVE TypeOK'
  BY <1>1, <1>2 DEF FetcherTick, TypeOK, HandsMatch,
     Goroutines, Stoppable
<1>3. ASSUME Fetch PROVE TypeOK'
  <2>1. fetched + 1 \in Responses /\ fetched + 1 \in 0 .. MaxResponses
    BY <1>1, <1>3 DEF Fetch, TypeOK, Responses
  <2> QED
    BY <1>1, <1>3, <2>1 DEF Fetch, TypeOK, HandsMatch, Goroutines, MaybeResponse
<1>4. ASSUME FetcherSend PROVE TypeOK'
  <2>1. hand.fetcher \in Responses /\ "splitter" \in Channels
    BY <1>1, <1>4 DEF FetcherSend, TypeOK, HandsMatch, MaybeResponse, Channels
  <2>2. Put("splitter", hand.fetcher)
    BY <1>4 DEF FetcherSend
  <2>3. /\ DOMAIN queue' = Channels
        /\ \A d \in Channels : queue'[d] \in Seq(Responses) /\ Len(queue'[d]) <= Cap
    BY <1>1, <2>1, <2>2, PutTyped
  <2> QED
    BY <1>1, <1>4, <2>3 DEF FetcherSend, TypeOK, HandsMatch, Goroutines,
       MaybeResponse
<1>5. ASSUME FetcherClose PROVE TypeOK'
  BY <1>1, <1>5 DEF FetcherClose, TypeOK, HandsMatch,
     Goroutines, Stoppable
<1>6. ASSUME SplitterReceive PROVE TypeOK'
  <2>1. Take("splitter") /\ "splitter" \in Channels
    BY <1>6 DEF SplitterReceive, Channels
  <2>2. /\ Head(queue.splitter) \in Responses /\ DOMAIN queue' = Channels
        /\ \A d \in Channels : queue'[d] \in Seq(Responses) /\ Len(queue'[d]) <= Cap
    BY <1>1, <2>1, TakeTyped
  <2> QED
    BY <1>1, <1>6, <2>2 DEF SplitterReceive, TypeOK, HandsMatch, Goroutines,
       MaybeResponse
<1>7. ASSUME SplitterToCsv PROVE TypeOK'
  <2>1. hand.splitter \in Responses /\ "csv" \in Channels
    BY <1>1, <1>7 DEF SplitterToCsv, TypeOK, HandsMatch, MaybeResponse, Channels
  <2>2. Put("csv", hand.splitter)
    BY <1>7 DEF SplitterToCsv
  <2>3. /\ DOMAIN queue' = Channels
        /\ \A d \in Channels : queue'[d] \in Seq(Responses) /\ Len(queue'[d]) <= Cap
    BY <1>1, <2>1, <2>2, PutTyped
  <2> QED
    BY <1>1, <1>7, <2>3 DEF SplitterToCsv, TypeOK, HandsMatch, Goroutines,
       MaybeResponse
<1>8. ASSUME SplitterToVlr PROVE TypeOK'
  <2>1. hand.splitter \in Responses /\ "vlr" \in Channels
    BY <1>1, <1>8 DEF SplitterToVlr, TypeOK, HandsMatch, MaybeResponse, Channels
  <2>2. Put("vlr", hand.splitter)
    BY <1>8 DEF SplitterToVlr
  <2>3. /\ DOMAIN queue' = Channels
        /\ \A d \in Channels : queue'[d] \in Seq(Responses) /\ Len(queue'[d]) <= Cap
    BY <1>1, <2>1, <2>2, PutTyped
  <2> QED
    BY <1>1, <1>8, <2>3 DEF SplitterToVlr, TypeOK, HandsMatch, Goroutines,
       MaybeResponse
<1>9. ASSUME SplitterCloseCsv PROVE TypeOK'
  BY <1>1, <1>9 DEF SplitterCloseCsv, TypeOK, HandsMatch,
     Goroutines, Stoppable
<1>10. ASSUME SplitterCloseVlr PROVE TypeOK'
  BY <1>1, <1>10 DEF SplitterCloseVlr, TypeOK, HandsMatch,
     Goroutines, Stoppable
<1>11. ASSUME VlrReceive PROVE TypeOK'
  <2>1. Take("vlr") /\ "vlr" \in Channels
    BY <1>11 DEF VlrReceive, Channels
  <2>2. /\ Head(queue.vlr) \in Responses /\ DOMAIN queue' = Channels
        /\ \A d \in Channels : queue'[d] \in Seq(Responses) /\ Len(queue'[d]) <= Cap
    BY <1>1, <2>1, TakeTyped
  <2> QED
    BY <1>1, <1>11, <2>2 DEF VlrReceive, TypeOK, HandsMatch, Goroutines,
       MaybeResponse
<1>12. ASSUME dead = "no", VlrAdd PROVE TypeOK'
  <2>1. hand.vlr \in Responses /\ "vlr" \in Sinks
    BY <1>1, <1>12 DEF VlrAdd, TypeOK, HandsMatch, MaybeResponse, Sinks
  <2>2. /\ DOMAIN handled' = Sinks
        /\ \A s \in Sinks : handled'[s] \in Seq(Responses)
    BY <1>1, <1>12, <2>1, AppendProperties DEF VlrAdd, TypeOK
  <2>3. /\ pc'.fetcher \in {"fetch", "send", "select", "stopping", "answer", "returned"}
        /\ pc'.splitter \in {"receive", "csv", "vlr", "closeVlr", "returned"}
        /\ pc'.csv \in {"select", "insert", "stopping", "answer", "returned"}
        /\ pc'.vlr \in {"select", "add", "stopping", "answer", "returned"}
    BY <1>1, <1>12 DEF VlrAdd, TypeOK, HandsMatch, Goroutines
  <2>4. /\ DOMAIN hand' = Goroutines
        /\ \A g \in DOMAIN hand' : hand'[g] \in MaybeResponse
    BY <1>1, <1>12 DEF VlrAdd, TypeOK, MaybeResponse, Goroutines
  <2>5. errorCount' \in 0 .. MaxErrors + 1 /\ dead' \in {"no", "panic", "fatal"}
    <3>1. errorCount \in 0 .. MaxErrors
      BY <1>1, <1>12 DEF Counted, TypeOK
    <3>2. errorCount' \in {0, errorCount + 1}
      BY <1>12 DEF VlrAdd
    <3>3. dead' \in {dead, "fatal"}
      BY <1>12 DEF VlrAdd
    <3> QED
      BY <1>1, <3>1, <3>2, <3>3 DEF TypeOK
  <2>6. UNCHANGED <<queue, isClosed, fetched, csvVars, cleanerVars>>
    BY <1>12 DEF VlrAdd
  <2> QED
    BY <1>1, <2>2, <2>3, <2>4, <2>5, <2>6 DEF TypeOK, Goroutines
<1>13. ASSUME VlrClose PROVE TypeOK'
  BY <1>1, <1>13 DEF VlrClose, TypeOK, HandsMatch,
     Goroutines, Stoppable
<1>14. ASSUME CsvReceive PROVE TypeOK'
  <2>1. Take("csv") /\ "csv" \in Channels
    BY <1>14 DEF CsvReceive, Channels
  <2>2. /\ Head(queue.csv) \in Responses /\ DOMAIN queue' = Channels
        /\ \A d \in Channels : queue'[d] \in Seq(Responses) /\ Len(queue'[d]) <= Cap
    BY <1>1, <2>1, TakeTyped
  <2> QED
    BY <1>1, <1>14, <2>2 DEF CsvReceive, TypeOK, HandsMatch, Goroutines,
       MaybeResponse
<1>15. ASSUME CsvInsert PROVE TypeOK'
  <2>1. hand.csv \in Responses /\ "csv" \in Sinks
    BY <1>1, <1>15 DEF CsvInsert, TypeOK, HandsMatch, MaybeResponse, Sinks
  <2>2. /\ DOMAIN handled' = Sinks
        /\ \A s \in Sinks : handled'[s] \in Seq(Responses)
    BY <1>1, <1>15, <2>1, AppendProperties DEF CsvInsert, TypeOK
  <2>3. /\ pc'.fetcher \in {"fetch", "send", "select", "stopping", "answer", "returned"}
        /\ pc'.splitter \in {"receive", "csv", "vlr", "closeVlr", "returned"}
        /\ pc'.csv \in {"select", "insert", "stopping", "answer", "returned"}
        /\ pc'.vlr \in {"select", "add", "stopping", "answer", "returned"}
    BY <1>1, <1>15 DEF CsvInsert, TypeOK, HandsMatch, Goroutines
  <2>4. /\ DOMAIN hand' = Goroutines
        /\ \A g \in DOMAIN hand' : hand'[g] \in MaybeResponse
    BY <1>1, <1>15 DEF CsvInsert, TypeOK, MaybeResponse, Goroutines
  <2>5. unwritten' \in SUBSET Responses
    BY <1>1, <1>15, <2>1 DEF CsvInsert, TypeOK
  <2>6. UNCHANGED <<queue, isClosed, fetched, errorCount, csvOpen, cleanerVars, dead>>
    BY <1>15 DEF CsvInsert
  <2> QED
    BY <1>1, <2>2, <2>3, <2>4, <2>5, <2>6 DEF TypeOK, Goroutines
<1>16. ASSUME CsvInputClosed PROVE TypeOK'
  <2>1. csvOpen' \in BOOLEAN /\ unwritten' \in SUBSET Responses
    BY <1>16 DEF CsvInputClosed, CsvDoClose
  <2>2. UNCHANGED <<pc, queue, isClosed, hand, fetched, handled, errorCount,
                    cleanerVars, dead>>
    BY <1>16 DEF CsvInputClosed
  <2> QED
    BY <1>1, <2>1, <2>2 DEF TypeOK
<1>17. ASSUME CsvTick \/ CsvPanics \/ VlrPanics PROVE TypeOK'
  BY <1>1, <1>17 DEF CsvTick, CsvPanics, VlrPanics, TypeOK, HandsMatch,
     Goroutines, Stoppable
<1>18. ASSUME CsvClose PROVE TypeOK'
  <2>1. csvOpen' \in BOOLEAN /\ unwritten' \in SUBSET Responses
    BY <1>1, <1>18 DEF CsvClose, CsvDoClose, TypeOK
  <2>2. /\ pc' = [pc EXCEPT !.csv = "answer"]
        /\ UNCHANGED <<queue, isClosed, hand, fetched, handled, errorCount,
                       cleanerVars, dead>>
    BY <1>18 DEF CsvClose
  <2> QED
    BY <1>1, <2>1, <2>2 DEF TypeOK, HandsMatch, Goroutines
<1>19. ASSUME CleanerStart PROVE TypeOK'
  BY <1>1, <1>19 DEF CleanerStart, TypeOK, HandsMatch,
     Goroutines, Stoppable
<1>20. ASSUME NEW g \in Stoppable, StopAnswered(g) PROVE TypeOK'
  <2>1. step' = step + 1 /\ step \in 1 .. 6
    BY <1>1, <1>20, PlanSteps DEF StopAnswered, Counted
  <2>2. step' \in 0 .. Len(CleanupPlan) + 1
    BY <1>1, <2>1
  <2>3. UNCHANGED <<queue, isClosed, hand, fetched, handled, errorCount,
                    csvVars, stopAsked, dead>>
    BY <1>20 DEF StopAnswered
  <2>4. awaiting' \in BOOLEAN /\ timedOut' \in BOOLEAN
    BY <1>1, <1>20 DEF StopAnswered, TypeOK
  <2>5. /\ pc'.fetcher \in {"fetch", "send", "select", "stopping", "answer", "returned"}
        /\ pc'.splitter \in {"receive", "csv", "vlr", "closeVlr", "returned"}
        /\ pc'.csv \in {"select", "insert", "stopping", "answer", "returned"}
        /\ pc'.vlr \in {"select", "add", "stopping", "answer", "returned"}
    BY <1>1, <1>20 DEF StopAnswered, Stoppable, TypeOK, HandsMatch, Goroutines
  <2> QED
    BY <1>1, <2>2, <2>3, <2>4, <2>5 DEF TypeOK
<1>21. ASSUME NEW g \in Stoppable, StopSend(g) PROVE TypeOK'
  BY <1>1, <1>21 DEF StopSend, TypeOK, HandsMatch,
     Goroutines, Stoppable
<1>22. ASSUME NEW c \in Channels, EmptyDone(c) PROVE TypeOK'
  <2>1. step' = step + 1 /\ step \in 1 .. 6
    BY <1>1, <1>22, PlanSteps DEF EmptyDone, Counted
  <2>2. step' \in 0 .. Len(CleanupPlan) + 1
    BY <1>1, <2>1
  <2>3. UNCHANGED <<queue, isClosed, hand, fetched, handled, errorCount,
                    csvVars, stopAsked, dead>>
    BY <1>22 DEF EmptyDone
  <2>4. awaiting' \in BOOLEAN /\ timedOut' \in BOOLEAN
    BY <1>1, <1>22 DEF EmptyDone, TypeOK
  <2>5. UNCHANGED pc
    BY <1>1, <1>22 DEF EmptyDone, Stoppable, TypeOK, HandsMatch, Goroutines
  <2> QED
    BY <1>1, <2>2, <2>3, <2>4, <2>5 DEF TypeOK
<1>23. ASSUME NEW c \in Channels, EmptyWait(c) PROVE TypeOK'
  BY <1>1, <1>23 DEF EmptyWait, TypeOK, HandsMatch,
     Goroutines, Stoppable
<1>24. ASSUME CleanerTimeout PROVE TypeOK'
  <2>1. step' = step + 1 /\ step \in 1 .. 6
    BY <1>1, <1>24, PlanSteps DEF CleanerTimeout, Counted
  <2>2. step' \in 0 .. Len(CleanupPlan) + 1
    BY <1>1, <2>1
  <2>3. UNCHANGED <<queue, isClosed, hand, fetched, handled, errorCount,
                    csvVars, stopAsked, dead>>
    BY <1>24 DEF CleanerTimeout
  <2>4. awaiting' \in BOOLEAN /\ timedOut' \in BOOLEAN
    BY <1>1, <1>24 DEF CleanerTimeout, TypeOK
  <2>5. UNCHANGED pc
    BY <1>1, <1>24 DEF CleanerTimeout, Stoppable, TypeOK, HandsMatch, Goroutines
  <2> QED
    BY <1>1, <2>2, <2>3, <2>4, <2>5 DEF TypeOK
<1>25. ASSUME AskStop PROVE TypeOK'
  BY <1>1, <1>25 DEF AskStop, TypeOK, HandsMatch,
     Goroutines, Stoppable
<1>26. CASE UNCHANGED vars
  BY <1>1, <1>26 DEF vars, TypeOK
<1> QED
  BY <1>2, <1>3, <1>4, <1>5, <1>6, <1>7, <1>8, <1>9, <1>10, <1>11,
     <1>12, <1>13, <1>14, <1>15, <1>16, <1>17, <1>18, <1>19, <1>20, <1>21,
     <1>22, <1>23, <1>24, <1>25, <1>26 DEF Next, FetcherStep, SplitterStep,
     VlrStep, CsvStep, CleanerStep

(* The order is untouched where nothing moved.                             *)
LEMMA Unmoved ==
  ASSUME NEW s \in Sinks, InOrder(s),
         handled'[s] = handled[s], hand'[s] = hand[s], queue'[s] = queue[s],
         Owed(s)' = Owed(s), Owed(s) = 1 => hand'.splitter = hand.splitter,
         queue'.splitter = queue.splitter, hand'.fetcher = hand.fetcher,
         fetched' = fetched
  PROVE  /\ InOrder(s)'
         /\ Taken(s)' = Taken(s) /\ Queued(s)' = Queued(s) /\ Sent(s)' = Sent(s)
<1>1. InHand(s)' = InHand(s) /\ InHand("fetcher")' = InHand("fetcher")
  BY DEF InHand
<1>2. Taken(s)' = Taken(s) /\ Queued(s)' = Queued(s) /\ Split(s)' = Split(s)
      /\ Sent(s)' = Sent(s)
  BY <1>1 DEF Taken, Queued, Split, Sent
<1> QED
  BY <1>1, <1>2 DEF InOrder

(* A sink takes the next response from its channel.                        *)
LEMMA SinkTakes ==
  ASSUME TypeOK, NEW s \in Sinks, InOrder(s), hand[s] = None, Take(s),
         hand' = [hand EXCEPT ![s] = Head(queue[s])],
         UNCHANGED <<handled, fetched, pc.splitter>>
  PROVE  InOrder(s)'
<1>1. s \in Channels /\ s # "splitter" /\ s # "fetcher" /\ s \in DOMAIN hand
      /\ DOMAIN queue = Channels
  BY DEF Sinks, Channels, TypeOK
<1>2. /\ Taken(s) \in Nat /\ queue[s] \in Seq(Responses) /\ queue[s] # <<>>
      /\ Len(queue[s]) \in Nat /\ Len(handled[s]) \in Nat
      /\ Runs(queue[s], Taken(s))
  BY Counts DEF Take, InOrder
<1>3. /\ Head(queue[s]) = Taken(s) + 1 /\ Head(queue[s]) # None
      /\ Len(Tail(queue[s])) = Len(queue[s]) - 1
      /\ Runs(Tail(queue[s]), Taken(s) + 1)
  BY <1>2, RunsTail DEF Responses, None
<1>4. /\ hand'[s] = Taken(s) + 1 /\ hand'[s] # None
      /\ hand'["splitter"] = hand["splitter"] /\ hand'["fetcher"] = hand["fetcher"]
      /\ queue'[s] = Tail(queue[s]) /\ queue'["splitter"] = queue["splitter"]
      /\ handled'[s] = handled[s]
  BY <1>1, <1>3 DEF Take, Channels
<1>5. /\ InHand(s) = 0 /\ InHand(s)' = 1 /\ Owed(s)' = Owed(s)
      /\ InHand("fetcher")' = InHand("fetcher")
  BY <1>4 DEF InHand, Owed
<1>6. Taken(s) = Len(handled[s]) /\ Taken(s)' = Len(handled[s]) + 1
  BY <1>2, <1>4, <1>5 DEF Taken
<1>7. Queued(s)' = Queued(s)
  <2>1. Len(queue'[s]) = Len(queue[s]) - 1
    BY <1>3, <1>4
  <2>2. Taken(s)' = Taken(s) + 1
    BY <1>6
  <2> QED
    BY <1>2, <2>1, <2>2 DEF Queued
<1>8. Split(s)' = Split(s) /\ Sent(s)' = Sent(s)
  BY <1>4, <1>5, <1>7 DEF Split, Sent
<1> QED
  BY <1>3, <1>4, <1>5, <1>6, <1>7, <1>8 DEF InOrder

(* A sink has dealt with the response in its hand.                         *)
LEMMA SinkHandles ==
  ASSUME TypeOK, NEW s \in Sinks, InOrder(s), hand[s] # None,
         hand' = [hand EXCEPT ![s] = None],
         handled' = [handled EXCEPT ![s] = Append(@, hand[s])],
         UNCHANGED <<queue, fetched, pc.splitter>>
  PROVE  InOrder(s)'
<1>1. s # "splitter" /\ s # "fetcher" /\ s \in DOMAIN hand
      /\ hand[s] \in Responses
  BY DEF Sinks, TypeOK, MaybeResponse
<1>2. /\ handled[s] \in Seq(Responses) /\ Len(handled[s]) \in Nat
      /\ Runs(handled[s], 0) /\ hand[s] = Len(handled[s]) + 1
  BY Counts DEF InOrder
<1>3. /\ Len(Append(handled[s], hand[s])) = Len(handled[s]) + 1
      /\ Runs(Append(handled[s], hand[s]), 0)
  <2>1. hand[s] = 0 + Len(handled[s]) + 1 /\ 0 \in Nat
    BY <1>2
  <2> QED
    BY <1>1, <1>2, <2>1, RunsAppend
<1>4. /\ hand'[s] = None
      /\ hand'["splitter"] = hand["splitter"] /\ hand'["fetcher"] = hand["fetcher"]
      /\ handled'[s] = Append(handled[s], hand[s])
  BY <1>1 DEF TypeOK
<1>5. /\ InHand(s) = 1 /\ InHand(s)' = 0 /\ Owed(s)' = Owed(s)
      /\ InHand("fetcher")' = InHand("fetcher")
  BY <1>4 DEF InHand, Owed
<1>6. Taken(s)' = Taken(s)
  BY <1>2, <1>3, <1>4, <1>5 DEF Taken
<1>7. Queued(s)' = Queued(s) /\ Split(s)' = Split(s) /\ Sent(s)' = Sent(s)
  BY <1>5, <1>6 DEF Queued, Split, Sent
<1> QED
  BY <1>3, <1>4, <1>5, <1>6, <1>7 DEF InOrder

(* The splitter passes the response in its hand on to a sink's channel.    *)
LEMMA SplitterPasses ==
  ASSUME TypeOK, NEW s \in Sinks, InOrder(s), Owed(s) = 1, Owed(s)' = 0,
         Put(s, hand.splitter), hand'[s] = hand[s],
         hand'.fetcher = hand.fetcher, UNCHANGED <<handled, fetched>>
  PROVE  InOrder(s)'
<1>1. s \in Channels /\ s # "splitter" /\ DOMAIN queue = Channels
      /\ hand["splitter"] \in MaybeResponse
  BY DEF Sinks, Channels, TypeOK
<1>2. hand["splitter"] \in Responses
  BY <1>1 DEF Owed, InHand, MaybeResponse
<1>3. /\ Taken(s) \in Nat /\ Queued(s) \in Nat /\ queue[s] \in Seq(Responses)
      /\ Len(queue[s]) \in Nat /\ Runs(queue[s], Taken(s))
      /\ hand.splitter = Queued(s) + 1
  BY Counts DEF InOrder
<1>4. hand.splitter = Taken(s) + Len(queue[s]) + 1
  BY <1>3 DEF Queued
<1>5. /\ Len(Append(queue[s], hand.splitter)) = Len(queue[s]) + 1
      /\ Runs(Append(queue[s], hand.splitter), Taken(s))
  BY <1>2, <1>3, <1>4, RunsAppend
<1>6. queue'[s] = Append(queue[s], hand.splitter)
      /\ queue'["splitter"] = queue["splitter"]
  BY <1>1 DEF Put, Channels
<1>7. InHand(s)' = InHand(s) /\ InHand("fetcher")' = InHand("fetcher")
  BY DEF InHand
<1>8. Taken(s)' = Taken(s)
  BY <1>7 DEF Taken
<1>9. Queued(s)' = Queued(s) + 1
  BY <1>3, <1>5, <1>6, <1>8 DEF Queued
<1>10. Split(s)' = Split(s)
  BY <1>3, <1>9 DEF Split
<1>11. Sent(s)' = Sent(s)
  BY <1>6, <1>10 DEF Sent
<1> QED
  BY <1>5, <1>6, <1>7, <1>8, <1>9, <1>10, <1>11 DEF InOrder

(* The splitter takes the next response from its channel.                  *)
LEMMA SplitterTakes ==
  ASSUME TypeOK, NEW s \in Sinks, InOrder(s), hand.splitter = None,
         Take("splitter"), pc'.splitter = "csv",
         hand' = [hand EXCEPT !.splitter = Head(queue.splitter)],
         UNCHANGED <<handled, fetched>>
  PROVE  InOrder(s)'
<1>1. s \in Channels /\ s # "splitter" /\ DOMAIN queue = Channels
      /\ "splitter" \in DOMAIN hand
  BY DEF Sinks, Channels, TypeOK
<1>2. /\ Split(s) \in Nat /\ Queued(s) \in Nat
      /\ queue["splitter"] \in Seq(Responses) /\ queue["splitter"] # <<>>
      /\ Len(queue["splitter"]) \in Nat /\ Runs(queue["splitter"], Split(s))
  BY Counts DEF Take, InOrder
<1>3. /\ Head(queue["splitter"]) = Split(s) + 1
      /\ Head(queue["splitter"]) # None
      /\ Len(Tail(queue["splitter"])) = Len(queue["splitter"]) - 1
      /\ Runs(Tail(queue["splitter"]), Split(s) + 1)
  BY <1>2, RunsTail DEF Responses, None
<1>4. /\ hand'["splitter"] = Split(s) + 1 /\ hand'["splitter"] # None
      /\ hand'[s] = hand[s] /\ hand'["fetcher"] = hand["fetcher"]
      /\ queue'["splitter"] = Tail(queue["splitter"]) /\ queue'[s] = queue[s]
  <2>1. \A g \in DOMAIN hand : hand'[g] = IF g = "splitter"
                                          THEN Head(queue["splitter"])
                                          ELSE hand[g]
    OBVIOUS
  <2>2. s \in DOMAIN hand /\ "fetcher" \in DOMAIN hand
    BY DEF Sinks, TypeOK
  <2>3. queue'["splitter"] = Tail(queue["splitter"]) /\ queue'[s] = queue[s]
    BY <1>1 DEF Take, Channels
  <2>4. s # "fetcher"
    BY DEF Sinks
  <2> QED
    BY <1>1, <1>3, <2>1, <2>2, <2>3, <2>4
<1>5. /\ Owed(s) = 0 /\ Owed(s)' = 1 /\ InHand(s)' = InHand(s)
      /\ InHand("fetcher")' = InHand("fetcher")
  BY <1>4 DEF InHand, Owed
<1>6. Taken(s)' = Taken(s) /\ Queued(s)' = Queued(s)
  BY <1>4, <1>5 DEF Taken, Queued
<1>7. Split(s) = Queued(s) /\ Split(s)' = Queued(s) + 1
  BY <1>2, <1>5, <1>6 DEF Split
<1>8. Sent(s)' = Sent(s)
  <2>1. Len(queue'["splitter"]) = Len(queue["splitter"]) - 1
    BY <1>3, <1>4
  <2>2. Split(s)' = Split(s) + 1
    BY <1>7
  <2>3. Sent(s) = Split(s) + Len(queue["splitter"])
        /\ Sent(s)' = Split(s)' + Len(queue'["splitter"])
    BY DEF Sent
  <2> QED
    BY <1>2, <2>1, <2>2, <2>3
<1> QED
  BY <1>3, <1>4, <1>5, <1>6, <1>7, <1>8 DEF InOrder

(* The fetcher has fetched one more.                                       *)
LEMMA FetcherFetches ==
  ASSUME TypeOK, NEW s \in Sinks, InOrder(s), hand.fetcher = None,
         hand' = [hand EXCEPT !.fetcher = fetched + 1],
         fetched' = fetched + 1,
         UNCHANGED <<queue, handled, pc.splitter>>
  PROVE  InOrder(s)'
<1>1. \A g \in DOMAIN hand : hand'[g] = IF g = "fetcher" THEN fetched + 1
                                                         ELSE hand[g]
  OBVIOUS
<1>2. /\ hand'["fetcher"] = fetched + 1 /\ hand'[s] = hand[s]
      /\ hand'["splitter"] = hand["splitter"] /\ fetched \in Nat
  BY <1>1 DEF TypeOK, Sinks
<1>3. /\ InHand("fetcher") = 0 /\ InHand("fetcher")' = 1
      /\ InHand(s)' = InHand(s) /\ Owed(s)' = Owed(s)
  BY <1>2 DEF InHand, Owed, None
<1>4. /\ Taken(s)' = Taken(s) /\ Queued(s)' = Queued(s) /\ Split(s)' = Split(s)
      /\ Sent(s)' = Sent(s)
  BY <1>3 DEF Taken, Queued, Split, Sent
<1>5. Sent(s) \in Nat /\ fetched = Sent(s)
  BY <1>3, Counts DEF InOrder
<1> QED
  BY <1>2, <1>3, <1>4, <1>5 DEF InOrder

(* The fetcher sends what it has fetched to the splitter.                  *)
LEMMA FetcherSends ==
  ASSUME TypeOK, NEW s \in Sinks, InOrder(s), hand.fetcher # None,
         Put("splitter", hand.fetcher),
         hand' = [hand EXCEPT !.fetcher = None],
         UNCHANGED <<handled, fetched, pc.splitter>>
  PROVE  InOrder(s)'
<1>1. s \in Channels /\ s # "splitter" /\ "splitter" \in Channels
      /\ DOMAIN queue = Channels /\ hand["fetcher"] \in Responses
  BY DEF Sinks, Channels, TypeOK, MaybeResponse
<1>2. \A g \in DOMAIN hand : hand'[g] = IF g = "fetcher" THEN None ELSE hand[g]
  OBVIOUS
<1>3. /\ hand'["fetcher"] = None /\ hand'[s] = hand[s]
      /\ hand'["splitter"] = hand["splitter"]
  BY <1>2 DEF TypeOK, Sinks
<1>4. /\ queue'["splitter"] = Append(queue["splitter"], hand["fetcher"])
      /\ queue'[s] = queue[s]
  BY <1>1 DEF Put
<1>5. /\ Split(s) \in Nat /\ queue["splitter"] \in Seq(Responses)
      /\ Len(queue["splitter"]) \in Nat /\ Runs(queue["splitter"], Split(s))
      /\ hand["fetcher"] = Sent(s) + 1 /\ fetched = Sent(s) + 1
      /\ Sent(s) \in Nat
  BY Counts DEF InOrder, InHand
<1>6. Sent(s) = Split(s) + Len(queue["splitter"])
      /\ Sent(s)' = Split(s)' + Len(queue'["splitter"])
  BY DEF Sent
<1>7. hand["fetcher"] = Split(s) + Len(queue["splitter"]) + 1
  BY <1>5, <1>6
<1>8. /\ Len(Append(queue["splitter"], hand["fetcher"])) = Len(queue["splitter"]) + 1
      /\ Runs(Append(queue["splitter"], hand["fetcher"]), Split(s))
  BY <1>1, <1>5, <1>7, RunsAppend
<1>9. /\ InHand("fetcher")' = 0 /\ InHand(s)' = InHand(s) /\ Owed(s)' = Owed(s)
  BY <1>3 DEF InHand, Owed
<1>10. Taken(s)' = Taken(s) /\ Queued(s)' = Queued(s) /\ Split(s)' = Split(s)
  BY <1>4, <1>9 DEF Taken, Queued, Split
<1>11. Sent(s)' = Sent(s) + 1
  BY <1>4, <1>5, <1>6, <1>8, <1>10
<1>12. Runs(queue'["splitter"], Split(s)')
  BY <1>4, <1>8, <1>10
<1>13. fetched' = Sent(s)' + InHand("fetcher")'
  BY <1>5, <1>9, <1>11
<1> QED
  BY <1>3, <1>4, <1>9, <1>10, <1>12, <1>13 DEF InOrder

(* Every step keeps the responses in order.                                *)
LEMMA OrderKept ==
  ASSUME IInv, [Next]_vars, NEW s \in Sinks
  PROVE  InOrder(s)'
<1> USE DEF Goto
<1>1. TypeOK /\ HandsMatch /\ InOrder(s)
  BY DEF IInv
<1>2. ASSUME FetcherTick PROVE InOrder(s)'
  BY <1>1, <1>2, Unmoved DEF FetcherTick, Owed, InHand, Sinks, HandsMatch,
     Goroutines
<1>3. ASSUME Fetch PROVE InOrder(s)'
  BY <1>1, <1>3, FetcherFetches DEF Fetch, HandsMatch, Goroutines
<1>4. ASSUME FetcherSend PROVE InOrder(s)'
  BY <1>1, <1>4, FetcherSends DEF FetcherSend, HandsMatch, Goroutines
<1>5. ASSUME FetcherClose PROVE InOrder(s)'
  BY <1>1, <1>5, Unmoved DEF FetcherClose, Owed, InHand, Sinks, HandsMatch,
     Goroutines
<1>6. ASSUME SplitterReceive PROVE InOrder(s)'
  BY <1>1, <1>6, SplitterTakes DEF SplitterReceive, HandsMatch, Goroutines
<1>7. ASSUME SplitterToCsv PROVE InOrder(s)'
  <2>1. CASE s = "csv"
    <3>1. Owed(s) = 1 /\ Owed(s)' = 0
      BY <1>1, <1>7, <2>1 DEF SplitterToCsv, Owed, InHand, HandsMatch,
         Goroutines, TypeOK
    <3> QED
      BY <1>1, <1>7, <2>1, <3>1, SplitterPasses DEF SplitterToCsv, TypeOK
  <2>2. CASE s = "vlr"
    <3>1. Owed(s)' = Owed(s) /\ (Owed(s) = 1 => hand'.splitter = hand.splitter)
      BY <1>1, <1>7, <2>2 DEF SplitterToCsv, Owed, InHand, HandsMatch,
         Goroutines, TypeOK
    <3> QED
      BY <1>1, <1>7, <2>2, <3>1, Unmoved DEF SplitterToCsv, Put, Channels,
         TypeOK
  <2> QED
    BY <2>1, <2>2 DEF Sinks
<1>8. ASSUME SplitterToVlr PROVE InOrder(s)'
  <2>1. CASE s = "vlr"
    <3>1. Owed(s) = 1 /\ Owed(s)' = 0
      BY <1>1, <1>8, <2>1 DEF SplitterToVlr, Owed, InHand, HandsMatch,
         Goroutines, TypeOK
    <3> QED
      BY <1>1, <1>8, <2>1, <3>1, SplitterPasses DEF SplitterToVlr, TypeOK
  <2>2. CASE s = "csv"
    <3>1. Owed(s)' = Owed(s) /\ (Owed(s) = 1 => hand'.splitter = hand.splitter)
      BY <1>1, <1>8, <2>2 DEF SplitterToVlr, Owed, InHand, HandsMatch,
         Goroutines, TypeOK
    <3> QED
      BY <1>1, <1>8, <2>2, <3>1, Unmoved DEF SplitterToVlr, Put, Channels,
         TypeOK
  <2> QED
    BY <2>1, <2>2 DEF Sinks
<1>9. ASSUME SplitterCloseCsv PROVE InOrder(s)'
  BY <1>1, <1>9, Unmoved DEF SplitterCloseCsv, Owed, InHand, Sinks,
     HandsMatch, Goroutines
<1>10. ASSUME SplitterCloseVlr PROVE InOrder(s)'
  BY <1>1, <1>10, Unmoved DEF SplitterCloseVlr, Owed, InHand, Sinks,
     HandsMatch, Goroutines
<1>11. ASSUME VlrReceive PROVE InOrder(s)'
  <2>1. CASE s = "vlr"
    BY <1>1, <1>11, <2>1, SinkTakes DEF VlrReceive, HandsMatch, Goroutines,
       Sinks
  <2>2. CASE s = "csv"
    BY <1>1, <1>11, <2>2, Unmoved DEF VlrReceive, Owed, InHand, HandsMatch,
       Goroutines, Sinks, Take, Put,
       Channels, TypeOK
  <2> QED
    BY <2>1, <2>2 DEF Sinks
<1>12. ASSUME VlrAdd PROVE InOrder(s)'
  <2>1. CASE s = "vlr"
    BY <1>1, <1>12, <2>1, SinkHandles DEF VlrAdd, HandsMatch, Goroutines, Sinks
  <2>2. CASE s = "csv"
    BY <1>1, <1>12, <2>2, Unmoved DEF VlrAdd, Owed, InHand, HandsMatch,
       Goroutines, Sinks, Take, Put,
       Channels, TypeOK
  <2> QED
    BY <2>1, <2>2 DEF Sinks
<1>13. ASSUME VlrClose PROVE InOrder(s)'
  BY <1>1, <1>13, Unmoved DEF VlrClose, Owed, InHand, Sinks, HandsMatch,
     Goroutines
<1>14. ASSUME CsvReceive PROVE InOrder(s)'
  <2>1. CASE s = "csv"
    BY <1>1, <1>14, <2>1, SinkTakes DEF CsvReceive, HandsMatch, Goroutines,
       Sinks
  <2>2. CASE s = "vlr"
    BY <1>1, <1>14, <2>2, Unmoved DEF CsvReceive, Owed, InHand, HandsMatch,
       Goroutines, Sinks, Take, Put,
       Channels, TypeOK
  <2> QED
    BY <2>1, <2>2 DEF Sinks
<1>15. ASSUME CsvInsert PROVE InOrder(s)'
  <2>1. CASE s = "csv"
    BY <1>1, <1>15, <2>1, SinkHandles DEF CsvInsert, HandsMatch, Goroutines,
       Sinks
  <2>2. CASE s = "vlr"
    BY <1>1, <1>15, <2>2, Unmoved DEF CsvInsert, Owed, InHand, HandsMatch,
       Goroutines, Sinks, Take, Put,
       Channels, TypeOK
  <2> QED
    BY <2>1, <2>2 DEF Sinks
<1>16. ASSUME CsvInputClosed PROVE InOrder(s)'
  BY <1>1, <1>16, Unmoved DEF CsvInputClosed, Owed, InHand, Sinks, HandsMatch,
     Goroutines
<1>17. ASSUME CsvTick \/ CsvPanics \/ VlrPanics PROVE InOrder(s)'
  BY <1>1, <1>17, Unmoved DEF CsvTick, CsvPanics, VlrPanics, Owed, InHand, Sinks,
     HandsMatch, Goroutines
<1>18. ASSUME CsvClose PROVE InOrder(s)'
  BY <1>1, <1>18, Unmoved DEF CsvClose, Owed, InHand, Sinks, HandsMatch,
     Goroutines
<1>19. ASSUME CleanerStart PROVE InOrder(s)'
  BY <1>1, <1>19, Unmoved DEF CleanerStart, Owed, InHand, Sinks, HandsMatch,
     Goroutines
<1>20. ASSUME NEW g \in Stoppable, StopAnswered(g) PROVE InOrder(s)'
  BY <1>1, <1>20, Unmoved DEF StopAnswered, Owed, InHand, Sinks, HandsMatch,
     Goroutines
<1>21. ASSUME NEW g \in Stoppable, StopSend(g) PROVE InOrder(s)'
  BY <1>1, <1>21, Unmoved DEF StopSend, Owed, InHand, Sinks, HandsMatch,
     Goroutines
<1>22. ASSUME NEW c \in Channels, EmptyDone(c) PROVE InOrder(s)'
  BY <1>1, <1>22, Unmoved DEF EmptyDone, Owed, InHand, Sinks, HandsMatch,
     Goroutines
<1>23. ASSUME NEW c \in Channels, EmptyWait(c) PROVE InOrder(s)'
  BY <1>1, <1>23, Unmoved DEF EmptyWait, Owed, InHand, Sinks, HandsMatch,
     Goroutines
<1>24. ASSUME CleanerTimeout PROVE InOrder(s)'
  BY <1>1, <1>24, Unmoved DEF CleanerTimeout, Owed, InHand, Sinks, HandsMatch,
     Goroutines
<1>25. ASSUME AskStop PROVE InOrder(s)'
  BY <1>1, <1>25, Unmoved DEF AskStop, Owed, InHand, Sinks, HandsMatch,
     Goroutines
<1>26. CASE UNCHANGED vars
  BY Unmoved, <1>1, <1>26 DEF vars, Owed, InHand
<1> QED
  BY <1>2, <1>3, <1>4, <1>5, <1>6, <1>7, <1>8, <1>9, <1>10, <1>11,
     <1>12, <1>13, <1>14, <1>15, <1>16, <1>17, <1>18, <1>19, <1>20, <1>21,
     <1>22, <1>23, <1>24, <1>25, <1>26 DEF Next, FetcherStep, SplitterStep,
     VlrStep, CsvStep, CleanerStep

----------------------------------------------------------------------------
(* How many responses are still coming to a sink once the splitter's       *)
(* channel is empty.                                                       *)
Coming(s) == Len(queue[s]) + Owed(s)

(* What was stopped stays stopped, where the cleaner takes no step and no  *)
(* more comes to a sink.                                                   *)
LEMMA StillStopped ==
  ASSUME StoppedInTurn, UNCHANGED <<step, timedOut>>,
         \A g \in Stoppable : pc[g] = "returned" => pc'[g] = "returned",
         step \in Nat,
         ~ timedOut /\ step >= 3 => queue'.splitter = <<>>,
         \A s \in Sinks : Coming(s) \in Nat /\ Coming(s)' \in Nat,
         ~ timedOut /\ step >= 3 => \A s \in Sinks : Coming(s)' <= Coming(s)
  PROVE  StoppedInTurn'
<1> SUFFICES ASSUME ~ timedOut
             PROVE  /\ step >= 2 => pc'.fetcher = "returned"
                    /\ step >= 3 => queue'.splitter = <<>>
                    /\ step >= 4 => Coming("vlr")' <= 1
                    /\ step >= 5 => pc'.vlr = "returned"
                    /\ step >= 6 => Coming("csv")' <= 1
                    /\ step >= 7 => pc'.csv = "returned"
  BY DEF StoppedInTurn, Coming
<1>1. /\ step >= 2 => pc'["fetcher"] = "returned"
      /\ step >= 5 => pc'["vlr"] = "returned"
      /\ step >= 7 => pc'["csv"] = "returned"
  BY DEF StoppedInTurn, Stoppable
<1>2. step >= 4 => Coming("vlr") <= 1
  BY DEF StoppedInTurn, Coming
<1>3. step >= 6 => Coming("csv") <= 1
  BY DEF StoppedInTurn, Coming
<1>4. "vlr" \in Sinks /\ "csv" \in Sinks
  BY DEF Sinks
<1>5. step >= 4 => Coming("vlr")' <= 1
  BY <1>2, <1>4
<1>6. step >= 6 => Coming("csv")' <= 1
  BY <1>3, <1>4
<1> QED
  BY <1>1, <1>5, <1>6

(* How much is coming to a sink, before a step and after it.               *)
LEMMA ComingCounts ==
  ASSUME TypeOK, NEW s \in Sinks
  PROVE  Coming(s) \in Nat /\ Coming(s) = Len(queue[s]) + Owed(s)
         /\ Len(queue[s]) \in Nat /\ Owed(s) \in {0, 1}
BY Counts DEF Coming

(* Every step keeps the order of stopping.                                 *)
LEMMA StoppedKept == IInv /\ [Next]_vars => StoppedInTurn'
<1> SUFFICES ASSUME IInv, [Next]_vars PROVE StoppedInTurn'
  OBVIOUS
<1> USE DEF Goto
<1>1. /\ TypeOK /\ HandsMatch /\ StoppedInTurn
      /\ step \in Nat /\ timedOut \in BOOLEAN /\ DOMAIN pc = Goroutines
      /\ DOMAIN hand = Goroutines
      /\ \A s \in Sinks : Coming(s) \in Nat /\ Len(queue[s]) \in Nat
                          /\ Owed(s) \in {0, 1}
  <2>1. TypeOK /\ HandsMatch /\ StoppedInTurn
    BY DEF IInv
  <2>2. step \in Nat /\ timedOut \in BOOLEAN /\ DOMAIN pc = Goroutines
        /\ DOMAIN hand = Goroutines
    BY <2>1, PlanSteps DEF TypeOK, HandsMatch, Goroutines
  <2> QED
    BY <2>1, <2>2, ComingCounts
<1> USE DEF Goroutines
<1>2. ASSUME FetcherTick PROVE StoppedInTurn'
  <2>1. /\ pc.fetcher # "returned" /\ UNCHANGED <<step, timedOut>>
    BY <1>2 DEF FetcherTick, cleanerVars
  <2> QED
    BY <1>1, <2>1 DEF StoppedInTurn
<1>3. ASSUME Fetch PROVE StoppedInTurn'
  <2>1. /\ pc.fetcher # "returned" /\ UNCHANGED <<step, timedOut>>
    BY <1>3 DEF Fetch, cleanerVars
  <2> QED
    BY <1>1, <2>1 DEF StoppedInTurn
<1>4. ASSUME FetcherSend PROVE StoppedInTurn'
  <2>1. /\ pc.fetcher # "returned" /\ UNCHANGED <<step, timedOut>>
    BY <1>4 DEF FetcherSend, cleanerVars
  <2> QED
    BY <1>1, <2>1 DEF StoppedInTurn
<1>5. ASSUME FetcherClose PROVE StoppedInTurn'
  <2>1. /\ pc.fetcher # "returned" /\ UNCHANGED <<step, timedOut>>
    BY <1>5 DEF FetcherClose, cleanerVars
  <2> QED
    BY <1>1, <2>1 DEF StoppedInTurn
<1>6. ASSUME SplitterReceive PROVE StoppedInTurn'
  <2>1. /\ queue.splitter # <<>> /\ UNCHANGED <<step, timedOut>>
        /\ pc'.fetcher = pc.fetcher
    BY <1>1, <1>6 DEF SplitterReceive, cleanerVars, Take, Goroutines
  <2>2. ~ timedOut => step < 3
    BY <1>1, <2>1 DEF StoppedInTurn
  <2> QED
    BY <1>1, <2>1, <2>2 DEF StoppedInTurn
<1>7. ASSUME SplitterToCsv PROVE StoppedInTurn'
  <2>1. /\ Owed("csv") = 1 /\ Owed("csv")' = 0 /\ Owed("vlr")' <= Owed("vlr")
        /\ Owed("vlr")' \in {0, 1}
    <3>1. hand.splitter # None /\ pc'.splitter = "vlr"
          /\ pc.splitter = "csv"
      BY <1>1, <1>7 DEF SplitterToCsv, HandsMatch, Goroutines
    <3>2. hand'["splitter"] = hand["splitter"]
      BY <1>1, <1>7 DEF SplitterToCsv, Goroutines
    <3> QED
      BY <3>1, <3>2 DEF Owed, InHand
  <2>2. /\ queue["csv"] \in Seq(Responses) /\ hand["splitter"] \in Responses
        /\ queue'["csv"] = Append(queue["csv"], hand["splitter"])
        /\ queue'["vlr"] = queue["vlr"] /\ queue'["splitter"] = queue["splitter"]
    BY <1>1, <1>7 DEF SplitterToCsv, Put, TypeOK, Channels, HandsMatch,
       MaybeResponse
  <2>3. Len(queue'["csv"]) = Len(queue["csv"]) + 1 /\ Len(queue["csv"]) \in Nat
    BY <2>2, AppendProperties
  <2>4. Coming("csv")' = Coming("csv")
    BY <2>1, <2>3 DEF Coming
  <2>5. Coming("vlr")' <= Coming("vlr") /\ Coming("vlr")' \in Nat
    <3>1. Len(queue["vlr"]) \in Nat /\ Owed("vlr") \in {0, 1}
      BY <1>1 DEF Sinks
    <3> QED
      BY <2>1, <2>2, <3>1 DEF Coming
  <2>6. \A s \in Sinks : Coming(s)' <= Coming(s) /\ Coming(s)' \in Nat
    BY <1>1, <2>4, <2>5 DEF Sinks
  <2>7. UNCHANGED <<step, timedOut>>
    BY <1>7 DEF SplitterToCsv, cleanerVars
  <2>8. \A g \in Stoppable : pc[g] = "returned" => pc'[g] = "returned"
    BY <1>1, <1>7 DEF SplitterToCsv, Stoppable
  <2> QED
    BY <1>1, <2>2, <2>6, <2>7, <2>8, StillStopped DEF StoppedInTurn
<1>8. ASSUME SplitterToVlr PROVE StoppedInTurn'
  <2>1. /\ Owed("vlr") = 1 /\ Owed("vlr")' = 0 /\ Owed("csv")' <= Owed("csv")
        /\ Owed("csv")' \in {0, 1}
    <3>1. hand.splitter # None /\ pc'.splitter = "receive"
          /\ pc.splitter = "vlr"
      BY <1>1, <1>8 DEF SplitterToVlr, HandsMatch, Goroutines
    <3>2. hand'["splitter"] = None
      BY <1>1, <1>8 DEF SplitterToVlr, Goroutines
    <3> QED
      BY <3>1, <3>2 DEF Owed, InHand
  <2>2. /\ queue["vlr"] \in Seq(Responses) /\ hand["splitter"] \in Responses
        /\ queue'["vlr"] = Append(queue["vlr"], hand["splitter"])
        /\ queue'["csv"] = queue["csv"] /\ queue'["splitter"] = queue["splitter"]
    BY <1>1, <1>8 DEF SplitterToVlr, Put, TypeOK, Channels, HandsMatch,
       MaybeResponse
  <2>3. Len(queue'["vlr"]) = Len(queue["vlr"]) + 1 /\ Len(queue["vlr"]) \in Nat
    BY <2>2, AppendProperties
  <2>4. Coming("vlr")' = Coming("vlr")
    BY <2>1, <2>3 DEF Coming
  <2>5. Coming("csv")' <= Coming("csv") /\ Coming("csv")' \in Nat
    <3>1. Len(queue["csv"]) \in Nat /\ Owed("csv") \in {0, 1}
      BY <1>1 DEF Sinks
    <3> QED
      BY <2>1, <2>2, <3>1 DEF Coming
  <2>6. \A s \in Sinks : Coming(s)' <= Coming(s) /\ Coming(s)' \in Nat
    BY <1>1, <2>4, <2>5 DEF Sinks
  <2>7. UNCHANGED <<step, timedOut>>
    BY <1>8 DEF SplitterToVlr, cleanerVars
  <2>8. \A g \in Stoppable : pc[g] = "returned" => pc'[g] = "returned"
    BY <1>1, <1>8 DEF SplitterToVlr, Stoppable
  <2> QED
    BY <1>1, <2>2, <2>6, <2>7, <2>8, StillStopped DEF StoppedInTurn
<1>9. ASSUME SplitterCloseCsv PROVE StoppedInTurn'
  <2>1. \A s \in Sinks : Owed(s)' = Owed(s)
    BY <1>1, <1>9 DEF SplitterCloseCsv, Owed, InHand, Sinks
  <2>2. UNCHANGED <<queue, step, timedOut>>
    BY <1>9 DEF SplitterCloseCsv, cleanerVars
  <2>3. \A g \in Stoppable : pc[g] = "returned" => pc'[g] = "returned"
    BY <1>1, <1>9 DEF SplitterCloseCsv, Stoppable
  <2> QED
    BY <1>1, <2>1, <2>2, <2>3, StillStopped DEF Coming, StoppedInTurn
<1>10. ASSUME SplitterCloseVlr PROVE StoppedInTurn'
  <2>1. \A s \in Sinks : Owed(s)' = Owed(s)
    BY <1>1, <1>10 DEF SplitterCloseVlr, Owed, InHand, Sinks
  <2>2. UNCHANGED <<queue, step, timedOut>>
    BY <1>10 DEF SplitterCloseVlr, cleanerVars
  <2>3. \A g \in Stoppable : pc[g] = "returned" => pc'[g] = "returned"
    BY <1>1, <1>10 DEF SplitterCloseVlr, Stoppable
  <2> QED
    BY <1>1, <2>1, <2>2, <2>3, StillStopped DEF Coming, StoppedInTurn
<1>11. ASSUME VlrReceive PROVE StoppedInTurn'
  <2>1. \A s \in Sinks : Owed(s)' = Owed(s)
    BY <1>1, <1>11 DEF VlrReceive, Owed, InHand, Sinks
  <2>2. /\ queue["vlr"] \in Seq(Responses) /\ queue["vlr"] # <<>>
        /\ queue'["vlr"] = Tail(queue["vlr"])
        /\ queue'["csv"] = queue["csv"] /\ queue'["splitter"] = queue["splitter"]
    BY <1>1, <1>11 DEF VlrReceive, Take, TypeOK, Channels
  <2>3. Len(queue'["vlr"]) = Len(queue["vlr"]) - 1 /\ Len(queue["vlr"]) \in Nat
    BY <2>2, HeadTailProperties
  <2>4. \A s \in Sinks : Len(queue'[s]) <= Len(queue[s]) /\ Len(queue'[s]) \in Nat
    <3>1. Len(queue["csv"]) \in Nat /\ Len(queue["vlr"]) # 0
      BY <1>1, <2>2, EmptySeq DEF Sinks
    <3>2. Len(queue'["vlr"]) <= Len(queue["vlr"]) /\ Len(queue'["vlr"]) \in Nat
      BY <2>3, <3>1
    <3>3. Len(queue'["csv"]) <= Len(queue["csv"])
          /\ Len(queue'["csv"]) \in Nat
      BY <2>2, <3>1
    <3> QED
      BY <3>2, <3>3 DEF Sinks
  <2>5. \A s \in Sinks : Coming(s)' <= Coming(s) /\ Coming(s)' \in Nat
    BY <1>1, <2>1, <2>4 DEF Coming
  <2>6. UNCHANGED <<step, timedOut>>
    BY <1>11 DEF VlrReceive, cleanerVars
  <2>7. \A g \in Stoppable : pc[g] = "returned" => pc'[g] = "returned"
    BY <1>1, <1>11 DEF VlrReceive, Stoppable
  <2> QED
    BY <1>1, <2>2, <2>5, <2>6, <2>7, StillStopped DEF StoppedInTurn
<1>12. ASSUME VlrAdd PROVE StoppedInTurn'
  <2>1. \A s \in Sinks : Owed(s)' = Owed(s)
    BY <1>1, <1>12 DEF VlrAdd, Owed, InHand, Sinks
  <2>2. UNCHANGED <<queue, step, timedOut>>
    BY <1>12 DEF VlrAdd, cleanerVars
  <2>3. \A g \in Stoppable : pc[g] = "returned" => pc'[g] = "returned"
    BY <1>1, <1>12 DEF VlrAdd, Stoppable
  <2> QED
    BY <1>1, <2>1, <2>2, <2>3, StillStopped DEF Coming, StoppedInTurn
<1>13. ASSUME VlrClose PROVE StoppedInTurn'
  <2>1. \A s \in Sinks : Owed(s)' = Owed(s)
    BY <1>1, <1>13 DEF VlrClose, Owed, InHand, Sinks
  <2>2. UNCHANGED <<queue, step, timedOut>>
    BY <1>13 DEF VlrClose, cleanerVars
  <2>3. \A g \in Stoppable : pc[g] = "returned" => pc'[g] = "returned"
    BY <1>1, <1>13 DEF VlrClose, Stoppable
  <2> QED
    BY <1>1, <2>1, <2>2, <2>3, StillStopped DEF Coming, StoppedInTurn
<1>14. ASSUME CsvReceive PROVE StoppedInTurn'
  <2>1. \A s \in Sinks : Owed(s)' = Owed(s)
    BY <1>1, <1>14 DEF CsvReceive, Owed, InHand, Sinks
  <2>2. /\ queue["csv"] \in Seq(Responses) /\ queue["csv"] # <<>>
        /\ queue'["csv"] = Tail(queue["csv"])
        /\ queue'["vlr"] = queue["vlr"] /\ queue'["splitter"] = queue["splitter"]
    BY <1>1, <1>14 DEF CsvReceive, Take, TypeOK, Channels
  <2>3. Len(queue'["csv"]) = Len(queue["csv"]) - 1 /\ Len(queue["csv"]) \in Nat
    BY <2>2, HeadTailProperties
  <2>4. \A s \in Sinks : Len(queue'[s]) <= Len(queue[s]) /\ Len(queue'[s]) \in Nat
    <3>1. Len(queue["vlr"]) \in Nat /\ Len(queue["csv"]) # 0
      BY <1>1, <2>2, EmptySeq DEF Sinks
    <3>2. Len(queue'["csv"]) <= Len(queue["csv"]) /\ Len(queue'["csv"]) \in Nat
      BY <2>3, <3>1
    <3>3. Len(queue'["vlr"]) <= Len(queue["vlr"])
          /\ Len(queue'["vlr"]) \in Nat
      BY <2>2, <3>1
    <3> QED
      BY <3>2, <3>3 DEF Sinks
  <2>5. \A s \in Sinks : Coming(s)' <= Coming(s) /\ Coming(s)' \in Nat
    BY <1>1, <2>1, <2>4 DEF Coming
  <2>6. UNCHANGED <<step, timedOut>>
    BY <1>14 DEF CsvReceive, cleanerVars
  <2>7. \A g \in Stoppable : pc[g] = "returned" => pc'[g] = "returned"
    BY <1>1, <1>14 DEF CsvReceive, Stoppable
  <2> QED
    BY <1>1, <2>2, <2>5, <2>6, <2>7, StillStopped DEF StoppedInTurn
<1>15. ASSUME CsvInsert PROVE StoppedInTurn'
  <2>1. \A s \in Sinks : Owed(s)' = Owed(s)
    BY <1>1, <1>15 DEF CsvInsert, Owed, InHand, Sinks
  <2>2. UNCHANGED <<queue, step, timedOut>>
    BY <1>15 DEF CsvInsert, cleanerVars
  <2>3. \A g \in Stoppable : pc[g] = "returned" => pc'[g] = "returned"
    BY <1>1, <1>15 DEF CsvInsert, Stoppable
  <2> QED
    BY <1>1, <2>1, <2>2, <2>3, StillStopped DEF Coming, StoppedInTurn
<1>16. ASSUME CsvInputClosed PROVE StoppedInTurn'
  <2>1. \A s \in Sinks : Owed(s)' = Owed(s)
    BY <1>1, <1>16 DEF CsvInputClosed, Owed, InHand, Sinks
  <2>2. UNCHANGED <<queue, step, timedOut>>
    BY <1>16 DEF CsvInputClosed, cleanerVars
  <2>3. \A g \in Stoppable : pc[g] = "returned" => pc'[g] = "returned"
    BY <1>1, <1>16 DEF CsvInputClosed, Stoppable
  <2> QED
    BY <1>1, <2>1, <2>2, <2>3, StillStopped DEF Coming, StoppedInTurn
<1>17. ASSUME CsvTick \/ CsvPanics \/ VlrPanics PROVE StoppedInTurn'
  <2>1. \A s \in Sinks : Owed(s)' = Owed(s)
    BY <1>1, <1>17 DEF CsvTick, CsvPanics, VlrPanics, Owed, InHand, Sinks
  <2>2. UNCHANGED <<queue, step, timedOut>>
    BY <1>17 DEF CsvTick, CsvPanics, VlrPanics, cleanerVars
  <2>3. \A g \in Stoppable : pc[g] = "returned" => pc'[g] = "returned"
    BY <1>1, <1>17 DEF CsvTick, CsvPanics, VlrPanics, Stoppable
  <2> QED
    BY <1>1, <2>1, <2>2, <2>3, StillStopped DEF Coming, StoppedInTurn
<1>18. ASSUME CsvClose PROVE StoppedInTurn'
  <2>1. \A s \in Sinks : Owed(s)' = Owed(s)
    BY <1>1, <1>18 DEF CsvClose, Owed, InHand, Sinks
  <2>2. UNCHANGED <<queue, step, timedOut>>
    BY <1>18 DEF CsvClose, cleanerVars
  <2>3. \A g \in Stoppable : pc[g] = "returned" => pc'[g] = "returned"
    BY <1>1, <1>18 DEF CsvClose, Stoppable
  <2> QED
    BY <1>1, <2>1, <2>2, <2>3, StillStopped DEF Coming, StoppedInTurn
<1>19. ASSUME CleanerStart PROVE StoppedInTurn'
  BY <1>1, <1>19 DEF CleanerStart, StoppedInTurn
<1>20. ASSUME NEW g \in Stoppable, StopAnswered(g) PROVE StoppedInTurn'
  <2>1. /\ \A s \in Sinks : Owed(s)' = Owed(s)
        /\ UNCHANGED <<queue, timedOut>> /\ step' = step + 1
    BY <1>1, <1>20 DEF StopAnswered, Owed, InHand, Sinks, Stoppable
  <2>2. pc'[g] = "returned" /\ \A h \in Stoppable \ {g} : pc'[h] = pc[h]
    BY <1>1, <1>20 DEF StopAnswered, Stoppable
  <2>3. \A s \in Sinks : Coming(s)' = Coming(s)
    BY <2>1 DEF Coming
  <2>4. CASE g = "fetcher" /\ step = 1
    BY <1>1, <2>1, <2>2, <2>4 DEF StoppedInTurn
  <2>5. CASE g = "vlr" /\ step = 4
    BY <1>1, <2>1, <2>2, <2>5 DEF StoppedInTurn, Stoppable, Sinks
  <2>6. CASE g = "csv" /\ step = 6
    BY <1>1, <2>1, <2>2, <2>6 DEF StoppedInTurn, Stoppable, Sinks
  <2> QED
    BY <1>20, <2>4, <2>5, <2>6, PlanSteps DEF StopAnswered
<1>21. ASSUME NEW g \in Stoppable, StopSend(g) PROVE StoppedInTurn'
  <2>1. \A s \in Sinks : Owed(s)' = Owed(s)
    BY <1>1, <1>21 DEF StopSend, Owed, InHand, Sinks
  <2>2. UNCHANGED <<queue, step, timedOut>>
    BY <1>21 DEF StopSend, cleanerVars
  <2>3. \A h \in Stoppable : pc[h] = "returned" => pc'[h] = "returned"
    BY <1>1, <1>21 DEF StopSend, Stoppable
  <2> QED
    BY <1>1, <2>1, <2>2, <2>3, StillStopped DEF Coming, StoppedInTurn
<1>22. ASSUME NEW c \in Channels, EmptyDone(c) PROVE StoppedInTurn'
  <2>1. /\ \A s \in Sinks : Owed(s)' = Owed(s)
        /\ UNCHANGED <<pc, queue, timedOut>> /\ step' = step + 1
        /\ queue[c] = <<>>
    BY <1>1, <1>22 DEF EmptyDone, Owed, InHand, Sinks
  <2>2. CASE c = "splitter" /\ step = 2
    BY <1>1, <2>1, <2>2 DEF StoppedInTurn
  <2>3. CASE c = "vlr" /\ step = 3
    <3>1. Len(queue["vlr"]) = 0 /\ Owed("vlr") \in {0, 1}
      BY <1>1, <2>1, <2>3, EmptySeq DEF Sinks
    <3>2. Len(queue'["vlr"]) + Owed("vlr")' <= 1
      BY <2>1, <3>1 DEF Sinks
    <3> QED
      BY <1>1, <2>1, <2>3, <3>2 DEF StoppedInTurn
  <2>4. CASE c = "csv" /\ step = 5
    <3>1. Len(queue["csv"]) = 0 /\ Owed("csv") \in {0, 1}
      BY <1>1, <2>1, <2>4, EmptySeq DEF Sinks
    <3>2. Len(queue'["csv"]) + Owed("csv")' <= 1
      BY <2>1, <3>1 DEF Sinks
    <3> QED
      BY <1>1, <2>1, <2>4, <3>2 DEF StoppedInTurn, Sinks
  <2> QED
    BY <1>22, <2>2, <2>3, <2>4, PlanSteps DEF EmptyDone
<1>23. ASSUME NEW c \in Channels, EmptyWait(c) PROVE StoppedInTurn'
  <2>1. \A s \in Sinks : Owed(s)' = Owed(s)
    BY <1>1, <1>23 DEF EmptyWait, Owed, InHand, Sinks
  <2>2. UNCHANGED <<queue, step, timedOut>>
    BY <1>23 DEF EmptyWait, cleanerVars
  <2>3. \A g \in Stoppable : pc[g] = "returned" => pc'[g] = "returned"
    BY <1>1, <1>23 DEF EmptyWait, Stoppable
  <2> QED
    BY <1>1, <2>1, <2>2, <2>3, StillStopped DEF Coming, StoppedInTurn
<1>24. ASSUME CleanerTimeout PROVE StoppedInTurn'
  BY <1>24 DEF CleanerTimeout, StoppedInTurn
<1>25. ASSUME AskStop PROVE StoppedInTurn'
  <2>1. \A s \in Sinks : Owed(s)' = Owed(s)
    BY <1>1, <1>25 DEF AskStop, Owed, InHand, Sinks
  <2>2. UNCHANGED <<queue, step, timedOut>>
    BY <1>25 DEF AskStop, cleanerVars
  <2>3. \A g \in Stoppable : pc[g] = "returned" => pc'[g] = "returned"
    BY <1>1, <1>25 DEF AskStop, Stoppable
  <2> QED
    BY <1>1, <2>1, <2>2, <2>3, StillStopped DEF Coming, StoppedInTurn
<1>26. CASE UNCHANGED vars
  BY <1>1, <1>26 DEF vars, StoppedInTurn, Owed, InHand
<1> QED
  BY <1>2, <1>3, <1>4, <1>5, <1>6, <1>7, <1>8, <1>9, <1>10, <1>11,
     <1>12, <1>13, <1>14, <1>15, <1>16, <1>17, <1>18, <1>19, <1>20, <1>21,
     <1>22, <1>23, <1>24, <1>25, <1>26 DEF Next, FetcherStep, SplitterStep,
     VlrStep, CsvStep, CleanerStep

(* Every step keeps the invariant ...                                      *)
LEMMA NextIInv == IInv /\ [Next]_vars => IInv'
<1> SUFFICES ASSUME IInv, [Next]_vars PROVE IInv'
  OBVIOUS
<1>1. \A s \in Sinks : InOrder(s)'
  BY OrderKept
<1>2. TypeOK' /\ HandsMatch' /\ (NoSendOnClosed /\ ClosedInTurn)'
      /\ StoppedInTurn' /\ Counted'
  BY TypeKept, HandsKept, ClosedKept, StoppedKept, CountedKept
<1> QED
  BY <1>1, <1>2 DEF IInv

(* ... so that it holds in every reachable state.                          *)
LEMMA Invariance == Spec => []IInv
BY InitIInv, NextIInv, PTL DEF Spec

----------------------------------------------------------------------------
(* What the invariant says of the responses.                               *)

(* Two sequences of numbers in a row, the one following the other, are one.*)
LEMMA JoinRuns ==
  ASSUME NEW q \in Seq(Responses), NEW r \in Seq(Responses), Runs(q, 0),
         NEW n \in Nat, n = Len(q), Runs(r, n)
  PROVE  /\ q \o r \in Seq(Responses) /\ Len(q \o r) = n + Len(r)
         /\ Len(q \o r) \in Nat /\ Runs(q \o r, 0)
<1>1. /\ q \o r \in Seq(Responses) /\ Len(q \o r) = Len(q) + Len(r)
      /\ Len(q) \in Nat /\ Len(r) \in Nat
      /\ \A i \in 1 .. Len(q) + Len(r) :
           (q \o r)[i] = IF i <= Len(q) THEN q[i] ELSE r[i - Len(q)]
  BY ConcatProperties
<1>2. ASSUME NEW i \in 1 .. Len(q \o r) PROVE (q \o r)[i] = i
  <2>1. CASE i <= Len(q)
    BY <1>1, <2>1 DEF Runs
  <2>2. CASE ~ (i <= Len(q))
    <3>1. i - Len(q) \in 1 .. Len(r) /\ i \in Nat
      BY <1>1, <2>2
    <3>2. r[i - Len(q)] = Len(q) + (i - Len(q))
      BY <3>1 DEF Runs
    <3> QED
      BY <1>1, <2>2, <3>1, <3>2
  <2> QED
    BY <2>1, <2>2
<1>3. \A i \in 1 .. Len(q \o r) : 0 + i = i
  BY <1>1
<1>4. Runs(q \o r, 0)
  BY <1>2, <1>3 DEF Runs
<1> QED
  BY <1>1, <1>4

(* What a goroutine has in its hand, as a sequence.                        *)
LEMMA OneRun ==
  ASSUME NEW v \in MaybeResponse, NEW a \in Nat, v # None => v = a + 1
  PROVE  /\ One(v) \in Seq(Responses) /\ Runs(One(v), a)
         /\ Len(One(v)) = IF v = None THEN 0 ELSE 1
<1>1. CASE v = None
  BY <1>1, EmptySeq DEF One, Runs
<1>2. CASE v # None
  <2>1. One(v) = <<v>> /\ v \in Responses
    BY <1>2 DEF One, MaybeResponse
  <2> QED
    BY <1>2, <2>1 DEF Runs
<1> QED
  BY <1>1, <1>2

(* The way to a sink holds exactly what was fetched, in order.             *)
LEMMA PipeRuns ==
  ASSUME IInv, NEW s \in Sinks
  PROVE  /\ Pipe(s) \in Seq(Responses) /\ Len(Pipe(s)) = fetched
         /\ Runs(Pipe(s), 0)
<1> DEFINE p1 == handled[s] \o One(hand[s])
           p2 == p1 \o queue[s]
           p3 == p2 \o OwedTo(s)
           p4 == p3 \o queue.splitter
           p5 == p4 \o One(hand.fetcher)
<1>1. TypeOK /\ InOrder(s)
  BY DEF IInv
<1>2. hand[s] \in MaybeResponse /\ hand.splitter \in MaybeResponse
      /\ hand.fetcher \in MaybeResponse
  BY <1>1 DEF TypeOK, Sinks
<1>3. /\ handled[s] \in Seq(Responses) /\ queue[s] \in Seq(Responses)
      /\ queue.splitter \in Seq(Responses) /\ Len(handled[s]) \in Nat
      /\ Taken(s) \in Nat /\ Queued(s) \in Nat /\ Split(s) \in Nat
      /\ Sent(s) \in Nat
  BY <1>1, Counts
<1>4. /\ One(hand[s]) \in Seq(Responses) /\ Runs(One(hand[s]), Len(handled[s]))
      /\ Len(One(hand[s])) = InHand(s)
  BY <1>1, <1>2, <1>3, OneRun DEF InOrder, InHand
<1>5. /\ OwedTo(s) \in Seq(Responses) /\ Runs(OwedTo(s), Queued(s))
      /\ Len(OwedTo(s)) = Owed(s)
  <2>1. CASE s = "csv" /\ pc.splitter = "vlr"
    BY <2>1, EmptySeq DEF OwedTo, Owed, Runs
  <2>2. CASE ~ (s = "csv" /\ pc.splitter = "vlr")
    <3>1. OwedTo(s) = One(hand.splitter) /\ Owed(s) = InHand("splitter")
      BY <2>2 DEF OwedTo, Owed
    <3>2. hand.splitter # None => hand.splitter = Queued(s) + 1
      BY <1>1, <3>1 DEF InOrder, InHand
    <3>3. /\ One(hand.splitter) \in Seq(Responses)
          /\ Runs(One(hand.splitter), Queued(s))
          /\ Len(One(hand.splitter)) = InHand("splitter")
      BY <1>2, <1>3, <3>2, OneRun DEF InHand
    <3> QED
      BY <3>1, <3>3
  <2> QED
    BY <2>1, <2>2
<1>6. /\ One(hand.fetcher) \in Seq(Responses) /\ Runs(One(hand.fetcher), Sent(s))
      /\ Len(One(hand.fetcher)) = InHand("fetcher")
  BY <1>1, <1>2, <1>3, OneRun DEF InOrder, InHand
<1>7. p1 \in Seq(Responses) /\ Len(p1) = Taken(s) /\ Runs(p1, 0)
  <2>1. Runs(handled[s], 0)
    BY <1>1 DEF InOrder
  <2>2. /\ p1 \in Seq(Responses) /\ Runs(p1, 0)
        /\ Len(p1) = Len(handled[s]) + Len(One(hand[s]))
    BY <1>3, <1>4, <2>1, JoinRuns
  <2> QED
    BY <1>4, <2>2 DEF Taken
<1>8. p2 \in Seq(Responses) /\ Len(p2) = Queued(s) /\ Runs(p2, 0)
  <2>1. Runs(queue[s], Taken(s))
    BY <1>1 DEF InOrder
  <2> HIDE DEF p1
  <2>2. /\ p2 \in Seq(Responses) /\ Runs(p2, 0)
        /\ Len(p2) = Taken(s) + Len(queue[s])
    <3>1. Taken(s) \in Nat /\ p1 \in Seq(Responses) /\ Taken(s) = Len(p1)
          /\ Runs(p1, 0)
      BY <1>3, <1>7
    <3> QED
      BY <1>3, <2>1, <3>1, JoinRuns
  <2> QED
    BY <2>2 DEF Queued
<1>9. p3 \in Seq(Responses) /\ Len(p3) = Split(s) /\ Runs(p3, 0)
  <2> HIDE DEF p2
  <2>1. /\ p3 \in Seq(Responses) /\ Runs(p3, 0)
        /\ Len(p3) = Queued(s) + Len(OwedTo(s))
    <3>1. Queued(s) \in Nat /\ p2 \in Seq(Responses) /\ Queued(s) = Len(p2)
          /\ Runs(p2, 0)
      BY <1>3, <1>8
    <3> QED
      BY <1>5, <3>1, JoinRuns
  <2> QED
    BY <1>5, <2>1 DEF Split
<1>10. p4 \in Seq(Responses) /\ Len(p4) = Sent(s) /\ Runs(p4, 0)
  <2>1. Runs(queue.splitter, Split(s))
    BY <1>1 DEF InOrder
  <2> HIDE DEF p3
  <2>2. /\ p4 \in Seq(Responses) /\ Runs(p4, 0)
        /\ Len(p4) = Split(s) + Len(queue.splitter)
    <3>1. Split(s) \in Nat /\ p3 \in Seq(Responses) /\ Split(s) = Len(p3)
          /\ Runs(p3, 0)
      BY <1>3, <1>9
    <3> QED
      BY <1>3, <2>1, <3>1, JoinRuns
  <2> QED
    BY <2>2 DEF Sent
<1>11. /\ p5 \in Seq(Responses) /\ Len(p5) = Sent(s) + InHand("fetcher")
       /\ Runs(p5, 0)
  <2> HIDE DEF p4
  <2> QED
    BY <1>3, <1>6, <1>10, JoinRuns
<1>12. Pipe(s) = p5 /\ fetched = Sent(s) + InHand("fetcher")
  BY <1>1 DEF Pipe, InOrder
<1> QED
  BY <1>11, <1>12

(* Nothing is lost on the way.                                             *)
LEMMA WayKept == IInv => NothingLostOnTheWay
<1> SUFFICES ASSUME IInv, NEW s \in Sinks
             PROVE  Pipe(s) = [i \in 1 .. fetched |-> i]
  BY DEF NothingLostOnTheWay
<1>1. /\ Pipe(s) \in Seq(Responses) /\ Len(Pipe(s)) = fetched
      /\ Runs(Pipe(s), 0)
  BY PipeRuns
<1>2. Pipe(s) = [i \in 1 .. fetched |-> Pipe(s)[i]]
  BY <1>1
<1>3. fetched \in Nat
  BY DEF IInv, TypeOK
<1>4. \A i \in 1 .. fetched : Pipe(s)[i] = i
  BY <1>1, <1>3 DEF Runs
<1> QED
  BY <1>2, <1>4

(* With empty hands, and one response at most on its way to a sink, the    *)
(* sink has dealt with all the others.                                     *)
LEMMA AllButOne ==
  ASSUME TypeOK, NEW s \in Sinks, InOrder(s), InHand(s) = 0,
         InHand("fetcher") = 0, Len(queue.splitter) = 0,
         Len(queue[s]) + Owed(s) <= 1
  PROVE  fetched - 1 <= Len(handled[s]) /\ fetched \in Nat
<1>1. /\ Len(handled[s]) \in Nat /\ Len(queue[s]) \in Nat
      /\ Owed(s) \in {0, 1} /\ Sent(s) \in Nat /\ Split(s) \in Nat
      /\ Queued(s) \in Nat /\ Taken(s) \in Nat
  BY Counts
<1>2. fetched = Sent(s)
  BY <1>1 DEF InOrder
<1>3. Taken(s) = Len(handled[s])
  BY <1>1 DEF Taken
<1>4. Queued(s) = Len(handled[s]) + Len(queue[s])
  BY <1>3 DEF Queued
<1>5. Sent(s) = Queued(s) + Owed(s)
  BY <1>1 DEF Split, Sent
<1>6. Owed(s) \in Nat
  BY <1>1
<1>7. fetched = (Len(handled[s]) + Len(queue[s])) + Owed(s)
  BY <1>2, <1>4, <1>5
<1>8. \A h, q, o \in Nat : q + o <= 1 => (h + q) + o <= h + 1
  OBVIOUS
<1>9. (Len(handled[s]) + Len(queue[s])) + Owed(s) <= Len(handled[s]) + 1
  BY <1>1, <1>6, <1>8
<1>10. fetched <= Len(handled[s]) + 1 /\ fetched \in Nat
  BY <1>1, <1>2, <1>7, <1>9
<1>11. \A f, h \in Nat : f <= h + 1 => f - 1 <= h
  OBVIOUS
<1> QED
  BY <1>1, <1>10, <1>11

(* When the cleaner is done without having timed out, only the response    *)
(* that was last fetched can be missing at a sink: all but one of those    *)
(* fetched are dealt with.                                                 *)
LEMMA EndKept == IInv => OnlyLastLost
<1> SUFFICES ASSUME IInv, Reported, ~ timedOut
             PROVE  /\ \A s \in Sinks : Missing(s) \intersect (1 .. fetched - 1) = {}
                    /\ unwritten = {} /\ ~ csvOpen
  BY DEF OnlyLastLost
<1>1. step = 7
  BY PlanSteps DEF Reported
<1>2. /\ pc.fetcher = "returned" /\ pc.csv = "returned" /\ pc.vlr = "returned"
      /\ queue.splitter = <<>> /\ Len(queue.vlr) + Owed("vlr") <= 1
      /\ Len(queue.csv) + Owed("csv") <= 1
  BY <1>1 DEF IInv, StoppedInTurn
<1>3. unwritten = {} /\ ~ csvOpen
  BY <1>2 DEF IInv, ClosedInTurn
<1>4. ASSUME NEW s \in Sinks
      PROVE  Missing(s) \intersect (1 .. fetched - 1) = {}
  <2>1. TypeOK /\ HandsMatch /\ InOrder(s)
    BY DEF IInv
  <2>2. InHand(s) = 0 /\ InHand("fetcher") = 0
    BY <1>2, <2>1 DEF InHand, HandsMatch, Sinks
  <2>3. /\ Len(handled[s]) \in Nat /\ Len(queue[s]) \in Nat
        /\ Owed(s) \in Nat /\ Sent(s) \in Nat /\ Split(s) \in Nat
        /\ Queued(s) \in Nat /\ Taken(s) \in Nat
    BY <2>1, Counts
  <2>4. Len(queue[s]) + Owed(s) <= 1
    BY <1>2 DEF Sinks
  <2>5. Len(queue.splitter) = 0
    BY <1>2, EmptySeq
  <2>7. fetched - 1 <= Len(handled[s]) /\ fetched \in Nat
    BY <2>1, <2>2, <2>4, <2>5, AllButOne
  <2>8. ASSUME NEW i \in 1 .. fetched - 1
        PROVE  i \in DOMAIN handled[s] /\ handled[s][i] = i
    <3>1. i \in 1 .. Len(handled[s]) /\ i \in Nat
      BY <2>3, <2>7
    <3>2. handled[s][i] = 0 + i
      BY <2>1, <3>1 DEF InOrder, Runs
    <3>3. DOMAIN handled[s] = 1 .. Len(handled[s])
      BY <2>1, Counts
    <3> QED
      BY <3>1, <3>2, <3>3
  <2> QED
    BY <2>8 DEF Missing
<1> QED
  BY <1>3, <1>4

(* Whatever the interleaving, every response fetched is on its way to each *)
(* sink once, in order; no goroutine sends on a closed channel; and when   *)
(* the cleaner is done without having timed out, only the last response    *)
(* fetched may be missing, and all that was aggregated is written.         *)
THEOREM NothingLost == Spec => []ResponsesKept
<1>1. IInv => ResponsesKept
  BY WayKept, EndKept DEF IInv, ResponsesKept
<1> QED
  BY <1>1, Invariance, PTL

----------------------------------------------------------------------------
(* The pipeline implements Tee.                                            *)

(* The last response a sink has dealt with has the number of those it has  *)
(* dealt with.                                                             *)
LEMMA LastIsCount ==
  ASSUME IInv, NEW s \in Sinks
  PROVE  LastHandled(s) = Len(handled[s]) /\ Len(handled[s]) \in Nat
<1>1. /\ handled[s] \in Seq(Responses) /\ Len(handled[s]) \in Nat
      /\ Runs(handled[s], 0)
  BY Counts DEF IInv, InOrder
<1>2. CASE handled[s] = <<>>
  BY <1>2, EmptySeq DEF LastHandled
<1>3. CASE handled[s] # <<>>
  <2>1. Len(handled[s]) \in 1 .. Len(handled[s])
    BY <1>1, <1>3, EmptySeq
  <2>2. handled[s][Len(handled[s])] = 0 + Len(handled[s])
    BY <1>1, <2>1 DEF Runs
  <2> QED
    BY <1>1, <1>3, <2>2 DEF LastHandled
<1> QED
  BY <1>1, <1>2, <1>3

LastsCount == \A s \in Sinks : LastHandled(s) = Len(handled[s])

(* That is so of both sinks.                                               *)
LEMMA LastsAreCounts == IInv => LastsCount
BY LastIsCount DEF LastsCount

(* What a sink works on has been fetched.                                  *)
LEMMA HandFetched ==
  ASSUME IInv, NEW s \in Sinks, hand[s] # None
  PROVE  Len(handled[s]) < fetched
<1>1. /\ Len(handled[s]) \in Nat /\ Len(queue[s]) \in Nat
      /\ Len(queue.splitter) \in Nat /\ Owed(s) \in Nat
      /\ Taken(s) \in Nat /\ Queued(s) \in Nat /\ Split(s) \in Nat
      /\ Sent(s) \in Nat /\ InHand("fetcher") \in Nat
  BY Counts DEF IInv
<1>2. Taken(s) = Len(handled[s]) + 1
  BY DEF Taken, InHand
<1>3. Queued(s) >= Taken(s)
  BY <1>1 DEF Queued
<1>4. Split(s) >= Queued(s)
  BY <1>1 DEF Split
<1>5. Sent(s) >= Split(s)
  BY <1>1 DEF Sent
<1>6. fetched = Sent(s) + InHand("fetcher")
  BY DEF IInv, InOrder
<1> QED
  BY <1>1, <1>2, <1>3, <1>4, <1>5, <1>6

Got == [s \in Sinks |-> LastHandled(s)]

(* A step in which sink s deals with the response in its hand delivers it. *)
LEMMA HandlingDelivers ==
  ASSUME IInv, IInv', NEW s \in Sinks, hand[s] # None,
         handled' = [handled EXCEPT ![s] = Append(@, hand[s])],
         fetched' = fetched
  PROVE  Delivery!Deliver(s)
<1>1. /\ LastHandled(s) = Len(handled[s]) /\ Len(handled[s]) \in Nat
      /\ LastHandled(s) < fetched
  BY LastIsCount, HandFetched
<1>2. \A t \in Sinks : LastHandled(t)' = Len(handled'[t])
  <2>1. LastsCount'
    BY LastsAreCounts, PTL
  <2> QED
    BY <2>1 DEF LastsCount
<1>3. DOMAIN handled = Sinks /\ handled[s] \in Seq(Responses)
      /\ hand[s] \in Responses
  BY DEF IInv, TypeOK, MaybeResponse, Sinks
<1>4. LastHandled(s)' = LastHandled(s) + 1
  <2>1. handled'[s] = Append(handled[s], hand[s])
    BY <1>3
  <2>2. Len(handled'[s]) = Len(handled[s]) + 1
    BY <1>3, <2>1, AppendProperties
  <2> QED
    BY <1>1, <1>2, <2>2
<1>5. ASSUME NEW t \in Sinks \ {s} PROVE LastHandled(t)' = LastHandled(t)
  BY <1>3 DEF LastHandled
<1>6. [Got EXCEPT ![s] = @ + 1] = Got'
  BY <1>4, <1>5 DEF Got
<1>7. Got[s] < fetched
  BY <1>1 DEF Got
<1> QED
  BY <1>6, <1>7 DEF Delivery!Deliver, Got

(* Every step of the pipeline is a fetch or a delivery to one of the sinks *)
(* in turn, or is none of Tee's business.                                  *)
LEMMA StepImplements ==
  IInv /\ IInv' /\ [Next]_vars => [Delivery!Next]_<<fetched, Got>>
<1> SUFFICES ASSUME IInv, IInv', [Next]_vars
             PROVE  Delivery!Next \/ UNCHANGED <<fetched, Got>>
  BY DEF Got
<1> USE DEF Goto
<1>1. /\ TypeOK /\ HandsMatch /\ "csv" \in Sinks /\ "vlr" \in Sinks
  BY DEF IInv, Sinks
<1>2. ASSUME UNCHANGED <<fetched, handled>> PROVE UNCHANGED <<fetched, Got>>
  BY <1>2 DEF Got, LastHandled
<1>3. CASE Fetch
  <2>1. UNCHANGED handled /\ fetched' = fetched + 1
    BY <1>3 DEF Fetch
  <2>2. Got' = Got
    BY <2>1 DEF Got, LastHandled
  <2> QED
    BY <2>1, <2>2 DEF Delivery!Next, Delivery!Fetch, Got
<1>4. CASE VlrAdd
  <2>1. /\ hand["vlr"] # None /\ fetched' = fetched
        /\ handled' = [handled EXCEPT !["vlr"] = Append(@, hand["vlr"])]
    BY <1>1, <1>4 DEF VlrAdd, HandsMatch
  <2>2. Delivery!Deliver("vlr")
    BY <1>1, <2>1, HandlingDelivers
  <2> QED
    BY <1>1, <2>2 DEF Delivery!Next
<1>5. CASE CsvInsert
  <2>1. /\ hand["csv"] # None /\ fetched' = fetched
        /\ handled' = [handled EXCEPT !["csv"] = Append(@, hand["csv"])]
    BY <1>1, <1>5 DEF CsvInsert, HandsMatch
  <2>2. Delivery!Deliver("csv")
    BY <1>1, <2>1, HandlingDelivers
  <2> QED
    BY <1>1, <2>2 DEF Delivery!Next
<1>6. CASE FetcherTick \/ FetcherSend \/ FetcherClose
  BY <1>2, <1>6 DEF FetcherTick, FetcherSend, FetcherClose
<1>7. CASE SplitterStep
  BY <1>2, <1>7 DEF SplitterStep, SplitterReceive, SplitterToCsv,
     SplitterToVlr, SplitterCloseCsv, SplitterCloseVlr
<1>8. CASE VlrReceive \/ VlrClose \/ CsvReceive \/ CsvInputClosed \/ CsvClose
           \/ CsvTick \/ CsvPanics \/ VlrPanics
  BY <1>2, <1>8 DEF VlrReceive, VlrClose, CsvReceive, CsvInputClosed,
     CsvClose, CsvTick, CsvPanics, VlrPanics
<1>9. CASE CleanerStep
  BY <1>2, <1>9 DEF CleanerStep, CleanerStart, StopAnswered, EmptyDone,
     EmptyWait
<1>10. CASE \/ \E g \in Stoppable : StopSend(g)
            \/ CleanerTimeout \/ AskStop
  BY <1>2, <1>10 DEF StopSend, CleanerTimeout, AskStop
<1>11. CASE UNCHANGED vars
  BY <1>2, <1>11 DEF vars
<1> QED
  BY <1>3, <1>4, <1>5, <1>6, <1>7, <1>8, <1>9, <1>10, <1>11
     DEF Next, FetcherStep, VlrStep, CsvStep

(* The pipeline implements Tee: each of the raw archive and the aggregator *)
(* gets the responses in the order they were fetched, without a gap and    *)
(* without a repetition.                                                   *)
THEOREM TeeImplemented == Spec => ImplementsTee
<1>1. Init => Delivery!Init
  <2>1. Init => \A s \in Sinks : LastHandled(s) = 0
    BY DEF Init, LastHandled
  <2> QED
    BY <2>1 DEF Init, Delivery!Init
<1>2. IInv /\ IInv' /\ [Next]_vars
      => [Delivery!Next]_<<fetched, [s \in Sinks |-> LastHandled(s)]>>
  BY StepImplements DEF Got
<1> QED
  BY <1>1, <1>2, Invariance, PTL DEF Spec, ImplementsTee, Delivery!Spec
============================================================================
