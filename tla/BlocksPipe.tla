----------------------------- MODULE BlocksPipe -----------------------------
(***************************************************************************)
(* The pipes of util/blocks_pipe.go.  The producer goroutine of a pipe     *)
(* fills blocks from its input and sends them over one channel; the        *)
(* consumer copies them out through BlocksPipeReader and sends them back   *)
(* over another.  The consumer stops the producer by closing a third.      *)
(*                                                                         *)
(* Several pipes may exist, the input of one reading from another: what an *)
(* input returns, and who reads from a pipe, is left to the module that    *)
(* extends this one.  A byte is a value; blocks are reused, so that what a *)
(* block holds is kept apart from where the block is.                      *)
(***************************************************************************)
EXTENDS Integers, Sequences, FiniteSets, SequencesExt

CONSTANTS
  Pipes,     (* the pipes that may be created                              *)
  Blocks,    (* the blocks of each: blockCount in the code                 *)
  NoBlock,   (* a nil slice                                                *)
  BlockSize  (* bytes in a block, 4096 in the code                         *)

ASSUME BlocksPipeAssumption ==
  /\ IsFiniteSet(Blocks) /\ Blocks # {}
  /\ NoBlock \notin Blocks
  /\ BlockSize \in Nat \ {0}

VARIABLES
  empty,     (* channel of blocks to fill                                  *)
  data,      (* channel of filled blocks                                   *)
  dataOpen,  (* is it open?                                                *)
  stopOpen,  (* is the channel stop open?                                  *)
  content,   (* the bytes of each block                                    *)
  producer,  (* where the producer goroutine is                            *)
  hold,      (* the block the producer works on                            *)
  result,    (* err of the pipe: "none", "EOF" or "bad"                    *)
  inOpen,    (* is the input of the pipe open?                             *)
  attached,  (* is the pipe of the BlocksPipeReader non-nil?               *)
  front,     (* its front and offset: the block being copied out           *)
  offset,
  reading    (* is a Read waiting for data, holding the mutex?             *)

producerVars == <<producer, hold, result, inOpen, dataOpen>>
readerVars == <<attached, front, offset, reading>>
pipeVars == <<empty, data, stopOpen, content, producerVars, readerVars>>

InitPipes ==
  /\ empty = [p \in Pipes |-> <<>>]
  /\ data = [p \in Pipes |-> <<>>]
  /\ dataOpen = [p \in Pipes |-> TRUE]
  /\ stopOpen = [p \in Pipes |-> TRUE]
  /\ content = [p \in Pipes |-> [b \in Blocks |-> <<>>]]
  /\ producer = [p \in Pipes |-> "absent"]
  /\ hold = [p \in Pipes |-> NoBlock]
  /\ result = [p \in Pipes |-> "none"]
  /\ inOpen = [p \in Pipes |-> TRUE]
  /\ attached = [p \in Pipes |-> FALSE]
  /\ front = [p \in Pipes |-> NoBlock]
  /\ offset = [p \in Pipes |-> 0]
  /\ reading = [p \in Pipes |-> FALSE]

(* NewReadCloserPump.  The producer makes the blocks before it looks at    *)
(* anything else, and there is room for all of them in empty.              *)
StartPipe(p) ==
  /\ producer[p] = "absent"
  /\ producer' = [producer EXCEPT ![p] = "select"]
  /\ empty' = [empty EXCEPT ![p] = SetToSeq(Blocks)]
  /\ attached' = [attached EXCEPT ![p] = TRUE]
  /\ UNCHANGED <<data, dataOpen, stopOpen, content, hold, result, inOpen,
                 front, offset, reading>>

----------------------------------------------------------------------------
(* The producer.                                                           *)

TakeEmpty(p) ==
  /\ producer[p] = "select"
  /\ empty[p] # <<>>
  /\ hold' = [hold EXCEPT ![p] = Head(empty[p])]
  /\ empty' = [empty EXCEPT ![p] = Tail(@)]
  /\ producer' = [producer EXCEPT ![p] = "reading"]
  /\ UNCHANGED <<data, dataOpen, stopOpen, content, result, inOpen, readerVars>>

(* in.Read fills the block.  An error that comes with bytes is dropped.    *)
ReadSome(p, bytes) ==
  /\ producer[p] = "reading"
  /\ Len(bytes) \in 1 .. BlockSize
  /\ content' = [content EXCEPT ![p][hold[p]] = bytes]
  /\ producer' = [producer EXCEPT ![p] = "sending"]
  /\ UNCHANGED <<empty, data, dataOpen, stopOpen, hold, result, inOpen, readerVars>>

(* in.Read returns nothing, and no error: the block goes back.             *)
ReadNothing(p) ==
  /\ producer[p] = "reading"
  /\ Len(empty[p]) < Cardinality(Blocks)
  /\ empty' = [empty EXCEPT ![p] = Append(@, hold[p])]
  /\ hold' = [hold EXCEPT ![p] = NoBlock]
  /\ producer' = [producer EXCEPT ![p] = "select"]
  /\ UNCHANGED <<data, dataOpen, stopOpen, content, result, inOpen, readerVars>>

(* in.Read fails: the error is left for the consumer.                      *)
ReadFails(p, error) ==
  /\ producer[p] = "reading"
  /\ result' = [result EXCEPT ![p] = error]
  /\ dataOpen' = [dataOpen EXCEPT ![p] = FALSE]
  /\ producer' = [producer EXCEPT ![p] = "cleanup"]
  /\ UNCHANGED <<empty, data, stopOpen, content, hold, inOpen, readerVars>>

SendData(p) ==
  /\ producer[p] = "sending"
  /\ Len(data[p]) < Cardinality(Blocks)
  /\ data' = [data EXCEPT ![p] = Append(@, hold[p])]
  /\ hold' = [hold EXCEPT ![p] = NoBlock]
  /\ producer' = [producer EXCEPT ![p] = "select"]
  /\ UNCHANGED <<empty, dataOpen, stopOpen, content, result, inOpen, readerVars>>

(* The stop signal looked for only where a block is sent.                  *)
NoticeStop_WhileSending(p) ==
  /\ producer[p] = "sending"
  /\ ~ stopOpen[p]
  /\ producer' = [producer EXCEPT ![p] = "cleanup"]
  /\ UNCHANGED <<empty, data, dataOpen, stopOpen, content, hold, result,
                 inOpen, readerVars>>

(* The stop signal, noticed instead of an empty block or of sending one.   *)
NoticeStop(p) ==
  /\ producer[p] \in {"select", "sending"}
  /\ ~ stopOpen[p]
  /\ producer' = [producer EXCEPT ![p] = "cleanup"]
  /\ UNCHANGED <<empty, data, dataOpen, stopOpen, content, hold, result,
                 inOpen, readerVars>>

(* The deferred function: in.Close.                                        *)
Cleanup(p) ==
  /\ producer[p] = "cleanup"
  /\ producer' = [producer EXCEPT ![p] = "gone"]
  /\ inOpen' = [inOpen EXCEPT ![p] = FALSE]
  /\ UNCHANGED <<hold, result, dataOpen>>

(* The offset forgotten.                                                   *)
Remaining_All(p) == content[p][front[p]]

----------------------------------------------------------------------------
(* BlocksPipeReader.  Read holds the mutex while it waits for data.        *)

Remaining(p) == SubSeq(content[p][front[p]], offset[p] + 1, Len(content[p][front[p]]))

(* A block sent back as soon as some of it is copied out.                  *)
CopyOut_SentBackEarly(p, b, from, k) ==
  /\ Len(empty[p]) < Cardinality(Blocks)
  /\ empty' = [empty EXCEPT ![p] = Append(@, b)]
  /\ IF from + k >= Len(content[p][b])
     THEN /\ front' = [front EXCEPT ![p] = NoBlock]
          /\ offset' = [offset EXCEPT ![p] = 0]
     ELSE /\ front' = [front EXCEPT ![p] = b]
          /\ offset' = [offset EXCEPT ![p] = from + k]

(* k bytes of block b, which has been copied up to from, go to the caller; *)
(* a block that is used up goes back to the producer.                      *)
CopyOut(p, b, from, k) ==
  IF from + k >= Len(content[p][b])
  THEN /\ Len(empty[p]) < Cardinality(Blocks)
       /\ empty' = [empty EXCEPT ![p] = Append(@, b)]
       /\ front' = [front EXCEPT ![p] = NoBlock]
       /\ offset' = [offset EXCEPT ![p] = 0]
  ELSE /\ front' = [front EXCEPT ![p] = b]
       /\ offset' = [offset EXCEPT ![p] = from + k]
       /\ UNCHANGED empty

ReadFront(p, k) ==
  /\ attached[p] /\ ~ reading[p]
  /\ front[p] # NoBlock
  /\ k \in 1 .. Len(content[p][front[p]]) - offset[p]
  /\ CopyOut(p, front[p], offset[p], k)
  /\ UNCHANGED <<data, stopOpen, content, producerVars, attached, reading>>

ReadWaits(p) ==
  /\ attached[p] /\ ~ reading[p]
  /\ front[p] = NoBlock
  /\ reading' = [reading EXCEPT ![p] = TRUE]
  /\ UNCHANGED <<empty, data, stopOpen, content, producerVars, attached, front, offset>>

ReadReceives(p, k) ==
  /\ reading[p]
  /\ data[p] # <<>>
  /\ k \in 1 .. Len(content[p][Head(data[p])])
  /\ data' = [data EXCEPT ![p] = Tail(@)]
  /\ reading' = [reading EXCEPT ![p] = FALSE]
  /\ CopyOut(p, Head(data[p]), 0, k)
  /\ UNCHANGED <<stopOpen, content, producerVars, attached>>

(* The data channel is closed and drained: err is returned, once.          *)
ReadEnds(p) ==
  /\ reading[p]
  /\ data[p] = <<>> /\ ~ dataOpen[p]
  /\ reading' = [reading EXCEPT ![p] = FALSE]
  /\ attached' = [attached EXCEPT ![p] = FALSE]
  /\ UNCHANGED <<empty, data, stopOpen, content, producerVars, front, offset>>

(* Close, of a reader that is not at its end; otherwise it does nothing.   *)
ClosePipe(p) ==
  /\ ~ reading[p]
  /\ stopOpen' = [stopOpen EXCEPT ![p] = stopOpen[p] /\ ~ attached[p]]
  /\ attached' = [attached EXCEPT ![p] = FALSE]
  /\ UNCHANGED <<empty, data, content, producerVars, front, offset, reading>>

----------------------------------------------------------------------------
(* Properties.                                                             *)

(* Where a block is.  A block that was being filled or copied out when the *)
(* pipe was stopped stays where it was.                                    *)
Places(p, b) ==
  {<<"empty", i>> : i \in {i \in DOMAIN empty[p] : empty[p][i] = b}}
    \union {<<"data", i>> : i \in {i \in DOMAIN data[p] : data[p][i] = b}}
    \union {<<"hold", 0>> : h \in {hold[p]} \intersect {b}}
    \union {<<"front", 0>> : f \in {front[p]} \intersect {b}}

(* A block is in one place: it is never filled while it waits to be read   *)
(* or is being read, and none is lost as long as the pipe runs.  Hence     *)
(* there is room in both channels for every block that is sent.            *)
BlocksInOnePlace ==
  \A p \in Pipes : producer[p] # "absent" =>
    \A b \in Blocks : Cardinality(Places(p, b)) = 1
============================================================================
