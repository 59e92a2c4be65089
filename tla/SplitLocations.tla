--------------------------- MODULE SplitLocations ---------------------------
(***************************************************************************)
(* Two programs that spread the records of many archives over many files:  *)
(* partition_locations, by region, and locations_to_nearest_paths, by the  *)
(* paths that a location is near to.  One file after the other is read,    *)
(* its records go over a channel to workers, and from them over a channel  *)
(* per output to the goroutine that writes it.                             *)
(*                                                                         *)
(* A record is <<file, number>>.  Which outputs it belongs to is given.    *)
(***************************************************************************)
EXTENDS Integers, Sequences, FiniteSets, SequencesExt, FiniteSetsExt

CONSTANTS
  Workers,     (* goroutines started for each file                         *)
  Outputs,     (* the leaves, or the paths and "unknown"                   *)
  Contents,    (* the records of each file: a sequence of sets of outputs  *)
               (* to a file; the partitioner takes one of each set         *)
  RecordCap,   (* capacities of the channels                               *)
  OutputCap

ASSUME SplitAssumption ==
  /\ IsFiniteSet(Workers) /\ Workers # {}
  /\ Contents \in Seq(Seq((SUBSET Outputs) \ {{}}))
  /\ {RecordCap, OutputCap} \subseteq Nat \ {0}

VARIABLES
  program,   (* "partition" or "paths"                                     *)
  damage,    (* [files, records, noOpen, noWrite]: what is not readable,   *)
             (* cannot be opened for writing, cannot be written            *)
  reader,    (* [file, next, state]: the loop over files and records       *)
  recordCh,  (* csvRecordsCh or recordChan                                 *)
  worker,    (* [at, record, left, to]: the outputs left for a record, and *)
             (* the one that is looked up                                  *)
  holder,    (* who has CsvOutputChanMap.mutex for writing                 *)
  outCh,     (* the channels of the outputs that are open                  *)
  writer,    (* "none", "writing", "broken" or "ended"                     *)
  written,   (* what each output file holds                                *)
  main       (* "files", "closing", "done" or "fatal"                      *)

SplitVars == <<program, damage, reader, recordCh, worker, holder, outCh, writer, written, main>>

Files == DOMAIN Contents
RecordsOf(f) == {<<f, i>> : i \in DOMAIN Contents[f]}
Records == UNION {RecordsOf(f) : f \in Files}

(* A location is in one leaf, but near any number of paths.                *)
Targets(r) ==
  LET all == Contents[r[1]][r[2]]
  IN IF program = "paths" THEN all ELSE {CHOOSE o \in all : TRUE}

Nobody == "nobody"
Idle == [at |-> "idle", record |-> <<>>, left |-> {}, to |-> Nobody]

(* OpenForWriting tries to open every leaf before anything is read; the    *)
(* outputs of the other program are opened when they are needed.           *)
SplitInit ==
  /\ program \in {"partition", "paths"}
  /\ damage \in [files : SUBSET {1}, records : SUBSET {<<1, 1>>},
                 noOpen : {s \in SUBSET Outputs : Cardinality(s) <= 1},
                 noWrite : {s \in SUBSET Outputs : Cardinality(s) <= 1}]
  /\ reader = [file |-> 1, next |-> 1, state |-> "opening"]
  /\ recordCh = <<>>
  /\ worker = [w \in Workers |-> [Idle EXCEPT !.at = "ended"]]
  /\ holder = Nobody
  /\ LET opened == IF program = "paths" THEN {} ELSE Outputs \ damage.noOpen
     IN /\ outCh = [o \in opened |-> <<>>]
        /\ writer = [o \in Outputs |-> IF o \in opened THEN "writing" ELSE "none"]
  /\ written = [o \in Outputs |-> <<>>]
  /\ main = "files"

----------------------------------------------------------------------------
(* The reader.                                                             *)

KeepOutputs == UNCHANGED <<holder, outCh, writer, written>>

(* A file that cannot be opened is passed over by partition_locations, and *)
(* is the end of the other program.                                        *)
OpenInput ==
  /\ main = "files" /\ reader.state = "opening" /\ reader.file \in Files
  /\ IF reader.file \notin damage.files
     THEN /\ reader' = [reader EXCEPT !.state = "reading", !.next = 1]
          /\ worker' = [w \in Workers |-> IF worker[w].at = "ended" THEN Idle ELSE worker[w]]
          /\ UNCHANGED main
     ELSE IF program = "partition"
          THEN reader' = [reader EXCEPT !.file = @ + 1] /\ UNCHANGED <<worker, main>>
          ELSE main' = "fatal" /\ UNCHANGED <<reader, worker>>
  /\ UNCHANGED <<program, damage, recordCh>> /\ KeepOutputs

Current == <<reader.file, reader.next>>

ReadRecord ==
  /\ main = "files" /\ reader.state = "reading"
  /\ Current \in Records /\ Current \notin damage.records
  /\ Len(recordCh) < RecordCap
  /\ recordCh' = Append(recordCh, Current)
  /\ reader' = [reader EXCEPT !.next = @ + 1]
  /\ UNCHANGED <<program, damage, worker, main>> /\ KeepOutputs

(* A malformed record is passed over, or ends the file with an error.      *)
ReadDamaged ==
  /\ main = "files" /\ reader.state = "reading"
  /\ Current \in Records \cap damage.records
  /\ reader' = IF program = "partition" THEN [reader EXCEPT !.next = @ + 1]
                                        ELSE [reader EXCEPT !.state = "failed"]
  /\ UNCHANGED <<program, damage, recordCh, worker, main>> /\ KeepOutputs

EndOfFile ==
  /\ main = "files" /\ reader.state = "reading" /\ Current \notin Records
  /\ reader' = [reader EXCEPT !.state = "waiting"]
  /\ UNCHANGED <<program, damage, recordCh, worker, main>> /\ KeepOutputs

WorkersEnded == \A w \in Workers : worker[w].at = "ended"

(* The next file is not begun before the workers are done with this one.   *)
FileDone ==
  /\ main = "files" /\ reader.state \in {"waiting", "failed"}
  /\ WorkersEnded
  /\ IF reader.state = "failed"
     THEN main' = "fatal" /\ UNCHANGED reader
     ELSE reader' = [reader EXCEPT !.file = @ + 1, !.state = "opening"] /\ UNCHANGED main
  /\ UNCHANGED <<program, damage, recordCh, worker>> /\ KeepOutputs

----------------------------------------------------------------------------
(* The workers, while the program runs.                                    *)

(* Output o is done with: the worker goes on to the next, or to the next   *)
(* record.                                                                 *)
NextTarget(w, o) ==
  worker' = [worker EXCEPT ![w] =
    IF worker[w].left = {o} THEN Idle
    ELSE [worker[w] EXCEPT !.at = "lookup", !.left = @ \ {o}]]

TakeRecord(w) ==
  /\ main # "fatal" /\ worker[w].at = "idle" /\ recordCh # <<>>
  /\ worker' = [worker EXCEPT ![w] =
       [@ EXCEPT !.at = "lookup", !.record = Head(recordCh), !.left = Targets(Head(recordCh))]]
  /\ recordCh' = Tail(recordCh)
  /\ UNCHANGED <<program, damage, reader, main>> /\ KeepOutputs

WorkerEnds(w) ==
  /\ main # "fatal" /\ worker[w].at = "idle"
  /\ recordCh = <<>> /\ reader.state \in {"waiting", "failed"}
  /\ worker' = [worker EXCEPT ![w].at = "ended"]
  /\ UNCHANGED <<program, damage, reader, recordCh, main>> /\ KeepOutputs

(* The record goes to the output's goroutine.                              *)
SendTo(w, o) ==
  /\ o \in DOMAIN outCh /\ Len(outCh[o]) < OutputCap
  /\ outCh' = [outCh EXCEPT ![o] = Append(@, worker[w].record)]
  /\ NextTarget(w, o)

(* LeafPartitioner.Partition: without a channel the record is given up.    *)
PartitionRecord(w) ==
  /\ main # "fatal" /\ program = "partition" /\ worker[w].at = "lookup"
  /\ \E o \in worker[w].left :
       \/ SendTo(w, o)
       \/ o \notin DOMAIN outCh /\ NextTarget(w, o) /\ UNCHANGED outCh
  /\ UNCHANGED <<program, damage, reader, recordCh, holder, writer, written, main>>

(* Lookup, first with the lock for readers.                                *)
FirstLook(w) ==
  /\ main # "fatal" /\ program = "paths" /\ worker[w].at = "lookup"
  /\ holder = Nobody
  /\ \E o \in worker[w].left :
       worker' = [worker EXCEPT ![w].to = o,
                                ![w].at = IF o \in DOMAIN outCh THEN "send" ELSE "lock"]
  /\ UNCHANGED <<program, damage, reader, recordCh, main>> /\ KeepOutputs

Lock(w) ==
  /\ main # "fatal" /\ worker[w].at = "lock" /\ holder = Nobody
  /\ holder' = w
  /\ worker' = [worker EXCEPT ![w].at = "locked"]
  /\ UNCHANGED <<program, damage, reader, recordCh, outCh, writer, written, main>>

(* The mutex kept.                                                         *)
SecondLook_Locked(w) ==
  /\ main # "fatal" /\ worker[w].at = "locked" /\ worker[w].to \in DOMAIN outCh
  /\ worker' = [worker EXCEPT ![w].at = "send"]
  /\ UNCHANGED <<program, damage, reader, recordCh, holder, outCh, writer, written, main>>

(* Somebody else may have opened it since.                                 *)
SecondLook(w) ==
  /\ main # "fatal" /\ worker[w].at = "locked" /\ worker[w].to \in DOMAIN outCh
  /\ holder' = Nobody
  /\ worker' = [worker EXCEPT ![w].at = "send"]
  /\ UNCHANGED <<program, damage, reader, recordCh, outCh, writer, written, main>>

(* Nobody looks.                                                           *)
NotOpened_NotLooked(o) == TRUE

NotOpened(o) == o \notin DOMAIN outCh

(* The channel of an output is made, and entered in fileChans.             *)
WithChannel(o) ==
  [p \in DOMAIN outCh \cup {o} |-> IF p = o THEN <<>> ELSE outCh[p]]

(* A file that exists is emptied.                                          *)
OpenOutput(w) ==
  /\ main # "fatal" /\ worker[w].at = "locked"
  /\ LET o == worker[w].to
     IN /\ NotOpened(o) /\ o \notin damage.noOpen
        /\ outCh' = WithChannel(o)
        /\ writer' = [writer EXCEPT ![o] = "writing"]
        /\ written' = [written EXCEPT ![o] = <<>>]
  /\ holder' = Nobody
  /\ worker' = [worker EXCEPT ![w].at = "send"]
  /\ UNCHANGED <<program, damage, reader, recordCh, main>>

(* If it cannot be opened Lookup returns, and keeps the mutex.             *)
CannotOpen(w) ==
  /\ main # "fatal" /\ worker[w].at = "locked"
  /\ NotOpened(worker[w].to) /\ worker[w].to \in damage.noOpen
  /\ NextTarget(w, worker[w].to)
  /\ UNCHANGED <<program, damage, reader, recordCh, main>> /\ KeepOutputs

SendRecord(w) ==
  /\ main # "fatal" /\ worker[w].at = "send"
  /\ SendTo(w, worker[w].to)
  /\ UNCHANGED <<program, damage, reader, recordCh, holder, writer, written, main>>

----------------------------------------------------------------------------
(* The writers: recordWriter, and the goroutine of LeafPartitioner.        *)

WriteRecord(o) ==
  /\ main # "fatal" /\ writer[o] = "writing" /\ outCh[o] # <<>>
  /\ outCh' = [outCh EXCEPT ![o] = Tail(@)]
  /\ written' = [written EXCEPT ![o] = Append(@, Head(outCh[o]))]
  /\ UNCHANGED <<program, damage, reader, recordCh, worker, holder, writer, main>>

(* After an error LeafPartitioner goes on receiving, but every later write *)
(* fails as well; recordWriter returns, and its channel is left as it is.  *)
WriteFails(o) ==
  /\ main # "fatal" /\ writer[o] = "writing" /\ outCh[o] # <<>>
  /\ o \in damage.noWrite
  /\ outCh' = [outCh EXCEPT ![o] = Tail(@)]
  /\ writer' = [writer EXCEPT ![o] = IF program = "paths" THEN "ended" ELSE "broken"]
  /\ UNCHANGED <<program, damage, reader, recordCh, worker, holder, written, main>>

WriteBroken(o) ==
  /\ writer[o] = "broken" /\ outCh[o] # <<>>
  /\ outCh' = [outCh EXCEPT ![o] = Tail(@)]
  /\ UNCHANGED <<program, damage, reader, recordCh, worker, holder, writer, written, main>>

Drained(o) == outCh[o] = <<>>

(* The channel is closed.                                                  *)
WriterEnds(o) ==
  /\ main = "closing" /\ writer[o] \in {"writing", "broken"} /\ Drained(o)
  /\ writer' = [writer EXCEPT ![o] = "ended"]
  /\ UNCHANGED <<program, damage, reader, recordCh, worker, holder, outCh, written, main>>

(* Closing, once all files are read: CloseAll, which needs the mutex, and  *)
(* AgencyPartitioner.Close.                                                *)
CloseAll ==
  /\ main = "files" /\ reader.file \notin Files
  /\ holder = Nobody
  /\ main' = "closing"
  /\ UNCHANGED <<program, damage, reader, recordCh, worker>> /\ KeepOutputs

AllClosed ==
  /\ main = "closing" /\ \A o \in Outputs : writer[o] \in {"none", "ended"}
  /\ main' = "done"
  /\ UNCHANGED <<program, damage, reader, recordCh, worker>> /\ KeepOutputs

WorkerStep(w) ==
  \/ TakeRecord(w) \/ WorkerEnds(w) \/ PartitionRecord(w) \/ FirstLook(w) \/ Lock(w)
  \/ SecondLook(w) \/ OpenOutput(w) \/ CannotOpen(w) \/ SendRecord(w)

WriterStep(o) == WriteRecord(o) \/ WriteFails(o) \/ WriteBroken(o) \/ WriterEnds(o)

MainStep ==
  \/ OpenInput \/ ReadRecord \/ ReadDamaged \/ EndOfFile \/ FileDone
  \/ CloseAll \/ AllClosed

SplitNext ==
  \/ MainStep
  \/ \E w \in Workers : WorkerStep(w)
  \/ \E o \in Outputs : WriterStep(o)

(* Every goroutine that can go on does so; the mutex is fair to those that *)
(* wait for it.                                                            *)
SplitFairness ==
  /\ WF_SplitVars(MainStep)
  /\ \A w \in Workers : WF_SplitVars(WorkerStep(w)) /\ SF_SplitVars(Lock(w)) /\ SF_SplitVars(FirstLook(w))
  /\ \A o \in Outputs : WF_SplitVars(WriterStep(o))

SplitSpec == SplitInit /\ [][SplitNext]_SplitVars /\ SplitFairness

----------------------------------------------------------------------------
(* Properties.                                                             *)

ReadableRecords ==
  (UNION {RecordsOf(f) : f \in Files \ damage.files}) \ damage.records

Sound(o) == o \notin damage.noOpen \cup damage.noWrite

(* The records of an earlier file come before those of a later one: the    *)
(* outputs are in the order of time as far as the archives were.           *)
EarlierFileFirst ==
  \A o \in Outputs : \A i, j \in DOMAIN written[o] :
    i < j => written[o][i][1] <= written[o][j][1]

(* Once all outputs are closed each holds the records that belong to it,   *)
(* once each, unless it could not be written: workers that meet in Lookup, *)
(* full channels and trouble with other outputs lose and repeat nothing;   *)
(* nor are the files mixed up.                                             *)
NothingLost ==
  /\ main = "done" => \A o \in Outputs : Sound(o) =>
       /\ Range(written[o]) = {r \in ReadableRecords : o \in Targets(r)}
       /\ IsInjective(written[o])
  /\ EarlierFileFirst

(* Both programs come to an end: locations_to_nearest_paths if its outputs *)
(* can be opened and written, partition_locations in any case.             *)
Finishes ==
  (program = "partition" \/ \A o \in Outputs : Sound(o)) ~> main \in {"done", "fatal"}
============================================================================
