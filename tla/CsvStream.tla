----------------------------- MODULE CsvStream ------------------------------
(***************************************************************************)
(* How cmds/partition_locations reads an archive, a gzipped CSV file:      *)
(* OpenReadFileAndPump puts one pipe of util/blocks_pipe.go before the     *)
(* decompressor and one after it, so that reading, decompressing and       *)
(* parsing overlap; ReadAnOpenedCsvInputFile reads the records and then    *)
(* has the file closed by a goroutine of its own.                          *)
(*                                                                         *)
(* Byte n of the file decompresses to byte n, and is record n; byte 1 is   *)
(* the header of the compressed data.                                      *)
(***************************************************************************)
EXTENDS BlocksPipe

CONSTANTS
  FileSize,  (* bytes in the file                                          *)
  MaxErrors  (* consecutive errors before giving up, 10 in the code        *)

(* The pipe before the decompressor and the one after it.                  *)
Raw == "raw"
Plain == "plain"

ASSUME CsvStreamAssumption ==
  /\ Pipes = {Raw, Plain}
  /\ FileSize \in Nat \ {0} /\ MaxErrors \in Nat

VARIABLES
  damagedAt,  (* the byte that cannot be decompressed, 0 if there is none  *)
  malformed,  (* the records that cannot be parsed                         *)
  filePos,    (* bytes read from the file                                  *)
  opener,     (* where OpenReadFileAndPump is                              *)
  unzip,      (* bytes that the decompressor has read and not returned     *)
  unzipSays,  (* the error that it met in its own input                    *)
  parser,     (* where ReadAnOpenedCsvInputFile is                         *)
  lines,      (* what csv.Reader has read and not yet parsed               *)
  records,    (* the records sent to csvRecordsCh                          *)
  errorCount,
  warnings    (* history: read errors reported, parse errors apart         *)

fileVars == <<damagedAt, malformed, filePos>>
unzipVars == <<unzip, unzipSays>>
parseVars == <<parser, lines, records, errorCount, warnings>>
StreamVars == <<pipeVars, fileVars, opener, unzipVars, parseVars>>

StreamInit ==
  /\ InitPipes
  /\ damagedAt \in 0 .. FileSize
  /\ malformed \in SUBSET (2 .. FileSize)
  /\ filePos = 0
  /\ opener = "start"
  /\ unzip = <<>>
  /\ unzipSays = "none"
  /\ parser = "waiting"
  /\ lines = <<>>
  /\ records = <<>>
  /\ errorCount = 0
  /\ warnings = 0

----------------------------------------------------------------------------
(* OpenReadFileAndPump.                                                    *)

OpenFile ==
  /\ opener = "start"
  /\ StartPipe(Raw)
  /\ opener' = "header"
  /\ UNCHANGED <<fileVars, unzipVars, parseVars>>

(* gzip.NewReader has got a header: the second pipe is put in place.       *)
HeaderRead ==
  /\ opener = "header"
  /\ unzip # <<>> /\ Head(unzip) # damagedAt
  /\ unzip' = Tail(unzip)
  /\ StartPipe(Plain)
  /\ opener' = "opened"
  /\ parser' = "reading"
  /\ UNCHANGED <<fileVars, unzipSays, lines, records, errorCount, warnings>>

HeaderBad ==
  /\ opener = "header"
  /\ unzip # <<>> /\ Head(unzip) = damagedAt
  /\ ClosePipe(Raw)
  /\ opener' = "failed"
  /\ parser' = "done"
  /\ UNCHANGED <<fileVars, unzipVars, lines, records, errorCount, warnings>>

----------------------------------------------------------------------------
(* The file, the input of the first pipe.                                  *)

FileRead(n) ==
  /\ n \in 1 .. FileSize - filePos
  /\ ReadSome(Raw, [i \in 1 .. n |-> filePos + i])
  /\ filePos' = filePos + n
  /\ UNCHANGED <<damagedAt, malformed, opener, unzipVars, parseVars>>

FileEnd ==
  /\ filePos = FileSize
  /\ ReadFails(Raw, "EOF")
  /\ UNCHANGED <<fileVars, opener, unzipVars, parseVars>>

----------------------------------------------------------------------------
(* The decompressor, the input of the second pipe.  It reads from the      *)
(* first when it has nothing left.                                         *)

UnzipWants == unzip = <<>> /\ unzipSays = "none"
              /\ (opener = "header" \/ producer[Plain] = "reading")

UnzipReads ==
  /\ UnzipWants
  /\ \/ /\ ReadWaits(Raw)
        /\ UNCHANGED unzipVars
     \/ \E k \in 1 .. BlockSize :
          /\ ReadReceives(Raw, k)
          /\ unzip' = SubSeq(content[Raw][Head(data[Raw])], 1, k)
          /\ UNCHANGED unzipSays
     \/ \E k \in 1 .. BlockSize :
          /\ ReadFront(Raw, k)
          /\ unzip' = SubSeq(Remaining(Raw), 1, k)
          /\ UNCHANGED unzipSays
     \/ /\ ReadEnds(Raw)
        /\ unzipSays' = result[Raw]
        /\ UNCHANGED unzip
  /\ UNCHANGED <<fileVars, opener, parseVars>>

(* gzipReadCloser.Read: bytes up to the damaged one.                       *)
UnzipReturns(n) ==
  /\ n \in 1 .. Len(unzip)
  /\ \A i \in 1 .. n : unzip[i] # damagedAt
  /\ ReadSome(Plain, SubSeq(unzip, 1, n))
  /\ unzip' = SubSeq(unzip, n + 1, Len(unzip))
  /\ UNCHANGED <<fileVars, opener, unzipSays, parseVars>>

(* A Read that produces nothing yet.                                       *)
UnzipNothing ==
  /\ unzip # <<>>
  /\ ReadNothing(Plain)
  /\ UNCHANGED <<fileVars, opener, unzipVars, parseVars>>

UnzipFails ==
  /\ IF unzip # <<>> THEN Head(unzip) = damagedAt ELSE unzipSays # "none"
  /\ ReadFails(Plain, IF unzip # <<>> THEN "bad" ELSE unzipSays)
  /\ UNCHANGED <<fileVars, opener, unzipVars, parseVars>>

----------------------------------------------------------------------------
(* Producers, and what they do when they are done: that of the first pipe  *)
(* closes the file, that of the second gzipReadCloser, hence the first.    *)

Produce(p) ==
  /\ TakeEmpty(p) \/ SendData(p) \/ NoticeStop(p)
  /\ UNCHANGED <<fileVars, opener, unzipVars, parseVars>>

CloseFile ==
  /\ Cleanup(Raw)
  /\ UNCHANGED <<empty, data, stopOpen, content, readerVars,
                 fileVars, opener, unzipVars, parseVars>>

CloseUnzip ==
  /\ producer[Plain] = "cleanup"
  /\ ~ reading[Raw]
  /\ producer' = [producer EXCEPT ![Plain] = "gone"]
  /\ inOpen' = [inOpen EXCEPT ![Plain] = FALSE]
  /\ stopOpen' = [stopOpen EXCEPT ![Raw] = stopOpen[Raw] /\ ~ attached[Raw]]
  /\ attached' = [attached EXCEPT ![Raw] = FALSE]
  /\ UNCHANGED <<empty, data, content, hold, result, dataOpen, front, offset,
                 reading, fileVars, opener, unzipVars, parseVars>>

----------------------------------------------------------------------------
(* ReadAnOpenedCsvInputFile, reading through csv.Reader.                   *)

ParseMore ==
  /\ parser = "reading" /\ lines = <<>>
  /\ \/ /\ ReadWaits(Plain)
        /\ UNCHANGED lines
     \/ \E k \in 1 .. BlockSize :
          /\ ReadReceives(Plain, k)
          /\ lines' = SubSeq(content[Plain][Head(data[Plain])], 1, k)
     \/ \E k \in 1 .. BlockSize :
          /\ ReadFront(Plain, k)
          /\ lines' = SubSeq(Remaining(Plain), 1, k)
  /\ UNCHANGED <<fileVars, opener, unzipVars, parser, records, errorCount, warnings>>

(* An error is counted; the loop goes on unless there were too many.       *)
CountError ==
  /\ errorCount' = errorCount + 1
  /\ parser' = IF errorCount' > MaxErrors THEN "closing" ELSE "reading"

ParseRecord ==
  /\ parser = "reading" /\ lines # <<>>
  /\ lines' = Tail(lines)
  /\ IF Head(lines) \in malformed
     THEN CountError /\ UNCHANGED records
     ELSE /\ records' = Append(records, Head(lines))
          /\ errorCount' = 0
          /\ UNCHANGED parser
  /\ UNCHANGED <<pipeVars, fileVars, opener, unzipVars, warnings>>

(* The pipe has ended: its error, if it has one, is returned by one Read.  *)
ParseEnd ==
  /\ parser = "reading" /\ lines = <<>>
  /\ ReadEnds(Plain)
  /\ IF result[Plain] = "EOF"
     THEN parser' = "closing" /\ UNCHANGED <<errorCount, warnings>>
     ELSE CountError /\ warnings' = warnings + 1
  /\ UNCHANGED <<fileVars, opener, unzipVars, lines, records>>

(* Every later Read of the BlocksPipeReader returns io.EOF.                *)
ParseAfterEnd ==
  /\ parser = "reading" /\ lines = <<>>
  /\ ~ attached[Plain]
  /\ parser' = "closing"
  /\ UNCHANGED <<pipeVars, fileVars, opener, unzipVars, lines, records,
                 errorCount, warnings>>

(* go crc.Close()                                                          *)
CloseCsv ==
  /\ parser = "closing"
  /\ ClosePipe(Plain)
  /\ parser' = "done"
  /\ UNCHANGED <<fileVars, opener, unzipVars, lines, records, errorCount, warnings>>

----------------------------------------------------------------------------
Open == OpenFile \/ HeaderRead \/ HeaderBad

ReadFile == (\E n \in 1 .. BlockSize : FileRead(n)) \/ FileEnd

Unzip == (\E n \in 1 .. BlockSize : UnzipReturns(n)) \/ UnzipReads \/ UnzipFails

Parse == ParseMore \/ ParseRecord \/ ParseEnd \/ ParseAfterEnd \/ CloseCsv

StreamNext ==
  \/ Open
  \/ ReadFile
  \/ Unzip
  \/ UnzipNothing
  \/ \E p \in Pipes : Produce(p)
  \/ CloseFile
  \/ CloseUnzip
  \/ Parse

StreamSpec == StreamInit /\ [][StreamNext]_StreamVars

(* Every goroutine runs, and a select that is reached again and again does *)
(* not for ever prefer a block to the stop signal; a file that is read     *)
(* answers, and a decompressor that is read again and again.               *)
StreamFairness ==
  /\ WF_StreamVars(Open)
  /\ WF_StreamVars(ReadFile)
  /\ SF_StreamVars(Unzip)
  /\ \A p \in Pipes : WF_StreamVars(Produce(p))
  /\ WF_StreamVars(CloseFile)
  /\ WF_StreamVars(CloseUnzip)
  /\ WF_StreamVars(Parse)

StreamFairSpec == StreamSpec /\ StreamFairness

----------------------------------------------------------------------------
(* Properties.                                                             *)

(* Every variable keeps its type; no block holds what the file has not.    *)
TypeOK ==
  /\ empty \in [Pipes -> Seq(Blocks)] /\ data \in [Pipes -> Seq(Blocks)]
  /\ dataOpen \in [Pipes -> BOOLEAN] /\ stopOpen \in [Pipes -> BOOLEAN]
  /\ content \in [Pipes -> [Blocks -> Seq(1 .. FileSize)]]
  /\ producer \in [Pipes -> {"absent", "select", "reading", "sending",
                             "cleanup", "gone"}]
  /\ hold \in [Pipes -> Blocks \union {NoBlock}]
  /\ front \in [Pipes -> Blocks \union {NoBlock}]
  /\ offset \in [Pipes -> 0 .. BlockSize]
  /\ result \in [Pipes -> {"none", "EOF", "bad"}]
  /\ inOpen \in [Pipes -> BOOLEAN] /\ attached \in [Pipes -> BOOLEAN]
  /\ reading \in [Pipes -> BOOLEAN]
  /\ filePos \in 0 .. FileSize
  /\ opener \in {"start", "header", "opened", "failed"}
  /\ unzip \in Seq(1 .. FileSize) /\ unzipSays \in {"none", "EOF", "bad"}
  /\ parser \in {"waiting", "reading", "closing", "done"}
  /\ lines \in Seq(1 .. FileSize) /\ records \in Seq(1 .. FileSize)
  /\ errorCount \in Nat /\ warnings \in Nat

(* An end of file is believed only at the end: a reader that stopped, and  *)
(* neither gave up nor was told of an error, has had the whole file.       *)
EndIsTrue ==
  (opener = "opened" /\ parser = "done" /\ errorCount <= MaxErrors) =>
    \/ Range(records) \union malformed = 2 .. FileSize /\ damagedAt = 0
    \/ damagedAt # 0 /\ warnings = 1

(* What was sent to csvRecordsCh: the well-formed records of the part of   *)
(* the file that was parsed, in order, none of them twice; and the part is *)
(* the whole file unless there was trouble.                                *)
RecordsInOrder ==
  /\ TypeOK
  /\ \E n \in 1 .. FileSize : Range(records) = (2 .. n) \ malformed
  /\ \A i, j \in DOMAIN records : i < j => records[i] < records[j]
  /\ EndIsTrue

(* However reading ends (end of file, damaged data, too many errors, an    *)
(* open that fails), the file is closed and both producers finish.         *)
FileClosed == <>[](~ inOpen[Raw] /\ producer[Plain] \in {"absent", "gone"})
============================================================================
