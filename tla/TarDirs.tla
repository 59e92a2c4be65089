------------------------------- MODULE TarDirs ------------------------------
(***************************************************************************)
(* The programs under cmds/ that make one tar file of each day's fetched   *)
(* files, and that are run again and again over the same directories:      *)
(*   "tar"       create_tar_per_dir_of_xmls                                *)
(*   "gzipped"   create_gzipped_tar_per_dir_of_xmls                        *)
(*   "parallel"  create_gzipped_tar_per_dir_of_xmls_parallel               *)
(*   "zip"       convert_zip_to_gzipped_tar, whose input is one zip file   *)
(*               for each day                                              *)
(* Files stand for their contents.  An information and a body that are     *)
(* sent over two channels, or one item over two channels in a row, are one *)
(* element of one queue.                                                   *)
(***************************************************************************)
EXTENDS Integers, Sequences

CONSTANTS
  NumDays,    (* the directories, in the order of their names              *)
  NumFiles,   (* the files that there may be in each, in order             *)
  ChanSize,   (* capacity of the channels (50, or 5 for zip)               *)
  MaxRuns,    (* how often the program is run                              *)
  MaxFaults   (* disk errors and crashes in all these runs                 *)

ASSUME TarAssumption ==
  {NumDays, NumFiles, ChanSize, MaxRuns} \subseteq Nat \ {0} /\ MaxFaults \in Nat

Days == 1 .. NumDays
NoArchive == [exists |-> FALSE, files |-> {}]
Archive(files) == [exists |-> TRUE, files |-> files]

VARIABLES
  tool,     (* which program is run                                        *)
  dir,      (* the files of each directory                                 *)
  unread,   (* files, as <<day, file>>, that cannot be read                *)
  final,    (* the archives under their final names                        *)
  newer,    (* IsNewer: the days whose directories changed after their     *)
            (* archives were written                                       *)
  day, pc,  (* where exec is: the day, and what it does with it            *)
  listing,  (* the files that are still to be read                         *)
  lister,   (* the goroutine that reads them is running                    *)
  queue,    (* what it has read                                            *)
  out,      (* what was written to the file in progress                    *)
  orphan,   (* a reader was left behind, and its channels were closed      *)
  runs, faults,
  excused   (* days whose archives are short, by failures that are not     *)
            (* noticed                                                     *)

TarVars == <<tool, dir, unread, final, newer, day, pc, listing, lister, queue, out,
          orphan, runs, faults, excused>>

(* The older programs read and write in turn, and write under the final    *)
(* name.                                                                   *)
Direct == tool \in {"tar", "gzipped"}

(* An archive is made again if its directory has changed since.            *)
Replaces == tool \in {"gzipped", "parallel"}

TarInit ==
  /\ tool \in {"tar", "gzipped", "parallel", "zip"}
  /\ dir \in [Days -> SUBSET (1 .. NumFiles) \ {{}}]
  /\ unread \in {{}} \cup {{<<1, f>>} : f \in 1 .. NumFiles}
  /\ final = [d \in Days |-> NoArchive] /\ newer = {}
  /\ day = 1 /\ pc = "off"
  /\ listing = {} /\ lister = FALSE /\ queue = <<>> /\ out = {}
  /\ orphan = FALSE
  /\ runs = 0 /\ faults = 0 /\ excused = {}

Fault == faults < MaxFaults /\ faults' = faults + 1

(* log.Fatalf, a panic or a crash: the program is gone.                    *)
Dies ==
  /\ pc' = "off" /\ listing' = {} /\ lister' = FALSE /\ queue' = <<>>
  /\ out' = {} /\ orphan' = FALSE
  /\ UNCHANGED <<tool, dir, unread, final, newer, day, runs>>

Keep == UNCHANGED <<tool, dir, unread, orphan, runs>>

----------------------------------------------------------------------------
(* exec: one day after the other.                                          *)

StartRun ==
  /\ pc \in {"off", "over"} /\ runs < MaxRuns
  /\ pc' = "exec" /\ day' = 1 /\ runs' = runs + 1 /\ orphan' = FALSE
  /\ UNCHANGED <<tool, dir, unread, final, newer, listing, lister, queue, out, faults, excused>>

UpToDate == final[day].exists /\ ~(Replaces /\ day \in newer)

SkipDay ==
  /\ pc = "exec" /\ day \in Days /\ UpToDate
  /\ day' = day + 1
  /\ Keep /\ UNCHANGED <<final, newer, pc, listing, lister, queue, out, faults, excused>>

NextDay == pc' = "exec" /\ day' = day + 1 /\ listing' = {}

(* The file in progress is created: under the final name, or under another *)
(* one that is removed first if it exists.                                 *)
BeginDay ==
  /\ pc = "exec" /\ day \in Days /\ ~UpToDate
  /\ pc' = "copy"
  /\ listing' = dir[day]
  /\ lister' = ~Direct /\ queue' = <<>> /\ out' = {}
  /\ final' = IF Direct THEN [final EXCEPT ![day] = Archive({})] ELSE final
  /\ excused' = excused \ {day}
  /\ Keep /\ UNCHANGED <<newer, day, faults>>

(* The directory cannot be read, and is taken to be empty; a zip file that *)
(* cannot be opened is the end.                                            *)
ListFails ==
  /\ pc = "exec" /\ day \in Days /\ ~UpToDate /\ Fault
  /\ IF tool = "zip"
     THEN Dies /\ UNCHANGED excused
     ELSE /\ pc' = "copy" /\ listing' = {}
          /\ lister' = ~Direct /\ queue' = <<>> /\ out' = {}
          /\ final' = IF Direct THEN [final EXCEPT ![day] = Archive({})] ELSE final
          /\ excused' = excused \cup {day}
          /\ Keep /\ UNCHANGED <<newer, day>>

(* TarXmlDir returns; in the parallel program it closes the channels of    *)
(* the reader, which has been started.                                     *)
CreateFails ==
  /\ pc = "exec" /\ day \in Days /\ ~UpToDate /\ Fault
  /\ IF tool = "zip"
     THEN Dies
     ELSE /\ NextDay
          /\ orphan' = (orphan \/ tool = "parallel")
          /\ UNCHANGED <<tool, dir, unread, final, newer, lister, queue, out, runs>>
  /\ UNCHANGED excused

(* The reader sends on, or closes, a channel that is closed.               *)
OrphanPanics ==
  /\ orphan
  /\ Dies /\ UNCHANGED <<faults, excused>>

EndRun ==
  /\ pc = "exec" /\ day \notin Days
  /\ pc' = "over"
  /\ Keep /\ UNCHANGED <<final, newer, day, listing, lister, queue, out, faults, excused>>

----------------------------------------------------------------------------
(* Reading.                                                                *)

Readable(f) == <<day, f>> \notin unread

(* The next of the files listed, in their order.                           *)
IsNext(f) == f \in listing /\ \A g \in listing : f <= g

ReadListed(f) ==
  /\ pc = "copy" /\ lister /\ IsNext(f) /\ Len(queue) < ChanSize
  /\ IF tool = "zip" /\ ~Readable(f)
     THEN Dies
     ELSE /\ queue' = Append(queue, f)
          /\ listing' = listing \ {f}
          /\ Keep /\ UNCHANGED <<final, newer, day, pc, lister, out>>
  /\ UNCHANGED <<faults, excused>>

ReaderCloses ==
  /\ pc = "copy" /\ lister /\ listing = {}
  /\ lister' = FALSE
  /\ Keep /\ UNCHANGED <<final, newer, day, pc, listing, queue, out, faults, excused>>

----------------------------------------------------------------------------
(* Writing.                                                                *)

(* The tar file cannot be finished without the body that its last header   *)
(* announces: with an unreadable file the parallel program is at its end.  *)
WriteFile ==
  /\ pc = "copy" /\ queue # <<>>
  /\ IF Readable(Head(queue))
     THEN /\ out' = out \cup {Head(queue)} /\ queue' = Tail(queue)
          /\ Keep /\ UNCHANGED <<final, newer, day, pc, listing, lister>>
     ELSE Dies
  /\ UNCHANGED <<faults, excused>>

(* The older programs pass over an unreadable file.                        *)
CopyFile(f) ==
  /\ pc = "copy" /\ Direct /\ IsNext(f)
  /\ out' = IF Readable(f) THEN out \cup {f} ELSE out
  /\ listing' = listing \ {f}
  /\ final' = [final EXCEPT ![day] = Archive(out')]
  /\ Keep /\ UNCHANGED <<newer, day, pc, lister, queue, faults, excused>>

(* The older programs report an error, and every later write fails too.    *)
WriteError ==
  /\ pc = "copy" /\ (queue # <<>> \/ (Direct /\ listing # {})) /\ Fault
  /\ IF Direct
     THEN /\ listing' = {} /\ excused' = excused \cup {day}
          /\ Keep /\ UNCHANGED <<final, newer, day, pc, lister, queue, out>>
     ELSE Dies /\ UNCHANGED excused

(* Without waiting for done_c.                                             *)
AllWritten_NotWaiting == ~lister

(* The reader has closed its channels and all it sent was written.         *)
AllWritten == ~lister /\ queue = <<>> /\ listing = {}

CloseArchive ==
  /\ pc = "copy" /\ AllWritten
  /\ IF Direct
     THEN NextDay /\ newer' = newer \ {day}
     ELSE pc' = "rename" /\ UNCHANGED <<newer, day, listing>>
  /\ Keep /\ UNCHANGED <<final, lister, queue, out, faults, excused>>

(* What the buffers hold cannot be written.  Nobody looks at the errors of *)
(* the deferred calls that flush and close them.                           *)
FlushFails ==
  /\ pc = "copy" /\ AllWritten /\ Fault
  /\ excused' = excused \cup {day}
  /\ \E kept \in SUBSET out :
       IF Direct
       THEN /\ NextDay /\ newer' = newer \ {day}
            /\ final' = [final EXCEPT ![day] = Archive(kept)]
            /\ UNCHANGED out
       ELSE /\ pc' = "rename" /\ out' = kept
            /\ UNCHANGED <<final, newer, day, listing>>
  /\ Keep /\ UNCHANGED <<lister, queue>>

(* The old archive is removed first.                                       *)
RemoveOld ==
  /\ pc = "rename" /\ final[day].exists
  /\ final' = [final EXCEPT ![day] = NoArchive]
  /\ Keep /\ UNCHANGED <<newer, day, pc, listing, lister, queue, out, faults, excused>>

Rename ==
  /\ pc = "rename" /\ ~final[day].exists
  /\ final' = [final EXCEPT ![day] = Archive(out)]
  /\ newer' = newer \ {day}
  /\ NextDay
  /\ Keep /\ UNCHANGED <<lister, queue, out, faults, excused>>

----------------------------------------------------------------------------
(* The world.                                                              *)

(* A file comes late.  If the directory was listed already, the archive    *)
(* will be newer than the directory all the same.                          *)
Arrive(d, f) ==
  /\ Replaces /\ f \notin dir[d]
  /\ dir' = [dir EXCEPT ![d] = @ \cup {f}]
  /\ newer' = newer \cup {d}
  /\ excused' = IF d = day /\ pc \in {"copy", "rename"} THEN excused \cup {d} ELSE excused
  /\ UNCHANGED <<tool, unread, final, day, pc, listing, lister, queue, out, orphan, runs, faults>>

(* Older programs leave an archive that is taken for a complete one.       *)
Crash ==
  /\ pc \in {"exec", "copy", "rename"} /\ Fault
  /\ excused' = IF Direct /\ pc = "copy" THEN excused \cup {day} ELSE excused
  /\ Dies

TarNext ==
  \/ StartRun \/ SkipDay \/ BeginDay \/ ListFails \/ CreateFails \/ OrphanPanics \/ EndRun
  \/ \E f \in 1 .. NumFiles : ReadListed(f) \/ CopyFile(f)
  \/ ReaderCloses \/ WriteFile \/ WriteError
  \/ CloseArchive \/ FlushFails \/ RemoveOld \/ Rename
  \/ \E d \in Days, f \in 1 .. NumFiles : Arrive(d, f)
  \/ Crash

TarSpec == TarInit /\ [][TarNext]_TarVars

----------------------------------------------------------------------------
(* Properties.                                                             *)

InProgress(d) == Direct /\ pc = "copy" /\ d = day

(* Whatever happened to this and earlier runs, an archive under its final  *)
(* name, which later runs will pass over, holds every file of its day that *)
(* could be read, unless the next run will see that it is out of date: the *)
(* exceptions are failures that the program does not notice.               *)
NoShortArchive ==
  \A d \in Days \ excused :
    (final[d].exists /\ ~InProgress(d) /\ d \notin newer) =>
      \A f \in dir[d] : f \in final[d].files \/ <<d, f>> \in unread
============================================================================
