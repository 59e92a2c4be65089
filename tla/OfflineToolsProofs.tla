------------------------- MODULE OfflineToolsProofs -------------------------
(***************************************************************************)
(* Proofs about the offline tools that read, write and split archives, and *)
(* the regions by which they are split: TarDirs, CsvStream, SplitLocations *)
(* and PartitionTree.                                                      *)
(***************************************************************************)
EXTENDS CsvStream, TarDirs, SplitLocations, PartitionTree,
        SequenceTheorems, FiniteSetTheorems, WellFoundedInduction, TLAPS

----------------------------------------------------------------------------
(* TarDirs: an archive under its final name is complete, for any number of *)
(* days, files, runs and faults, and channels of any capacity.             *)

FileNumbers == 1 .. NumFiles
ArchiveRecords == [exists : BOOLEAN, files : SUBSET FileNumbers]

TarTyped ==
  /\ tool \in {"tar", "gzipped", "parallel", "zip"}
  /\ dir \in [Days -> SUBSET FileNumbers]
  /\ final \in [Days -> ArchiveRecords]
  /\ newer \in SUBSET Days /\ excused \in SUBSET Days
  /\ pc \in {"off", "exec", "copy", "rename", "over"}
  /\ pc \in {"copy", "rename"} => day \in Days
  /\ day \in Nat \ {0}
  /\ listing \in SUBSET FileNumbers /\ lister \in BOOLEAN
  /\ queue \in Seq(FileNumbers) /\ out \in SUBSET FileNumbers
  /\ orphan \in BOOLEAN

InQueue(f) == \E i \in DOMAIN queue : queue[i] = f

(* What each program does not do; and one that writes under another name   *)
(* does so only where there is no archive, or one known to be out of date. *)
Phases ==
  /\ orphan => tool = "parallel"
  /\ Direct => ~ lister /\ queue = <<>> /\ pc # "rename"
  /\ pc \in {"copy", "rename"} /\ ~ Direct =>
       ~ final[day].exists \/ day \in newer

(* Every file of the day that can be read is on its way to the archive.    *)
GoodSoFar ==
  day \notin excused =>
    /\ pc = "copy" => \A f \in dir[day] :
         Readable(f) => f \in out \/ f \in listing \/ InQueue(f)
    /\ pc = "rename" => \A f \in dir[day] : Readable(f) => f \in out
    /\ pc = "copy" /\ Direct => final[day] = Archive(out)

TarIInv == TarTyped /\ Phases /\ GoodSoFar /\ NoShortArchive

(* The files in a queue to which one is appended, and those in one from    *)
(* which one is taken.                                                     *)
LEMMA QueueAppended ==
  ASSUME TarTyped, NEW f \in FileNumbers, queue' = Append(queue, f)
  PROVE  /\ queue' \in Seq(FileNumbers)
         /\ InQueue(f)' /\ \A g : InQueue(g) => InQueue(g)'
<1>1. queue \in Seq(FileNumbers)
  BY DEF TarTyped
<1>2. /\ queue' \in Seq(FileNumbers) /\ Len(queue') = Len(queue) + 1
      /\ \A i \in 1 .. Len(queue) : queue'[i] = queue[i]
      /\ queue'[Len(queue) + 1] = f
  BY <1>1, AppendProperties
<1>3. /\ Len(queue) \in Nat /\ DOMAIN queue = 1 .. Len(queue)
      /\ DOMAIN queue' = 1 .. Len(queue) + 1
  BY <1>1, <1>2
<1>4. InQueue(f)'
  BY <1>2, <1>3 DEF InQueue
<1>5. ASSUME NEW g, InQueue(g) PROVE InQueue(g)'
  BY <1>2, <1>3, <1>5 DEF InQueue
<1> QED
  BY <1>2, <1>4, <1>5

(* Of the files in the queue only the first leaves it.                     *)
LEMMA QueueTaken ==
  ASSUME TarTyped, queue # <<>>, queue' = Tail(queue)
  PROVE  /\ queue' \in Seq(FileNumbers) /\ Head(queue) \in FileNumbers
         /\ \A g : InQueue(g) => g = Head(queue) \/ InQueue(g)'
<1>1. queue \in Seq(FileNumbers)
  BY DEF TarTyped
<1>2. /\ queue' \in Seq(FileNumbers) /\ Len(queue') = Len(queue) - 1
      /\ Head(queue) = queue[1] /\ Head(queue) \in FileNumbers
      /\ \A i \in 1 .. Len(queue') : queue'[i] = queue[i + 1]
  BY <1>1, HeadTailProperties
<1>3. /\ Len(queue) \in Nat /\ DOMAIN queue = 1 .. Len(queue)
      /\ DOMAIN queue' = 1 .. Len(queue) - 1
  BY <1>1, <1>2
<1>4. ASSUME NEW g, InQueue(g) PROVE g = Head(queue) \/ InQueue(g)'
  <2>1. PICK i \in 1 .. Len(queue) : queue[i] = g
    BY <1>3, <1>4 DEF InQueue
  <2>2. CASE i = 1
    BY <1>2, <2>1, <2>2
  <2>3. CASE i # 1
    <3>1. i - 1 \in 1 .. Len(queue) - 1 /\ (i - 1) + 1 = i
      BY <1>3, <2>3
    <3>2. queue'[i - 1] = g
      BY <1>2, <1>3, <2>1, <3>1
    <3> QED
      BY <1>3, <3>1, <3>2 DEF InQueue
  <2> QED
    BY <2>2, <2>3
<1> QED
  BY <1>2, <1>4

(* The records that stand for archives.                                    *)
LEMMA ArchiveTyped ==
  /\ NoArchive \in ArchiveRecords /\ ~ NoArchive.exists
  /\ \A S \in SUBSET FileNumbers :
       /\ Archive(S) \in ArchiveRecords /\ Archive(S).exists /\ Archive(S).files = S
BY DEF NoArchive, Archive, ArchiveRecords

(* A program that ends, by itself or not, leaves nothing behind but what   *)
(* is under a final name, which is complete or excused.                    *)
LEMMA Dying ==
  ASSUME TarIInv, Dies, excused \subseteq excused', excused' \in SUBSET Days,
         Direct /\ pc = "copy" => day \in excused'
  PROVE  TarIInv'
<1> USE DEF Dies
<1>1. TarTyped'
  <2>1. queue' \in Seq(FileNumbers)
    BY EmptySeq
  <2> QED
    BY <2>1 DEF TarIInv, TarTyped
<1>2. Phases'
  BY DEF TarIInv, Phases, Direct
<1>3. GoodSoFar'
  BY DEF GoodSoFar
<1>4. NoShortArchive'
  BY DEF TarIInv, NoShortArchive, InProgress, Direct
<1> QED
  BY <1>1, <1>2, <1>3, <1>4 DEF TarIInv

(* In the first state there are no archives.                               *)
LEMMA TarInitIInv == TarInit => TarIInv
<1> SUFFICES ASSUME TarInit PROVE TarIInv
  OBVIOUS
<1>1. TarTyped
  <2>1. queue \in Seq(FileNumbers)
    BY EmptySeq DEF TarInit
  <2>2. final \in [Days -> ArchiveRecords]
    BY ArchiveTyped DEF TarInit
  <2>3. dir \in [Days -> SUBSET FileNumbers]
    BY DEF TarInit, FileNumbers
  <2>4. /\ tool \in {"tar", "gzipped", "parallel", "zip"} /\ newer = {} /\ excused = {}
        /\ pc = "off" /\ day = 1 /\ listing = {} /\ lister = FALSE /\ out = {}
        /\ orphan = FALSE
    BY DEF TarInit
  <2>5. 1 \in Nat \ {0}
    OBVIOUS
  <2> QED
    BY <2>1, <2>2, <2>3, <2>4, <2>5 DEF TarTyped
<1>2. Phases /\ GoodSoFar
  BY DEF TarInit, Phases, GoodSoFar
<1>3. NoShortArchive
  BY ArchiveTyped DEF TarInit, NoShortArchive
<1> QED
  BY <1>1, <1>2, <1>3 DEF TarIInv

(* Every step keeps the invariant.                                         *)
LEMMA TarNextIInv == TarIInv /\ [TarNext]_TarVars => TarIInv'
<1> SUFFICES ASSUME TarIInv, [TarNext]_TarVars PROVE TarIInv'
  OBVIOUS
<1>1. /\ TarTyped /\ Phases /\ GoodSoFar /\ NoShortArchive
      /\ queue \in Seq(FileNumbers) /\ <<>> \in Seq(FileNumbers)
  BY EmptySeq DEF TarIInv, TarTyped
<1>2. ASSUME StartRun PROVE TarIInv'
  <2>1. /\ pc' = "exec"
        /\ day' = 1
        /\ orphan' = FALSE
        /\ UNCHANGED <<tool, dir, unread, final, newer, listing,
                    lister, queue, out, excused>>
    BY <1>1, <1>2 DEF StartRun, Keep, NextDay
  <2>2. pc \in {"off", "over"} /\ 1 \in Nat \ {0}
    BY <1>2 DEF StartRun
  <2>3. TarTyped'
    BY <1>1, <2>1, <2>2 DEF TarTyped
  <2>4. Phases'
    BY <1>1, <2>1, <2>2 DEF Phases, Direct
  <2>5. GoodSoFar'
    BY <1>1, <2>1, <2>2 DEF GoodSoFar, Readable, Direct, InQueue
  <2>6. NoShortArchive'
    BY <1>1, <2>1, <2>2 DEF NoShortArchive, InProgress, Direct
  <2> QED
    BY <2>3, <2>4, <2>5, <2>6 DEF TarIInv
<1>3. ASSUME SkipDay PROVE TarIInv'
  <2>1. TarTyped'
    BY <1>1, <1>3 DEF SkipDay, TarTyped, Keep
  <2>2. Phases'
    BY <1>1, <1>3 DEF SkipDay, Phases, Direct, Keep
  <2>3. GoodSoFar'
    BY <1>1, <1>3 DEF SkipDay, GoodSoFar, Readable, Keep, Direct, InQueue
  <2>4. NoShortArchive'
    BY <1>1, <1>3 DEF SkipDay, NoShortArchive, InProgress, Direct, Keep
  <2> QED
    BY <2>1, <2>2, <2>3, <2>4 DEF TarIInv
<1>4. ASSUME BeginDay PROVE TarIInv'
  <2>1. CASE Direct
    <3>1. /\ pc' = "copy"
          /\ listing' = dir[day]
          /\ lister' = FALSE
          /\ queue' = <<>>
          /\ out' = {}
          /\ final' = [final EXCEPT ![day] = Archive({})]
          /\ excused' = excused \ {day}
          /\ UNCHANGED <<tool, dir, unread, newer, day, orphan>>
      BY <1>1, <1>4, <2>1 DEF BeginDay, Keep, NextDay, Direct
    <3>2. day \in Days /\ ~ UpToDate
      BY <1>4 DEF BeginDay
    <3>3. Archive({}) \in ArchiveRecords
      BY ArchiveTyped
    <3>4. final'[day] = Archive({})
      BY <1>1, <3>1, <3>2 DEF TarTyped
    <3>5. TarTyped'
      BY <1>1, <2>1, <3>1, <3>2, <3>3, <3>4 DEF TarTyped
    <3>6. Phases'
      BY <1>1, <2>1, <3>1, <3>2, <3>3, <3>4 DEF Phases, Direct
    <3>7. GoodSoFar'
      BY <1>1, <2>1, <3>1, <3>2, <3>3, <3>4 DEF GoodSoFar, Readable, Direct,
         InQueue
    <3>8. NoShortArchive'
      BY <1>1, <2>1, <3>1, <3>2, <3>3, <3>4 DEF NoShortArchive, InProgress,
         Direct
    <3> QED
      BY <3>5, <3>6, <3>7, <3>8 DEF TarIInv
  <2>2. CASE ~ Direct
    <3>1. /\ pc' = "copy"
          /\ listing' = dir[day]
          /\ lister' = TRUE
          /\ queue' = <<>>
          /\ out' = {}
          /\ excused' = excused \ {day}
          /\ UNCHANGED <<tool, dir, unread, final, newer, day,
                      orphan>>
      BY <1>1, <1>4, <2>2 DEF BeginDay, Keep, NextDay, Direct
    <3>2. day \in Days /\ ~ UpToDate
      BY <1>4 DEF BeginDay
    <3>3. Archive({}) \in ArchiveRecords
      BY ArchiveTyped
    <3>4. TarTyped'
      BY <1>1, <2>2, <3>1, <3>2, <3>3 DEF TarTyped
    <3>5. Phases'
      BY <1>1, <2>2, <3>1, <3>2, <3>3 DEF Phases, Direct, UpToDate
    <3>6. GoodSoFar'
      BY <1>1, <2>2, <3>1, <3>2, <3>3 DEF GoodSoFar, Readable, Direct,
         InQueue
    <3>7. NoShortArchive'
      BY <1>1, <2>2, <3>1, <3>2, <3>3 DEF NoShortArchive, InProgress,
         Direct, UpToDate
    <3> QED
      BY <3>4, <3>5, <3>6, <3>7 DEF TarIInv
  <2> QED
    BY <1>1, <2>1, <2>2 DEF Direct, TarTyped
<1>5. ASSUME ListFails PROVE TarIInv'
  <2>1. CASE tool = "zip"
    <3>1. Dies /\ excused' = excused
      BY <1>5, <2>1 DEF ListFails
    <3>2. ~ Direct /\ excused' \in SUBSET Days
      BY <1>1, <1>5, <2>1, <3>1 DEF Direct, TarTyped, Phases, ListFails
    <3> QED
      BY <3>1, <3>2, Dying
  <2>2. CASE Direct
    <3>1. /\ pc' = "copy"
          /\ listing' = {}
          /\ lister' = FALSE
          /\ queue' = <<>>
          /\ out' = {}
          /\ final' = [final EXCEPT ![day] = Archive({})]
          /\ excused' = excused \cup {day}
          /\ UNCHANGED <<tool, dir, unread, newer, day, orphan>>
      BY <1>1, <1>5, <2>2 DEF ListFails, Keep, NextDay, Direct
    <3>2. day \in Days /\ ~ UpToDate
      BY <1>5 DEF ListFails
    <3>3. Archive({}) \in ArchiveRecords
      BY ArchiveTyped
    <3>4. TarTyped'
      BY <1>1, <2>2, <3>1, <3>2, <3>3 DEF TarTyped
    <3>5. Phases'
      BY <1>1, <2>2, <3>1, <3>2, <3>3 DEF Phases, Direct
    <3>6. GoodSoFar'
      BY <1>1, <2>2, <3>1, <3>2, <3>3 DEF GoodSoFar, Readable, Direct,
         InQueue
    <3>7. NoShortArchive'
      BY <1>1, <2>2, <3>1, <3>2, <3>3 DEF NoShortArchive, InProgress, Direct
    <3> QED
      BY <3>4, <3>5, <3>6, <3>7 DEF TarIInv
  <2>3. CASE tool = "parallel"
    <3>1. /\ pc' = "copy"
          /\ listing' = {}
          /\ lister' = TRUE
          /\ queue' = <<>>
          /\ out' = {}
          /\ excused' = excused \cup {day}
          /\ UNCHANGED <<tool, dir, unread, final, newer, day,
                      orphan>>
      BY <1>1, <1>5, <2>3 DEF ListFails, Keep, NextDay, Direct
    <3>2. day \in Days /\ ~ UpToDate
      BY <1>5 DEF ListFails
    <3>3. Archive({}) \in ArchiveRecords
      BY ArchiveTyped
    <3>4. TarTyped'
      BY <1>1, <2>3, <3>1, <3>2, <3>3 DEF TarTyped
    <3>5. Phases'
      BY <1>1, <2>3, <3>1, <3>2, <3>3 DEF Phases, Direct, UpToDate
    <3>6. GoodSoFar'
      BY <1>1, <2>3, <3>1, <3>2, <3>3 DEF GoodSoFar, Readable, Direct,
         InQueue
    <3>7. NoShortArchive'
      BY <1>1, <2>3, <3>1, <3>2, <3>3 DEF NoShortArchive, InProgress, Direct
    <3> QED
      BY <3>4, <3>5, <3>6, <3>7 DEF TarIInv
  <2> QED
    BY <1>1, <2>1, <2>2, <2>3 DEF Direct, TarTyped
<1>6. ASSUME CreateFails PROVE TarIInv'
  <2>1. CASE tool = "zip"
    <3>1. Dies /\ excused' = excused
      BY <1>6, <2>1 DEF CreateFails
    <3>2. ~ Direct /\ excused' \in SUBSET Days
      BY <1>1, <1>6, <2>1, <3>1 DEF Direct, TarTyped, Phases, CreateFails
    <3> QED
      BY <3>1, <3>2, Dying
  <2>2. CASE tool # "zip"
    <3>1. /\ pc' = "exec"
          /\ day' = day + 1
          /\ listing' = {}
          /\ orphan' = (orphan \/ tool = "parallel")
          /\ UNCHANGED <<tool, dir, unread, final, newer, lister,
                      queue, out, excused>>
      BY <1>1, <1>6, <2>2 DEF CreateFails, Keep, NextDay, Direct
    <3>2. day + 1 \in Nat \ {0}
      BY <1>1 DEF TarTyped
    <3>3. pc = "exec"
      BY <1>6 DEF CreateFails
    <3>4. TarTyped'
      BY <1>1, <2>2, <3>1, <3>2, <3>3 DEF TarTyped
    <3>5. Phases'
      BY <1>1, <2>2, <3>1, <3>2, <3>3 DEF Phases, Direct
    <3>6. GoodSoFar'
      BY <1>1, <2>2, <3>1, <3>2, <3>3 DEF GoodSoFar, Readable, Direct,
         InQueue
    <3>7. NoShortArchive'
      BY <1>1, <2>2, <3>1, <3>2, <3>3 DEF NoShortArchive, InProgress, Direct
    <3> QED
      BY <3>4, <3>5, <3>6, <3>7 DEF TarIInv
  <2> QED
    BY <1>1, <2>1, <2>2 DEF Direct, TarTyped
<1>7. ASSUME OrphanPanics PROVE TarIInv'
  <2>1. tool = "parallel" /\ Dies /\ excused' = excused
    BY <1>1, <1>7 DEF OrphanPanics, Phases
  <2>2. ~ Direct /\ excused' \in SUBSET Days
    BY <1>1, <2>1 DEF Direct, TarTyped
  <2> QED
    BY <2>1, <2>2, Dying
<1>8. ASSUME EndRun PROVE TarIInv'
  <2>1. TarTyped'
    BY <1>1, <1>8 DEF EndRun, TarTyped, Keep
  <2>2. Phases'
    BY <1>1, <1>8 DEF EndRun, Phases, Direct, Keep
  <2>3. GoodSoFar'
    BY <1>1, <1>8 DEF EndRun, GoodSoFar, Readable, Keep, Direct, InQueue
  <2>4. NoShortArchive'
    BY <1>1, <1>8 DEF EndRun, NoShortArchive, InProgress, Direct, Keep
  <2> QED
    BY <2>1, <2>2, <2>3, <2>4 DEF TarIInv
<1>9. ASSUME NEW f \in FileNumbers, ReadListed(f) PROVE TarIInv'
  <2>1. CASE tool = "zip" /\ ~ Readable(f)
    <3>1. Dies /\ excused' = excused
      BY <1>9, <2>1 DEF ReadListed
    <3>2. ~ Direct /\ excused' \in SUBSET Days
      BY <1>1, <1>9, <2>1, <3>1 DEF Direct, TarTyped, Phases
    <3> QED
      BY <3>1, <3>2, Dying
  <2>2. CASE ~ (tool = "zip" /\ ~ Readable(f))
    <3>1. /\ queue' = Append(queue, f)
          /\ listing' = listing \ {f}
          /\ UNCHANGED <<tool, dir, unread, final, newer, day, pc,
                      lister, out, orphan, excused>>
      BY <1>1, <1>9, <2>2 DEF ReadListed, Keep, NextDay, Direct
    <3>2. /\ queue' \in Seq(FileNumbers)
             /\ InQueue(f)' /\ \A g : InQueue(g) => InQueue(g)'
      BY <1>1, <3>1, QueueAppended
    <3>3. lister /\ pc = "copy"
      BY <1>9 DEF ReadListed
    <3>4. TarTyped'
      BY <1>1, <2>2, <3>1, <3>2, <3>3 DEF TarTyped
    <3>5. Phases'
      BY <1>1, <2>2, <3>1, <3>2, <3>3 DEF Phases, Direct
    <3>6. GoodSoFar'
      BY <1>1, <2>2, <3>1, <3>2, <3>3 DEF GoodSoFar, Readable, Direct,
         InQueue
    <3>7. NoShortArchive'
      BY <1>1, <2>2, <3>1, <3>2, <3>3 DEF NoShortArchive, InProgress, Direct
    <3> QED
      BY <3>4, <3>5, <3>6, <3>7 DEF TarIInv
  <2> QED
    BY <1>1, <2>1, <2>2 DEF Direct, TarTyped
<1>10. ASSUME ReaderCloses PROVE TarIInv'
  <2>1. TarTyped'
    BY <1>1, <1>10 DEF ReaderCloses, TarTyped, Keep
  <2>2. Phases'
    BY <1>1, <1>10 DEF ReaderCloses, Phases, Direct, Keep
  <2>3. GoodSoFar'
    BY <1>1, <1>10 DEF ReaderCloses, GoodSoFar, Readable, Keep, Direct,
       InQueue
  <2>4. NoShortArchive'
    BY <1>1, <1>10 DEF ReaderCloses, NoShortArchive, InProgress, Direct,
       Keep
  <2> QED
    BY <2>1, <2>2, <2>3, <2>4 DEF TarIInv
<1>11. ASSUME WriteFile PROVE TarIInv'
  <2>1. CASE ~ Readable(Head(queue))
    <3>1. Dies /\ excused' = excused
      BY <1>11, <2>1 DEF WriteFile
    <3>2. ~ Direct /\ excused' \in SUBSET Days
      BY <1>1, <1>11, <2>1, <3>1 DEF Direct, TarTyped, Phases, WriteFile
    <3> QED
      BY <3>1, <3>2, Dying
  <2>2. CASE Readable(Head(queue))
    <3>1. /\ queue' = Tail(queue)
          /\ out' = out \cup {Head(queue)}
          /\ UNCHANGED <<tool, dir, unread, final, newer, day, pc,
                      listing, lister, orphan, excused>>
      BY <1>1, <1>11, <2>2 DEF WriteFile, Keep, NextDay, Direct
    <3>2. /\ queue' \in Seq(FileNumbers) /\ Head(queue) \in FileNumbers
             /\ \A g : InQueue(g) => g = Head(queue) \/ InQueue(g)'
      BY <1>1, <1>11, <3>1, QueueTaken DEF WriteFile
    <3>3. queue # <<>> /\ pc = "copy"
      BY <1>11 DEF WriteFile
    <3>4. TarTyped'
      BY <1>1, <2>2, <3>1, <3>2, <3>3 DEF TarTyped
    <3>5. Phases'
      BY <1>1, <2>2, <3>1, <3>2, <3>3 DEF Phases, Direct
    <3>6. GoodSoFar'
      BY <1>1, <2>2, <3>1, <3>2, <3>3 DEF GoodSoFar, Readable, Direct, Phases
    <3>7. NoShortArchive'
      BY <1>1, <2>2, <3>1, <3>2, <3>3 DEF NoShortArchive, InProgress, Direct
    <3> QED
      BY <3>4, <3>5, <3>6, <3>7 DEF TarIInv
  <2> QED
    BY <1>1, <2>1, <2>2 DEF Direct, TarTyped
<1>12. ASSUME NEW f \in FileNumbers, CopyFile(f) PROVE TarIInv'
  <2>1. /\ listing' = listing \ {f}
        /\ out' = IF Readable(f) THEN out \cup {f} ELSE out
        /\ final' = [final EXCEPT ![day] = Archive(out')]
        /\ UNCHANGED <<tool, dir, unread, newer, day, pc, lister,
                    queue, orphan, excused>>
    BY <1>1, <1>12 DEF CopyFile, Keep, NextDay
  <2>2. Direct /\ pc = "copy" /\ lister = FALSE /\ queue = <<>> /\ day \in Days
    BY <1>1, <1>12 DEF CopyFile, Phases, TarTyped
  <2>3. out' \in SUBSET FileNumbers
    BY <1>1, <2>1 DEF TarTyped
  <2>4. Archive(out') \in ArchiveRecords
    BY <2>3, ArchiveTyped
  <2>5. final'[day] = Archive(out')
    BY <1>1, <2>1, <2>2 DEF TarTyped
  <2>6. out \subseteq out' /\ (Readable(f) => f \in out')
    BY <2>1
  <2>7. TarTyped'
    BY <1>1, <2>1, <2>2, <2>3, <2>4, <2>5, <2>6 DEF TarTyped
  <2>8. Phases'
    BY <1>1, <2>1, <2>2, <2>3, <2>4, <2>5, <2>6 DEF Phases, Direct
  <2>9. GoodSoFar'
    BY <1>1, <2>1, <2>2, <2>3, <2>4, <2>5, <2>6 DEF GoodSoFar, Readable,
       Direct, InQueue
  <2>10. NoShortArchive'
    BY <1>1, <2>1, <2>2, <2>3, <2>4, <2>5, <2>6 DEF NoShortArchive,
       InProgress, Direct
  <2> QED
    BY <2>7, <2>8, <2>9, <2>10 DEF TarIInv
<1>13. ASSUME WriteError PROVE TarIInv'
  <2>1. CASE ~ Direct
    <3>1. Dies /\ excused' = excused
      BY <1>13, <2>1 DEF WriteError
    <3>2. excused' \in SUBSET Days
      BY <1>1, <3>1 DEF TarTyped
    <3> QED
      BY <2>1, <3>1, <3>2, Dying
  <2>2. CASE Direct
    <3>1. /\ listing' = {}
          /\ excused' = excused \cup {day}
          /\ UNCHANGED <<tool, dir, unread, final, newer, day, pc,
                      lister, queue, out, orphan>>
      BY <1>1, <1>13, <2>2 DEF WriteError, Keep, NextDay, Direct
    <3>2. Direct /\ pc = "copy" /\ lister = FALSE /\ queue = <<>> /\ day \in Days
      BY <1>1, <1>13, <2>2 DEF WriteError, Phases, TarTyped
    <3>3. TarTyped'
      BY <1>1, <2>2, <3>1, <3>2 DEF TarTyped
    <3>4. Phases'
      BY <1>1, <2>2, <3>1, <3>2 DEF Phases, Direct
    <3>5. GoodSoFar'
      BY <1>1, <2>2, <3>1, <3>2 DEF GoodSoFar, Readable, Direct, InQueue
    <3>6. NoShortArchive'
      BY <1>1, <2>2, <3>1, <3>2 DEF NoShortArchive, InProgress, Direct
    <3> QED
      BY <3>3, <3>4, <3>5, <3>6 DEF TarIInv
  <2> QED
    BY <1>1, <2>1, <2>2 DEF Direct, TarTyped
<1>14. ASSUME CloseArchive PROVE TarIInv'
  <2>1. CASE Direct
    <3>1. /\ pc' = "exec"
          /\ day' = day + 1
          /\ listing' = {}
          /\ newer' = newer \ {day}
          /\ UNCHANGED <<tool, dir, unread, final, lister, queue, out,
                      orphan, excused>>
      BY <1>1, <1>14, <2>1 DEF CloseArchive, Keep, NextDay, Direct
    <3>2. Direct /\ pc = "copy" /\ lister = FALSE /\ queue = <<>> /\ day \in Days
      BY <1>1, <1>14, <2>1 DEF CloseArchive, Phases, TarTyped
    <3>3. listing = {}
      BY <1>14 DEF CloseArchive, AllWritten
    <3>4. day + 1 \in Nat \ {0}
      BY <1>1 DEF TarTyped
    <3>5. \A f \in dir[day] : ~ InQueue(f)
      BY <3>2 DEF InQueue
    <3>6. day \notin excused => \A f \in dir[day] : f \in final[day].files \/ <<day, f>> \in unread
      BY <1>1, <3>2, <3>3, <3>5, ArchiveTyped DEF GoodSoFar, Readable,
         TarTyped
    <3>7. TarTyped'
      BY <1>1, <2>1, <3>1, <3>2, <3>3, <3>4, <3>5, <3>6 DEF TarTyped
    <3>8. Phases'
      BY <1>1, <2>1, <3>1, <3>2, <3>3, <3>4, <3>5, <3>6 DEF Phases, Direct
    <3>9. GoodSoFar'
      BY <1>1, <2>1, <3>1, <3>2, <3>3, <3>4, <3>5, <3>6 DEF GoodSoFar,
         Readable, Direct, InQueue
    <3>10. NoShortArchive'
      BY <1>1, <2>1, <3>1, <3>2, <3>3, <3>4, <3>5, <3>6 DEF NoShortArchive,
         InProgress, Direct
    <3> QED
      BY <3>7, <3>8, <3>9, <3>10 DEF TarIInv
  <2>2. CASE ~ Direct
    <3>1. /\ pc' = "rename"
          /\ UNCHANGED <<tool, dir, unread, final, newer, day,
                      listing, lister, queue, out, orphan, excused>>
      BY <1>1, <1>14, <2>2 DEF CloseArchive, Keep, NextDay, Direct
    <3>2. pc = "copy" /\ queue = <<>> /\ listing = {} /\ day \in Days
      BY <1>1, <1>14 DEF CloseArchive, AllWritten, TarTyped
    <3>3. \A f \in dir[day] : ~ InQueue(f)
      BY <3>2 DEF InQueue
    <3>4. TarTyped'
      BY <1>1, <2>2, <3>1, <3>2, <3>3 DEF TarTyped
    <3>5. Phases'
      BY <1>1, <2>2, <3>1, <3>2, <3>3 DEF Phases, Direct
    <3>6. GoodSoFar'
      BY <1>1, <2>2, <3>1, <3>2, <3>3 DEF GoodSoFar, Readable, Direct,
         InQueue
    <3>7. NoShortArchive'
      BY <1>1, <2>2, <3>1, <3>2, <3>3 DEF NoShortArchive, InProgress, Direct
    <3> QED
      BY <3>4, <3>5, <3>6, <3>7 DEF TarIInv
  <2> QED
    BY <1>1, <2>1, <2>2 DEF Direct, TarTyped
<1>15. ASSUME FlushFails PROVE TarIInv'
  <2>1. PICK kept \in SUBSET out :
          IF Direct
          THEN /\ NextDay /\ newer' = newer \ {day}
               /\ final' = [final EXCEPT ![day] = Archive(kept)]
               /\ UNCHANGED out
          ELSE /\ pc' = "rename" /\ out' = kept
               /\ UNCHANGED <<final, newer, day, listing>>
    BY <1>15 DEF FlushFails
  <2>2. CASE Direct
    <3>1. /\ pc' = "exec"
          /\ day' = day + 1
          /\ listing' = {}
          /\ newer' = newer \ {day}
          /\ final' = [final EXCEPT ![day] = Archive(kept)]
          /\ excused' = excused \cup {day}
          /\ UNCHANGED <<tool, dir, unread, lister, queue, out,
                      orphan>>
      BY <1>1, <1>15, <2>1, <2>2 DEF FlushFails, Keep, NextDay
    <3>2. pc = "copy" /\ day \in Days /\ queue = <<>> /\ lister = FALSE
      BY <1>1, <1>15, <2>2 DEF FlushFails, TarTyped, Phases
    <3>3. day + 1 \in Nat \ {0}
      BY <1>1 DEF TarTyped
    <3>4. Archive(kept) \in ArchiveRecords
      BY <1>1, ArchiveTyped DEF TarTyped
    <3>5. TarTyped'
      BY <1>1, <2>1, <2>2, <3>1, <3>2, <3>3, <3>4 DEF TarTyped
    <3>6. Phases'
      BY <1>1, <2>1, <2>2, <3>1, <3>2, <3>3, <3>4 DEF Phases, Direct
    <3>7. GoodSoFar'
      BY <1>1, <2>1, <2>2, <3>1, <3>2, <3>3, <3>4 DEF GoodSoFar, Readable,
         Direct, InQueue
    <3>8. NoShortArchive'
      BY <1>1, <2>1, <2>2, <3>1, <3>2, <3>3, <3>4 DEF NoShortArchive,
         InProgress, Direct
    <3> QED
      BY <3>5, <3>6, <3>7, <3>8 DEF TarIInv
  <2>3. CASE ~ Direct
    <3>1. /\ pc' = "rename"
          /\ out' = kept
          /\ excused' = excused \cup {day}
          /\ UNCHANGED <<tool, dir, unread, final, newer, day,
                      listing, lister, queue, orphan>>
      BY <1>1, <1>15, <2>1, <2>3 DEF FlushFails, Keep, NextDay
    <3>2. pc = "copy" /\ day \in Days
      BY <1>1, <1>15 DEF FlushFails, TarTyped
    <3>3. TarTyped'
      BY <1>1, <2>1, <2>3, <3>1, <3>2 DEF TarTyped
    <3>4. Phases'
      BY <1>1, <2>1, <2>3, <3>1, <3>2 DEF Phases, Direct
    <3>5. GoodSoFar'
      BY <1>1, <2>1, <2>3, <3>1, <3>2 DEF GoodSoFar, Readable, Direct,
         InQueue
    <3>6. NoShortArchive'
      BY <1>1, <2>1, <2>3, <3>1, <3>2 DEF NoShortArchive, InProgress, Direct
    <3> QED
      BY <3>3, <3>4, <3>5, <3>6 DEF TarIInv
  <2> QED
    BY <2>2, <2>3
<1>16. ASSUME RemoveOld PROVE TarIInv'
  <2>1. /\ final' = [final EXCEPT ![day] = NoArchive]
        /\ UNCHANGED <<tool, dir, unread, newer, day, pc, listing,
                    lister, queue, out, orphan, excused>>
    BY <1>1, <1>16 DEF RemoveOld, Keep, NextDay
  <2>2. pc = "rename" /\ day \in Days /\ ~ Direct
    BY <1>1, <1>16 DEF RemoveOld, TarTyped, Phases
  <2>3. NoArchive \in ArchiveRecords /\ ~ NoArchive.exists
    BY ArchiveTyped
  <2>4. final' \in [Days -> ArchiveRecords]
    BY <1>1, <2>1, <2>2, <2>3 DEF TarTyped
  <2>5. TarTyped'
    BY <1>1, <2>1, <2>2, <2>3, <2>4 DEF TarTyped
  <2>6. Phases'
    BY <1>1, <2>1, <2>2, <2>3, <2>4 DEF Phases, Direct
  <2>7. GoodSoFar'
    BY <1>1, <2>1, <2>2, <2>3, <2>4 DEF GoodSoFar, Readable, Direct, InQueue
  <2>8. NoShortArchive'
    BY <1>1, <2>1, <2>2, <2>3, <2>4 DEF NoShortArchive, InProgress, Direct
  <2> QED
    BY <2>5, <2>6, <2>7, <2>8 DEF TarIInv
<1>17. ASSUME Rename PROVE TarIInv'
  <2>1. /\ pc' = "exec"
        /\ day' = day + 1
        /\ listing' = {}
        /\ newer' = newer \ {day}
        /\ final' = [final EXCEPT ![day] = Archive(out)]
        /\ UNCHANGED <<tool, dir, unread, lister, queue, out, orphan,
                    excused>>
    BY <1>1, <1>17 DEF Rename, Keep, NextDay
  <2>2. pc = "rename" /\ day \in Days /\ ~ Direct
    BY <1>1, <1>17 DEF Rename, TarTyped, Phases
  <2>3. Archive(out) \in ArchiveRecords /\ Archive(out).files = out
    BY <1>1, ArchiveTyped DEF TarTyped
  <2>4. day + 1 \in Nat \ {0}
    BY <1>1 DEF TarTyped
  <2>5. final' \in [Days -> ArchiveRecords]
    BY <1>1, <2>1, <2>2, <2>3 DEF TarTyped
  <2>6. day \notin excused => \A f \in dir[day] : f \in Archive(out).files \/ <<day, f>> \in unread
    BY <1>1, <2>2, <2>3 DEF GoodSoFar, Readable
  <2>7. TarTyped'
    BY <1>1, <2>1, <2>2, <2>3, <2>4, <2>5, <2>6 DEF TarTyped
  <2>8. Phases'
    BY <1>1, <2>1, <2>2, <2>3, <2>4, <2>5, <2>6 DEF Phases, Direct
  <2>9. GoodSoFar'
    BY <1>1, <2>1, <2>2, <2>3, <2>4, <2>5, <2>6 DEF GoodSoFar, Readable,
       Direct, InQueue
  <2>10. NoShortArchive'
    BY <1>1, <2>1, <2>2, <2>3, <2>4, <2>5, <2>6 DEF NoShortArchive,
       InProgress, Direct
  <2> QED
    BY <2>7, <2>8, <2>9, <2>10 DEF TarIInv
<1>18. ASSUME NEW d \in Days, NEW f \in FileNumbers, Arrive(d, f) PROVE TarIInv'
  <2>1. TarTyped'
    BY <1>1, <1>18 DEF Arrive, TarTyped, Keep
  <2>2. Phases'
    BY <1>1, <1>18 DEF Arrive, Phases, Direct, Keep
  <2>3. GoodSoFar'
    BY <1>1, <1>18 DEF Arrive, GoodSoFar, Readable, Keep, Direct, InQueue
  <2>4. NoShortArchive'
    BY <1>1, <1>18 DEF Arrive, NoShortArchive, InProgress, Direct, Keep
  <2> QED
    BY <2>1, <2>2, <2>3, <2>4 DEF TarIInv
<1>19. ASSUME Crash PROVE TarIInv'
  <2>1. /\ Dies /\ excused \subseteq excused' /\ excused' \subseteq excused \cup {day}
        /\ Direct /\ pc = "copy" => day \in excused' /\ day \in Days
        /\ ~ (Direct /\ pc = "copy") => excused' = excused
    BY <1>1, <1>19 DEF Crash, TarTyped
  <2>2. excused' \in SUBSET Days
    BY <1>1, <2>1 DEF TarTyped
  <2> QED
    BY <2>1, <2>2, Dying
<1>20. CASE UNCHANGED TarVars
  BY <1>1, <1>20 DEF TarVars, TarIInv, TarTyped, Phases, GoodSoFar,
     NoShortArchive, InProgress, Direct, Readable, InQueue
<1> QED
  BY <1>2, <1>3, <1>4, <1>5, <1>6, <1>7, <1>8, <1>9, <1>10, <1>11, <1>12,
     <1>13, <1>14, <1>15, <1>16, <1>17, <1>18, <1>19, <1>20 DEF TarNext,
     FileNumbers

(* Whatever happened to this and earlier runs, an archive under its final  *)
(* name, which later runs will pass over, holds every file of its day that *)
(* could be read, unless the next run sees that it is out of date or it    *)
(* was cut short by a failure that the program does not notice.            *)
THEOREM ArchivesComplete == TarSpec => []NoShortArchive
<1>1. TarIInv => NoShortArchive
  BY DEF TarIInv
<1> QED
  BY <1>1, TarInitIInv, TarNextIInv, PTL DEF TarSpec

----------------------------------------------------------------------------
(* BlocksPipe: a block is in one place, whatever the number of blocks and  *)
(* their size.                                                             *)

Distinct(s) == \A i, j \in DOMAIN s : s[i] = s[j] => i = j
Holds(s, b) == \E i \in DOMAIN s : s[i] = b

(* One of four holds, and no more.                                         *)
Once(A, B, C, D) ==
  \/ A /\ ~ B /\ ~ C /\ ~ D
  \/ ~ A /\ B /\ ~ C /\ ~ D
  \/ ~ A /\ ~ B /\ C /\ ~ D
  \/ ~ A /\ ~ B /\ ~ C /\ D

(* e and d are the channels of empty and of filled blocks, h is the block  *)
(* in the producer's hand and f the one at the front of the reader.        *)
Arranged(e, d, h, f) ==
  /\ e \in Seq(Blocks) /\ Distinct(e)
  /\ d \in Seq(Blocks) /\ Distinct(d)
  /\ h \in Blocks \union {NoBlock} /\ f \in Blocks \union {NoBlock}
  /\ \A b \in Blocks : Once(Holds(e, b), Holds(d, b), h = b, f = b)

(* The first block of a channel is taken.                                  *)
LEMMA TakeDistinct ==
  ASSUME NEW s \in Seq(Blocks), s # <<>>, Distinct(s)
  PROVE  /\ Tail(s) \in Seq(Blocks) /\ Distinct(Tail(s))
         /\ Head(s) \in Blocks /\ Holds(s, Head(s))
         /\ \A b : Holds(Tail(s), b) <=> Holds(s, b) /\ b # Head(s)
<1>1. /\ Tail(s) \in Seq(Blocks) /\ Len(Tail(s)) = Len(s) - 1
      /\ Head(s) = s[1] /\ Head(s) \in Blocks
      /\ \A i \in 1 .. Len(Tail(s)) : Tail(s)[i] = s[i + 1]
      /\ Len(s) \in Nat \ {0}
  BY HeadTailProperties, EmptySeq
<1>2. DOMAIN s = 1 .. Len(s) /\ DOMAIN Tail(s) = 1 .. Len(s) - 1
  BY <1>1
<1>3. Distinct(Tail(s))
  BY <1>1, <1>2 DEF Distinct
<1>4. Holds(s, Head(s))
  BY <1>1, <1>2 DEF Holds
<1>5. ASSUME NEW b, Holds(Tail(s), b) PROVE Holds(s, b) /\ b # Head(s)
  BY <1>1, <1>2, <1>5 DEF Holds, Distinct
<1>6. ASSUME NEW b, Holds(s, b), b # Head(s) PROVE Holds(Tail(s), b)
  <2>1. PICK i \in 1 .. Len(s) : s[i] = b
    BY <1>2, <1>6 DEF Holds
  <2>2. i - 1 \in 1 .. Len(s) - 1 /\ (i - 1) + 1 = i
    BY <1>1, <1>6, <2>1
  <2>3. Tail(s)[i - 1] = b
    BY <1>1, <2>1, <2>2
  <2> QED
    BY <1>2, <2>2, <2>3 DEF Holds
<1> QED
  BY <1>1, <1>3, <1>4, <1>5, <1>6

(* A block is put at the end of a channel that does not hold it.           *)
LEMMA PutDistinct ==
  ASSUME NEW s \in Seq(Blocks), Distinct(s), NEW v \in Blocks, ~ Holds(s, v)
  PROVE  /\ Append(s, v) \in Seq(Blocks) /\ Distinct(Append(s, v))
         /\ \A b : Holds(Append(s, v), b) <=> Holds(s, b) \/ b = v
<1>1. /\ Append(s, v) \in Seq(Blocks) /\ Len(Append(s, v)) = Len(s) + 1
      /\ \A i \in 1 .. Len(s) : Append(s, v)[i] = s[i]
      /\ Append(s, v)[Len(s) + 1] = v
  BY AppendProperties
<1>2. /\ Len(s) \in Nat /\ DOMAIN s = 1 .. Len(s)
      /\ DOMAIN Append(s, v) = 1 .. Len(s) + 1
  BY <1>1
<1>3. Distinct(Append(s, v))
  BY <1>1, <1>2 DEF Distinct, Holds
<1>4. \A b : Holds(Append(s, v), b) <=> Holds(s, b) \/ b = v
  BY <1>1, <1>2 DEF Holds
<1> QED
  BY <1>1, <1>3, <1>4

(* From the channel of empty blocks to the producer's hand.                *)
LEMMA EmptyToHand ==
  ASSUME NEW e, NEW d, NEW f, Arranged(e, d, NoBlock, f), e # <<>>
  PROVE  Arranged(Tail(e), d, Head(e), f) /\ Head(e) \in Blocks
<1>1. /\ Tail(e) \in Seq(Blocks) /\ Distinct(Tail(e))
      /\ Head(e) \in Blocks /\ Holds(e, Head(e))
      /\ \A b : Holds(Tail(e), b) <=> Holds(e, b) /\ b # Head(e)
  BY TakeDistinct DEF Arranged
<1> QED
  BY <1>1, BlocksPipeAssumption DEF Arranged, Once

(* From there back to the end of that channel.                             *)
LEMMA HandToEmpty ==
  ASSUME NEW e, NEW d, NEW h \in Blocks, NEW f, Arranged(e, d, h, f)
  PROVE  Arranged(Append(e, h), d, NoBlock, f)
<1>1. ~ Holds(e, h)
  BY DEF Arranged, Once
<1>2. /\ Append(e, h) \in Seq(Blocks) /\ Distinct(Append(e, h))
      /\ \A b : Holds(Append(e, h), b) <=> Holds(e, b) \/ b = h
  BY <1>1, PutDistinct DEF Arranged
<1> QED
  BY <1>2, BlocksPipeAssumption DEF Arranged, Once

(* From there to the end of the channel of filled blocks.                  *)
LEMMA HandToData ==
  ASSUME NEW e, NEW d, NEW h \in Blocks, NEW f, Arranged(e, d, h, f)
  PROVE  Arranged(e, Append(d, h), NoBlock, f)
<1>1. ~ Holds(d, h)
  BY DEF Arranged, Once
<1>2. /\ Append(d, h) \in Seq(Blocks) /\ Distinct(Append(d, h))
      /\ \A b : Holds(Append(d, h), b) <=> Holds(d, b) \/ b = h
  BY <1>1, PutDistinct DEF Arranged
<1> QED
  BY <1>2, BlocksPipeAssumption DEF Arranged, Once

(* From the head of that one to the front of the reader.                   *)
LEMMA DataToFront ==
  ASSUME NEW e, NEW d, NEW h, Arranged(e, d, h, NoBlock), d # <<>>
  PROVE  Arranged(e, Tail(d), h, Head(d)) /\ Head(d) \in Blocks
<1>1. /\ Tail(d) \in Seq(Blocks) /\ Distinct(Tail(d))
      /\ Head(d) \in Blocks /\ Holds(d, Head(d))
      /\ \A b : Holds(Tail(d), b) <=> Holds(d, b) /\ b # Head(d)
  BY TakeDistinct DEF Arranged
<1> QED
  BY <1>1, BlocksPipeAssumption DEF Arranged, Once

(* And from the reader back to the end of the channel of empty blocks.     *)
LEMMA FrontToEmpty ==
  ASSUME NEW e, NEW d, NEW h, NEW f \in Blocks, Arranged(e, d, h, f)
  PROVE  Arranged(Append(e, f), d, h, NoBlock)
<1>1. ~ Holds(e, f)
  BY DEF Arranged, Once
<1>2. /\ Append(e, f) \in Seq(Blocks) /\ Distinct(Append(e, f))
      /\ \A b : Holds(Append(e, f), b) <=> Holds(e, b) \/ b = f
  BY <1>1, PutDistinct DEF Arranged
<1> QED
  BY <1>2, BlocksPipeAssumption DEF Arranged, Once

(* At the start all blocks are empty.                                      *)
LEMMA AllEmpty == Arranged(SetToSeq(Blocks), <<>>, NoBlock, NoBlock)
<1> DEFINE n == Cardinality(Blocks)
           s == SetToSeq(Blocks)
<1>1. IsFiniteSet(Blocks) /\ NoBlock \notin Blocks
  BY BlocksPipeAssumption
<1>2. n \in Nat /\ Bijection(1 .. n, Blocks) # {}
  BY <1>1, FS_CardinalityType DEF ExistsBijection
<1>3. \E g \in [1 .. n -> Blocks] : IsInjective(g)
  BY <1>2 DEF Bijection, Injection
<1>4. s \in [1 .. n -> Blocks] /\ IsInjective(s)
  BY <1>3 DEF SetToSeq
<1>5. s \in Injection(1 .. n, Blocks)
  BY <1>4 DEF Injection
<1>6. Cardinality(1 .. n) = n
  BY <1>2, FS_Interval
<1>7. s \in Surjection(1 .. n, Blocks)
  BY <1>1, <1>5, <1>6, FS_Injection
<1>8. s \in Seq(Blocks) /\ DOMAIN s = 1 .. n
  BY <1>2, <1>4
<1>9. Distinct(s) /\ \A b \in Blocks : Holds(s, b)
  BY <1>4, <1>7, <1>8 DEF Distinct, Holds, IsInjective, Surjection
<1>10. Distinct(<<>>) /\ <<>> \in Seq(Blocks) /\ \A b : ~ Holds(<<>>, b)
  BY EmptySeq DEF Distinct, Holds
<1> HIDE DEF s
<1>11. \A b \in Blocks : Once(Holds(s, b), Holds(<<>>, b), NoBlock = b, NoBlock = b)
  BY <1>1, <1>9, <1>10 DEF Once
<1>12. Arranged(s, <<>>, NoBlock, NoBlock)
  BY <1>8, <1>9, <1>10, <1>11 DEF Arranged
<1> QED
  BY <1>12 DEF s

Producing == {"absent", "select", "reading", "sending", "cleanup", "gone"}

(* What holds of a pipe, given where its producer is (pr), its channels,   *)
(* its two blocks in hand and whether a Read waits (r).                    *)
PipeOK(pr, e, d, h, f, r) ==
  /\ pr \in Producing /\ r \in BOOLEAN
  /\ e \in Seq(Blocks) /\ d \in Seq(Blocks)
  /\ h \in Blocks \union {NoBlock} /\ f \in Blocks \union {NoBlock}
  /\ IF pr = "absent"
     THEN d = <<>> /\ h = NoBlock /\ f = NoBlock
     ELSE Arranged(e, d, h, f)
  /\ pr \in {"reading", "sending"} => h # NoBlock
  /\ pr = "select" => h = NoBlock
  /\ r => f = NoBlock

PipeDomains ==
  /\ DOMAIN empty = Pipes /\ DOMAIN data = Pipes /\ DOMAIN hold = Pipes
  /\ DOMAIN front = Pipes /\ DOMAIN producer = Pipes /\ DOMAIN reading = Pipes

PipeGood(p) ==
  PipeOK(producer[p], empty[p], data[p], hold[p], front[p], reading[p])

PipeInv == PipeDomains /\ \A p \in Pipes : PipeGood(p)

(* A step that changes these of the variables of pipe p, or leaves them.   *)
Becomes(old, new, p, v) ==
  /\ DOMAIN new = Pipes
  /\ \A q \in Pipes : new[q] = IF q = p THEN v ELSE old[q]

StepTo(p, pr, e, d, h, f, r) ==
  /\ Becomes(producer, producer', p, pr)
  /\ Becomes(empty, empty', p, e) /\ Becomes(data, data', p, d)
  /\ Becomes(hold, hold', p, h) /\ Becomes(front, front', p, f)
  /\ Becomes(reading, reading', p, r)

(* A step that changes one pipe and leaves it good.                        *)
LEMMA OnePipe ==
  ASSUME PipeInv, NEW p \in Pipes, NEW pr, NEW e, NEW d, NEW h, NEW f, NEW r,
         PipeOK(pr, e, d, h, f, r), StepTo(p, pr, e, d, h, f, r)
  PROVE  PipeInv'
<1>1. PipeDomains'
  BY DEF StepTo, Becomes, PipeDomains
<1>2. PipeGood(p)'
  BY DEF StepTo, Becomes, PipeGood
<1>3. ASSUME NEW q \in Pipes, q # p PROVE PipeGood(q)'
  BY <1>3 DEF StepTo, Becomes, PipeInv, PipeGood
<1> QED
  BY <1>1, <1>2, <1>3 DEF PipeInv

(* The invariant, of one pipe.                                             *)
LEMMA GoodPipe ==
  ASSUME PipeInv, NEW p \in Pipes
  PROVE  PipeOK(producer[p], empty[p], data[p], hold[p], front[p], reading[p])
BY DEF PipeInv, PipeGood

(* NewReadCloserPump.                                                      *)
LEMMA StartKeeps ==
  ASSUME PipeInv, NEW p \in Pipes, StartPipe(p) PROVE PipeInv'
<1>1. /\ PipeOK("select", SetToSeq(Blocks), data[p], hold[p], front[p], reading[p])
      /\ SetToSeq(Blocks) \in Seq(Blocks)
  BY GoodPipe, AllEmpty DEF PipeOK, StartPipe, Arranged, Producing
<1>2. StepTo(p, "select", SetToSeq(Blocks), data[p], hold[p],
             front[p], reading[p])
  BY DEF StepTo, Becomes, PipeInv, PipeDomains, StartPipe
<1> QED
  BY <1>1, <1>2, OnePipe

(* The producer takes an empty block.                                      *)
LEMMA TakeKeeps ==
  ASSUME PipeInv, NEW p \in Pipes, TakeEmpty(p) PROVE PipeInv'
<1>1. Arranged(empty[p], data[p], NoBlock, front[p]) /\ empty[p] # <<>>
  BY GoodPipe DEF PipeOK, TakeEmpty
<1>2. /\ Arranged(Tail(empty[p]), data[p], Head(empty[p]), front[p])
      /\ Head(empty[p]) \in Blocks /\ Head(empty[p]) # NoBlock
  BY <1>1, EmptyToHand, BlocksPipeAssumption
<1>3. PipeOK("reading", Tail(empty[p]), data[p], Head(empty[p]), front[p], reading[p])
  BY <1>2, GoodPipe DEF PipeOK, Producing, Arranged
<1>4. StepTo(p, "reading", Tail(empty[p]), data[p], Head(empty[p]),
             front[p], reading[p])
  BY DEF StepTo, Becomes, PipeInv, PipeDomains, TakeEmpty, readerVars
<1> QED
  BY <1>2, <1>3, <1>4, OnePipe

(* It reads something, or an error.                                        *)
LEMMA ReadKeeps ==
  ASSUME PipeInv, NEW p \in Pipes,
         \/ \E bytes : ReadSome(p, bytes)
         \/ \E error : ReadFails(p, error)
         \/ NoticeStop(p)
  PROVE  PipeInv'
<1>1. /\ UNCHANGED <<empty, data, hold, front, reading>>
      /\ \/ /\ producer[p] = "reading"
            /\ producer' = [producer EXCEPT ![p] = "sending"]
         \/ /\ producer[p] \in {"reading", "select", "sending"}
            /\ producer' = [producer EXCEPT ![p] = "cleanup"]
  BY DEF ReadSome, ReadFails, NoticeStop, readerVars
<1>2. PICK next \in Producing \ {"absent", "reading", "select"} :
        /\ producer' = [producer EXCEPT ![p] = next]
        /\ next = "sending" => producer[p] = "reading"
        /\ producer[p] # "absent"
  BY <1>1 DEF Producing
<1>3. PipeOK(next, empty[p], data[p], hold[p], front[p], reading[p])
  BY <1>2, GoodPipe DEF PipeOK, Producing, Arranged
<1>4. StepTo(p, next, empty[p], data[p], hold[p], front[p], reading[p])
  BY <1>1, <1>2 DEF StepTo, Becomes, PipeInv, PipeDomains
<1> QED
  BY <1>1, <1>2, <1>3, <1>4, OnePipe

(* It reads nothing: the block goes back.                                  *)
LEMMA NothingKeeps ==
  ASSUME PipeInv, NEW p \in Pipes, ReadNothing(p) PROVE PipeInv'
<1>1. hold[p] \in Blocks /\ Arranged(empty[p], data[p], hold[p], front[p])
  BY GoodPipe DEF PipeOK, ReadNothing
<1>2. Arranged(Append(empty[p], hold[p]), data[p], NoBlock, front[p])
  BY <1>1, HandToEmpty
<1>3. PipeOK("select", Append(empty[p], hold[p]), data[p], NoBlock, front[p], reading[p])
  BY <1>2, GoodPipe DEF PipeOK, Producing, Arranged
<1>4. StepTo(p, "select", Append(empty[p], hold[p]), data[p], NoBlock,
             front[p], reading[p])
  BY DEF StepTo, Becomes, PipeInv, PipeDomains, ReadNothing, readerVars
<1> QED
  BY <1>2, <1>3, <1>4, OnePipe

(* It sends a block.                                                       *)
LEMMA SendKeeps ==
  ASSUME PipeInv, NEW p \in Pipes, SendData(p) PROVE PipeInv'
<1>1. hold[p] \in Blocks /\ Arranged(empty[p], data[p], hold[p], front[p])
  BY GoodPipe DEF PipeOK, SendData
<1>2. Arranged(empty[p], Append(data[p], hold[p]), NoBlock, front[p])
  BY <1>1, HandToData
<1>3. PipeOK("select", empty[p], Append(data[p], hold[p]), NoBlock, front[p], reading[p])
  BY <1>2, GoodPipe DEF PipeOK, Producing, Arranged
<1>4. StepTo(p, "select", empty[p], Append(data[p], hold[p]), NoBlock,
             front[p], reading[p])
  BY DEF StepTo, Becomes, PipeInv, PipeDomains, SendData, readerVars
<1> QED
  BY <1>2, <1>3, <1>4, OnePipe

(* Read copies out of the block at the front.                              *)
LEMMA FrontKeeps ==
  ASSUME PipeInv, NEW p \in Pipes, NEW k, ReadFront(p, k) PROVE PipeInv'
<1>1. /\ front[p] \in Blocks /\ ~ reading[p] /\ producer[p] # "absent"
      /\ Arranged(empty[p], data[p], hold[p], front[p])
      /\ UNCHANGED <<data, hold, producer, reading>>
  BY GoodPipe DEF PipeOK, ReadFront, producerVars
<1>2. CASE /\ empty' = [empty EXCEPT ![p] = Append(@, front[p])]
           /\ front' = [front EXCEPT ![p] = NoBlock]
  <2>1. Arranged(Append(empty[p], front[p]), data[p], hold[p], NoBlock)
    BY <1>1, FrontToEmpty
  <2>2. PipeOK(producer[p], Append(empty[p], front[p]), data[p], hold[p], NoBlock, reading[p])
    BY <1>1, <2>1, GoodPipe DEF PipeOK, Arranged
  <2>3. StepTo(p, producer[p], Append(empty[p], front[p]), data[p], hold[p],
               NoBlock, reading[p])
    BY <1>1, <1>2 DEF StepTo, Becomes, PipeInv, PipeDomains
  <2> QED
    BY <1>1, <1>2, <2>1, <2>2, <2>3, OnePipe
<1>3. CASE /\ UNCHANGED empty
           /\ front' = [front EXCEPT ![p] = front[p]]
  <2>1. StepTo(p, producer[p], empty[p], data[p], hold[p], front[p], reading[p])
    BY <1>1, <1>3 DEF StepTo, Becomes, PipeInv, PipeDomains
  <2> QED
    BY <2>1, GoodPipe, OnePipe
<1> QED
  BY <1>2, <1>3 DEF ReadFront, CopyOut

(* Read has to wait, ...                                                   *)
LEMMA WaitKeeps ==
  ASSUME PipeInv, NEW p \in Pipes, ReadWaits(p) PROVE PipeInv'
<1>1. PipeOK(producer[p], empty[p], data[p], hold[p], front[p], TRUE)
  BY GoodPipe DEF PipeOK, ReadWaits
<1>2. StepTo(p, producer[p], empty[p], data[p], hold[p], front[p], TRUE)
  BY DEF StepTo, Becomes, PipeInv, PipeDomains, ReadWaits, producerVars
<1> QED
  BY <1>1, <1>2, OnePipe

(* ... gets a block ...                                                    *)
LEMMA ReceiveKeeps ==
  ASSUME PipeInv, NEW p \in Pipes, NEW k, ReadReceives(p, k) PROVE PipeInv'
<1> DEFINE b == Head(data[p])
<1>1. /\ front[p] = NoBlock /\ producer[p] # "absent" /\ data[p] # <<>>
      /\ Arranged(empty[p], data[p], hold[p], NoBlock)
      /\ data' = [data EXCEPT ![p] = Tail(data[p])]
      /\ reading' = [reading EXCEPT ![p] = FALSE]
      /\ UNCHANGED <<hold, producer>>
  BY GoodPipe DEF PipeOK, ReadReceives, producerVars
<1>2. Arranged(empty[p], Tail(data[p]), hold[p], b) /\ b \in Blocks
  BY <1>1, DataToFront
<1> HIDE DEF b
<1>3. CASE /\ empty' = [empty EXCEPT ![p] = Append(@, b)]
           /\ front' = [front EXCEPT ![p] = NoBlock]
  <2>1. Arranged(Append(empty[p], b), Tail(data[p]), hold[p], NoBlock)
    BY <1>2, FrontToEmpty
  <2>2. PipeOK(producer[p], Append(empty[p], b), Tail(data[p]), hold[p], NoBlock, FALSE)
    BY <1>1, <2>1, GoodPipe DEF PipeOK, Arranged
  <2>3. StepTo(p, producer[p], Append(empty[p], b), Tail(data[p]), hold[p],
               NoBlock, FALSE)
    BY <1>1, <1>3 DEF StepTo, Becomes, PipeInv, PipeDomains
  <2> QED
    BY <1>1, <1>3, <2>1, <2>2, <2>3, OnePipe
<1>4. CASE UNCHANGED empty /\ front' = [front EXCEPT ![p] = b]
  <2>1. PipeOK(producer[p], empty[p], Tail(data[p]), hold[p], b, FALSE)
    BY <1>1, <1>2, GoodPipe DEF PipeOK, Arranged
  <2>2. StepTo(p, producer[p], empty[p], Tail(data[p]), hold[p], b, FALSE)
    BY <1>1, <1>4 DEF StepTo, Becomes, PipeInv, PipeDomains
  <2> QED
    BY <1>1, <1>2, <1>4, <2>1, <2>2, OnePipe
<1> QED
  BY <1>3, <1>4 DEF ReadReceives, CopyOut, b

(* ... or hears that there is none.                                        *)
LEMMA EndKeeps ==
  ASSUME PipeInv, NEW p \in Pipes, ReadEnds(p) PROVE PipeInv'
<1>1. PipeOK(producer[p], empty[p], data[p], hold[p], front[p], FALSE)
  BY GoodPipe DEF PipeOK
<1>2. StepTo(p, producer[p], empty[p], data[p], hold[p], front[p], FALSE)
  BY DEF StepTo, Becomes, PipeInv, PipeDomains, ReadEnds, producerVars
<1> QED
  BY <1>1, <1>2, OnePipe

(* A producer that cleaned up is gone; Close leaves the blocks alone.      *)
LEMMA GoneKeeps ==
  ASSUME PipeInv, NEW p \in Pipes, producer[p] = "cleanup",
         producer' = [producer EXCEPT ![p] = "gone"],
         UNCHANGED <<empty, data, hold, front, reading>>
  PROVE  PipeInv'
<1>1. PipeOK("gone", empty[p], data[p], hold[p], front[p], reading[p])
  BY GoodPipe DEF PipeOK, Producing
<1>2. StepTo(p, "gone", empty[p], data[p], hold[p], front[p], reading[p])
  BY DEF StepTo, Becomes, PipeInv, PipeDomains
<1> QED
  BY <1>1, <1>2, OnePipe

(* A step that leaves the blocks and the producers alone.                  *)
LEMMA SameKeeps ==
  ASSUME PipeInv, UNCHANGED <<empty, data, hold, front, reading, producer>>
  PROVE  PipeInv'
BY DEF PipeInv, PipeDomains, PipeGood

(* At the start no pipe is in use and all blocks are empty.                *)
LEMMA PipesInit ==
  ASSUME StreamInit PROVE PipeInv
<1>1. <<>> \in Seq(Blocks)
  BY EmptySeq
<1>2. PipeDomains
  BY DEF StreamInit, InitPipes, PipeDomains
<1>3. ASSUME NEW p \in Pipes PROVE PipeGood(p)
  BY <1>1 DEF StreamInit, InitPipes, PipeGood, PipeOK, Producing
<1> QED
  BY <1>2, <1>3 DEF PipeInv

(* Every step of the stream keeps every pipe good.                         *)
LEMMA StreamNextPipeInv ==
  ASSUME PipeInv, [StreamNext]_StreamVars PROVE PipeInv'
<1>1. Raw \in Pipes /\ Plain \in Pipes
  BY CsvStreamAssumption
<1>2. CASE OpenFile
  BY <1>1, <1>2, StartKeeps DEF OpenFile
<1>3. CASE HeaderRead
  BY <1>1, <1>3, StartKeeps DEF HeaderRead
<1>4. CASE HeaderBad
  BY <1>4, SameKeeps DEF HeaderBad, ClosePipe, producerVars
<1>5. CASE ReadFile
  BY <1>1, <1>5, ReadKeeps DEF ReadFile, FileRead, FileEnd
<1>6. CASE \E n \in 1 .. BlockSize : UnzipReturns(n)
  BY <1>1, <1>6, ReadKeeps DEF UnzipReturns
<1>7. CASE UnzipReads
  BY <1>1, <1>7, WaitKeeps, ReceiveKeeps, FrontKeeps, EndKeeps DEF UnzipReads
<1>8. CASE UnzipFails
  BY <1>1, <1>8, ReadKeeps DEF UnzipFails
<1>9. CASE UnzipNothing
  BY <1>1, <1>9, NothingKeeps DEF UnzipNothing
<1>10. ASSUME NEW p \in Pipes, Produce(p) PROVE PipeInv'
  BY <1>10, TakeKeeps, SendKeeps, ReadKeeps DEF Produce
<1>11. CASE CloseFile
  BY <1>1, <1>11, GoneKeeps DEF CloseFile, Cleanup, readerVars
<1>12. CASE CloseUnzip
  BY <1>1, <1>12, GoneKeeps DEF CloseUnzip
<1>13. CASE ParseMore
  BY <1>1, <1>13, WaitKeeps, ReceiveKeeps, FrontKeeps DEF ParseMore
<1>14. CASE ParseRecord \/ ParseAfterEnd
  BY <1>14, SameKeeps DEF ParseRecord, ParseAfterEnd, pipeVars, producerVars,
     readerVars
<1>15. CASE ParseEnd
  BY <1>1, <1>15, EndKeeps DEF ParseEnd
<1>16. CASE CloseCsv
  BY <1>16, SameKeeps DEF CloseCsv, ClosePipe, producerVars
<1>17. CASE UNCHANGED StreamVars
  BY <1>17, SameKeeps DEF StreamVars, pipeVars, producerVars, readerVars
<1> QED
  BY <1>2, <1>3, <1>4, <1>5, <1>6, <1>7, <1>8, <1>9, <1>10, <1>11, <1>12,
     <1>13, <1>14, <1>15, <1>16, <1>17 DEF StreamNext, Open, Unzip, Parse

(* A block that is arranged is in one place, and so the set of its places  *)
(* has one element.                                                        *)
LEMMA OnePlace ==
  ASSUME NEW p \in Pipes, NEW b \in Blocks,
         Arranged(empty[p], data[p], hold[p], front[p])
  PROVE  \E x : Places(p, b) = {x}
<1>1. /\ Distinct(empty[p]) /\ Distinct(data[p])
      /\ Once(Holds(empty[p], b), Holds(data[p], b), hold[p] = b, front[p] = b)
  BY DEF Arranged
<1> DEFINE E == {<<"empty", i>> : i \in {i \in DOMAIN empty[p] : empty[p][i] = b}}
           D == {<<"data", i>> : i \in {i \in DOMAIN data[p] : data[p][i] = b}}
           H == {<<"hold", 0>> : h \in {hold[p]} \intersect {b}}
           F == {<<"front", 0>> : f \in {front[p]} \intersect {b}}
<1>2. Places(p, b) = E \union D \union H \union F
  BY DEF Places
<1>3. /\ ~ Holds(empty[p], b) => E = {}
      /\ ~ Holds(data[p], b) => D = {}
  BY DEF Holds
<1>4. /\ H = IF hold[p] = b THEN {<<"hold", 0>>} ELSE {}
      /\ F = IF front[p] = b THEN {<<"front", 0>>} ELSE {}
  OBVIOUS
<1>5. ASSUME Holds(empty[p], b) PROVE \E x : E = {x}
  <2>1. PICK i \in DOMAIN empty[p] : empty[p][i] = b
    BY <1>5 DEF Holds
  <2>2. {j \in DOMAIN empty[p] : empty[p][j] = b} = {i}
    BY <1>1, <2>1 DEF Distinct
  <2>3. E = {<<"empty", i>>}
    BY <2>2
  <2> QED
    BY <2>3
<1>6. ASSUME Holds(data[p], b) PROVE \E x : D = {x}
  <2>1. PICK i \in DOMAIN data[p] : data[p][i] = b
    BY <1>6 DEF Holds
  <2>2. {j \in DOMAIN data[p] : data[p][j] = b} = {i}
    BY <1>1, <2>1 DEF Distinct
  <2>3. D = {<<"data", i>>}
    BY <2>2
  <2> QED
    BY <2>3
<1> HIDE DEF E, D, H, F
<1> QED
  BY <1>1, <1>2, <1>3, <1>4, <1>5, <1>6 DEF Once

(* A block of a pipe is in one place (the channel of empty blocks, that of *)
(* filled ones, the producer's hand or the front of the reader), and there *)
(* once: none is filled while it is read, and none is lost, for blocks of  *)
(* any number and size and a file of any length.                           *)
THEOREM BlocksAccountedFor == StreamSpec => []BlocksInOnePlace
<1>1. PipeInv => BlocksInOnePlace
  <2> SUFFICES ASSUME PipeInv, NEW p \in Pipes, producer[p] # "absent",
                      NEW b \in Blocks
               PROVE  Cardinality(Places(p, b)) = 1
    BY DEF BlocksInOnePlace
  <2>1. Arranged(empty[p], data[p], hold[p], front[p])
    BY GoodPipe DEF PipeOK
  <2>2. PICK x : Places(p, b) = {x}
    BY <2>1, OnePlace
  <2>3. Cardinality({x}) = 1
    BY FS_Singleton
  <2> QED
    BY <2>2, <2>3
<1> QED
  BY <1>1, PipesInit, StreamNextPipeInv, PTL DEF StreamSpec

----------------------------------------------------------------------------
(* CsvStream: where the bytes of the file are.  Those parsed, those in the *)
(* parser's lines, in the blocks of the second pipe, in the decompressor   *)
(* and in the blocks of the first pipe are intervals, each beginning where *)
(* the one before it ends.                                                 *)

(* s has the bytes after a up to z.                                        *)
Span(s, a, z) == z = a + Len(s) /\ \A i \in 1 .. Len(s) : s[i] = a + i

(* The blocks in the channel d, whose contents are c, have those after m   *)
(* up to n.                                                                *)
Chain(c, d, m, n) ==
  \E cut \in [0 .. Len(d) -> Nat] :
    /\ cut[0] = m /\ cut[Len(d)] = n
    /\ \A i \in 1 .. Len(d) : Span(c[d[i]], cut[i - 1], cut[i])

(* A pipe has those after a up to z: in its front f from offset o on, in   *)
(* its channel d and in the block h that its producer is sending.          *)
Flow(c, f, o, d, h, pr, a, z) ==
  \E m, n \in Nat :
    /\ IF f = NoBlock THEN m = a ELSE o <= a /\ o < Len(c[f]) /\ Span(c[f], a - o, m)
    /\ Chain(c, d, m, n)
    /\ IF pr = "sending" THEN Span(c[h], n, z) ELSE n = z

FlowOf(p, a, z) ==
  Flow(content[p], front[p], offset[p], data[p], hold[p], producer[p], a, z)

(* A sequence is cut in two.                                               *)
LEMMA SequenceCut ==
  ASSUME NEW S, NEW s \in Seq(S), NEW k \in 0 .. Len(s)
  PROVE  /\ SubSeq(s, 1, k) \in Seq(S) /\ Len(SubSeq(s, 1, k)) = k
         /\ \A i \in 1 .. k : SubSeq(s, 1, k)[i] = s[i]
         /\ SubSeq(s, k + 1, Len(s)) \in Seq(S)
         /\ Len(SubSeq(s, k + 1, Len(s))) = Len(s) - k
         /\ \A i \in 1 .. Len(s) - k : SubSeq(s, k + 1, Len(s))[i] = s[k + i]
<1>1. Len(s) \in Nat /\ k \in Nat /\ k <= Len(s)
  OBVIOUS
<1> QED
  BY <1>1

(* An interval is cut in two.                                              *)
LEMMA SpanCut ==
  ASSUME NEW S, NEW s \in Seq(S), NEW a \in Nat, NEW z, Span(s, a, z),
         NEW k \in 0 .. Len(s)
  PROVE  /\ SubSeq(s, 1, k) \in Seq(S) /\ Len(SubSeq(s, 1, k)) = k
         /\ Span(SubSeq(s, 1, k), a, a + k)
         /\ SubSeq(s, k + 1, Len(s)) \in Seq(S)
         /\ Span(SubSeq(s, k + 1, Len(s)), a + k, z)
<1>1. Len(s) \in Nat /\ k \in Nat /\ k <= Len(s)
  OBVIOUS
<1>2. /\ SubSeq(s, 1, k) \in Seq(S) /\ Len(SubSeq(s, 1, k)) = k
      /\ \A i \in 1 .. k : SubSeq(s, 1, k)[i] = s[i]
  BY SequenceCut
<1>3. /\ SubSeq(s, k + 1, Len(s)) \in Seq(S)
      /\ Len(SubSeq(s, k + 1, Len(s))) = Len(s) - k
      /\ \A i \in 1 .. Len(s) - k : SubSeq(s, k + 1, Len(s))[i] = s[k + i]
  BY SequenceCut
<1>4. Span(SubSeq(s, 1, k), a, a + k)
  BY <1>1, <1>2 DEF Span
<1>5. Span(SubSeq(s, k + 1, Len(s)), a + k, z)
  <2>1. ASSUME NEW i \in 1 .. Len(s) - k
        PROVE  SubSeq(s, k + 1, Len(s))[i] = (a + k) + i
    <3>1. k + i \in 1 .. Len(s)
      BY <1>1
    <3>2. s[k + i] = a + (k + i)
      BY <3>1 DEF Span
    <3> QED
      BY <1>1, <1>3, <3>2
  <2>2. z = (a + k) + (Len(s) - k)
    BY <1>1 DEF Span
  <2> QED
    BY <1>3, <2>1, <2>2 DEF Span
<1> QED
  BY <1>2, <1>3, <1>4, <1>5

(* The end of an interval.                                                 *)
LEMMA SpanEnd ==
  ASSUME NEW S, NEW s \in Seq(S), NEW a \in Nat, NEW z, Span(s, a, z)
  PROVE  z \in Nat /\ a <= z /\ (s = <<>> => z = a) /\ (z = a => s = <<>>)
<1>1. Len(s) \in Nat /\ (Len(s) = 0 <=> s = <<>>)
  BY EmptySeq
<1> QED
  BY <1>1 DEF Span

(* A block is put at the end of a channel.                                 *)
LEMMA ChainPut ==
  ASSUME NEW c, NEW d \in Seq(Blocks), NEW h \in Blocks,
         NEW m \in Nat, NEW n \in Nat, NEW z \in Nat,
         Chain(c, d, m, n), Span(c[h], n, z)
  PROVE  Chain(c, Append(d, h), m, z)
<1>1. PICK cut \in [0 .. Len(d) -> Nat] :
        /\ cut[0] = m /\ cut[Len(d)] = n
        /\ \A i \in 1 .. Len(d) : Span(c[d[i]], cut[i - 1], cut[i])
  BY DEF Chain
<1>2. /\ Append(d, h) \in Seq(Blocks) /\ Len(Append(d, h)) = Len(d) + 1
      /\ \A i \in 1 .. Len(d) : Append(d, h)[i] = d[i]
      /\ Append(d, h)[Len(d) + 1] = h
      /\ Len(d) \in Nat
  BY AppendProperties
<1> DEFINE new == [i \in 0 .. Len(d) + 1 |-> IF i <= Len(d) THEN cut[i] ELSE z]
<1>3. new \in [0 .. Len(d) + 1 -> Nat]
  BY <1>2
<1>4. new[0] = m /\ new[Len(d) + 1] = z /\ \A i \in 0 .. Len(d) : new[i] = cut[i]
  BY <1>1, <1>2
<1> HIDE DEF new
<1>5. ASSUME NEW i \in 1 .. Len(d) + 1
      PROVE  Span(c[Append(d, h)[i]], new[i - 1], new[i])
  <2>1. CASE i \in 1 .. Len(d)
    <3>1. i - 1 \in 0 .. Len(d) /\ i \in 0 .. Len(d)
      BY <1>2, <2>1
    <3> QED
      BY <1>1, <1>2, <1>4, <2>1, <3>1
  <2>2. CASE i = Len(d) + 1
    <3>1. i - 1 = Len(d) /\ Len(d) \in 0 .. Len(d)
      BY <1>2, <2>2
    <3> QED
      BY <1>1, <1>2, <1>4, <2>2, <3>1
  <2> QED
    BY <1>2, <2>1, <2>2
<1> QED
  BY <1>2, <1>3, <1>4, <1>5 DEF Chain

(* The first block of a channel is taken.                                  *)
LEMMA ChainTake ==
  ASSUME NEW c, NEW d \in Seq(Blocks), d # <<>>,
         NEW m \in Nat, NEW n \in Nat, Chain(c, d, m, n)
  PROVE  \E k \in Nat : Span(c[Head(d)], m, k) /\ Chain(c, Tail(d), k, n)
<1>1. PICK cut \in [0 .. Len(d) -> Nat] :
        /\ cut[0] = m /\ cut[Len(d)] = n
        /\ \A i \in 1 .. Len(d) : Span(c[d[i]], cut[i - 1], cut[i])
  BY DEF Chain
<1>2. /\ Len(Tail(d)) = Len(d) - 1 /\ Head(d) = d[1]
      /\ \A i \in 1 .. Len(d) - 1 : Tail(d)[i] = d[i + 1]
      /\ Len(d) \in Nat \ {0}
  BY HeadTailProperties, EmptySeq
<1> DEFINE new == [i \in 0 .. Len(d) - 1 |-> cut[i + 1]]
<1>3. /\ new \in [0 .. Len(d) - 1 -> Nat]
      /\ \A i \in 0 .. Len(d) - 1 : new[i] = cut[i + 1]
  BY <1>2
<1> HIDE DEF new
<1>4. new[0] = cut[1] /\ new[Len(d) - 1] = n /\ cut[1] \in Nat
  BY <1>1, <1>2, <1>3
<1>5. Span(c[Head(d)], m, cut[1])
  BY <1>1, <1>2
<1>6. ASSUME NEW i \in 1 .. Len(d) - 1
      PROVE  Span(c[Tail(d)[i]], new[i - 1], new[i])
  <2>1. /\ i - 1 \in 0 .. Len(d) - 1 /\ i \in 0 .. Len(d) - 1 /\ (i - 1) + 1 = i
        /\ i + 1 \in 1 .. Len(d) /\ (i + 1) - 1 = i
    BY <1>2
  <2> QED
    BY <1>1, <1>2, <1>3, <2>1
<1>7. Chain(c, Tail(d), cut[1], n)
  BY <1>2, <1>3, <1>4, <1>6 DEF Chain
<1> QED
  BY <1>4, <1>5, <1>7

(* An empty channel has nothing, and contents of other blocks do not       *)
(* matter.                                                                 *)
LEMMA ChainEmpty ==
  ASSUME NEW c, NEW m \in Nat, NEW n \in Nat
  PROVE  Chain(c, <<>>, m, n) <=> m = n
<1>1. Len(<<>>) = 0
  BY EmptySeq
<1>2. Chain(c, <<>>, m, n) => m = n
  BY <1>1 DEF Chain
<1>3. ASSUME m = n PROVE Chain(c, <<>>, m, n)
  <2> DEFINE cut == [i \in 0 .. 0 |-> m]
  <2>1. cut \in [0 .. 0 -> Nat] /\ cut[0] = m
    OBVIOUS
  <2> HIDE DEF cut
  <2> QED
    BY <1>1, <1>3, <2>1 DEF Chain
<1> QED
  BY <1>2, <1>3

LEMMA ChainSame ==
  ASSUME NEW c, NEW new, NEW d \in Seq(Blocks), NEW m \in Nat, NEW n \in Nat,
         Chain(c, d, m, n), \A i \in 1 .. Len(d) : new[d[i]] = c[d[i]]
  PROVE  Chain(new, d, m, n)
BY DEF Chain

----------------------------------------------------------------------------
(* CsvStream: the variables of the pipes keep their types, and what a      *)
(* block holds fits in it.                                                 *)
ByteSeqs == Seq(1 .. FileSize)

PipeTypes ==
  /\ empty \in [Pipes -> Seq(Blocks)] /\ data \in [Pipes -> Seq(Blocks)]
  /\ dataOpen \in [Pipes -> BOOLEAN] /\ stopOpen \in [Pipes -> BOOLEAN]
  /\ content \in [Pipes -> [Blocks -> ByteSeqs]]
  /\ producer \in [Pipes -> Producing]
  /\ hold \in [Pipes -> Blocks \union {NoBlock}]
  /\ front \in [Pipes -> Blocks \union {NoBlock}]
  /\ offset \in [Pipes -> 0 .. BlockSize]
  /\ result \in [Pipes -> {"none", "EOF", "bad"}]
  /\ inOpen \in [Pipes -> BOOLEAN] /\ attached \in [Pipes -> BOOLEAN]
  /\ reading \in [Pipes -> BOOLEAN]
  /\ \A p \in Pipes, b \in Blocks : Len(content[p][b]) <= BlockSize

(* What the two parts of a read say of the variables of a pipe.            *)
PipeReady == PipeInv /\ PipeTypes

(* The pipe is left as it is.                                              *)
Rests(p) ==
  /\ content'[p] = content[p] /\ front'[p] = front[p] /\ offset'[p] = offset[p]
  /\ data'[p] = data[p] /\ hold'[p] = hold[p] /\ producer'[p] = producer[p]
  /\ attached'[p] = attached[p] /\ reading'[p] = reading[p]
  /\ stopOpen'[p] = stopOpen[p] /\ dataOpen'[p] = dataOpen[p]
  /\ result'[p] = result[p]

LEMMA FlowRests ==
  ASSUME NEW p \in Pipes, Rests(p), NEW a \in Nat, NEW z \in Nat, FlowOf(p, a, z)
  PROVE  FlowOf(p, a, z)'
BY DEF Rests, FlowOf

(* The step of a pipe leaves the other alone.                              *)
LEMMA OtherRests ==
  ASSUME PipeTypes, NEW p \in Pipes, NEW q \in Pipes, p # q,
         \/ StartPipe(p) \/ TakeEmpty(p) \/ SendData(p) \/ NoticeStop(p)
         \/ \E bytes : ReadSome(p, bytes)
         \/ ReadNothing(p)
         \/ \E error : ReadFails(p, error)
         \/ ReadWaits(p) \/ ReadEnds(p) \/ ClosePipe(p)
         \/ \E k : ReadFront(p, k) \/ ReadReceives(p, k)
  PROVE  Rests(q)
<1> USE DEF Rests, PipeTypes
<1>1. CASE StartPipe(p)
  BY <1>1 DEF StartPipe
<1>2. CASE TakeEmpty(p) \/ SendData(p) \/ NoticeStop(p)
  BY <1>2 DEF TakeEmpty, SendData, NoticeStop, readerVars
<1>3. ASSUME NEW bytes, ReadSome(p, bytes) PROVE Rests(q)
  BY <1>3 DEF ReadSome, readerVars
<1>4. CASE ReadNothing(p)
  BY <1>4 DEF ReadNothing, readerVars
<1>5. ASSUME NEW error, ReadFails(p, error) PROVE Rests(q)
  BY <1>5 DEF ReadFails, readerVars
<1>6. CASE ReadWaits(p) \/ ReadEnds(p)
  BY <1>6 DEF ReadWaits, ReadEnds, producerVars
<1>7. CASE ClosePipe(p)
  BY <1>7 DEF ClosePipe, producerVars
<1>8. ASSUME NEW k, ReadFront(p, k) PROVE Rests(q)
  BY <1>8 DEF ReadFront, CopyOut, producerVars
<1>9. ASSUME NEW k, ReadReceives(p, k) PROVE Rests(q)
  BY <1>9 DEF ReadReceives, CopyOut, producerVars
<1> QED
  BY <1>1, <1>2, <1>3, <1>4, <1>5, <1>6, <1>7, <1>8, <1>9

(* A pipe that is put in place holds nothing.                              *)
LEMMA StartFlow ==
  ASSUME PipeReady, NEW p \in Pipes, StartPipe(p), NEW a \in Nat
  PROVE  FlowOf(p, a, a)'
<1>1. /\ data'[p] = <<>> /\ front'[p] = NoBlock /\ producer'[p] = "select"
  BY GoodPipe DEF PipeReady, PipeTypes, PipeOK, StartPipe
<1>2. Chain(content'[p], <<>>, a, a)
  BY ChainEmpty
<1> QED
  BY <1>1, <1>2 DEF FlowOf, Flow

(* The producer does something other than to read and to send.             *)
LEMMA IdleFlow ==
  ASSUME PipeReady, NEW p \in Pipes,
         \/ TakeEmpty(p) \/ ReadNothing(p) \/ ReadWaits(p)
         \/ \E error : ReadFails(p, error),
         NEW a \in Nat, NEW z \in Nat, FlowOf(p, a, z)
  PROVE  FlowOf(p, a, z)'
<1>1. /\ content'[p] = content[p] /\ front'[p] = front[p] /\ offset'[p] = offset[p]
      /\ data'[p] = data[p]
      /\ \/ producer'[p] = producer[p] /\ hold'[p] = hold[p]
         \/ producer[p] # "sending" /\ producer'[p] # "sending"
  BY DEF PipeReady, PipeTypes, TakeEmpty, ReadNothing, ReadWaits, ReadFails,
     readerVars, producerVars
<1> QED
  BY <1>1 DEF FlowOf, Flow

(* It reads more bytes.                                                    *)
LEMMA FillFlow ==
  ASSUME PipeReady, NEW p \in Pipes, NEW bytes \in ByteSeqs, ReadSome(p, bytes),
         NEW a \in Nat, NEW y \in Nat, NEW z \in Nat,
         FlowOf(p, a, y), Span(bytes, y, z)
  PROVE  FlowOf(p, a, z)'
<1>1. /\ producer[p] = "reading" /\ producer'[p] = "sending"
      /\ hold[p] \in Blocks /\ hold'[p] = hold[p]
      /\ data'[p] = data[p] /\ data[p] \in Seq(Blocks)
      /\ front'[p] = front[p] /\ offset'[p] = offset[p]
      /\ front[p] # hold[p] /\ front[p] \in Blocks \union {NoBlock}
      /\ ~ Holds(data[p], hold[p])
  BY GoodPipe DEF PipeReady, PipeTypes, PipeOK, ReadSome, readerVars, Arranged, Once
<1>2. content'[p] = [content[p] EXCEPT ![hold[p]] = bytes]
  BY DEF PipeReady, PipeTypes, ReadSome
<1>3. /\ content'[p][hold[p]] = bytes
      /\ \A b \in Blocks : b # hold[p] => content'[p][b] = content[p][b]
  BY <1>1, <1>2 DEF PipeReady, PipeTypes
<1>4. PICK m, n \in Nat :
        /\ IF front[p] = NoBlock THEN m = a
           ELSE /\ offset[p] <= a /\ offset[p] < Len(content[p][front[p]])
                /\ Span(content[p][front[p]], a - offset[p], m)
        /\ Chain(content[p], data[p], m, n)
        /\ n = y
  BY <1>1 DEF FlowOf, Flow
<1>5. \A i \in 1 .. Len(data[p]) : data[p][i] \in Blocks /\ data[p][i] # hold[p]
  BY <1>1 DEF Holds
<1>6. Chain(content'[p], data[p], m, n)
  <2>1. \A i \in 1 .. Len(data[p]) : content'[p][data[p][i]] = content[p][data[p][i]]
    BY <1>3, <1>5
  <2>2. data[p] \in Seq(Blocks) /\ m \in Nat /\ n \in Nat
    BY <1>1
  <2> QED
    BY <1>4, <2>1, <2>2, ChainSame
<1>7. front[p] # NoBlock => content'[p][front[p]] = content[p][front[p]]
  BY <1>1, <1>3
<1> QED
  BY <1>1, <1>3, <1>4, <1>6, <1>7 DEF FlowOf, Flow

(* It sends them.                                                          *)
LEMMA SendFlow ==
  ASSUME PipeReady, NEW p \in Pipes, SendData(p),
         NEW a \in Nat, NEW z \in Nat, FlowOf(p, a, z)
  PROVE  FlowOf(p, a, z)'
<1>1. /\ producer[p] = "sending" /\ producer'[p] = "select"
      /\ hold[p] \in Blocks
      /\ data'[p] = Append(data[p], hold[p]) /\ data[p] \in Seq(Blocks)
      /\ front'[p] = front[p] /\ offset'[p] = offset[p]
      /\ content'[p] = content[p]
  BY GoodPipe DEF PipeReady, PipeTypes, PipeOK, SendData, readerVars
<1>2. PICK m, n \in Nat :
        /\ IF front[p] = NoBlock THEN m = a
           ELSE /\ offset[p] <= a /\ offset[p] < Len(content[p][front[p]])
                /\ Span(content[p][front[p]], a - offset[p], m)
        /\ Chain(content[p], data[p], m, n)
        /\ Span(content[p][hold[p]], n, z)
  BY <1>1 DEF FlowOf, Flow
<1>3. Chain(content[p], Append(data[p], hold[p]), m, z)
  BY <1>1, <1>2, ChainPut
<1> QED
  BY <1>1, <1>2, <1>3 DEF FlowOf, Flow

(* When the pipe is drained and its producer done, what was read is what   *)
(* was put in.                                                             *)
LEMMA EndFlow ==
  ASSUME PipeReady, NEW p \in Pipes, ReadEnds(p),
         producer[p] # "sending", NEW a \in Nat, NEW z \in Nat, FlowOf(p, a, z)
  PROVE  a = z
<1>1. front[p] = NoBlock /\ data[p] = <<>>
  BY GoodPipe DEF PipeReady, PipeOK, ReadEnds
<1>2. PICK m, n \in Nat : m = a /\ Chain(content[p], <<>>, m, n) /\ n = z
  BY <1>1 DEF FlowOf, Flow
<1> QED
  BY <1>2, ChainEmpty

(* The first k bytes of the front are copied out, ...                      *)
LEMMA FrontFlow ==
  ASSUME PipeReady, NEW p \in Pipes, NEW k, ReadFront(p, k),
         NEW a \in Nat, NEW z \in Nat, FlowOf(p, a, z)
  PROVE  /\ k \in Nat /\ SubSeq(Remaining(p), 1, k) \in ByteSeqs
         /\ Span(SubSeq(Remaining(p), 1, k), a, a + k)
         /\ FlowOf(p, a + k, z)'
<1> DEFINE s == content[p][front[p]]
           o == offset[p]
<1>1. /\ front[p] \in Blocks /\ front[p] # NoBlock
      /\ s \in ByteSeqs /\ o \in Nat
      /\ k \in 1 .. Len(s) - o
      /\ content'[p] = content[p] /\ data'[p] = data[p] /\ hold'[p] = hold[p]
      /\ producer'[p] = producer[p]
      /\ IF o + k >= Len(s) THEN front'[p] = NoBlock
         ELSE front'[p] = front[p] /\ offset'[p] = o + k
  BY BlocksPipeAssumption DEF PipeReady, PipeTypes, ReadFront, CopyOut, producerVars
<1>2. PICK m, n \in Nat :
        /\ o <= a /\ o < Len(s) /\ Span(s, a - o, m)
        /\ Chain(content[p], data[p], m, n)
        /\ IF producer[p] = "sending" THEN Span(content[p][hold[p]], n, z) ELSE n = z
  BY <1>1 DEF FlowOf, Flow
<1> HIDE DEF s, o
<1>3. a - o \in Nat /\ o \in 0 .. Len(s) /\ (a - o) + o = a /\ Len(s) \in Nat
  BY <1>1, <1>2 DEF ByteSeqs
<1> DEFINE rest == SubSeq(s, o + 1, Len(s))
<1>4. rest \in ByteSeqs /\ Span(rest, a, m)
  <2>1. rest \in ByteSeqs /\ Span(rest, (a - o) + o, m)
    BY <1>1, <1>2, <1>3, SpanCut DEF ByteSeqs
  <2> HIDE DEF rest
  <2> QED
    BY <1>3, <2>1
<1>5. Len(rest) = Len(s) - o
  BY <1>1, <1>3, SequenceCut DEF ByteSeqs
<1> HIDE DEF rest
<1>6. SubSeq(rest, 1, k) \in ByteSeqs /\ Span(SubSeq(rest, 1, k), a, a + k)
  <2>1. k \in 0 .. Len(rest)
    BY <1>1, <1>3, <1>5
  <2> QED
    BY <1>4, <2>1, SpanCut DEF ByteSeqs
<1>7. rest = Remaining(p)
  BY DEF Remaining, rest, s, o
<1>8. CASE o + k >= Len(s)
  <2>1. a + k = m
    <3>1. m = (a - o) + Len(s)
      BY <1>2 DEF Span
    <3> QED
      BY <1>1, <1>3, <1>8, <3>1
  <2> QED
    BY <1>1, <1>2, <1>6, <1>7, <1>8, <2>1 DEF FlowOf, Flow
<1>9. CASE ~ (o + k >= Len(s))
  <2>1. o + k <= a + k /\ o + k < Len(s) /\ (a + k) - (o + k) = a - o /\ a + k \in Nat
    BY <1>1, <1>2, <1>3, <1>9
  <2>2. front'[p] = front[p] /\ offset'[p] = o + k /\ content'[p][front'[p]] = s
    BY <1>1, <1>9 DEF s
  <2>3. FlowOf(p, a + k, z)'
    BY <1>1, <1>2, <2>1, <2>2 DEF FlowOf, Flow
  <2> QED
    BY <1>1, <1>6, <1>7, <2>3
<1> QED
  BY <1>8, <1>9

(* ... or those of the first block in the channel.                         *)
LEMMA ReceiveFlow ==
  ASSUME PipeReady, NEW p \in Pipes, NEW k, ReadReceives(p, k),
         NEW a \in Nat, NEW z \in Nat, FlowOf(p, a, z)
  PROVE  /\ k \in Nat /\ SubSeq(content[p][Head(data[p])], 1, k) \in ByteSeqs
         /\ Span(SubSeq(content[p][Head(data[p])], 1, k), a, a + k)
         /\ FlowOf(p, a + k, z)'
<1> DEFINE b == Head(data[p])
           s == content[p][b]
<1>1. /\ front[p] = NoBlock /\ data[p] \in Seq(Blocks) /\ data[p] # <<>>
      /\ b \in Blocks /\ b # NoBlock
  BY GoodPipe, BlocksPipeAssumption DEF PipeReady, PipeOK, ReadReceives
<1>2. /\ s \in ByteSeqs /\ k \in 1 .. Len(s)
      /\ content'[p] = content[p] /\ data'[p] = Tail(data[p]) /\ hold'[p] = hold[p]
      /\ producer'[p] = producer[p]
      /\ IF 0 + k >= Len(s) THEN front'[p] = NoBlock
         ELSE front'[p] = b /\ offset'[p] = 0 + k
  BY <1>1 DEF PipeReady, PipeTypes, ReadReceives, CopyOut, producerVars
<1>3. PICK n \in Nat :
        /\ Chain(content[p], data[p], a, n)
        /\ IF producer[p] = "sending" THEN Span(content[p][hold[p]], n, z) ELSE n = z
  BY <1>1 DEF FlowOf, Flow
<1>4. PICK m \in Nat : Span(s, a, m) /\ Chain(content[p], Tail(data[p]), m, n)
  BY <1>1, <1>3, ChainTake
<1>5. content[p][b] = s
  OBVIOUS
<1> HIDE DEF s, b
<1>6. Len(s) \in Nat /\ k \in Nat /\ k \in 0 .. Len(s)
  BY <1>2 DEF ByteSeqs
<1>7. SubSeq(s, 1, k) \in ByteSeqs /\ Span(SubSeq(s, 1, k), a, a + k)
  BY <1>2, <1>4, <1>6, SpanCut DEF ByteSeqs
<1>8. CASE k >= Len(s)
  <2>1. a + k = m /\ front'[p] = NoBlock
    BY <1>2, <1>4, <1>6, <1>8 DEF Span
  <2>2. FlowOf(p, a + k, z)'
    BY <1>2, <1>3, <1>4, <2>1 DEF FlowOf, Flow
  <2> QED
    BY <1>6, <1>7, <2>2 DEF s, b
<1>9. CASE k < Len(s)
  <2>1. /\ front'[p] = b /\ offset'[p] = k
        /\ k <= a + k /\ (a + k) - k = a /\ a + k \in Nat
    BY <1>2, <1>6, <1>9
  <2>2. FlowOf(p, a + k, z)'
    BY <1>1, <1>2, <1>3, <1>4, <1>5, <1>9, <2>1 DEF FlowOf, Flow
  <2> QED
    BY <1>6, <1>7, <2>2 DEF s, b
<1> QED
  BY <1>6, <1>8, <1>9

----------------------------------------------------------------------------
(* Each step of a pipe keeps the types.                                    *)
LEMMA PipeStepTypes ==
  ASSUME PipeReady, NEW p \in Pipes,
         \/ StartPipe(p) \/ TakeEmpty(p) \/ SendData(p) \/ NoticeStop(p)
         \/ \E bytes \in ByteSeqs : ReadSome(p, bytes)
         \/ ReadNothing(p)
         \/ \E error \in {"EOF", "bad"} : ReadFails(p, error)
         \/ ReadWaits(p) \/ ReadEnds(p) \/ ClosePipe(p)
         \/ \E k : ReadFront(p, k) \/ ReadReceives(p, k)
  PROVE  PipeTypes'
<1> USE DEF PipeReady, PipeTypes, Producing
<1>1. CASE StartPipe(p)
  <2>1. SetToSeq(Blocks) \in Seq(Blocks)
    BY AllEmpty DEF Arranged
  <2> QED
    BY <1>1, <2>1 DEF StartPipe
<1>2. CASE TakeEmpty(p)
  <2>1. Head(empty[p]) \in Blocks /\ Tail(empty[p]) \in Seq(Blocks)
    BY <1>2 DEF TakeEmpty
  <2> QED
    BY <1>2, <2>1 DEF TakeEmpty, readerVars
<1>3. CASE SendData(p)
  <2>1. Append(data[p], hold[p]) \in Seq(Blocks)
    BY <1>3, GoodPipe DEF SendData, PipeOK
  <2> QED
    BY <1>3, <2>1 DEF SendData, readerVars
<1>4. CASE NoticeStop(p)
  BY <1>4 DEF NoticeStop, readerVars
<1>5. ASSUME NEW bytes \in ByteSeqs, ReadSome(p, bytes) PROVE PipeTypes'
  <2>1. hold[p] \in Blocks /\ Len(bytes) <= BlockSize
    BY <1>5, GoodPipe DEF ReadSome, PipeOK
  <2>2. content' = [content EXCEPT ![p] = [content[p] EXCEPT ![hold[p]] = bytes]]
    BY <1>5 DEF ReadSome
  <2>3. [content[p] EXCEPT ![hold[p]] = bytes] \in [Blocks -> ByteSeqs]
    BY <2>1
  <2>4. content' \in [Pipes -> [Blocks -> ByteSeqs]]
    BY <2>2, <2>3
  <2>5. ASSUME NEW q \in Pipes, NEW b \in Blocks
        PROVE  content'[q][b] = bytes \/ content'[q][b] = content[q][b]
    BY <2>2
  <2>6. \A q \in Pipes, b \in Blocks : Len(content'[q][b]) <= BlockSize
    BY <2>1, <2>5
  <2> QED
    BY <1>5, <2>4, <2>6 DEF ReadSome, readerVars
<1>6. CASE ReadNothing(p)
  <2>1. Append(empty[p], hold[p]) \in Seq(Blocks)
    BY <1>6, GoodPipe DEF ReadNothing, PipeOK
  <2> QED
    BY <1>6, <2>1 DEF ReadNothing, readerVars
<1>7. ASSUME NEW error \in {"EOF", "bad"}, ReadFails(p, error) PROVE PipeTypes'
  BY <1>7 DEF ReadFails, readerVars
<1>8. CASE ReadWaits(p) \/ ReadEnds(p)
  BY <1>8 DEF ReadWaits, ReadEnds, producerVars
<1>9. CASE ClosePipe(p)
  BY <1>9 DEF ClosePipe, producerVars
<1>10. ASSUME NEW b \in Blocks, NEW from \in Nat, NEW k \in Nat, CopyOut(p, b, from, k)
       PROVE  /\ empty' \in [Pipes -> Seq(Blocks)]
              /\ front' \in [Pipes -> Blocks \union {NoBlock}]
              /\ offset' \in [Pipes -> 0 .. BlockSize]
  <2>1. Append(empty[p], b) \in Seq(Blocks) /\ Len(content[p][b]) \in Nat
    BY DEF ByteSeqs
  <2>2. CASE from + k >= Len(content[p][b])
    <3>1. 0 \in 0 .. BlockSize
      BY BlocksPipeAssumption
    <3>2. empty' = [empty EXCEPT ![p] = Append(empty[p], b)]
      BY <1>10, <2>2 DEF CopyOut
    <3>3. /\ front' = [front EXCEPT ![p] = NoBlock]
          /\ offset' = [offset EXCEPT ![p] = 0]
      BY <1>10, <2>2 DEF CopyOut
    <3>4. empty' \in [Pipes -> Seq(Blocks)]
      BY <2>1, <3>2
    <3> QED
      BY <3>1, <3>3, <3>4
  <2>3. CASE ~ (from + k >= Len(content[p][b]))
    <3>1. from + k \in 0 .. BlockSize
      BY <2>1, <2>3, BlocksPipeAssumption
    <3> QED
      BY <1>10, <2>3, <3>1 DEF CopyOut
  <2> QED
    BY <2>2, <2>3
<1>11. ASSUME NEW k, ReadFront(p, k) PROVE PipeTypes'
  <2>1. front[p] \in Blocks /\ offset[p] \in Nat /\ k \in Nat
    BY <1>11, BlocksPipeAssumption DEF ReadFront
  <2>2. /\ empty' \in [Pipes -> Seq(Blocks)]
        /\ front' \in [Pipes -> Blocks \union {NoBlock}]
        /\ offset' \in [Pipes -> 0 .. BlockSize]
    BY <1>10, <1>11, <2>1 DEF ReadFront
  <2> QED
    BY <1>11, <2>2 DEF ReadFront, producerVars
<1>12. ASSUME NEW k, ReadReceives(p, k) PROVE PipeTypes'
  <2>1. /\ Head(data[p]) \in Blocks /\ k \in Nat
        /\ Tail(data[p]) \in Seq(Blocks)
    BY <1>12 DEF ReadReceives
  <2>2. /\ empty' \in [Pipes -> Seq(Blocks)]
        /\ front' \in [Pipes -> Blocks \union {NoBlock}]
        /\ offset' \in [Pipes -> 0 .. BlockSize]
    BY <1>10, <1>12, <2>1 DEF ReadReceives
  <2> QED
    BY <1>12, <2>1, <2>2 DEF ReadReceives, producerVars
<1> QED
  BY <1>1, <1>2, <1>3, <1>4, <1>5, <1>6, <1>7, <1>8, <1>9, <1>11, <1>12

(* What is copied out is bytes.                                            *)
LEMMA CopiedBytes ==
  ASSUME PipeReady, NEW p \in Pipes, NEW k
  PROVE  /\ ReadFront(p, k) => SubSeq(Remaining(p), 1, k) \in ByteSeqs
         /\ ReadReceives(p, k) => SubSeq(content[p][Head(data[p])], 1, k) \in ByteSeqs
<1>1. ASSUME ReadFront(p, k) PROVE SubSeq(Remaining(p), 1, k) \in ByteSeqs
  <2> DEFINE s == content[p][front[p]]
  <2>1. /\ s \in ByteSeqs /\ offset[p] \in Nat /\ k \in 1 .. Len(s) - offset[p]
    BY <1>1, BlocksPipeAssumption DEF PipeReady, PipeTypes, ReadFront
  <2> HIDE DEF s
  <2> DEFINE rest == SubSeq(s, offset[p] + 1, Len(s))
  <2>2. offset[p] \in 0 .. Len(s) /\ k \in 0 .. Len(s) - offset[p]
    BY <2>1 DEF ByteSeqs
  <2>3. rest \in ByteSeqs /\ Len(rest) = Len(s) - offset[p]
    BY <2>1, <2>2, SequenceCut DEF ByteSeqs
  <2> HIDE DEF rest
  <2>4. SubSeq(rest, 1, k) \in ByteSeqs
    BY <2>2, <2>3, SequenceCut DEF ByteSeqs
  <2> QED
    BY <2>4 DEF rest, s, Remaining
<1>2. ASSUME ReadReceives(p, k)
      PROVE  SubSeq(content[p][Head(data[p])], 1, k) \in ByteSeqs
  <2> DEFINE s == content[p][Head(data[p])]
  <2>1. s \in ByteSeqs /\ k \in 1 .. Len(s)
    BY <1>2 DEF PipeReady, PipeTypes, ReadReceives
  <2> HIDE DEF s
  <2>2. k \in 0 .. Len(s)
    BY <2>1
  <2>3. SubSeq(s, 1, k) \in ByteSeqs
    BY <2>1, <2>2, SequenceCut DEF ByteSeqs
  <2> QED
    BY <2>3 DEF s
<1> QED
  BY <1>1, <1>2

(* The other variables.                                                    *)
ReaderTypes ==
  /\ damagedAt \in 0 .. FileSize /\ malformed \subseteq 2 .. FileSize
  /\ filePos \in 0 .. FileSize
  /\ opener \in {"start", "header", "opened", "failed"}
  /\ unzip \in ByteSeqs /\ unzipSays \in {"none", "EOF", "bad"}
  /\ parser \in {"waiting", "reading", "closing", "done"}
  /\ lines \in ByteSeqs /\ records \in ByteSeqs
  /\ errorCount \in Nat /\ warnings \in Nat

StreamTypes == PipeTypes /\ ReaderTypes

LEMMA StreamTypesOK == StreamTypes => TypeOK
BY DEF StreamTypes, PipeTypes, ReaderTypes, ByteSeqs, TypeOK, Producing

LEMMA StreamInitTypes == StreamInit => StreamTypes
<1> SUFFICES ASSUME StreamInit PROVE StreamTypes
  OBVIOUS
<1>1. <<>> \in ByteSeqs /\ <<>> \in Seq(Blocks) /\ Len(<<>>) = 0
  BY EmptySeq DEF ByteSeqs
<1>2. PipeTypes
  BY <1>1, BlocksPipeAssumption DEF StreamInit, InitPipes, PipeTypes, Producing
<1>3. ReaderTypes
  BY <1>1, CsvStreamAssumption DEF StreamInit, ReaderTypes
<1> QED
  BY <1>2, <1>3 DEF StreamTypes

LEMMA StreamNextTypes ==
  ASSUME PipeInv, StreamTypes, [StreamNext]_StreamVars
  PROVE  StreamTypes'
<1>1. PipeReady /\ Raw \in Pipes /\ Plain \in Pipes /\ <<>> \in ByteSeqs
  BY CsvStreamAssumption, EmptySeq DEF PipeReady, StreamTypes, ByteSeqs
<1> USE DEF fileVars, unzipVars, parseVars
<1>2. CASE OpenFile
  BY <1>1, <1>2, PipeStepTypes DEF OpenFile, StreamTypes, ReaderTypes
<1>3. CASE HeaderRead
  <2>1. Tail(unzip) \in ByteSeqs
    BY <1>3 DEF StreamTypes, ReaderTypes, HeaderRead, ByteSeqs
  <2> QED
    BY <1>1, <1>3, <2>1, PipeStepTypes DEF HeaderRead, StreamTypes, ReaderTypes
<1>4. CASE HeaderBad
  BY <1>1, <1>4, PipeStepTypes DEF HeaderBad, StreamTypes, ReaderTypes
<1>5. ASSUME NEW n \in 1 .. BlockSize, FileRead(n) PROVE StreamTypes'
  <2>1. n \in 1 .. FileSize - filePos /\ FileSize \in Nat /\ filePos \in 0 .. FileSize
    BY <1>5, CsvStreamAssumption DEF FileRead, StreamTypes, ReaderTypes
  <2>2. \A i \in 1 .. n : filePos + i \in 1 .. FileSize
    BY <2>1
  <2>3. [i \in 1 .. n |-> filePos + i] \in ByteSeqs
    BY <2>1, <2>2 DEF ByteSeqs
  <2>4. PipeTypes'
    BY <1>1, <1>5, <2>3, PipeStepTypes DEF FileRead
  <2>5. filePos + n \in 0 .. FileSize
    BY <2>1
  <2> QED
    BY <1>5, <2>4, <2>5 DEF FileRead, StreamTypes, ReaderTypes
<1>6. CASE FileEnd
  BY <1>1, <1>6, PipeStepTypes DEF FileEnd, StreamTypes, ReaderTypes
<1>7. ASSUME NEW n \in 1 .. BlockSize, UnzipReturns(n) PROVE StreamTypes'
  <2>1. /\ SubSeq(unzip, 1, n) \in ByteSeqs
        /\ SubSeq(unzip, n + 1, Len(unzip)) \in ByteSeqs
    <3>1. unzip \in ByteSeqs /\ n \in 1 .. Len(unzip)
      BY <1>7 DEF UnzipReturns, StreamTypes, ReaderTypes
    <3>2. n \in 0 .. Len(unzip)
      BY <3>1
    <3> QED
      BY <3>1, <3>2, SequenceCut DEF ByteSeqs
  <2>2. PipeTypes'
    BY <1>1, <1>7, <2>1, PipeStepTypes DEF UnzipReturns
  <2> QED
    BY <1>7, <2>1, <2>2 DEF UnzipReturns, StreamTypes, ReaderTypes
<1>8. CASE UnzipReads
  <2>1. PipeTypes'
    BY <1>1, <1>8, PipeStepTypes DEF UnzipReads
  <2>2. unzip' \in ByteSeqs /\ unzipSays' \in {"none", "EOF", "bad"}
    BY <1>1, <1>8, CopiedBytes DEF UnzipReads, StreamTypes, PipeTypes, ReaderTypes
  <2> QED
    BY <1>8, <2>1, <2>2 DEF UnzipReads, StreamTypes, ReaderTypes
<1>9. CASE UnzipFails
  <2> DEFINE error == IF unzip # <<>> THEN "bad" ELSE unzipSays
  <2>1. ReadFails(Plain, error) /\ error \in {"EOF", "bad"}
    BY <1>9 DEF UnzipFails, StreamTypes, ReaderTypes
  <2> HIDE DEF error
  <2>2. PipeTypes'
    BY <1>1, <2>1, PipeStepTypes
  <2> QED
    BY <1>9, <2>2 DEF UnzipFails, StreamTypes, ReaderTypes
<1>10. CASE UnzipNothing
  BY <1>1, <1>10, PipeStepTypes DEF UnzipNothing, StreamTypes, ReaderTypes
<1>11. ASSUME NEW p \in Pipes, Produce(p) PROVE StreamTypes'
  BY <1>1, <1>11, PipeStepTypes DEF Produce, StreamTypes, ReaderTypes
<1>12. CASE CloseFile
  BY <1>1, <1>12 DEF CloseFile, Cleanup, StreamTypes, PipeTypes, ReaderTypes, Producing,
     readerVars
<1>13. CASE CloseUnzip
  BY <1>1, <1>13 DEF CloseUnzip, StreamTypes, PipeTypes, ReaderTypes, Producing
<1>14. CASE ParseMore
  <2>1. PipeTypes'
    BY <1>1, <1>14, PipeStepTypes DEF ParseMore
  <2>2. lines' \in ByteSeqs
    BY <1>1, <1>14, CopiedBytes DEF ParseMore, StreamTypes, ReaderTypes
  <2> QED
    BY <1>14, <2>1, <2>2 DEF ParseMore, StreamTypes, ReaderTypes
<1>15. CASE ParseRecord
  <2>1. PipeTypes'
    BY <1>15 DEF ParseRecord, StreamTypes, PipeTypes, pipeVars, producerVars, readerVars
  <2>2. Tail(lines) \in ByteSeqs /\ Append(records, Head(lines)) \in ByteSeqs
    <3>1. lines \in ByteSeqs /\ lines # <<>> /\ records \in ByteSeqs
      BY <1>15 DEF ParseRecord, StreamTypes, ReaderTypes
    <3>2. Tail(lines) \in ByteSeqs /\ Head(lines) \in 1 .. FileSize
      BY <3>1, HeadTailProperties DEF ByteSeqs
    <3> QED
      BY <3>1, <3>2, AppendProperties DEF ByteSeqs
  <2>3. /\ errorCount' \in Nat /\ parser' \in {"reading", "closing"}
        /\ records' \in ByteSeqs
    <3>1. errorCount \in Nat /\ records \in ByteSeqs /\ parser = "reading"
      BY <1>15 DEF ParseRecord, StreamTypes, ReaderTypes
    <3>2. CASE Head(lines) \in malformed
      BY <1>15, <3>1, <3>2 DEF ParseRecord, CountError
    <3>3. CASE Head(lines) \notin malformed
      <4>1. /\ records' = Append(records, Head(lines))
            /\ errorCount' = 0
            /\ parser' = parser
        BY <1>15, <3>3 DEF ParseRecord
      <4> QED
        BY <2>2, <3>1, <4>1
    <3> QED
      BY <3>2, <3>3
  <2>4. UNCHANGED <<damagedAt, malformed, filePos, opener, unzip, unzipSays, warnings>>
    BY <1>15 DEF ParseRecord
  <2>5. lines' \in ByteSeqs
    BY <1>15, <2>2 DEF ParseRecord
  <2> QED
    BY <2>1, <2>3, <2>4, <2>5 DEF StreamTypes, ReaderTypes
<1>16. CASE ParseEnd
  <2>1. PipeTypes'
    BY <1>1, <1>16, PipeStepTypes DEF ParseEnd
  <2> QED
    BY <1>16, <2>1 DEF ParseEnd, CountError, StreamTypes, ReaderTypes
<1>17. CASE ParseAfterEnd \/ UNCHANGED StreamVars
  BY <1>17 DEF ParseAfterEnd, StreamVars, StreamTypes, PipeTypes, ReaderTypes,
     pipeVars, producerVars, readerVars
<1>18. CASE CloseCsv
  BY <1>1, <1>18, PipeStepTypes DEF CloseCsv, StreamTypes, ReaderTypes
<1> QED
  BY <1>2, <1>3, <1>4, <1>5, <1>6, <1>7, <1>8, <1>9, <1>10, <1>11, <1>12,
     <1>13, <1>14, <1>15, <1>16, <1>17, <1>18
     DEF StreamNext, Open, ReadFile, Unzip, Parse

----------------------------------------------------------------------------
(* CsvStream: who has stopped, and why.                                    *)

(* A pipe that is attached has not been stopped, and is not closed before  *)
(* its producer met an error.                                              *)
PipeInStep(p) ==
  /\ reading[p] => attached[p]
  /\ attached[p] => stopOpen[p]
  /\ producer[p] = "absent" => ~ attached[p] /\ stopOpen[p]
  /\ dataOpen[p] <=> result[p] = "none"
  /\ ~ dataOpen[p] => producer[p] \in {"cleanup", "gone"}

(* The opener, the decompressor and the parser go on from each other, and  *)
(* only damage makes an error of the second pipe bad.  The parser detaches *)
(* that pipe when it has an error, which it reports, or when it ends.      *)
ReadersInStep ==
  /\ result[Raw] # "bad" /\ unzipSays # "bad"
  /\ result[Raw] = "EOF" => filePos = FileSize
  /\ opener = "start" => producer[Raw] = "absent" /\ filePos = 0 /\ unzip = <<>>
  /\ opener # "opened" => producer[Plain] = "absent"
  /\ parser = "waiting" <=> opener \in {"start", "header"}
  /\ opener = "failed" => parser = "done"
  /\ result[Plain] = "bad" => damagedAt # 0
  /\ parser = "waiting" \/ attached[Plain] => warnings = 0
  /\ parser = "reading" /\ ~ attached[Plain] => warnings = 1 /\ damagedAt # 0

StreamInStep == (\A p \in Pipes : PipeInStep(p)) /\ ReadersInStep

LEMMA PipeStepInStep ==
  ASSUME PipeReady, \A p \in Pipes : PipeInStep(p), NEW p \in Pipes,
         \/ StartPipe(p) \/ TakeEmpty(p) \/ SendData(p) \/ NoticeStop(p)
         \/ \E bytes : ReadSome(p, bytes)
         \/ ReadNothing(p)
         \/ \E error \in {"EOF", "bad"} : ReadFails(p, error)
         \/ ReadWaits(p) \/ ReadEnds(p) \/ ClosePipe(p)
         \/ \E k : ReadFront(p, k) \/ ReadReceives(p, k)
  PROVE  \A q \in Pipes : PipeInStep(q)'
<1>1. ASSUME NEW q \in Pipes, q # p PROVE PipeInStep(q)'
  <2>1. Rests(q)
    BY <1>1, OtherRests DEF PipeReady
  <2> QED
    BY <2>1 DEF Rests, PipeInStep
<1>2. PipeInStep(p)'
  <2> USE DEF PipeReady, PipeTypes, PipeInStep
  <2>1. CASE StartPipe(p)
    BY <2>1 DEF StartPipe
  <2>2. CASE TakeEmpty(p) \/ SendData(p) \/ NoticeStop(p)
    <3>1. CASE TakeEmpty(p)
      BY <3>1 DEF TakeEmpty, readerVars
    <3>2. CASE SendData(p)
      BY <3>2 DEF SendData, readerVars
    <3>3. CASE NoticeStop(p)
      BY <3>3 DEF NoticeStop, readerVars
    <3> QED
      BY <2>2, <3>1, <3>2, <3>3
  <2>3. CASE \E bytes : ReadSome(p, bytes)
    <3>1. /\ producer[p] = "reading" /\ producer' = [producer EXCEPT ![p] = "sending"]
          /\ UNCHANGED <<stopOpen, dataOpen, result, attached, reading>>
      BY <2>3 DEF ReadSome, readerVars
    <3> QED
      BY <3>1
  <2>4. CASE ReadNothing(p)
    BY <2>4 DEF ReadNothing, readerVars
  <2>5. CASE \E error \in {"EOF", "bad"} : ReadFails(p, error)
    BY <2>5 DEF ReadFails, readerVars
  <2>6. CASE ReadWaits(p) \/ ReadEnds(p)
    BY <2>6 DEF ReadWaits, ReadEnds, producerVars
  <2>7. CASE ClosePipe(p)
    BY <2>7 DEF ClosePipe, producerVars
  <2>8. CASE \E k : ReadFront(p, k) \/ ReadReceives(p, k)
    BY <2>8 DEF ReadFront, ReadReceives, producerVars
  <2> QED
    BY <2>1, <2>2, <2>3, <2>4, <2>5, <2>6, <2>7, <2>8
<1> QED
  BY <1>1, <1>2

LEMMA StreamInitInStep ==
  ASSUME StreamInit PROVE StreamInStep
BY CsvStreamAssumption DEF StreamInit, InitPipes, StreamInStep, PipeInStep, ReadersInStep

LEMMA StreamNextInStep ==
  ASSUME PipeInv, StreamTypes, StreamInStep, [StreamNext]_StreamVars
  PROVE  StreamInStep'
<1>1. /\ PipeReady /\ Raw \in Pipes /\ Plain \in Pipes /\ Raw # Plain
      /\ \A p \in Pipes : PipeInStep(p)
      /\ ReadersInStep /\ ReaderTypes
  BY CsvStreamAssumption DEF PipeReady, StreamTypes, StreamInStep, Raw, Plain
<1> USE DEF fileVars, unzipVars, parseVars
<1>2. CASE OpenFile
  <2>1. \A p \in Pipes : PipeInStep(p)'
    BY <1>1, <1>2, PipeStepInStep DEF OpenFile
  <2>2. Rests(Plain)
    BY <1>1, <1>2, OtherRests DEF OpenFile, PipeReady
  <2>3. result' = result /\ opener = "start"
    BY <1>2 DEF OpenFile, StartPipe
  <2> QED
    BY <1>1, <1>2, <2>1, <2>2, <2>3 DEF OpenFile, Rests, StreamInStep, ReadersInStep
<1>3. CASE HeaderRead
  <2>1. \A p \in Pipes : PipeInStep(p)'
    BY <1>1, <1>3, PipeStepInStep DEF HeaderRead
  <2>2. result' = result /\ attached'[Plain] /\ producer[Plain] = "absent"
    BY <1>1, <1>3 DEF HeaderRead, StartPipe, PipeReady, PipeTypes
  <2> QED
    BY <1>1, <1>3, <2>1, <2>2 DEF HeaderRead, StreamInStep, ReadersInStep
<1>4. CASE HeaderBad
  <2>1. \A p \in Pipes : PipeInStep(p)'
    BY <1>1, <1>4, PipeStepInStep DEF HeaderBad
  <2>2. Rests(Plain)
    BY <1>1, <1>4, OtherRests DEF HeaderBad, PipeReady
  <2>3. result' = result
    BY <1>4 DEF HeaderBad, ClosePipe, producerVars
  <2> QED
    BY <1>1, <1>4, <2>1, <2>2, <2>3 DEF HeaderBad, Rests, StreamInStep, ReadersInStep
<1>5. ASSUME NEW n \in 1 .. BlockSize, FileRead(n) PROVE StreamInStep'
  <2>1. \A p \in Pipes : PipeInStep(p)'
    BY <1>1, <1>5, PipeStepInStep DEF FileRead
  <2>2. Rests(Plain)
    BY <1>1, <1>5, OtherRests DEF FileRead, PipeReady
  <2>3. result' = result /\ producer[Raw] = "reading" /\ result[Raw] = "none"
    BY <1>1, <1>5 DEF FileRead, ReadSome, PipeInStep
  <2> QED
    BY <1>1, <1>5, <2>1, <2>2, <2>3 DEF FileRead, Rests, StreamInStep, ReadersInStep
<1>6. CASE FileEnd
  <2>1. \A p \in Pipes : PipeInStep(p)'
    BY <1>1, <1>6, PipeStepInStep DEF FileEnd
  <2>2. Rests(Plain)
    BY <1>1, <1>6, OtherRests DEF FileEnd, PipeReady
  <2>3. result'[Raw] = "EOF" /\ producer[Raw] = "reading"
    BY <1>1, <1>6 DEF FileEnd, ReadFails, PipeReady, PipeTypes
  <2> QED
    BY <1>1, <1>6, <2>1, <2>2, <2>3 DEF FileEnd, Rests, StreamInStep, ReadersInStep
<1>7. ASSUME NEW n \in 1 .. BlockSize, UnzipReturns(n) PROVE StreamInStep'
  <2>1. \A p \in Pipes : PipeInStep(p)'
    BY <1>1, <1>7, PipeStepInStep DEF UnzipReturns
  <2>2. Rests(Raw)
    BY <1>1, <1>7, OtherRests DEF UnzipReturns, PipeReady
  <2>3. result' = result /\ attached' = attached /\ producer[Plain] = "reading"
    BY <1>1, <1>7 DEF UnzipReturns, ReadSome, readerVars
  <2> QED
    BY <1>1, <1>7, <2>1, <2>2, <2>3 DEF UnzipReturns, Rests, StreamInStep, ReadersInStep
<1>8. CASE UnzipReads
  <2>1. \A p \in Pipes : PipeInStep(p)'
    BY <1>1, <1>8, PipeStepInStep DEF UnzipReads
  <2>2. Rests(Plain)
    BY <1>1, <1>8, OtherRests DEF UnzipReads, PipeReady
  <2>3. result' = result /\ producer' = producer
    BY <1>8 DEF UnzipReads, ReadWaits, ReadReceives, ReadFront, ReadEnds, producerVars
  <2>4. opener # "start"
    BY <1>1, <1>8, CsvStreamAssumption DEF UnzipReads, UnzipWants, ReadersInStep
  <2>5. unzipSays' \in {unzipSays, result[Raw]}
    BY <1>8 DEF UnzipReads
  <2> QED
    BY <1>1, <1>8, <2>1, <2>2, <2>3, <2>4, <2>5
       DEF UnzipReads, Rests, StreamInStep, ReadersInStep
<1>9. CASE UnzipFails
  <2> DEFINE error == IF unzip # <<>> THEN "bad" ELSE unzipSays
  <2>1. /\ ReadFails(Plain, error) /\ error \in {"EOF", "bad"}
        /\ error = "bad" => unzip # <<>> /\ Head(unzip) = damagedAt
    BY <1>1, <1>9 DEF UnzipFails, ReaderTypes, ReadersInStep
  <2>2. error = "bad" => damagedAt # 0
    <3> HIDE DEF error
    <3>1. unzip # <<>> => Head(unzip) \in 1 .. FileSize
      BY <1>1, HeadTailProperties DEF ReaderTypes, ByteSeqs
    <3> QED
      BY <2>1, <3>1
  <2> HIDE DEF error
  <2>3. \A p \in Pipes : PipeInStep(p)'
    BY <1>1, <2>1, PipeStepInStep
  <2>4. Rests(Raw)
    BY <1>1, <2>1, OtherRests DEF PipeReady
  <2>5. /\ result'[Plain] = error /\ attached' = attached
        /\ producer[Plain] = "reading"
    BY <1>1, <2>1 DEF ReadFails, readerVars, PipeReady, PipeTypes
  <2>6. UNCHANGED <<fileVars, opener, unzipVars, parseVars>>
    BY <1>9 DEF UnzipFails
  <2> QED
    BY <1>1, <2>2, <2>3, <2>4, <2>5, <2>6 DEF Rests, StreamInStep, ReadersInStep
<1>10. CASE UnzipNothing
  <2>1. \A p \in Pipes : PipeInStep(p)'
    BY <1>1, <1>10, PipeStepInStep DEF UnzipNothing
  <2>2. Rests(Raw)
    BY <1>1, <1>10, OtherRests DEF UnzipNothing, PipeReady
  <2>3. result' = result /\ attached' = attached /\ producer[Plain] = "reading"
    BY <1>10 DEF UnzipNothing, ReadNothing, readerVars
  <2> QED
    BY <1>1, <1>10, <2>1, <2>2, <2>3 DEF UnzipNothing, Rests, StreamInStep, ReadersInStep
<1>11. ASSUME NEW p \in Pipes, Produce(p) PROVE StreamInStep'
  <2>1. \A q \in Pipes : PipeInStep(q)'
    BY <1>1, <1>11, PipeStepInStep DEF Produce
  <2>2. /\ result' = result /\ attached' = attached /\ producer[p] # "absent"
        /\ \A q \in Pipes : q # p => producer'[q] = producer[q]
    BY <1>1, <1>11 DEF Produce, TakeEmpty, SendData, NoticeStop, readerVars,
       PipeReady, PipeTypes
  <2>3. UNCHANGED <<fileVars, opener, unzipVars, parseVars>>
    BY <1>11 DEF Produce
  <2>4. /\ producer[Raw] = "absent" => producer'[Raw] = "absent"
        /\ producer[Plain] = "absent" => producer'[Plain] = "absent"
    BY <1>1, <2>2
  <2> QED
    BY <1>1, <2>1, <2>2, <2>3, <2>4 DEF StreamInStep, ReadersInStep
<1>12. CASE CloseFile
  <2>1. /\ producer[Raw] = "cleanup" /\ producer'[Raw] = "gone"
        /\ producer'[Plain] = producer[Plain]
        /\ \A q \in Pipes : q # Raw => producer'[q] = producer[q]
        /\ UNCHANGED <<result, dataOpen, stopOpen, attached, reading>>
        /\ UNCHANGED <<fileVars, opener, unzipVars, parseVars>>
    BY <1>1, <1>12 DEF CloseFile, Cleanup, readerVars, PipeReady, PipeTypes
  <2>2. \A q \in Pipes : PipeInStep(q)'
    BY <1>1, <2>1 DEF PipeInStep
  <2> QED
    BY <1>1, <2>1, <2>2 DEF StreamInStep, ReadersInStep
<1>13. CASE CloseUnzip
  <2>1. /\ producer[Plain] = "cleanup" /\ producer'[Plain] = "gone"
        /\ producer'[Raw] = producer[Raw]
        /\ \A q \in Pipes : q # Plain => producer'[q] = producer[q]
        /\ ~ attached'[Raw] /\ ~ reading[Raw]
        /\ stopOpen'[Raw] = (stopOpen[Raw] /\ ~ attached[Raw])
        /\ \A q \in Pipes : q # Raw => /\ attached'[q] = attached[q]
                                       /\ stopOpen'[q] = stopOpen[q]
        /\ UNCHANGED <<result, dataOpen, reading>>
        /\ UNCHANGED <<fileVars, opener, unzipVars, parseVars>>
    BY <1>1, <1>13 DEF CloseUnzip, PipeReady, PipeTypes
  <2>2. ASSUME NEW q \in Pipes PROVE PipeInStep(q)'
    BY <1>1, <2>1 DEF PipeInStep
  <2> QED
    BY <1>1, <2>1, <2>2 DEF StreamInStep, ReadersInStep
<1>14. CASE ParseMore
  <2>1. \A p \in Pipes : PipeInStep(p)'
    BY <1>1, <1>14, PipeStepInStep DEF ParseMore
  <2>2. result' = result /\ producer' = producer /\ attached' = attached
    BY <1>14 DEF ParseMore, ReadWaits, ReadReceives, ReadFront, producerVars
  <2> QED
    BY <1>1, <1>14, <2>1, <2>2 DEF ParseMore, StreamInStep, ReadersInStep
<1>15. CASE ParseRecord
  <2>1. /\ UNCHANGED <<pipeVars, fileVars, opener, unzipVars, warnings>>
        /\ parser = "reading" /\ parser' \in {"reading", "closing"}
    BY <1>15 DEF ParseRecord, CountError
  <2>2. \A p \in Pipes : PipeInStep(p)'
    BY <1>1, <2>1 DEF PipeInStep, pipeVars, producerVars, readerVars
  <2> QED
    BY <1>1, <2>1, <2>2
       DEF StreamInStep, ReadersInStep, pipeVars, producerVars, readerVars
<1>16. CASE ParseEnd
  <2>1. \A p \in Pipes : PipeInStep(p)'
    BY <1>1, <1>16, PipeStepInStep DEF ParseEnd
  <2>2. /\ result' = result /\ producer' = producer
        /\ attached[Plain] /\ ~ attached'[Plain] /\ ~ dataOpen[Plain]
    BY <1>1, <1>16 DEF ParseEnd, ReadEnds, producerVars, PipeInStep, PipeReady, PipeTypes
  <2>3. /\ parser = "reading" /\ parser' \in {"reading", "closing"}
        /\ warnings = 0
        /\ parser' = "reading" => warnings' = warnings + 1 /\ result[Plain] # "EOF"
        /\ UNCHANGED <<fileVars, opener, unzipVars>>
    BY <1>1, <1>16, <2>2 DEF ParseEnd, CountError, ReadersInStep
  <2>4. result[Plain] \in {"EOF", "bad"}
    BY <1>1, <2>2 DEF PipeInStep, PipeReady, PipeTypes
  <2> QED
    BY <1>1, <2>1, <2>2, <2>3, <2>4 DEF StreamInStep, ReadersInStep
<1>17. CASE ParseAfterEnd \/ UNCHANGED StreamVars
  <2>1. /\ UNCHANGED <<pipeVars, fileVars, opener, unzipVars, warnings>>
        /\ parser' = parser \/ (parser = "reading" /\ parser' = "closing")
    <3>1. CASE ParseAfterEnd
      BY <3>1 DEF ParseAfterEnd
    <3>2. CASE UNCHANGED StreamVars
      BY <3>2 DEF StreamVars
    <3> QED
      BY <1>17, <3>1, <3>2
  <2>2. \A p \in Pipes : PipeInStep(p)'
    BY <1>1, <2>1 DEF PipeInStep, pipeVars, producerVars, readerVars
  <2> QED
    BY <1>1, <2>1, <2>2
       DEF StreamInStep, ReadersInStep, pipeVars, producerVars, readerVars
<1>18. CASE CloseCsv
  <2>1. \A p \in Pipes : PipeInStep(p)'
    BY <1>1, <1>18, PipeStepInStep DEF CloseCsv
  <2>2. /\ result' = result /\ producer' = producer /\ ~ attached'[Plain]
    BY <1>1, <1>18 DEF CloseCsv, ClosePipe, producerVars, PipeReady, PipeTypes
  <2> QED
    BY <1>1, <1>18, <2>1, <2>2 DEF CloseCsv, StreamInStep, ReadersInStep
<1> QED
  BY <1>2, <1>3, <1>4, <1>5, <1>6, <1>7, <1>8, <1>9, <1>10, <1>11, <1>12,
     <1>13, <1>14, <1>15, <1>16, <1>17, <1>18
     DEF StreamNext, Open, ReadFile, Unzip, Parse

----------------------------------------------------------------------------
(* CsvStream: the intervals are adjacent, from the records to the file.    *)

(* The records are the well-formed ones of the bytes up to q.              *)
RecordsUpTo(q) ==
  /\ q \in 1 .. FileSize
  /\ Range(records) = (2 .. q) \ malformed
  /\ \A i, j \in DOMAIN records : i < j => records[i] < records[j]

(* Bytes up to q are parsed, up to t read by the parser, up to r returned  *)
(* by the decompressor, up to u read by it and up to f read from the file. *)
BytesAt(q, t, r, u, f) ==
  /\ f = filePos
  /\ RecordsUpTo(q)
  /\ Span(lines, q, t)
  /\ attached[Plain] => FlowOf(Plain, t, r)
  /\ Span(unzip, r, u)
  /\ attached[Raw] => FlowOf(Raw, u, f)
  /\ damagedAt \notin 1 .. r
  /\ unzipSays = "EOF" => u = FileSize
  /\ result[Plain] = "EOF" => r = FileSize
  /\ opener \in {"start", "header"} => q = 1 /\ t = 1 /\ r = 0

BytesInOrder == \E q, t, r, u, f \in Nat : BytesAt(q, t, r, u, f)

(* A parser that closes the file is at its end or knows of trouble.        *)
EndTold ==
  opener = "opened" /\ parser \in {"closing", "done"} =>
    \/ errorCount > MaxErrors
    \/ Range(records) \union malformed = 2 .. FileSize /\ damagedAt = 0
    \/ damagedAt # 0 /\ warnings = 1

StreamIInv == PipeInv /\ StreamTypes /\ StreamInStep /\ BytesInOrder /\ EndTold

(* The first byte is taken.                                                *)
LEMMA SpanHead ==
  ASSUME NEW S, NEW s \in Seq(S), s # <<>>, NEW a \in Nat, NEW z, Span(s, a, z)
  PROVE  Head(s) = a + 1 /\ Span(Tail(s), a + 1, z)
<1>1. /\ Len(Tail(s)) = Len(s) - 1 /\ Head(s) = s[1]
      /\ \A i \in 1 .. Len(s) - 1 : Tail(s)[i] = s[i + 1]
      /\ Len(s) \in Nat \ {0}
  BY HeadTailProperties, EmptySeq
<1>2. Head(s) = a + 1
  BY <1>1 DEF Span
<1>3. ASSUME NEW i \in 1 .. Len(s) - 1 PROVE Tail(s)[i] = (a + 1) + i
  <2>1. i + 1 \in 1 .. Len(s)
    BY <1>1
  <2>2. s[i + 1] = a + (i + 1)
    BY <2>1 DEF Span
  <2> QED
    BY <1>1, <2>1, <2>2
<1>4. z = (a + 1) + (Len(s) - 1)
  BY <1>1 DEF Span
<1> QED
  BY <1>1, <1>2, <1>3, <1>4 DEF Span

(* One more record is parsed.                                              *)
LEMMA OneRecord ==
  ASSUME ReaderTypes, NEW q \in Nat, RecordsUpTo(q), q + 1 \in 1 .. FileSize,
         malformed' = malformed,
         IF q + 1 \in malformed THEN records' = records
         ELSE records' = Append(records, q + 1)
  PROVE  RecordsUpTo(q + 1)'
<1>1. 2 .. q + 1 = (2 .. q) \union {q + 1} /\ q + 1 \notin 2 .. q
  BY DEF RecordsUpTo
<1>2. CASE q + 1 \in malformed
  <2>1. (2 .. q + 1) \ malformed = (2 .. q) \ malformed
    BY <1>1, <1>2
  <2> QED
    BY <1>2, <2>1 DEF RecordsUpTo
<1>3. CASE q + 1 \notin malformed
  <2>1. /\ Len(records') = Len(records) + 1 /\ Len(records) \in Nat
        /\ \A i \in 1 .. Len(records) : records'[i] = records[i]
        /\ records'[Len(records) + 1] = q + 1
        /\ DOMAIN records = 1 .. Len(records)
        /\ DOMAIN records' = 1 .. Len(records) + 1
    <3>1. records \in Seq(1 .. FileSize)
      BY DEF ReaderTypes, ByteSeqs
    <3> QED
      BY <1>3, <3>1, AppendProperties
  <2>2. \A i \in DOMAIN records : records[i] \in 2 .. q
    BY DEF RecordsUpTo, Range
  <2>3. Range(records)' = Range(records) \union {q + 1}
    BY <2>1 DEF Range
  <2>4. Range(records)' = (2 .. q + 1) \ malformed
    BY <1>1, <1>3, <2>3 DEF RecordsUpTo
  <2>5. ASSUME NEW i \in DOMAIN records', NEW j \in DOMAIN records', i < j
        PROVE  records'[i] < records'[j]
    <3>1. i \in DOMAIN records /\ records'[i] = records[i] /\ records[i] \in 2 .. q
      BY <2>1, <2>2, <2>5
    <3>2. CASE j \in DOMAIN records
      BY <2>1, <2>5, <3>1, <3>2 DEF RecordsUpTo
    <3>3. CASE j = Len(records) + 1
      BY <2>1, <3>1, <3>3
    <3> QED
      BY <2>1, <3>2, <3>3
  <2> QED
    BY <2>4, <2>5 DEF RecordsUpTo
<1> QED
  BY <1>2, <1>3

(* All bytes parsed, none of them damaged.                                 *)
LEMMA AllParsed ==
  ASSUME ReaderTypes, RecordsUpTo(FileSize), damagedAt \notin 1 .. FileSize
  PROVE  Range(records) \union malformed = 2 .. FileSize /\ damagedAt = 0
<1>1. Range(records) = (2 .. FileSize) \ malformed /\ malformed \subseteq 2 .. FileSize
  BY DEF ReaderTypes, RecordsUpTo
<1>2. damagedAt \in 0 .. FileSize /\ FileSize \in Nat
  BY CsvStreamAssumption DEF ReaderTypes
<1>3. damagedAt = 0
  BY <1>2
<1>4. Range(records) \union malformed = 2 .. FileSize
  BY <1>1
<1> QED
  BY <1>3, <1>4

LEMMA StreamInitBytes ==
  ASSUME StreamInit PROVE BytesInOrder /\ EndTold
<1>1. 1 \in 1 .. FileSize /\ Len(<<>>) = 0 /\ <<>> \in Seq(Nat)
  BY CsvStreamAssumption, EmptySeq
<1>2. RecordsUpTo(1)
  BY <1>1 DEF StreamInit, RecordsUpTo, Range
<1>3. Span(<<>>, 1, 1) /\ Span(<<>>, 0, 0)
  BY <1>1 DEF Span
<1>4. BytesAt(1, 1, 0, 0, 0)
  BY <1>2, <1>3, CsvStreamAssumption DEF StreamInit, InitPipes, BytesAt
<1>5. EndTold
  BY DEF StreamInit, EndTold
<1> QED
  BY <1>4, <1>5 DEF BytesInOrder

LEMMA StreamNextBytes ==
  ASSUME PipeInv, StreamTypes, StreamInStep, BytesInOrder, [StreamNext]_StreamVars
  PROVE  BytesInOrder'
<1>1. /\ PipeReady /\ PipeTypes /\ Raw \in Pipes /\ Plain \in Pipes /\ Raw # Plain
      /\ PipeInStep(Raw) /\ PipeInStep(Plain)
      /\ ReadersInStep /\ ReaderTypes
  BY CsvStreamAssumption DEF PipeReady, StreamTypes, StreamInStep, Raw, Plain
<1>2. PICK q \in Nat, t \in Nat, r \in Nat, u \in Nat, f \in Nat :
        BytesAt(q, t, r, u, f)
  BY DEF BytesInOrder
<1>3. /\ RecordsUpTo(q) /\ Span(lines, q, t) /\ Span(unzip, r, u)
      /\ f = filePos /\ FileSize \in Nat
      /\ lines \in ByteSeqs /\ unzip \in ByteSeqs
      /\ unzip = <<>> => u = r
      /\ lines = <<>> => t = q
  BY <1>1, <1>2, SpanEnd, CsvStreamAssumption DEF BytesAt, ReaderTypes, ByteSeqs
<1> USE DEF fileVars, unzipVars, parseVars
<1>4. ASSUME UNCHANGED <<records, malformed>> PROVE RecordsUpTo(q)'
  BY <1>3, <1>4 DEF RecordsUpTo
<1>5. CASE OpenFile
  <2>1. Rests(Plain) /\ ~ attached[Plain] /\ r = 0 /\ u = 0 /\ f = 0
    BY <1>1, <1>2, <1>3, <1>5, OtherRests
       DEF OpenFile, BytesAt, ReadersInStep, PipeInStep
  <2>2. FlowOf(Raw, u, f)'
    BY <1>1, <1>5, <2>1, StartFlow DEF OpenFile
  <2>3. BytesAt(q, t, r, u, f)'
    BY <1>2, <1>4, <1>5, <2>1, <2>2 DEF OpenFile, BytesAt, Rests
  <2> QED
    BY <2>3 DEF BytesInOrder
<1>6. CASE HeaderRead
  <2>1. Rests(Raw) /\ q = 1 /\ t = 1 /\ r = 0
    BY <1>1, <1>2, <1>6, OtherRests DEF HeaderRead, BytesAt
  <2>2. Head(unzip) = 1 /\ Span(Tail(unzip), 1, u)
    <3>1. Head(unzip) = r + 1 /\ Span(Tail(unzip), r + 1, u)
      BY <1>3, <1>6, SpanHead DEF HeaderRead, ByteSeqs
    <3> QED
      BY <2>1, <3>1
  <2>3. damagedAt \notin 1 .. 1
    BY <1>1, <1>6, <2>2 DEF HeaderRead, ReaderTypes
  <2>4. FlowOf(Plain, 1, 1)'
    BY <1>1, <1>6, StartFlow DEF HeaderRead
  <2>5. attached[Raw] => FlowOf(Raw, u, f)'
    BY <1>1, <1>2, <1>3, <2>1, FlowRests DEF BytesAt
  <2>6. result'[Plain] # "EOF"
    BY <1>1, <1>6 DEF HeaderRead, StartPipe, PipeInStep
  <2>7. BytesAt(q, t, 1, u, f)'
    BY <1>2, <1>4, <1>6, <2>1, <2>2, <2>3, <2>4, <2>5, <2>6 DEF HeaderRead, BytesAt, Rests
  <2> QED
    BY <2>7 DEF BytesInOrder
<1>7. CASE HeaderBad
  <2>1. Rests(Plain) /\ ~ attached'[Raw] /\ ~ attached[Plain] /\ result' = result
    BY <1>1, <1>7, OtherRests DEF HeaderBad, ClosePipe, PipeInStep, ReadersInStep,
       PipeTypes, producerVars
  <2>2. BytesAt(q, t, r, u, f)'
    BY <1>2, <1>4, <1>7, <2>1 DEF HeaderBad, BytesAt, Rests
  <2> QED
    BY <2>2 DEF BytesInOrder
<1>8. ASSUME NEW n \in 1 .. BlockSize, FileRead(n) PROVE BytesInOrder'
  <2> DEFINE bytes == [i \in 1 .. n |-> filePos + i]
  <2>1. /\ n \in Nat /\ n \in 1 .. FileSize - f /\ filePos' = f + n
        /\ ReadSome(Raw, bytes) /\ f + n \in Nat
    BY <1>3, <1>8 DEF FileRead
  <2>2. bytes \in ByteSeqs /\ Len(bytes) = n
    <3>1. \A i \in 1 .. n : filePos + i \in 1 .. FileSize
      BY <1>3, <2>1
    <3> QED
      BY <2>1, <3>1 DEF ByteSeqs
  <2>3. Span(bytes, f, f + n)
    BY <1>3, <2>1, <2>2 DEF Span
  <2> HIDE DEF bytes
  <2>4. Rests(Plain) /\ attached' = attached /\ result' = result
    BY <1>1, <2>1, OtherRests DEF ReadSome, readerVars
  <2>5. attached[Raw] => FlowOf(Raw, u, f + n)'
    BY <1>1, <1>2, <2>1, <2>2, <2>3, FillFlow DEF BytesAt
  <2>6. attached[Plain] => FlowOf(Plain, t, r)'
    BY <1>1, <1>2, <2>4, FlowRests DEF BytesAt
  <2>7. BytesAt(q, t, r, u, f + n)'
    BY <1>2, <1>4, <1>8, <2>1, <2>4, <2>5, <2>6 DEF FileRead, BytesAt
  <2> QED
    BY <2>7 DEF BytesInOrder
<1>9. CASE FileEnd
  <2>1. Rests(Plain) /\ attached' = attached /\ FileEnd
    BY <1>1, <1>9, OtherRests DEF FileEnd, ReadFails, readerVars
  <2>2. attached[Raw] => FlowOf(Raw, u, f)'
    BY <1>1, <1>2, <1>9, IdleFlow DEF FileEnd, BytesAt
  <2>3. attached[Plain] => FlowOf(Plain, t, r)'
    BY <1>1, <1>2, <2>1, FlowRests DEF BytesAt
  <2>4. BytesAt(q, t, r, u, f)'
    BY <1>2, <1>4, <2>1, <2>2, <2>3 DEF FileEnd, BytesAt, Rests
  <2> QED
    BY <2>4 DEF BytesInOrder
<1>10. ASSUME NEW n \in 1 .. BlockSize, UnzipReturns(n) PROVE BytesInOrder'
  <2>1. /\ n \in 0 .. Len(unzip) /\ n \in Nat /\ r + n \in Nat
        /\ \A i \in 1 .. n : unzip[i] # damagedAt
    BY <1>10 DEF UnzipReturns
  <2> DEFINE bytes == SubSeq(unzip, 1, n)
             rest == SubSeq(unzip, n + 1, Len(unzip))
  <2>2. bytes \in ByteSeqs /\ Span(bytes, r, r + n) /\ Span(rest, r + n, u)
    BY <1>3, <2>1, SpanCut DEF ByteSeqs
  <2>3. ReadSome(Plain, bytes) /\ unzip' = rest
    BY <1>10 DEF UnzipReturns
  <2> HIDE DEF bytes, rest
  <2>4. Rests(Raw) /\ attached' = attached /\ result' = result
    BY <1>1, <2>3, OtherRests DEF ReadSome, readerVars
  <2>5. attached[Plain] => FlowOf(Plain, t, r + n)'
    BY <1>1, <1>2, <2>1, <2>2, <2>3, FillFlow DEF BytesAt
  <2>6. attached[Raw] => FlowOf(Raw, u, f)'
    BY <1>1, <1>2, <2>4, FlowRests DEF BytesAt
  <2>7. damagedAt \notin 1 .. r + n
    <3>1. \A i \in 1 .. n : unzip[i] = r + i
      BY <1>3, <2>1 DEF Span
    <3>2. ASSUME damagedAt \in 1 .. r + n PROVE FALSE
      <4>1. damagedAt \notin 1 .. r
        BY <1>2 DEF BytesAt
      <4>2. damagedAt - r \in 1 .. n /\ r + (damagedAt - r) = damagedAt
        BY <2>1, <3>2, <4>1
      <4> QED
        BY <2>1, <3>1, <4>2
    <3> QED
      BY <3>2
  <2>8. result[Plain] = "none" /\ opener = "opened"
    BY <1>1, <2>3, CsvStreamAssumption DEF ReadSome, PipeInStep, ReadersInStep
  <2>9. UNCHANGED <<fileVars, opener, unzipSays, parseVars>>
    BY <1>10 DEF UnzipReturns
  <2>10. BytesAt(q, t, r + n, u, f)'
    BY <1>2, <1>4, <2>2, <2>3, <2>4, <2>5, <2>6, <2>7, <2>8, <2>9 DEF BytesAt
  <2> QED
    BY <2>1, <2>10 DEF BytesInOrder
<1>11. CASE UnzipReads
  <2>1. /\ u = r /\ unzip = <<>> /\ unzipSays = "none"
        /\ UNCHANGED <<fileVars, opener, parseVars>>
    BY <1>3, <1>11 DEF UnzipReads, UnzipWants
  <2>2. Rests(Plain)
    BY <1>1, <1>11, OtherRests DEF UnzipReads
  <2>3. attached[Plain] => FlowOf(Plain, t, r)'
    BY <1>1, <1>2, <2>2, FlowRests DEF BytesAt
  <2>4. attached[Raw] /\ FlowOf(Raw, u, f)
    BY <1>1, <1>2, <1>11
       DEF UnzipReads, ReadWaits, ReadReceives, ReadFront, ReadEnds, PipeInStep, BytesAt
  <2>5. CASE ReadWaits(Raw) /\ UNCHANGED unzipVars
    <3>1. FlowOf(Raw, u, f)'
      BY <1>1, <2>4, <2>5, IdleFlow
    <3>2. BytesAt(q, t, r, u, f)'
      BY <1>2, <1>4, <2>1, <2>2, <2>3, <2>5, <3>1 DEF BytesAt, Rests
    <3> QED
      BY <3>2 DEF BytesInOrder
  <2>7. ASSUME NEW k \in 1 .. BlockSize, ReadReceives(Raw, k),
               unzip' = SubSeq(content[Raw][Head(data[Raw])], 1, k),
               unzipSays' = unzipSays
        PROVE  BytesInOrder'
    <3>1. /\ k \in Nat /\ Span(unzip', u, u + k) /\ FlowOf(Raw, u + k, f)'
      BY <1>1, <2>4, <2>7, ReceiveFlow
    <3>2. BytesAt(q, t, r, u + k, f)'
      BY <1>2, <1>4, <2>1, <2>2, <2>3, <2>7, <3>1, SMTT(30) DEF BytesAt, Rests
    <3> QED
      BY <3>1, <3>2 DEF BytesInOrder
  <2>8. ASSUME NEW k \in 1 .. BlockSize, ReadFront(Raw, k),
               unzip' = SubSeq(Remaining(Raw), 1, k), unzipSays' = unzipSays
        PROVE  BytesInOrder'
    <3>1. /\ k \in Nat /\ Span(unzip', u, u + k) /\ FlowOf(Raw, u + k, f)'
      BY <1>1, <2>4, <2>8, FrontFlow
    <3>2. BytesAt(q, t, r, u + k, f)'
      BY <1>2, <1>4, <2>1, <2>2, <2>3, <2>8, <3>1 DEF BytesAt, Rests
    <3> QED
      BY <3>1, <3>2 DEF BytesInOrder
  <2>9. CASE ReadEnds(Raw) /\ unzipSays' = result[Raw] /\ UNCHANGED unzip
    <3>1. producer[Raw] # "sending" /\ ~ attached'[Raw]
      BY <1>1, <2>9 DEF ReadEnds, PipeInStep, PipeTypes
    <3>2. u = f
      BY <1>1, <2>4, <2>9, <3>1, EndFlow
    <3>3. unzipSays' = "EOF" => u = FileSize
      BY <1>1, <1>3, <2>9, <3>2 DEF ReadersInStep
    <3>4. BytesAt(q, t, r, u, f)'
      BY <1>2, <1>4, <2>1, <2>2, <2>3, <2>9, <3>1, <3>3 DEF BytesAt, Rests
    <3> QED
      BY <3>4 DEF BytesInOrder
  <2> QED
    BY <1>11, <2>5, <2>7, <2>8, <2>9 DEF UnzipReads
<1>12. CASE UnzipFails
  <2> DEFINE error == IF unzip # <<>> THEN "bad" ELSE unzipSays
  <2>1. /\ ReadFails(Plain, error)
        /\ UNCHANGED <<fileVars, opener, unzipVars, parseVars>>
    BY <1>12 DEF UnzipFails
  <2>2. error = "EOF" => r = FileSize
    BY <1>2, <1>3 DEF BytesAt
  <2> HIDE DEF error
  <2>3. Rests(Raw) /\ attached' = attached /\ result'[Plain] = error
    BY <1>1, <2>1, OtherRests DEF ReadFails, readerVars, PipeTypes
  <2>4. attached[Plain] => FlowOf(Plain, t, r)'
    BY <1>1, <1>2, <2>1, IdleFlow DEF BytesAt
  <2>5. attached[Raw] => FlowOf(Raw, u, f)'
    BY <1>1, <1>2, <2>3, FlowRests DEF BytesAt
  <2>6. BytesAt(q, t, r, u, f)'
    BY <1>2, <1>4, <2>1, <2>2, <2>3, <2>4, <2>5 DEF BytesAt
  <2> QED
    BY <2>6 DEF BytesInOrder
<1>13. CASE UnzipNothing
  <2>1. Rests(Raw) /\ attached' = attached /\ result' = result
    BY <1>1, <1>13, OtherRests DEF UnzipNothing, ReadNothing, readerVars
  <2>2. attached[Plain] => FlowOf(Plain, t, r)'
    BY <1>1, <1>2, <1>13, IdleFlow DEF UnzipNothing, BytesAt
  <2>3. attached[Raw] => FlowOf(Raw, u, f)'
    BY <1>1, <1>2, <2>1, FlowRests DEF BytesAt
  <2>4. BytesAt(q, t, r, u, f)'
    BY <1>2, <1>4, <1>13, <2>1, <2>2, <2>3 DEF UnzipNothing, BytesAt
  <2> QED
    BY <2>4 DEF BytesInOrder
<1>14. ASSUME NEW p \in Pipes, Produce(p) PROVE BytesInOrder'
  <2>1. /\ UNCHANGED <<fileVars, opener, unzipVars, parseVars>>
        /\ attached' = attached /\ result' = result
    BY <1>14 DEF Produce, TakeEmpty, SendData, NoticeStop, readerVars
  <2>2. NoticeStop(p) => ~ attached[p]
    BY <1>1, <1>14, CsvStreamAssumption DEF NoticeStop, PipeInStep
  <2>3. ASSUME NEW o \in Pipes, attached[o], NEW a \in Nat, NEW z \in Nat, FlowOf(o, a, z)
        PROVE  FlowOf(o, a, z)'
    <3>1. CASE o = p
      BY <1>1, <1>14, <2>2, <2>3, <3>1, IdleFlow, SendFlow DEF Produce
    <3>2. CASE o # p
      <4>1. Rests(o)
        BY <1>1, <1>14, <3>2, OtherRests DEF Produce
      <4> QED
        BY <2>3, <4>1, FlowRests
    <3> QED
      BY <3>1, <3>2
  <2>4. BytesAt(q, t, r, u, f)'
    BY <1>1, <1>2, <1>4, <2>1, <2>3 DEF BytesAt
  <2> QED
    BY <2>4 DEF BytesInOrder
<1>15. CASE CloseFile
  <2>1. /\ producer[Raw] = "cleanup" /\ producer'[Raw] = "gone"
        /\ producer'[Plain] = producer[Plain]
        /\ UNCHANGED <<data, content, hold, front, offset, attached, result>>
        /\ UNCHANGED <<fileVars, opener, unzipVars, parseVars>>
    BY <1>1, <1>15 DEF CloseFile, Cleanup, readerVars, PipeTypes
  <2>2. /\ FlowOf(Raw, u, f) => FlowOf(Raw, u, f)'
        /\ FlowOf(Plain, t, r) => FlowOf(Plain, t, r)'
    BY <2>1 DEF FlowOf, Flow
  <2>3. BytesAt(q, t, r, u, f)'
    BY <1>2, <1>4, <2>1, <2>2 DEF BytesAt
  <2> QED
    BY <2>3 DEF BytesInOrder
<1>16. CASE CloseUnzip
  <2>1. /\ producer[Plain] = "cleanup" /\ producer'[Plain] = "gone"
        /\ ~ attached'[Raw] /\ attached'[Plain] = attached[Plain]
        /\ UNCHANGED <<data, content, hold, front, offset, result>>
        /\ UNCHANGED <<fileVars, opener, unzipVars, parseVars>>
    BY <1>1, <1>16 DEF CloseUnzip, PipeTypes
  <2>2. FlowOf(Plain, t, r) => FlowOf(Plain, t, r)'
    BY <2>1 DEF FlowOf, Flow
  <2>3. BytesAt(q, t, r, u, f)'
    BY <1>2, <1>4, <2>1, <2>2 DEF BytesAt
  <2> QED
    BY <2>3 DEF BytesInOrder
<1>17. CASE ParseMore
  <2>1. /\ q = t /\ opener = "opened"
        /\ UNCHANGED <<fileVars, opener, unzipVars, records>>
    BY <1>1, <1>3, <1>17 DEF ParseMore, ReadersInStep, ReaderTypes
  <2>2. Rests(Raw) /\ result' = result
    BY <1>1, <1>17, OtherRests
       DEF ParseMore, ReadWaits, ReadReceives, ReadFront, producerVars
  <2>3. attached[Raw] => FlowOf(Raw, u, f)'
    BY <1>1, <1>2, <2>2, FlowRests DEF BytesAt
  <2>4. attached[Plain] /\ FlowOf(Plain, t, r)
    BY <1>1, <1>2, <1>17
       DEF ParseMore, ReadWaits, ReadReceives, ReadFront, PipeInStep, BytesAt
  <2>5. CASE ReadWaits(Plain) /\ UNCHANGED lines
    <3>1. FlowOf(Plain, t, r)'
      BY <1>1, <2>4, <2>5, IdleFlow
    <3>2. BytesAt(q, t, r, u, f)'
      BY <1>2, <1>4, <2>1, <2>2, <2>3, <2>5, <3>1 DEF BytesAt, Rests
    <3> QED
      BY <3>2 DEF BytesInOrder
  <2>6. ASSUME NEW k \in 1 .. BlockSize, ReadReceives(Plain, k),
               lines' = SubSeq(content[Plain][Head(data[Plain])], 1, k)
        PROVE  BytesInOrder'
    <3>1. /\ k \in Nat /\ Span(lines', t, t + k) /\ FlowOf(Plain, t + k, r)'
      BY <1>1, <2>4, <2>6, ReceiveFlow
    <3>2. BytesAt(q, t + k, r, u, f)'
      BY <1>2, <1>4, <2>1, <2>2, <2>3, <2>6, <3>1, SMTT(30) DEF BytesAt, Rests
    <3> QED
      BY <3>1, <3>2 DEF BytesInOrder
  <2>7. ASSUME NEW k \in 1 .. BlockSize, ReadFront(Plain, k),
               lines' = SubSeq(Remaining(Plain), 1, k)
        PROVE  BytesInOrder'
    <3>1. /\ k \in Nat /\ Span(lines', t, t + k) /\ FlowOf(Plain, t + k, r)'
      BY <1>1, <2>4, <2>7, FrontFlow
    <3>2. BytesAt(q, t + k, r, u, f)'
      BY <1>2, <1>4, <2>1, <2>2, <2>3, <2>7, <3>1, SMTT(30) DEF BytesAt, Rests
    <3> QED
      BY <3>1, <3>2 DEF BytesInOrder
  <2> QED
    BY <1>17, <2>5, <2>6, <2>7 DEF ParseMore
<1>18. CASE ParseRecord
  <2>1. /\ lines # <<>> /\ lines' = Tail(lines) /\ opener = "opened"
        /\ UNCHANGED <<pipeVars, fileVars, opener, unzipVars>>
        /\ IF Head(lines) \in malformed THEN records' = records
           ELSE records' = Append(records, Head(lines))
    BY <1>1, <1>18 DEF ParseRecord, ReadersInStep, ReaderTypes
  <2>2. Head(lines) = q + 1 /\ Span(Tail(lines), q + 1, t) /\ q + 1 \in 1 .. FileSize
    <3>1. Head(lines) = q + 1 /\ Span(Tail(lines), q + 1, t)
      BY <1>3, <2>1, SpanHead DEF ByteSeqs
    <3>2. Head(lines) \in 1 .. FileSize
      BY <1>3, <2>1, HeadTailProperties DEF ByteSeqs
    <3> QED
      BY <3>1, <3>2
  <2>3. RecordsUpTo(q + 1)'
    BY <1>1, <1>3, <2>1, <2>2, OneRecord
  <2>4. /\ FlowOf(Raw, u, f) => FlowOf(Raw, u, f)'
        /\ FlowOf(Plain, t, r) => FlowOf(Plain, t, r)'
    BY <2>1 DEF FlowOf, Flow, pipeVars, producerVars, readerVars
  <2>5. BytesAt(q + 1, t, r, u, f)'
    BY <1>2, <2>1, <2>2, <2>3, <2>4 DEF BytesAt, pipeVars, producerVars, readerVars
  <2> QED
    BY <2>5 DEF BytesInOrder
<1>19. CASE ParseEnd \/ CloseCsv
  <2>1. /\ Rests(Raw) /\ ~ attached'[Plain] /\ result' = result
        /\ UNCHANGED <<fileVars, opener, unzipVars, lines, records>>
    BY <1>1, <1>19, OtherRests
       DEF ParseEnd, CloseCsv, ReadEnds, ClosePipe, producerVars, PipeTypes
  <2>2. attached[Raw] => FlowOf(Raw, u, f)'
    BY <1>1, <1>2, <2>1, FlowRests DEF BytesAt
  <2>3. BytesAt(q, t, r, u, f)'
    BY <1>2, <1>4, <2>1, <2>2 DEF BytesAt, Rests
  <2> QED
    BY <2>3 DEF BytesInOrder
<1>20. CASE ParseAfterEnd \/ UNCHANGED StreamVars
  <2>1. UNCHANGED <<pipeVars, fileVars, opener, unzipVars, lines, records>>
    BY <1>20 DEF ParseAfterEnd, StreamVars
  <2>2. /\ FlowOf(Raw, u, f) => FlowOf(Raw, u, f)'
        /\ FlowOf(Plain, t, r) => FlowOf(Plain, t, r)'
    BY <2>1 DEF FlowOf, Flow, pipeVars, producerVars, readerVars
  <2>3. BytesAt(q, t, r, u, f)'
    BY <1>2, <1>4, <2>1, <2>2 DEF BytesAt, pipeVars, producerVars, readerVars
  <2> QED
    BY <2>3 DEF BytesInOrder
<1> QED
  BY <1>5, <1>6, <1>7, <1>8, <1>9, <1>10, <1>11, <1>12, <1>13, <1>14, <1>15,
     <1>16, <1>17, <1>18, <1>19, <1>20
     DEF StreamNext, Open, ReadFile, Unzip, Parse

(* The parser does not end before it has all bytes, or trouble.            *)
LEMMA StreamNextTold ==
  ASSUME StreamIInv, [StreamNext]_StreamVars PROVE EndTold'
<1>1. /\ PipeReady /\ PipeTypes /\ Raw \in Pipes /\ Plain \in Pipes
      /\ PipeInStep(Plain) /\ ReadersInStep /\ ReaderTypes /\ EndTold
  BY CsvStreamAssumption DEF StreamIInv, PipeReady, StreamTypes, StreamInStep
<1> USE DEF fileVars, unzipVars, parseVars
<1>2. CASE OpenFile \/ HeaderRead \/ HeaderBad
  <2>1. opener' \in {"header", "failed"} \/ parser' = "reading"
    BY <1>2 DEF OpenFile, HeaderRead, HeaderBad
  <2> QED
    BY <2>1 DEF EndTold
<1>3. CASE UNCHANGED <<damagedAt, malformed, opener, parser, records, errorCount, warnings>>
  BY <1>1, <1>3 DEF EndTold
<1>4. CASE ReadFile
  BY <1>3, <1>4 DEF ReadFile, FileRead, FileEnd
<1>5. CASE Unzip \/ UnzipNothing
  BY <1>3, <1>5 DEF Unzip, UnzipReturns, UnzipReads, UnzipFails, UnzipNothing
<1>6. CASE \E p \in Pipes : Produce(p)
  BY <1>3, <1>6 DEF Produce
<1>7. CASE CloseFile \/ CloseUnzip \/ ParseMore
  BY <1>3, <1>7 DEF CloseFile, CloseUnzip, ParseMore
<1>8. CASE ParseRecord
  <2>1. parser' = "reading" \/ errorCount' > MaxErrors
    BY <1>8 DEF ParseRecord, CountError
  <2> QED
    BY <2>1 DEF EndTold
<1>9. CASE ParseEnd
  <2>1. CASE result[Plain] = "EOF"
    <3>1. PICK q \in Nat, t \in Nat, r \in Nat, u \in Nat, f \in Nat :
            BytesAt(q, t, r, u, f)
      BY DEF StreamIInv, BytesInOrder
    <3>2. /\ ReadEnds(Plain) /\ lines = <<>> /\ attached[Plain]
          /\ producer[Plain] # "sending"
      BY <1>1, <1>9 DEF ParseEnd, ReadEnds, PipeInStep
    <3>3. t = r
      BY <1>1, <3>1, <3>2, EndFlow DEF BytesAt
    <3>4. q = t /\ r = FileSize
      BY <1>1, <2>1, <3>1, <3>2, SpanEnd DEF BytesAt, ReaderTypes, ByteSeqs
    <3>5. Range(records) \union malformed = 2 .. FileSize /\ damagedAt = 0
      BY <1>1, <3>1, <3>3, <3>4, AllParsed DEF BytesAt
    <3>6. UNCHANGED <<records, malformed, damagedAt>>
      BY <1>9 DEF ParseEnd
    <3> QED
      BY <3>5, <3>6 DEF EndTold
  <2>2. CASE result[Plain] # "EOF"
    <3>1. parser' = "reading" \/ errorCount' > MaxErrors
      BY <1>9, <2>2 DEF ParseEnd, CountError
    <3> QED
      BY <3>1 DEF EndTold
  <2> QED
    BY <2>1, <2>2
<1>10. CASE ParseAfterEnd
  BY <1>1, <1>10 DEF ParseAfterEnd, ReadersInStep, EndTold
<1>11. CASE CloseCsv
  BY <1>1, <1>11 DEF CloseCsv, EndTold
<1>12. CASE UNCHANGED StreamVars
  BY <1>3, <1>12 DEF StreamVars
<1> QED
  BY <1>2, <1>4, <1>5, <1>6, <1>7, <1>8, <1>9, <1>10, <1>11, <1>12
     DEF StreamNext, Open, Parse

(* The records that a program gets of an archive are the well-formed ones  *)
(* of the part of the file that was read, in order and each once, whatever *)
(* the blocks go through; and the part is the whole file unless there were *)
(* too many errors or one was reported: for blocks of any number and size, *)
(* a file of any length, and any damage.                                   *)
THEOREM RecordsAsWritten == StreamSpec => []RecordsInOrder
<1>1. StreamInit => StreamIInv
  BY PipesInit, StreamInitTypes, StreamInitInStep, StreamInitBytes DEF StreamIInv
<1>2. StreamIInv /\ [StreamNext]_StreamVars => StreamIInv'
  <2> SUFFICES ASSUME StreamIInv, [StreamNext]_StreamVars PROVE StreamIInv'
    OBVIOUS
  <2>1. PipeInv /\ StreamTypes /\ StreamInStep /\ BytesInOrder
    BY DEF StreamIInv
  <2> QED
    BY <2>1, StreamNextPipeInv, StreamNextTypes, StreamNextInStep,
       StreamNextBytes, StreamNextTold DEF StreamIInv
<1>3. StreamIInv => RecordsInOrder
  <2> SUFFICES ASSUME StreamIInv PROVE RecordsInOrder
    OBVIOUS
  <2>1. TypeOK
    BY StreamTypesOK DEF StreamIInv
  <2>2. EndIsTrue
    <3>1. errorCount \in Nat /\ MaxErrors \in Nat
      BY CsvStreamAssumption DEF StreamIInv, StreamTypes, ReaderTypes
    <3> QED
      BY <3>1 DEF StreamIInv, EndTold, EndIsTrue
  <2> QED
    BY <2>1, <2>2 DEF StreamIInv, BytesInOrder, BytesAt, RecordsUpTo, RecordsInOrder
<1> QED
  BY <1>1, <1>2, <1>3, PTL DEF StreamSpec

----------------------------------------------------------------------------
(* SplitLocations: whatever the number of workers, outputs, files and      *)
(* records, and whatever the capacity of the channels, what was written    *)
(* when a program is done is what should have been written.                *)

ByFile(s) == \A i, j \in DOMAIN s : i < j => s[i][1] <= s[j][1]

(* Where the record r is as far as output o is concerned: not yet read,    *)
(* or with a worker that is to send it to o, or in the channel of o.       *)
Unread(r) ==
  \/ r[1] > reader.file
  \/ r[1] = reader.file /\ (reader.state = "opening" \/ r[2] >= reader.next)
Pending(w, r, o) == worker[w].record = r /\ o \in worker[w].left
InChannel(r, o) == o \in DOMAIN outCh /\ Holds(outCh[o], r)

Upstream(r, o) ==
  Unread(r) \/ Holds(recordCh, r) \/ \E w \in Workers : Pending(w, r, o)
Delivered(r, o) == InChannel(r, o) \/ Holds(written[o], r)

WorkerType ==
  [at : {"idle", "ended", "lookup", "lock", "locked", "send"},
   record : Records \cup {<<>>}, left : SUBSET Outputs,
   to : Outputs \cup {Nobody}]

Typed ==
  /\ program \in {"partition", "paths"}
  /\ damage.noOpen \subseteq Outputs /\ damage.noWrite \subseteq Outputs
  /\ reader \in [file : Nat \ {0}, next : Nat \ {0},
                 state : {"opening", "reading", "waiting", "failed"}]
  /\ recordCh \in Seq(ReadableRecords)
  /\ worker \in [Workers -> WorkerType]
  /\ DOMAIN outCh \subseteq Outputs
  /\ \A o \in DOMAIN outCh : outCh[o] \in Seq(ReadableRecords)
  /\ writer \in [Outputs -> {"none", "writing", "broken", "ended"}]
  /\ written \in [Outputs -> Seq(ReadableRecords)]
  /\ main \in {"files", "closing", "done", "fatal"}

(* The reader and its workers: a file that is read can be read, and they   *)
(* are done with it before the next is begun.                              *)
ReaderInStep ==
  /\ reader.state # "opening" => reader.file \in Files \ damage.files
  /\ reader.state = "opening" => WorkersEnded /\ recordCh = <<>>
  /\ reader.state = "reading" => \A w \in Workers : worker[w].at # "ended"
  /\ (\E w \in Workers : worker[w].at = "ended") => recordCh = <<>>
  /\ reader.state = "waiting" => Current \notin Records
  /\ main \in {"closing", "done"} =>
       reader.file \notin Files /\ reader.state = "opening"

WorkerInStep(w) ==
  /\ worker[w].at \in {"idle", "ended"} <=> worker[w].left = {}
  /\ worker[w].at \in {"lock", "locked", "send"} =>
       worker[w].to \in worker[w].left
  /\ worker[w].left # {} =>
       /\ worker[w].record \in ReadableRecords
       /\ worker[w].record[1] = reader.file
       /\ ~ Unread(worker[w].record)
       /\ worker[w].left \subseteq Targets(worker[w].record)

RecordChInStep ==
  /\ Distinct(recordCh)
  /\ \A i \in DOMAIN recordCh :
       recordCh[i][1] = reader.file /\ ~ Unread(recordCh[i])

OutputInStep(o) ==
  /\ writer[o] = "none" <=> o \notin DOMAIN outCh
  /\ o \notin DOMAIN outCh => written[o] = <<>>
  /\ program = "partition" /\ o \notin damage.noOpen => o \in DOMAIN outCh
  /\ Sound(o) => writer[o] # "broken"
  /\ Sound(o) /\ writer[o] = "ended" =>
       main \in {"closing", "done"} /\ outCh[o] = <<>>
  /\ main = "done" => writer[o] \in {"none", "ended"}

(* What an output has: its own records, once each, file after file.        *)
OutputInOrder(o) ==
  /\ Distinct(written[o]) /\ ByFile(written[o])
  /\ o \in DOMAIN outCh =>
       /\ Distinct(outCh[o]) /\ ByFile(outCh[o])
       /\ \A i \in DOMAIN written[o], j \in DOMAIN outCh[o] :
            written[o][i] # outCh[o][j] /\ written[o][i][1] <= outCh[o][j][1]
  /\ \A r \in ReadableRecords : Delivered(r, o) =>
       r[1] <= reader.file /\ o \in Targets(r)

(* A record is in one place, as far as an output is concerned, and in none *)
(* only if that output is in trouble.                                      *)
RecordInPlace(r, o) ==
  /\ Holds(recordCh, r) => \A w \in Workers : ~ Pending(w, r, o)
  /\ \A v, w \in Workers : Pending(v, r, o) /\ Pending(w, r, o) => v = w
  /\ Upstream(r, o) => ~ Delivered(r, o)
  /\ Sound(o) /\ o \in Targets(r) => Upstream(r, o) \/ Delivered(r, o)

AllWorkers == \A w \in Workers : WorkerInStep(w)
OutputStates == \A o \in Outputs : OutputInStep(o)
OutputContents == \A o \in Outputs : OutputInOrder(o)
AllRecords == \A r \in ReadableRecords, o \in Outputs : RecordInPlace(r, o)

SplitIInv ==
  /\ Typed /\ ReaderInStep /\ RecordChInStep
  /\ AllWorkers /\ OutputStates /\ OutputContents /\ AllRecords

----------------------------------------------------------------------------
(* Sequences without repetition.                                           *)

(* The first element is taken.                                             *)
LEMMA TakeFirst ==
  ASSUME NEW S, NEW s \in Seq(S), s # <<>>, Distinct(s), ByFile(s)
  PROVE  /\ Tail(s) \in Seq(S) /\ Distinct(Tail(s)) /\ ByFile(Tail(s))
         /\ Head(s) \in S /\ Holds(s, Head(s))
         /\ \A r : Holds(Tail(s), r) <=> Holds(s, r) /\ r # Head(s)
         /\ \A j \in DOMAIN Tail(s) :
              Head(s)[1] <= Tail(s)[j][1] /\ Head(s) # Tail(s)[j]
         /\ \A j \in DOMAIN Tail(s) : \E i \in DOMAIN s : Tail(s)[j] = s[i]
         /\ \E i \in DOMAIN s : Head(s) = s[i]
<1>1. /\ Tail(s) \in Seq(S) /\ Len(Tail(s)) = Len(s) - 1
      /\ Head(s) = s[1] /\ Head(s) \in S
      /\ \A i \in 1 .. Len(Tail(s)) : Tail(s)[i] = s[i + 1]
      /\ Len(s) \in Nat \ {0}
  BY HeadTailProperties, EmptySeq
<1>2. DOMAIN s = 1 .. Len(s) /\ DOMAIN Tail(s) = 1 .. Len(s) - 1
  BY <1>1
<1>3. Distinct(Tail(s)) /\ ByFile(Tail(s))
  BY <1>1, <1>2, SMTT(30) DEF Distinct, ByFile
<1>4. Holds(s, Head(s)) /\ \E i \in DOMAIN s : Head(s) = s[i]
  BY <1>1, <1>2 DEF Holds
<1>5. ASSUME NEW r, Holds(Tail(s), r) PROVE Holds(s, r) /\ r # Head(s)
  BY <1>1, <1>2, <1>5 DEF Holds, Distinct
<1>6. ASSUME NEW r, Holds(s, r), r # Head(s) PROVE Holds(Tail(s), r)
  <2>1. PICK i \in 1 .. Len(s) : s[i] = r
    BY <1>2, <1>6 DEF Holds
  <2>2. i - 1 \in 1 .. Len(s) - 1 /\ (i - 1) + 1 = i
    BY <1>1, <1>6, <2>1
  <2>3. Tail(s)[i - 1] = r
    BY <1>1, <2>1, <2>2
  <2> QED
    BY <1>2, <2>2, <2>3 DEF Holds
<1>7. \A j \in DOMAIN Tail(s) :
        Head(s)[1] <= Tail(s)[j][1] /\ Head(s) # Tail(s)[j]
  BY <1>1, <1>2 DEF Distinct, ByFile
<1>8. \A j \in DOMAIN Tail(s) : \E i \in DOMAIN s : Tail(s)[j] = s[i]
  BY <1>1, <1>2
<1> QED
  BY <1>1, <1>3, <1>4, <1>5, <1>6, <1>7, <1>8

(* An element is put at the end of a sequence that does not hold it.       *)
LEMMA PutLast ==
  ASSUME NEW S, NEW s \in Seq(S), Distinct(s), NEW v \in S, ~ Holds(s, v)
  PROVE  /\ Append(s, v) \in Seq(S) /\ Distinct(Append(s, v))
         /\ \A r : Holds(Append(s, v), r) <=> Holds(s, r) \/ r = v
         /\ ByFile(s) /\ (\A i \in DOMAIN s : s[i][1] <= v[1]) =>
              ByFile(Append(s, v))
         /\ \A i \in DOMAIN Append(s, v) :
              Append(s, v)[i] = v \/ (i \in DOMAIN s /\ Append(s, v)[i] = s[i])
<1>1. /\ Append(s, v) \in Seq(S) /\ Len(Append(s, v)) = Len(s) + 1
      /\ \A i \in 1 .. Len(s) : Append(s, v)[i] = s[i]
      /\ Append(s, v)[Len(s) + 1] = v
  BY AppendProperties
<1>2. /\ Len(s) \in Nat /\ DOMAIN s = 1 .. Len(s)
      /\ DOMAIN Append(s, v) = 1 .. Len(s) + 1
  BY <1>1
<1>3. Distinct(Append(s, v))
  BY <1>1, <1>2 DEF Distinct, Holds
<1>4. \A r : Holds(Append(s, v), r) <=> Holds(s, r) \/ r = v
  BY <1>1, <1>2 DEF Holds
<1>5. ByFile(s) /\ (\A i \in DOMAIN s : s[i][1] <= v[1]) => ByFile(Append(s, v))
  BY <1>1, <1>2 DEF ByFile
<1>6. \A i \in DOMAIN Append(s, v) :
        Append(s, v)[i] = v \/ (i \in DOMAIN s /\ Append(s, v)[i] = s[i])
  BY <1>1, <1>2
<1> QED
  BY <1>1, <1>3, <1>4, <1>5, <1>6

(* The empty sequence.                                                     *)
LEMMA NothingYet ==
  /\ Distinct(<<>>) /\ ByFile(<<>>) /\ \A r : ~ Holds(<<>>, r)
  /\ \A S : <<>> \in Seq(S)
  /\ DOMAIN <<>> = {}
BY EmptySeq DEF Distinct, ByFile, Holds

----------------------------------------------------------------------------
(* Records and their outputs.                                              *)

(* The parts of a record.                                                  *)
LEMMA RecordParts ==
  /\ \A r \in ReadableRecords :
       /\ r \in Records /\ r \notin damage.records
       /\ r[1] \in Files \ damage.files /\ r[1] \in Nat \ {0}
       /\ r[2] \in DOMAIN Contents[r[1]] /\ r[2] \in Nat \ {0}
       /\ r = <<r[1], r[2]>>
       /\ DOMAIN Contents[r[1]] = 1 .. Len(Contents[r[1]])
       /\ Len(Contents[r[1]]) \in Nat
  /\ \A f, i : <<f, i>> \in Records <=> f \in Files /\ i \in DOMAIN Contents[f]
  /\ Files = 1 .. Len(Contents) /\ Len(Contents) \in Nat
  /\ ReadableRecords \subseteq Records
<1>1. Contents \in Seq(Seq((SUBSET Outputs) \ {{}}))
  BY SplitAssumption
<1>2. Files = 1 .. Len(Contents) /\ Len(Contents) \in Nat
  BY <1>1 DEF Files
<1>3. \A f \in Files : /\ DOMAIN Contents[f] = 1 .. Len(Contents[f])
                       /\ Len(Contents[f]) \in Nat
  <2> SUFFICES ASSUME NEW f \in Files
               PROVE  /\ DOMAIN Contents[f] = 1 .. Len(Contents[f])
                      /\ Len(Contents[f]) \in Nat
    OBVIOUS
  <2>1. Contents[f] \in Seq((SUBSET Outputs) \ {{}})
    BY <1>1 DEF Files
  <2> QED
    BY <2>1
<1>4. \A f, i : <<f, i>> \in Records <=> f \in Files /\ i \in DOMAIN Contents[f]
  BY DEF Records, RecordsOf
<1>5. \A r \in ReadableRecords :
        /\ r \in Records /\ r \notin damage.records
        /\ r[1] \in Files \ damage.files
        /\ r[2] \in DOMAIN Contents[r[1]]
        /\ r = <<r[1], r[2]>>
  <2> SUFFICES ASSUME NEW r \in ReadableRecords
               PROVE  /\ r \in Records /\ r \notin damage.records
                      /\ r[1] \in Files \ damage.files
                      /\ r[2] \in DOMAIN Contents[r[1]]
                      /\ r = <<r[1], r[2]>>
    OBVIOUS
  <2>1. PICK f \in Files \ damage.files : r \in RecordsOf(f)
    BY DEF ReadableRecords
  <2>2. PICK i \in DOMAIN Contents[f] : r = <<f, i>>
    BY <2>1 DEF RecordsOf
  <2>3. r \notin damage.records /\ r \in Records
    BY <2>1 DEF ReadableRecords, Records
  <2> QED
    BY <2>1, <2>2, <2>3
<1> QED
  BY <1>2, <1>3, <1>4, <1>5

(* A record belongs to an output at least.                                 *)
LEMMA SomeTarget ==
  ASSUME NEW r \in ReadableRecords
  PROVE  Targets(r) # {} /\ Targets(r) \subseteq Outputs
<1>1. r[1] \in DOMAIN Contents /\ r[2] \in DOMAIN Contents[r[1]]
  BY RecordParts DEF Files
<1>2. Contents[r[1]] \in Seq((SUBSET Outputs) \ {{}})
  BY <1>1, SplitAssumption
<1>3. Contents[r[1]][r[2]] \in (SUBSET Outputs) \ {{}}
  BY <1>1, <1>2
<1>4. (CHOOSE o \in Contents[r[1]][r[2]] : TRUE) \in Contents[r[1]][r[2]]
  BY <1>3
<1> QED
  BY <1>3, <1>4 DEF Targets

(* The record that is read next.                                           *)
LEMMA CurrentRecord ==
  ASSUME Current \in Records, Current \notin damage.records,
         reader.file \in Files \ damage.files
  PROVE  Current \in ReadableRecords
<1>1. reader.next \in DOMAIN Contents[reader.file]
  BY RecordParts DEF Current
<1>2. Current \in RecordsOf(reader.file)
  BY <1>1 DEF Current, RecordsOf
<1> QED
  BY <1>2 DEF ReadableRecords

(* Programs and damage are given once and for all.                         *)
LEMMA Given ==
  ASSUME UNCHANGED <<program, damage>>
  PROVE  /\ ReadableRecords' = ReadableRecords
         /\ \A r : Targets(r)' = Targets(r)
         /\ \A o : Sound(o)' <=> Sound(o)
BY DEF ReadableRecords, Targets, Sound

----------------------------------------------------------------------------
(* What the parts of the invariant depend on.                              *)

(* Where the records are, as far as outputs are concerned, is the same     *)
(* when nothing is moved.                                                  *)
LEMMA NothingMoved ==
  ASSUME SplitIInv, UNCHANGED <<program, damage, recordCh, outCh, written>>,
         reader'.file >= reader.file, reader'.file \in Nat,
         \A r \in ReadableRecords : Unread(r)' <=> Unread(r),
         \A w \in Workers, r \in ReadableRecords, o \in Outputs :
           Pending(w, r, o)' <=> Pending(w, r, o)
  PROVE  OutputContents' /\ AllRecords'
<1>1. /\ ReadableRecords' = ReadableRecords
      /\ \A r : Targets(r)' = Targets(r)
      /\ \A o : Sound(o)' <=> Sound(o)
  BY Given
<1>2. \A r \in ReadableRecords, o \in Outputs :
        /\ Upstream(r, o)' <=> Upstream(r, o)
        /\ Delivered(r, o)' <=> Delivered(r, o)
        /\ Holds(recordCh, r)' <=> Holds(recordCh, r)
  BY DEF Upstream, Delivered, InChannel
<1>3. AllRecords'
  BY <1>1, <1>2 DEF SplitIInv, AllRecords, RecordInPlace
<1>4. ASSUME NEW o \in Outputs PROVE OutputInOrder(o)'
  <2>1. OutputInOrder(o)
    BY DEF SplitIInv, OutputContents
  <2>2. ASSUME NEW r \in ReadableRecords, Delivered(r, o)'
        PROVE  r[1] <= reader'.file /\ o \in Targets(r)
    <3>1. r[1] <= reader.file /\ o \in Targets(r)
      BY <1>2, <2>1, <2>2 DEF OutputInOrder
    <3>2. r[1] \in Nat /\ reader.file \in Nat
      BY RecordParts DEF SplitIInv, Typed
    <3> QED
      BY <3>1, <3>2
  <2> QED
    BY <1>1, <2>1, <2>2 DEF OutputInOrder
<1> QED
  BY <1>3, <1>4 DEF OutputContents

(* Nor do the outputs change by themselves.                                *)
LEMMA OutputsRest ==
  ASSUME SplitIInv, UNCHANGED <<program, damage, outCh, writer, written>>,
         main' = main \/ (main = "files" /\ main' \in {"closing", "fatal"})
  PROVE  OutputStates'
<1> SUFFICES ASSUME NEW o \in Outputs PROVE OutputInStep(o)'
  BY DEF OutputStates
<1>1. Sound(o)' <=> Sound(o)
  BY Given
<1>2. OutputInStep(o)
  BY DEF SplitIInv, OutputStates
<1>3. Sound(o) /\ writer[o] = "ended" => main \in {"closing", "done"}
  BY <1>2 DEF OutputInStep
<1> QED
  BY <1>1, <1>2, <1>3 DEF OutputInStep

(* Nor the workers.                                                        *)
LEMMA WorkersRest ==
  ASSUME SplitIInv, UNCHANGED <<program, damage, reader, worker>>
  PROVE  AllWorkers'
<1>1. /\ ReadableRecords' = ReadableRecords
      /\ \A r : Targets(r)' = Targets(r)
  BY Given
<1> QED
  BY <1>1 DEF SplitIInv, AllWorkers, WorkerInStep, Unread

(* While a worker runs, a file is being read.                              *)
LEMMA WorkerRuns ==
  ASSUME SplitIInv, NEW w \in Workers, worker[w].at # "ended"
  PROVE  reader.state # "opening" /\ main \notin {"closing", "done"}
BY DEF SplitIInv, ReaderInStep, WorkersEnded

----------------------------------------------------------------------------
(* The reader.                                                             *)

(* The program is given up, or all outputs are closed.                     *)
LEMMA FatalKeeps ==
  ASSUME SplitIInv, main = "files", main' = "fatal",
         UNCHANGED <<program, damage, reader, recordCh, worker, outCh, writer, written>>
  PROVE  SplitIInv'
<1>1. ReadableRecords' = ReadableRecords
  BY Given
<1>2. Typed'
  BY <1>1 DEF SplitIInv, Typed
<1>3. ReaderInStep'
  BY DEF SplitIInv, ReaderInStep, WorkersEnded, Current, Records, RecordsOf,
     Files
<1>4. RecordChInStep'
  BY DEF SplitIInv, RecordChInStep, Unread
<1>5. AllWorkers' /\ OutputStates'
  BY WorkersRest, OutputsRest
<1>6. OutputContents' /\ AllRecords'
  BY NothingMoved DEF Unread, Pending, SplitIInv, Typed
<1> QED
  BY <1>2, <1>3, <1>4, <1>5, <1>6 DEF SplitIInv

(* The next file is opened, or cannot be.                                  *)
LEMMA OpenKeeps ==
  ASSUME SplitIInv, OpenInput PROVE SplitIInv'
<1>1. /\ UNCHANGED <<program, damage, recordCh, outCh, writer, written>>
      /\ main = "files" /\ reader.state = "opening" /\ reader.file \in Files
  BY DEF OpenInput, KeepOutputs
<1>2. /\ reader.file \in Nat \ {0} /\ reader.next \in Nat \ {0}
      /\ reader \in [file : Nat \ {0}, next : Nat \ {0},
                     state : {"opening", "reading", "waiting", "failed"}]
      /\ worker \in [Workers -> WorkerType]
      /\ recordCh = <<>>
      /\ \A w \in Workers : worker[w].at = "ended" /\ worker[w].left = {}
  BY <1>1 DEF SplitIInv, Typed, ReaderInStep, WorkersEnded, AllWorkers,
     WorkerInStep
<1>3. ReadableRecords' = ReadableRecords
  BY <1>1, Given
<1>4. CASE /\ reader.file \notin damage.files
           /\ reader' = [reader EXCEPT !.state = "reading", !.next = 1]
           /\ worker' = [w \in Workers |-> IF worker[w].at = "ended" THEN Idle ELSE worker[w]]
           /\ UNCHANGED main
  <2>1. /\ reader'.file = reader.file /\ reader'.next = 1 /\ reader'.state = "reading"
        /\ reader' \in [file : Nat \ {0}, next : Nat \ {0},
                        state : {"opening", "reading", "waiting", "failed"}]
    <3>1. reader' = [file |-> reader.file, next |-> 1, state |-> "reading"]
      BY <1>2, <1>4
    <3>2. 1 \in Nat \ {0}
      OBVIOUS
    <3> QED
      BY <1>2, <3>1, <3>2
  <2>2. worker' = [w \in Workers |-> Idle] /\ Idle \in WorkerType
    BY <1>2, <1>4 DEF Idle, WorkerType
  <2>3. Typed'
    BY <1>1, <1>3, <1>4, <2>1, <2>2 DEF SplitIInv, Typed
  <2>4. ReaderInStep'
    BY <1>1, <1>2, <1>4, <2>1, <2>2 DEF ReaderInStep, Idle
  <2>5. RecordChInStep'
    BY <1>1, <1>2, NothingYet DEF RecordChInStep
  <2>6. AllWorkers'
    BY <2>2 DEF AllWorkers, WorkerInStep, Idle
  <2>7. OutputStates'
    BY <1>1, <1>4, OutputsRest
  <2>8. \A r \in ReadableRecords : Unread(r)' <=> Unread(r)
    BY <1>1, <1>2, <2>1, RecordParts DEF Unread
  <2>9. \A w \in Workers, r \in ReadableRecords, o \in Outputs :
          Pending(w, r, o)' <=> Pending(w, r, o)
    BY <1>2, <2>2 DEF Pending, Idle
  <2>10. OutputContents' /\ AllRecords'
    BY <1>1, <1>2, <2>1, <2>8, <2>9, NothingMoved
  <2> QED
    BY <2>3, <2>4, <2>5, <2>6, <2>7, <2>10 DEF SplitIInv
<1>5. CASE /\ reader.file \in damage.files
           /\ reader' = [reader EXCEPT !.file = @ + 1]
           /\ UNCHANGED <<worker, main>>
  <2>1. /\ reader'.file = reader.file + 1 /\ reader'.next = reader.next
        /\ reader'.state = "opening"
        /\ reader' \in [file : Nat \ {0}, next : Nat \ {0},
                        state : {"opening", "reading", "waiting", "failed"}]
    BY <1>1, <1>2, <1>5
  <2>2. Typed'
    BY <1>1, <1>3, <1>5, <2>1 DEF SplitIInv, Typed
  <2>3. ReaderInStep'
    BY <1>1, <1>2, <1>5, <2>1 DEF ReaderInStep, WorkersEnded
  <2>4. RecordChInStep'
    BY <1>1, <1>2, NothingYet DEF RecordChInStep
  <2>5. AllWorkers'
    BY <1>2, <1>5 DEF AllWorkers, WorkerInStep
  <2>6. OutputStates'
    BY <1>1, <1>5, OutputsRest
  <2>7. ASSUME NEW r \in ReadableRecords PROVE Unread(r)' <=> Unread(r)
    <3>1. r[1] \in Nat /\ r[1] # reader.file
      BY <1>5, RecordParts
    <3> QED
      BY <1>1, <1>2, <2>1, <3>1 DEF Unread
  <2>8. OutputContents' /\ AllRecords'
    BY <1>1, <1>2, <1>5, <2>1, <2>7, NothingMoved DEF Pending
  <2> QED
    BY <2>2, <2>3, <2>4, <2>5, <2>6, <2>8 DEF SplitIInv
<1>6. CASE UNCHANGED <<reader, worker>> /\ main' = "fatal"
  BY <1>1, <1>6, FatalKeeps
<1> QED
  BY <1>4, <1>5, <1>6 DEF OpenInput

(* A malformed record, or the end of the file.                             *)
LEMMA StopKeeps ==
  ASSUME SplitIInv, ReadDamaged \/ EndOfFile PROVE SplitIInv'
<1>1. /\ UNCHANGED <<program, damage, recordCh, worker, main, outCh, writer, written>>
      /\ main = "files" /\ reader.state = "reading"
      /\ \/ /\ reader' = [reader EXCEPT !.next = @ + 1]
            /\ Current \in damage.records
         \/ /\ reader' = [reader EXCEPT !.state = "failed"]
         \/ /\ reader' = [reader EXCEPT !.state = "waiting"]
            /\ Current \notin Records
  BY DEF ReadDamaged, EndOfFile, KeepOutputs
<1>2. /\ reader.file \in Nat \ {0} /\ reader.next \in Nat \ {0}
      /\ reader \in [file : Nat \ {0}, next : Nat \ {0},
                     state : {"opening", "reading", "waiting", "failed"}]
      /\ reader.file \in Files \ damage.files
      /\ \A w \in Workers : worker[w].at # "ended"
  BY <1>1 DEF SplitIInv, Typed, ReaderInStep
<1>3. ReadableRecords' = ReadableRecords /\ \A r : Targets(r)' = Targets(r)
  BY <1>1, Given
<1>4. /\ reader'.file = reader.file /\ reader'.state # "opening"
      /\ reader' \in [file : Nat \ {0}, next : Nat \ {0},
                      state : {"opening", "reading", "waiting", "failed"}]
      /\ \/ /\ reader'.next = reader.next + 1 /\ reader'.state = "reading"
            /\ Current \in damage.records
         \/ /\ reader'.next = reader.next /\ reader'.state = "failed"
         \/ /\ reader'.next = reader.next /\ reader'.state = "waiting"
            /\ Current \notin Records
  BY <1>1, <1>2
<1>5. ASSUME NEW r \in ReadableRecords PROVE Unread(r)' <=> Unread(r)
  <2>1. /\ r[1] \in Nat /\ r[2] \in Nat
        /\ r = <<r[1], r[2]>> /\ r \notin damage.records
    BY RecordParts
  <2>2. CASE reader'.next = reader.next
    BY <1>1, <1>4, <2>2 DEF Unread
  <2>3. CASE Current \in damage.records /\ reader'.next = reader.next + 1
    <3>1. ~ (r[1] = reader.file /\ r[2] = reader.next)
      BY <2>1, <2>3 DEF Current
    <3> QED
      BY <1>1, <1>2, <1>4, <2>1, <2>3, <3>1 DEF Unread
  <2> QED
    BY <1>4, <2>2, <2>3
<1>6. Typed'
  BY <1>1, <1>3, <1>4 DEF SplitIInv, Typed
<1>7. ReaderInStep'
  BY <1>1, <1>2, <1>4 DEF ReaderInStep, Current, Records, RecordsOf, Files
<1>8. RecordChInStep'
  <2>1. \A i \in DOMAIN recordCh : recordCh[i] \in ReadableRecords
    BY DEF SplitIInv, Typed
  <2> QED
    BY <1>1, <1>4, <1>5, <2>1 DEF SplitIInv, RecordChInStep
<1>9. AllWorkers'
  BY <1>1, <1>3, <1>4, <1>5 DEF SplitIInv, AllWorkers, WorkerInStep
<1>10. OutputStates'
  BY <1>1, OutputsRest
<1>11. OutputContents' /\ AllRecords'
  BY <1>1, <1>2, <1>4, <1>5, NothingMoved DEF Pending
<1> QED
  BY <1>6, <1>7, <1>8, <1>9, <1>10, <1>11 DEF SplitIInv

(* The file is done with.                                                  *)
LEMMA FileDoneKeeps ==
  ASSUME SplitIInv, FileDone PROVE SplitIInv'
<1>1. /\ UNCHANGED <<program, damage, recordCh, worker, outCh, writer, written>>
      /\ main = "files" /\ reader.state \in {"waiting", "failed"}
      /\ \A w \in Workers : worker[w].at = "ended"
  BY DEF FileDone, KeepOutputs, WorkersEnded
<1>2. /\ reader.file \in Nat \ {0} /\ reader.next \in Nat \ {0}
      /\ reader \in [file : Nat \ {0}, next : Nat \ {0},
                     state : {"opening", "reading", "waiting", "failed"}]
      /\ reader.file \in Files \ damage.files
      /\ recordCh = <<>>
      /\ \A w \in Workers : worker[w].left = {}
      /\ reader.state = "waiting" => Current \notin Records
  BY <1>1, SplitAssumption DEF SplitIInv, Typed, ReaderInStep, AllWorkers,
     WorkerInStep
<1>3. ReadableRecords' = ReadableRecords
  BY <1>1, Given
<1>4. CASE UNCHANGED reader /\ main' = "fatal"
  BY <1>1, <1>4, FatalKeeps
<1>5. CASE /\ reader.state = "waiting" /\ UNCHANGED main
           /\ reader' = [reader EXCEPT !.file = @ + 1, !.state = "opening"]
  <2>1. /\ reader'.file = reader.file + 1 /\ reader'.next = reader.next
        /\ reader'.state = "opening"
        /\ reader' \in [file : Nat \ {0}, next : Nat \ {0},
                        state : {"opening", "reading", "waiting", "failed"}]
    <3>1. reader' = [file |-> reader.file + 1, next |-> reader.next,
                     state |-> "opening"]
      BY <1>2, <1>5
    <3>2. reader.file + 1 \in Nat \ {0}
      BY <1>2
    <3> QED
      BY <1>2, <3>1, <3>2
  <2>2. Typed'
    BY <1>1, <1>3, <1>5, <2>1 DEF SplitIInv, Typed
  <2>3. ReaderInStep'
    BY <1>1, <1>2, <1>5, <2>1 DEF ReaderInStep, WorkersEnded
  <2>4. RecordChInStep'
    BY <1>1, <1>2, NothingYet DEF RecordChInStep
  <2>5. AllWorkers'
    BY <1>1, <1>2 DEF AllWorkers, WorkerInStep
  <2>6. OutputStates'
    BY <1>1, <1>5, OutputsRest
  <2>7. ASSUME NEW r \in ReadableRecords PROVE Unread(r)' <=> Unread(r)
    <3>1. /\ r[1] \in Nat /\ r[2] \in Nat
          /\ r[2] \in 1 .. Len(Contents[r[1]]) /\ Len(Contents[r[1]]) \in Nat
      BY RecordParts
    <3>2. ASSUME r[1] = reader.file PROVE ~ (r[2] >= reader.next)
      <4>1. reader.next \notin 1 .. Len(Contents[reader.file])
        BY <1>2, <1>5, <3>2, RecordParts DEF Current
      <4> QED
        BY <1>2, <3>1, <3>2, <4>1
    <3> QED
      BY <1>2, <1>5, <2>1, <3>1, <3>2 DEF Unread
  <2>8. OutputContents' /\ AllRecords'
    BY <1>1, <1>2, <2>1, <2>7, NothingMoved DEF Pending
  <2> QED
    BY <2>2, <2>3, <2>4, <2>5, <2>6, <2>8 DEF SplitIInv
<1> QED
  BY <1>1, <1>4, <1>5 DEF FileDone

(* A record is read, and goes into the channel.                            *)
LEMMA ReadRecordKeeps ==
  ASSUME SplitIInv, ReadRecord PROVE SplitIInv'
<1>1. /\ UNCHANGED <<program, damage, worker, main, outCh, writer, written>>
      /\ main = "files" /\ reader.state = "reading"
      /\ Current \in Records /\ Current \notin damage.records
      /\ recordCh' = Append(recordCh, Current)
      /\ reader' = [reader EXCEPT !.next = @ + 1]
  BY DEF ReadRecord, KeepOutputs
<1>2. /\ reader.file \in Nat \ {0} /\ reader.next \in Nat \ {0}
      /\ reader \in [file : Nat \ {0}, next : Nat \ {0},
                     state : {"opening", "reading", "waiting", "failed"}]
      /\ reader.file \in Files \ damage.files
      /\ \A w \in Workers : worker[w].at # "ended"
      /\ recordCh \in Seq(ReadableRecords) /\ Distinct(recordCh)
      /\ \A i \in DOMAIN recordCh :
           recordCh[i][1] = reader.file /\ ~ Unread(recordCh[i])
  BY <1>1 DEF SplitIInv, Typed, ReaderInStep, RecordChInStep
<1>3. ReadableRecords' = ReadableRecords /\ \A r : Targets(r)' = Targets(r)
  BY <1>1, Given
<1>4. /\ reader'.file = reader.file /\ reader'.state = "reading"
      /\ reader'.next = reader.next + 1
      /\ reader' \in [file : Nat \ {0}, next : Nat \ {0},
                      state : {"opening", "reading", "waiting", "failed"}]
  BY <1>1, <1>2
<1>5. /\ Current \in ReadableRecords
      /\ Current[1] = reader.file /\ Current[2] = reader.next
      /\ Unread(Current)
  BY <1>1, <1>2, CurrentRecord DEF Current, Unread
<1>6. ~ Holds(recordCh, Current)
  BY <1>2, <1>5 DEF Holds
<1>7. /\ recordCh' \in Seq(ReadableRecords) /\ Distinct(recordCh')
      /\ \A r : Holds(recordCh', r) <=> Holds(recordCh, r) \/ r = Current
      /\ \A i \in DOMAIN recordCh' :
           recordCh'[i] = Current
             \/ (i \in DOMAIN recordCh /\ recordCh'[i] = recordCh[i])
  BY <1>1, <1>2, <1>5, <1>6, PutLast
<1>8. ASSUME NEW r \in ReadableRecords
      PROVE  Unread(r)' <=> Unread(r) /\ r # Current
  <2>1. r[1] \in Nat /\ r[2] \in Nat /\ r = <<r[1], r[2]>>
    BY RecordParts
  <2>2. r = Current <=> r[1] = reader.file /\ r[2] = reader.next
    BY <1>5, <2>1 DEF Current
  <2> QED
    BY <1>1, <1>2, <1>4, <2>1, <2>2 DEF Unread
<1>9. Typed'
  BY <1>1, <1>3, <1>4, <1>7 DEF SplitIInv, Typed
<1>10. ReaderInStep'
  BY <1>1, <1>2, <1>4 DEF ReaderInStep
<1>11. RecordChInStep'
  <2> SUFFICES ASSUME NEW i \in DOMAIN recordCh'
               PROVE  recordCh'[i][1] = reader'.file /\ ~ Unread(recordCh[i])'
    BY <1>7 DEF RecordChInStep
  <2>1. CASE recordCh'[i] = Current
    BY <1>2, <1>4, <1>5, <2>1 DEF Unread
  <2>2. CASE i \in DOMAIN recordCh /\ recordCh'[i] = recordCh[i]
    <3>1. recordCh[i] \in ReadableRecords
      BY <1>2, <2>2
    <3>2. recordCh[i][1] = reader.file /\ recordCh[i][2] \in Nat /\ ~ Unread(recordCh[i])
      BY <1>2, <2>2, <3>1, RecordParts
    <3> QED
      BY <1>1, <1>2, <1>4, <2>2, <3>2 DEF Unread
  <2> QED
    BY <1>7, <2>1, <2>2
<1>12. AllWorkers'
  BY <1>1, <1>3, <1>4, <1>8 DEF SplitIInv, AllWorkers, WorkerInStep
<1>13. OutputStates'
  BY <1>1, OutputsRest
<1>14. /\ \A o : Sound(o)' <=> Sound(o)
       /\ \A w, r, o : Pending(w, r, o)' <=> Pending(w, r, o)
       /\ \A r, o : Delivered(r, o)' <=> Delivered(r, o)
  BY <1>1, Given DEF Pending, Delivered, InChannel
<1>15. OutputContents'
  BY <1>1, <1>3, <1>4, <1>14 DEF SplitIInv, OutputContents, OutputInOrder
<1>16. \A r \in ReadableRecords, o \in Outputs : Upstream(r, o)' <=> Upstream(r, o)
  BY <1>5, <1>7, <1>8, <1>14 DEF Upstream
<1>17. \A w \in Workers, o \in Outputs : ~ Pending(w, Current, o)
  BY <1>5 DEF SplitIInv, AllWorkers, WorkerInStep, Pending
<1>18. AllRecords'
  BY <1>3, <1>7, <1>14, <1>16, <1>17 DEF SplitIInv, AllRecords, RecordInPlace
<1> QED
  BY <1>9, <1>10, <1>11, <1>12, <1>13, <1>15, <1>18 DEF SplitIInv

----------------------------------------------------------------------------
(* The workers.                                                            *)

(* A worker changes its place or the output that it looks for, and no more *)
(* than that.                                                              *)
WorkerMoves(w, at, to) ==
  worker' = [worker EXCEPT ![w] = [@ EXCEPT !.at = at, !.to = to]]

(* A worker that only moves, or is at its end when all have been read and  *)
(* taken, keeps the invariant.                                             *)
LEMMA MoveKeeps ==
  ASSUME SplitIInv, NEW w \in Workers, NEW at, NEW to,
         WorkerMoves(w, at, to),
         \/ at = "ended" /\ worker[w].at = "idle" /\ to \in Outputs \cup {Nobody}
            /\ recordCh = <<>> /\ reader.state # "reading"
         \/ at \in {"lock", "locked", "send"} /\ to \in worker[w].left,
         UNCHANGED <<program, damage, reader, recordCh, main, outCh, writer, written>>
  PROVE  SplitIInv'
<1>1. /\ worker \in [Workers -> WorkerType]
      /\ worker[w].left \subseteq Outputs
  BY DEF SplitIInv, Typed, WorkerType
<1>2. /\ worker' \in [Workers -> WorkerType]
      /\ \A v \in Workers : /\ worker'[v].record = worker[v].record
                            /\ worker'[v].left = worker[v].left
                            /\ v # w => worker'[v] = worker[v]
      /\ worker'[w].at = at /\ worker'[w].to = to
  BY <1>1 DEF WorkerMoves, WorkerType
<1>3. ReadableRecords' = ReadableRecords /\ \A r : Targets(r)' = Targets(r)
  BY Given
<1>4. Typed'
  BY <1>2, <1>3 DEF SplitIInv, Typed
<1>5. worker[w].at # "ended"
  BY DEF SplitIInv, AllWorkers, WorkerInStep
<1>6. ReaderInStep'
  BY <1>2, <1>5 DEF SplitIInv, ReaderInStep, WorkersEnded, Current, Records,
                    RecordsOf, Files
<1>7. RecordChInStep'
  BY DEF SplitIInv, RecordChInStep, Unread
<1>8. ASSUME NEW v \in Workers PROVE WorkerInStep(v)'
  <2>1. WorkerInStep(v) /\ WorkerInStep(w)
    BY DEF SplitIInv, AllWorkers
  <2>2. CASE v # w
    BY <1>2, <1>3, <2>1, <2>2 DEF WorkerInStep, Unread
  <2>3. CASE v = w
    BY <1>2, <1>3, <2>1, <2>3 DEF WorkerInStep, Unread
  <2> QED
    BY <2>2, <2>3
<1>9. OutputStates'
  BY OutputsRest
<1>10. OutputContents' /\ AllRecords'
  BY <1>2, NothingMoved DEF Unread, Pending, SplitIInv, Typed
<1> QED
  BY <1>4, <1>6, <1>7, <1>8, <1>9, <1>10 DEF SplitIInv, AllWorkers

(* Looking for the channel of an output, up to finding it; or the end.     *)
LEMMA LookKeeps ==
  ASSUME SplitIInv, NEW w \in Workers,
         WorkerEnds(w) \/ FirstLook(w) \/ Lock(w) \/ SecondLook(w)
  PROVE  SplitIInv'
<1>1. /\ UNCHANGED <<program, damage, reader, recordCh, main, outCh, writer, written>>
  BY DEF WorkerEnds, FirstLook, Lock, SecondLook, KeepOutputs
<1>2. worker \in [Workers -> WorkerType] /\ WorkerInStep(w)
  BY DEF SplitIInv, Typed, AllWorkers
<1>3. worker[w].to \in Outputs \cup {Nobody}
  BY <1>2 DEF WorkerType
<1>4. CASE WorkerEnds(w)
  <2>1. WorkerMoves(w, "ended", worker[w].to)
    BY <1>2, <1>4 DEF WorkerEnds, WorkerMoves, WorkerType
  <2> QED
    BY <1>1, <1>3, <1>4, <2>1, MoveKeeps DEF WorkerEnds
<1>5. CASE FirstLook(w)
  <2>1. PICK o \in worker[w].left :
          worker' = [worker EXCEPT ![w].to = o,
                                   ![w].at = IF o \in DOMAIN outCh THEN "send" ELSE "lock"]
    BY <1>5 DEF FirstLook
  <2>2. PICK at \in {"lock", "send"} : at = IF o \in DOMAIN outCh THEN "send" ELSE "lock"
    OBVIOUS
  <2>3. worker' = [worker EXCEPT ![w].to = o, ![w].at = at]
    BY <2>1, <2>2
  <2>4. WorkerMoves(w, at, o)
    BY <1>2, <2>3 DEF WorkerMoves, WorkerType
  <2> QED
    BY <1>1, <2>4, MoveKeeps
<1>6. CASE Lock(w)
  <2>1. WorkerMoves(w, "locked", worker[w].to)
    BY <1>2, <1>6 DEF Lock, WorkerMoves, WorkerType
  <2>2. worker[w].to \in worker[w].left
    BY <1>2, <1>6 DEF Lock, WorkerInStep
  <2> QED
    BY <1>1, <2>1, <2>2, MoveKeeps
<1>7. CASE SecondLook(w)
  <2>1. WorkerMoves(w, "send", worker[w].to)
    BY <1>2, <1>7 DEF SecondLook, WorkerMoves, WorkerType
  <2>2. worker[w].to \in worker[w].left
    BY <1>2, <1>7 DEF SecondLook, WorkerInStep
  <2> QED
    BY <1>1, <2>1, <2>2, MoveKeeps
<1> QED
  BY <1>4, <1>5, <1>6, <1>7

(* A worker takes a record from the channel.                               *)
LEMMA TakeRecordKeeps ==
  ASSUME SplitIInv, NEW w \in Workers, TakeRecord(w) PROVE SplitIInv'
<1> DEFINE h == Head(recordCh)
<1>1. /\ UNCHANGED <<program, damage, reader, main, outCh, writer, written>>
      /\ worker[w].at = "idle" /\ recordCh # <<>>
      /\ worker' = [worker EXCEPT ![w] =
           [@ EXCEPT !.at = "lookup", !.record = h, !.left = Targets(h)]]
      /\ recordCh' = Tail(recordCh)
  BY DEF TakeRecord, KeepOutputs
<1>2. /\ worker \in [Workers -> WorkerType] /\ worker[w].left = {}
      /\ recordCh \in Seq(ReadableRecords) /\ Distinct(recordCh)
      /\ \A i \in DOMAIN recordCh :
           recordCh[i][1] = reader.file /\ ~ Unread(recordCh[i])
      /\ reader.file \in Nat
  BY <1>1 DEF SplitIInv, Typed, AllWorkers, WorkerInStep, RecordChInStep
<1>3. /\ ReadableRecords' = ReadableRecords
      /\ \A r : Targets(r)' = Targets(r)
      /\ \A o : Sound(o)' <=> Sound(o)
  BY <1>1, Given
<1>4. \A i, j \in DOMAIN recordCh : i < j => recordCh[i][1] <= recordCh[j][1]
  BY <1>2
<1>5. /\ Tail(recordCh) \in Seq(ReadableRecords) /\ Distinct(Tail(recordCh))
      /\ h \in ReadableRecords /\ Holds(recordCh, h)
      /\ \A r : Holds(Tail(recordCh), r) <=> Holds(recordCh, r) /\ r # h
      /\ \A j \in DOMAIN Tail(recordCh) :
           \E i \in DOMAIN recordCh : Tail(recordCh)[j] = recordCh[i]
      /\ \E i \in DOMAIN recordCh : h = recordCh[i]
  BY <1>1, <1>2, <1>4, TakeFirst DEF ByFile
<1>6. h[1] = reader.file /\ ~ Unread(h)
  BY <1>2, <1>5
<1>7. Targets(h) # {} /\ Targets(h) \subseteq Outputs
  BY <1>5, SomeTarget
<1> HIDE DEF h
<1>8. /\ worker' \in [Workers -> WorkerType]
      /\ worker'[w].at = "lookup" /\ worker'[w].record = h
      /\ worker'[w].left = Targets(h)
      /\ \A v \in Workers : v # w => worker'[v] = worker[v]
  <2>1. h \in Records
    BY <1>5, RecordParts
  <2> QED
    BY <1>1, <1>2, <1>7, <2>1 DEF WorkerType
<1>9. Typed'
  BY <1>1, <1>3, <1>5, <1>8 DEF SplitIInv, Typed
<1>10. ReaderInStep'
  <2>1. reader.state # "opening" /\ main \notin {"closing", "done"}
    BY <1>1, WorkerRuns
  <2>2. \A v \in Workers : worker'[v].at = "ended" => worker[v].at = "ended"
    BY <1>8
  <2>3. \A v \in Workers : worker[v].at # "ended"
    BY <1>1 DEF SplitIInv, ReaderInStep
  <2> QED
    BY <1>1, <2>1, <2>2, <2>3 DEF SplitIInv, ReaderInStep, Current, Records,
                                  RecordsOf, Files
<1>11. RecordChInStep'
  BY <1>1, <1>2, <1>5 DEF RecordChInStep, Unread
<1>12. ASSUME NEW v \in Workers PROVE WorkerInStep(v)'
  <2>1. CASE v = w
    BY <1>1, <1>3, <1>5, <1>6, <1>7, <1>8, <2>1 DEF WorkerInStep, Unread
  <2>2. CASE v # w
    BY <1>1, <1>3, <1>8, <2>2 DEF SplitIInv, AllWorkers, WorkerInStep, Unread
  <2> QED
    BY <2>1, <2>2
<1>13. OutputStates'
  BY <1>1, OutputsRest
<1>14. \A v \in Workers, r \in ReadableRecords, o \in Outputs :
         Pending(v, r, o)' <=>
           Pending(v, r, o) \/ (v = w /\ r = h /\ o \in Targets(h))
  BY <1>2, <1>8 DEF Pending
<1>15. \A r, o : Delivered(r, o)' <=> Delivered(r, o)
  BY <1>1 DEF Delivered, InChannel
<1>16. OutputContents'
  BY <1>1, <1>3, <1>15 DEF SplitIInv, OutputContents, OutputInOrder
<1>17. ASSUME NEW r \in ReadableRecords, NEW o \in Outputs PROVE RecordInPlace(r, o)'
  <2>1. RecordInPlace(r, o) /\ RecordInPlace(h, o)
    BY <1>5 DEF SplitIInv, AllRecords
  <2>2. Unread(r)' <=> Unread(r)
    BY <1>1 DEF Unread
  <2>3. Holds(recordCh, r)' <=> Holds(recordCh, r) /\ r # h
    BY <1>1, <1>5
  <2>4. CASE r # h
    <3>1. \A v \in Workers : Pending(v, r, o)' <=> Pending(v, r, o)
      BY <1>14, <2>4
    <3>2. Upstream(r, o)' <=> Upstream(r, o)
      BY <2>2, <2>3, <2>4, <3>1 DEF Upstream
    <3> QED
      BY <1>3, <1>15, <2>1, <2>3, <2>4, <3>1, <3>2 DEF RecordInPlace
  <2>5. CASE r = h
    <3>1. \A v \in Workers : ~ Pending(v, r, o)
      BY <1>5, <2>1, <2>5 DEF RecordInPlace
    <3>2. \A v \in Workers : Pending(v, r, o)' <=> v = w /\ o \in Targets(r)
      BY <1>14, <2>5, <3>1
    <3>3. Upstream(r, o)
      BY <1>5, <2>5 DEF Upstream
    <3>4. o \in Targets(r) => Upstream(r, o)'
      BY <3>2 DEF Upstream
    <3> QED
      BY <1>3, <1>15, <2>1, <2>3, <2>5, <3>2, <3>3, <3>4 DEF RecordInPlace
  <2> QED
    BY <2>4, <2>5
<1> QED
  BY <1>3, <1>9, <1>10, <1>11, <1>12, <1>13, <1>16, <1>17
     DEF SplitIInv, AllWorkers, AllRecords

(* A worker is done with an output.                                        *)
LEMMA TargetDone ==
  ASSUME SplitIInv, NEW w \in Workers, NEW o \in worker[w].left, NextTarget(w, o),
         UNCHANGED <<program, damage, reader, recordCh, main>>
  PROVE  /\ worker' \in [Workers -> WorkerType]
         /\ ReaderInStep' /\ RecordChInStep' /\ AllWorkers'
         /\ \A v \in Workers : \A r, p :
              Pending(v, r, p)' <=> Pending(v, r, p) /\ ~ (v = w /\ p = o)
<1>1. /\ worker \in [Workers -> WorkerType]
      /\ worker[w].at \notin {"idle", "ended"} /\ o \in Outputs
  BY DEF SplitIInv, Typed, AllWorkers, WorkerInStep, WorkerType
<1> DEFINE rest == [worker[w] EXCEPT !.at = "lookup", !.left = @ \ {o}]
           then == IF worker[w].left = {o} THEN Idle ELSE rest
<1>2. worker' = [worker EXCEPT ![w] = then]
  BY DEF NextTarget
<1>3. /\ worker' \in [Workers -> WorkerType]
      /\ \A v \in Workers : v # w => worker'[v] = worker[v]
      /\ worker'[w].left = worker[w].left \ {o}
      /\ worker'[w].at = IF worker[w].left = {o} THEN "idle" ELSE "lookup"
      /\ worker'[w].left # {} => worker'[w].record = worker[w].record
  <2>1. worker[w] \in WorkerType
    BY <1>1
  <2>2. /\ rest \in WorkerType /\ rest.at = "lookup"
        /\ rest.left = worker[w].left \ {o} /\ rest.record = worker[w].record
    BY <2>1 DEF WorkerType
  <2>3. /\ Idle \in WorkerType /\ Idle.at = "idle" /\ Idle.left = {}
    BY DEF WorkerType, Idle
  <2> HIDE DEF rest
  <2>4. /\ then \in WorkerType /\ then.left = worker[w].left \ {o}
        /\ then.at = IF worker[w].left = {o} THEN "idle" ELSE "lookup"
        /\ then.left # {} => then.record = worker[w].record
    BY <2>2, <2>3
  <2> HIDE DEF then
  <2> QED
    BY <1>1, <1>2, <2>4
<1>4. ReadableRecords' = ReadableRecords /\ \A r : Targets(r)' = Targets(r)
  BY Given
<1>5. ReaderInStep'
  <2>1. reader.state # "opening" /\ main \notin {"closing", "done"}
    BY <1>1, WorkerRuns
  <2>2. \A v \in Workers : worker'[v].at = "ended" => worker[v].at = "ended"
    BY <1>3
  <2> QED
    BY <2>1, <2>2 DEF SplitIInv, ReaderInStep, Current, Records, RecordsOf,
       Files
<1>6. RecordChInStep'
  BY DEF SplitIInv, RecordChInStep, Unread
<1>7. ASSUME NEW v \in Workers PROVE WorkerInStep(v)'
  <2>1. WorkerInStep(v)
    BY DEF SplitIInv, AllWorkers
  <2>2. CASE v = w
    BY <1>1, <1>3, <1>4, <2>1, <2>2 DEF WorkerInStep, Unread
  <2>3. CASE v # w
    BY <1>3, <1>4, <2>1, <2>3 DEF WorkerInStep, Unread
  <2> QED
    BY <2>2, <2>3
<1>8. \A v \in Workers : \A r, p :
        Pending(v, r, p)' <=> Pending(v, r, p) /\ ~ (v = w /\ p = o)
  BY <1>3 DEF Pending
<1> QED
  BY <1>3, <1>5, <1>6, <1>7, <1>8 DEF AllWorkers

(* It has sent the record ...                                              *)
LEMMA SendRecordKeeps ==
  ASSUME SplitIInv, NEW w \in Workers, NEW o \in worker[w].left, SendTo(w, o),
         UNCHANGED <<program, damage, reader, recordCh, main, writer, written>>
  PROVE  SplitIInv'
<1> DEFINE r0 == worker[w].record
<1>1. /\ o \in DOMAIN outCh /\ NextTarget(w, o)
      /\ outCh' = [outCh EXCEPT ![o] = Append(@, r0)]
  BY DEF SendTo
<1>2. /\ worker' \in [Workers -> WorkerType]
      /\ ReaderInStep' /\ RecordChInStep' /\ AllWorkers'
      /\ \A v \in Workers : \A r, p :
           Pending(v, r, p)' <=> Pending(v, r, p) /\ ~ (v = w /\ p = o)
  BY <1>1, TargetDone
<1>3. /\ o \in Outputs /\ worker[w].at # "ended"
      /\ r0 \in ReadableRecords /\ r0[1] = reader.file /\ ~ Unread(r0)
      /\ o \in Targets(r0) /\ Pending(w, r0, o)
      /\ outCh[o] \in Seq(ReadableRecords) /\ reader.file \in Nat
      /\ written[o] \in Seq(ReadableRecords)
  BY <1>1 DEF SplitIInv, Typed, AllWorkers, WorkerInStep, WorkerType, Pending
<1>4. /\ ReadableRecords' = ReadableRecords
      /\ \A r : Targets(r)' = Targets(r)
      /\ \A p : Sound(p)' <=> Sound(p)
  BY Given
<1>5. main \notin {"closing", "done"}
  BY <1>3, WorkerRuns
<1> HIDE DEF r0
<1>6. OutputInOrder(o) /\ RecordInPlace(r0, o)
  BY <1>3 DEF SplitIInv, OutputContents, AllRecords
<1>7. Upstream(r0, o) /\ ~ Delivered(r0, o)
  BY <1>3, <1>6 DEF Upstream, RecordInPlace
<1>8. ~ Holds(outCh[o], r0) /\ ~ Holds(written[o], r0)
  BY <1>1, <1>7 DEF Delivered, InChannel
<1>9. /\ \A i \in DOMAIN outCh[o] : outCh[o][i][1] <= r0[1]
      /\ \A i \in DOMAIN written[o] : written[o][i][1] <= r0[1]
  <2>1. \A r \in ReadableRecords : Delivered(r, o) => r[1] <= r0[1]
    BY <1>3, <1>6 DEF OutputInOrder
  <2>2. ASSUME NEW i \in DOMAIN outCh[o] PROVE outCh[o][i][1] <= r0[1]
    <3>1. outCh[o][i] \in ReadableRecords /\ Delivered(outCh[o][i], o)
      BY <1>1, <1>3 DEF Delivered, InChannel, Holds
    <3> QED
      BY <2>1, <3>1
  <2>3. ASSUME NEW i \in DOMAIN written[o] PROVE written[o][i][1] <= r0[1]
    <3>1. written[o][i] \in ReadableRecords /\ Delivered(written[o][i], o)
      BY <1>3 DEF Delivered, Holds
    <3> QED
      BY <2>1, <3>1
  <2> QED
    BY <2>2, <2>3
<1>10. Distinct(outCh[o]) /\ ByFile(outCh[o])
  BY <1>1, <1>6 DEF OutputInOrder
<1>11. /\ Append(outCh[o], r0) \in Seq(ReadableRecords)
       /\ Distinct(Append(outCh[o], r0)) /\ ByFile(Append(outCh[o], r0))
       /\ \A r : Holds(Append(outCh[o], r0), r) <=> Holds(outCh[o], r) \/ r = r0
       /\ \A i \in DOMAIN Append(outCh[o], r0) :
            Append(outCh[o], r0)[i] = r0
              \/ (i \in DOMAIN outCh[o] /\ Append(outCh[o], r0)[i] = outCh[o][i])
  BY <1>3, <1>8, <1>9, <1>10, PutLast
<1>12. /\ DOMAIN outCh' = DOMAIN outCh /\ outCh'[o] = Append(outCh[o], r0)
       /\ \A p \in DOMAIN outCh : p # o => outCh'[p] = outCh[p]
  BY <1>1
<1>13. Typed'
  BY <1>2, <1>4, <1>11, <1>12 DEF SplitIInv, Typed
<1>14. ASSUME NEW p \in Outputs PROVE OutputInStep(p)'
  <2>1. OutputInStep(p)
    BY DEF SplitIInv, OutputStates
  <2>2. Sound(p) => writer[p] # "ended"
    BY <1>5, <2>1 DEF OutputInStep
  <2> QED
    BY <1>4, <1>12, <2>1, <2>2 DEF OutputInStep
<1>15. \A r, p : Delivered(r, p)' <=> Delivered(r, p) \/ (r = r0 /\ p = o)
  BY <1>1, <1>11, <1>12 DEF Delivered, InChannel
<1>16. ASSUME NEW p \in Outputs PROVE OutputInOrder(p)'
  <2>1. OutputInOrder(p)
    BY DEF SplitIInv, OutputContents
  <2>2. \A r \in ReadableRecords : Delivered(r, p)' =>
          r[1] <= reader.file /\ p \in Targets(r)
    BY <1>3, <1>15, <2>1 DEF OutputInOrder
  <2>3. CASE p # o
    BY <1>4, <1>12, <2>1, <2>2, <2>3 DEF OutputInOrder
  <2>4. CASE p = o
    <3>1. ASSUME NEW i \in DOMAIN written[o], NEW j \in DOMAIN Append(outCh[o], r0)
          PROVE  /\ written[o][i] # Append(outCh[o], r0)[j]
                 /\ written[o][i][1] <= Append(outCh[o], r0)[j][1]
      <4>1. CASE Append(outCh[o], r0)[j] = r0
        BY <1>8, <1>9, <4>1 DEF Holds
      <4>2. CASE j \in DOMAIN outCh[o] /\ Append(outCh[o], r0)[j] = outCh[o][j]
        BY <1>1, <1>6, <4>2 DEF OutputInOrder
      <4> QED
        BY <1>11, <4>1, <4>2
    <3>2. /\ Distinct(outCh'[o]) /\ ByFile(outCh'[o])
          /\ \A i \in DOMAIN written[o], j \in DOMAIN outCh'[o] :
               /\ written[o][i] # outCh'[o][j]
               /\ written[o][i][1] <= outCh'[o][j][1]
      BY <1>11, <1>12, <3>1
    <3> QED
      BY <1>4, <2>1, <2>2, <2>4, <3>2 DEF OutputInOrder
  <2> QED
    BY <2>3, <2>4
<1>17. ASSUME NEW r \in ReadableRecords, NEW p \in Outputs PROVE RecordInPlace(r, p)'
  <2>1. RecordInPlace(r, p)
    BY DEF SplitIInv, AllRecords
  <2>2. /\ Unread(r)' <=> Unread(r)
        /\ Holds(recordCh, r)' <=> Holds(recordCh, r)
    BY DEF Unread
  <2>3. CASE r = r0 /\ p = o
    <3>1. \A v \in Workers : ~ Pending(v, r, p)'
      BY <1>2, <1>3, <2>1, <2>3 DEF RecordInPlace
    <3>2. ~ Upstream(r, p)'
      BY <1>3, <2>1, <2>2, <2>3, <3>1 DEF Upstream, RecordInPlace
    <3> QED
      BY <1>15, <2>3, <3>1, <3>2 DEF RecordInPlace
  <2>4. CASE r # r0 \/ p # o
    <3>1. \A v \in Workers : Pending(v, r, p)' <=> Pending(v, r, p)
      BY <1>2, <2>4 DEF Pending, r0
    <3>2. Upstream(r, p)' <=> Upstream(r, p)
      BY <2>2, <3>1 DEF Upstream
    <3> QED
      BY <1>4, <1>15, <2>1, <2>2, <2>4, <3>1, <3>2 DEF RecordInPlace
  <2> QED
    BY <2>3, <2>4
<1> QED
  BY <1>2, <1>4, <1>13, <1>14, <1>16, <1>17
     DEF SplitIInv, OutputStates, OutputContents, AllRecords

(* ... or given it up, as the output is in trouble.                        *)
LEMMA GiveUpKeeps ==
  ASSUME SplitIInv, NEW w \in Workers, NEW o \in worker[w].left, NextTarget(w, o),
         ~ Sound(o),
         UNCHANGED <<program, damage, reader, recordCh, main, outCh, writer, written>>
  PROVE  SplitIInv'
<1>1. /\ worker' \in [Workers -> WorkerType]
      /\ ReaderInStep' /\ RecordChInStep' /\ AllWorkers'
      /\ \A v \in Workers : \A r, p :
           Pending(v, r, p)' <=> Pending(v, r, p) /\ ~ (v = w /\ p = o)
  BY TargetDone
<1>2. /\ ReadableRecords' = ReadableRecords
      /\ \A r : Targets(r)' = Targets(r)
      /\ \A p : Sound(p)' <=> Sound(p)
  BY Given
<1>3. Typed'
  BY <1>1, <1>2 DEF SplitIInv, Typed
<1>4. OutputStates'
  BY OutputsRest
<1>5. \A r, p : Delivered(r, p)' <=> Delivered(r, p)
  BY DEF Delivered, InChannel
<1>6. OutputContents'
  BY <1>2, <1>5 DEF SplitIInv, OutputContents, OutputInOrder
<1>7. ASSUME NEW r \in ReadableRecords, NEW p \in Outputs PROVE RecordInPlace(r, p)'
  <2>1. RecordInPlace(r, p)
    BY DEF SplitIInv, AllRecords
  <2>2. /\ Unread(r)' <=> Unread(r)
        /\ Holds(recordCh, r)' <=> Holds(recordCh, r)
    BY DEF Unread
  <2>3. /\ Upstream(r, p)' => Upstream(r, p)
        /\ p # o => (Upstream(r, p)' <=> Upstream(r, p))
    BY <1>1, <2>2 DEF Upstream
  <2> QED
    BY <1>1, <1>2, <1>5, <2>1, <2>2, <2>3 DEF RecordInPlace
<1> QED
  BY <1>1, <1>2, <1>3, <1>4, <1>6, <1>7 DEF SplitIInv, AllRecords

(* Every step of a worker that is looking for its output, or sending.      *)
LEMMA TargetKeeps ==
  ASSUME SplitIInv, NEW w \in Workers,
         PartitionRecord(w) \/ SendRecord(w) \/ CannotOpen(w)
  PROVE  SplitIInv'
<1>1. WorkerInStep(w) /\ worker[w].left \subseteq Outputs
  BY DEF SplitIInv, Typed, AllWorkers, WorkerType
<1>2. CASE PartitionRecord(w)
  <2>1. /\ UNCHANGED <<program, damage, reader, recordCh, writer, written, main>>
        /\ program = "partition"
    BY <1>2 DEF PartitionRecord
  <2>2. PICK o \in worker[w].left :
          \/ SendTo(w, o)
          \/ o \notin DOMAIN outCh /\ NextTarget(w, o) /\ UNCHANGED outCh
    BY <1>2 DEF PartitionRecord
  <2>3. CASE SendTo(w, o)
    BY <2>1, <2>3, SendRecordKeeps
  <2>4. CASE o \notin DOMAIN outCh /\ NextTarget(w, o) /\ UNCHANGED outCh
    <3>1. OutputInStep(o)
      BY <1>1 DEF SplitIInv, OutputStates
    <3>2. ~ Sound(o)
      BY <2>1, <2>4, <3>1 DEF OutputInStep, Sound
    <3> QED
      BY <2>1, <2>4, <3>2, GiveUpKeeps
  <2> QED
    BY <2>2, <2>3, <2>4
<1>3. CASE SendRecord(w)
  <2>1. worker[w].to \in worker[w].left
    BY <1>1, <1>3 DEF SendRecord, WorkerInStep
  <2> QED
    BY <1>3, <2>1, SendRecordKeeps DEF SendRecord
<1>4. CASE CannotOpen(w)
  <2>1. worker[w].to \in worker[w].left
    BY <1>1, <1>4 DEF CannotOpen, WorkerInStep
  <2>2. ~ Sound(worker[w].to)
    BY <1>4 DEF CannotOpen, Sound
  <2> QED
    BY <1>4, <2>1, <2>2, GiveUpKeeps DEF CannotOpen, KeepOutputs
<1> QED
  BY <1>2, <1>3, <1>4

(* The file of an output is opened: it is the first time.                  *)
LEMMA OutputOpenKeeps ==
  ASSUME SplitIInv, NEW w \in Workers, OpenOutput(w) PROVE SplitIInv'
<1> DEFINE o == worker[w].to
<1>1. /\ UNCHANGED <<program, damage, reader, recordCh, main>>
      /\ worker[w].at = "locked" /\ o \notin DOMAIN outCh
      /\ outCh' = WithChannel(o)
      /\ writer' = [writer EXCEPT ![o] = "writing"]
      /\ written' = [written EXCEPT ![o] = <<>>]
      /\ worker' = [worker EXCEPT ![w].at = "send"]
  BY DEF OpenOutput, NotOpened
<1>2. /\ worker \in [Workers -> WorkerType]
      /\ o \in worker[w].left /\ o \in Outputs
      /\ writer \in [Outputs -> {"none", "writing", "broken", "ended"}]
      /\ written \in [Outputs -> Seq(ReadableRecords)]
      /\ DOMAIN outCh \subseteq Outputs
  BY <1>1 DEF SplitIInv, Typed, AllWorkers, WorkerInStep, WorkerType
<1>3. /\ ReadableRecords' = ReadableRecords
      /\ \A r : Targets(r)' = Targets(r)
      /\ \A p : Sound(p)' <=> Sound(p)
  BY <1>1, Given
<1>4. main \notin {"closing", "done"}
  BY <1>1, WorkerRuns
<1>5. written[o] = <<>>
  BY <1>1, <1>2 DEF SplitIInv, OutputStates, OutputInStep
<1>6. written' = written
  <2>1. DOMAIN written' = Outputs /\ \A p \in Outputs : written'[p] = written[p]
    BY <1>1, <1>2, <1>5
  <2> QED
    BY <1>1, <1>2, <2>1
<1> HIDE DEF o
<1>7. /\ DOMAIN outCh' = DOMAIN outCh \cup {o} /\ outCh'[o] = <<>>
      /\ \A p \in DOMAIN outCh : outCh'[p] = outCh[p]
  BY <1>1 DEF WithChannel
<1>8. /\ worker' \in [Workers -> WorkerType]
      /\ \A v \in Workers : /\ worker'[v].record = worker[v].record
                            /\ worker'[v].left = worker[v].left
                            /\ worker'[v].to = worker[v].to
                            /\ v # w => worker'[v].at = worker[v].at
      /\ worker'[w].at = "send"
  BY <1>1, <1>2 DEF WorkerType
<1>9. Typed'
  <2>1. \A p \in DOMAIN outCh' : outCh'[p] \in Seq(ReadableRecords)
    <3>1. <<>> \in Seq(ReadableRecords)
      BY EmptySeq
    <3> QED
      BY <1>7, <3>1 DEF SplitIInv, Typed
  <2>2. /\ writer' \in [Outputs -> {"none", "writing", "broken", "ended"}]
        /\ DOMAIN outCh' \subseteq Outputs
    BY <1>1, <1>2, <1>7
  <2> QED
    BY <1>1, <1>2, <1>3, <1>6, <1>8, <2>1, <2>2 DEF SplitIInv, Typed
<1>10. ReaderInStep'
  <2>1. reader.state # "opening"
    BY <1>1, WorkerRuns
  <2>2. \A v \in Workers : worker'[v].at = "ended" => worker[v].at = "ended"
    BY <1>8
  <2> QED
    BY <1>1, <1>4, <2>1, <2>2
       DEF SplitIInv, ReaderInStep, Current, Records, RecordsOf, Files
<1>11. RecordChInStep'
  BY <1>1 DEF SplitIInv, RecordChInStep, Unread
<1>12. ASSUME NEW v \in Workers PROVE WorkerInStep(v)'
  <2>1. WorkerInStep(v)
    BY DEF SplitIInv, AllWorkers
  <2>2. CASE v = w
    BY <1>1, <1>2, <1>3, <1>8, <2>1, <2>2 DEF WorkerInStep, Unread
  <2>3. CASE v # w
    BY <1>1, <1>3, <1>8, <2>1, <2>3 DEF WorkerInStep, Unread
  <2> QED
    BY <2>2, <2>3
<1>13. ASSUME NEW p \in Outputs PROVE OutputInStep(p)'
  <2>1. OutputInStep(p)
    BY DEF SplitIInv, OutputStates
  <2>2. CASE p = o
    BY <1>1, <1>2, <1>4, <1>7, <2>2 DEF OutputInStep
  <2>3. CASE p # o
    <3>1. writer'[p] = writer[p] /\ (p \in DOMAIN outCh' <=> p \in DOMAIN outCh)
      BY <1>1, <1>2, <1>7, <2>3
    <3>2. Sound(p) => writer[p] # "ended"
      BY <1>4, <2>1 DEF OutputInStep
    <3> QED
      BY <1>1, <1>3, <1>4, <1>6, <2>1, <3>1, <3>2 DEF OutputInStep
  <2> QED
    BY <2>2, <2>3
<1>14. \A r, p : Delivered(r, p)' <=> Delivered(r, p)
  BY <1>1, <1>6, <1>7, NothingYet DEF Delivered, InChannel
<1>15. ASSUME NEW p \in Outputs PROVE OutputInOrder(p)'
  <2>1. OutputInOrder(p)
    BY DEF SplitIInv, OutputContents
  <2>2. CASE p = o
    BY <1>1, <1>3, <1>6, <1>7, <1>14, <2>1, <2>2, NothingYet DEF OutputInOrder
  <2>3. CASE p # o
    BY <1>1, <1>3, <1>6, <1>7, <1>14, <2>1, <2>3 DEF OutputInOrder
  <2> QED
    BY <2>2, <2>3
<1>16. \A v \in Workers : \A r, p : Pending(v, r, p)' <=> Pending(v, r, p)
  BY <1>8 DEF Pending
<1>17. \A r, p : /\ Upstream(r, p)' <=> Upstream(r, p)
                 /\ Holds(recordCh, r)' <=> Holds(recordCh, r)
  BY <1>1, <1>16 DEF Upstream, Unread
<1>18. AllRecords'
  BY <1>3, <1>14, <1>16, <1>17 DEF SplitIInv, AllRecords, RecordInPlace
<1> QED
  BY <1>9, <1>10, <1>11, <1>12, <1>13, <1>15, <1>18
     DEF SplitIInv, AllWorkers, OutputStates, OutputContents

----------------------------------------------------------------------------
(* The writers.                                                            *)

(* The parts that no step of a writer has an effect on.                    *)
LEMMA WriterAlone ==
  ASSUME SplitIInv, UNCHANGED <<program, damage, reader, recordCh, worker, main>>
  PROVE  ReaderInStep' /\ RecordChInStep' /\ AllWorkers'
<1>1. ReaderInStep'
  BY DEF SplitIInv, ReaderInStep, WorkersEnded, Current, Records, RecordsOf,
     Files
<1>2. RecordChInStep'
  BY DEF SplitIInv, RecordChInStep, Unread
<1> QED
  BY <1>1, <1>2, WorkersRest

(* A record is written.                                                    *)
LEMMA WriteKeeps ==
  ASSUME SplitIInv, NEW o \in Outputs, WriteRecord(o) PROVE SplitIInv'
<1> DEFINE h == Head(outCh[o])
           rest == Tail(outCh[o])
<1>1. /\ UNCHANGED <<program, damage, reader, recordCh, worker, main, writer>>
      /\ writer[o] = "writing" /\ outCh[o] # <<>>
      /\ outCh' = [outCh EXCEPT ![o] = rest]
      /\ written' = [written EXCEPT ![o] = Append(written[o], h)]
  BY DEF WriteRecord
<1>2. OutputInStep(o) /\ OutputInOrder(o)
  BY DEF SplitIInv, OutputStates, OutputContents
<1>3. /\ o \in DOMAIN outCh /\ outCh[o] \in Seq(ReadableRecords)
      /\ written \in [Outputs -> Seq(ReadableRecords)]
      /\ written[o] \in Seq(ReadableRecords)
      /\ Distinct(outCh[o]) /\ ByFile(outCh[o])
      /\ Distinct(written[o]) /\ ByFile(written[o])
      /\ \A i \in DOMAIN written[o], j \in DOMAIN outCh[o] :
           written[o][i] # outCh[o][j] /\ written[o][i][1] <= outCh[o][j][1]
  BY <1>1, <1>2 DEF SplitIInv, Typed, OutputInStep, OutputInOrder
<1>4. /\ rest \in Seq(ReadableRecords) /\ Distinct(rest) /\ ByFile(rest)
      /\ h \in ReadableRecords /\ Holds(outCh[o], h)
      /\ \A r : Holds(rest, r) <=> Holds(outCh[o], r) /\ r # h
      /\ \A j \in DOMAIN rest : h[1] <= rest[j][1] /\ h # rest[j]
      /\ \A j \in DOMAIN rest : \E i \in DOMAIN outCh[o] : rest[j] = outCh[o][i]
      /\ \E i \in DOMAIN outCh[o] : h = outCh[o][i]
  BY <1>1, <1>3, TakeFirst
<1> HIDE DEF h, rest
<1>5. /\ ~ Holds(written[o], h)
      /\ \A i \in DOMAIN written[o] : written[o][i][1] <= h[1]
  BY <1>3, <1>4 DEF Holds
<1> DEFINE longer == Append(written[o], h)
<1>6. /\ longer \in Seq(ReadableRecords) /\ Distinct(longer) /\ ByFile(longer)
      /\ \A r : Holds(longer, r) <=> Holds(written[o], r) \/ r = h
      /\ \A i \in DOMAIN longer :
           longer[i] = h \/ (i \in DOMAIN written[o] /\ longer[i] = written[o][i])
  BY <1>3, <1>4, <1>5, PutLast
<1>7. ASSUME NEW i \in DOMAIN longer, NEW j \in DOMAIN rest
      PROVE  longer[i] # rest[j] /\ longer[i][1] <= rest[j][1]
  <2>1. CASE longer[i] = h
    BY <1>4, <2>1
  <2>2. CASE i \in DOMAIN written[o] /\ longer[i] = written[o][i]
    BY <1>3, <1>4, <2>2
  <2> QED
    BY <1>6, <2>1, <2>2
<1>8. /\ DOMAIN outCh' = DOMAIN outCh /\ outCh'[o] = rest
      /\ \A p \in DOMAIN outCh : p # o => outCh'[p] = outCh[p]
      /\ written' \in [Outputs -> Seq(ReadableRecords)]
      /\ written'[o] = longer
      /\ \A p \in Outputs : p # o => written'[p] = written[p]
  BY <1>1, <1>3, <1>6
<1> HIDE DEF longer
<1>9. /\ ReadableRecords' = ReadableRecords
      /\ \A r : Targets(r)' = Targets(r)
      /\ \A p : Sound(p)' <=> Sound(p)
  BY <1>1, Given
<1>10. Typed'
  BY <1>1, <1>4, <1>8, <1>9 DEF SplitIInv, Typed
<1>11. ASSUME NEW p \in Outputs PROVE OutputInStep(p)'
  <2>1. OutputInStep(p)
    BY DEF SplitIInv, OutputStates
  <2>2. CASE p = o
    BY <1>1, <1>3, <1>8, <1>9, <2>1, <2>2 DEF OutputInStep
  <2>3. CASE p # o
    <3>1. /\ p \in DOMAIN outCh' <=> p \in DOMAIN outCh
          /\ p \in DOMAIN outCh => outCh'[p] = outCh[p]
          /\ written'[p] = written[p] /\ writer'[p] = writer[p] /\ main' = main
          /\ program' = program /\ damage' = damage
      BY <1>1, <1>8, <2>3
    <3>2. writer[p] = "ended" => p \in DOMAIN outCh
      BY <2>1 DEF OutputInStep
    <3> QED
      BY <1>9, <2>1, <3>1, <3>2 DEF OutputInStep
  <2> QED
    BY <2>2, <2>3
<1>12. ASSUME NEW r, NEW p \in Outputs PROVE Delivered(r, p)' <=> Delivered(r, p)
  <2>1. CASE p = o
    BY <1>3, <1>4, <1>6, <1>8, <2>1 DEF Delivered, InChannel
  <2>2. CASE p # o
    BY <1>8, <2>2 DEF Delivered, InChannel
  <2> QED
    BY <2>1, <2>2
<1>13. ASSUME NEW p \in Outputs PROVE OutputInOrder(p)'
  <2>1. OutputInOrder(p)
    BY DEF SplitIInv, OutputContents
  <2>2. \A r \in ReadableRecords : Delivered(r, p)' =>
          r[1] <= reader'.file /\ p \in Targets(r)
    BY <1>1, <1>12, <2>1 DEF OutputInOrder
  <2>3. CASE p = o
    BY <1>4, <1>6, <1>7, <1>8, <1>9, <2>2, <2>3 DEF OutputInOrder
  <2>4. CASE p # o
    BY <1>8, <1>9, <2>1, <2>2, <2>4 DEF OutputInOrder
  <2> QED
    BY <2>3, <2>4
<1>14. \A r, p : /\ Upstream(r, p)' <=> Upstream(r, p)
                 /\ Holds(recordCh, r)' <=> Holds(recordCh, r)
                 /\ \A w : Pending(w, r, p)' <=> Pending(w, r, p)
  BY <1>1 DEF Upstream, Unread, Pending
<1>15. AllRecords'
  BY <1>9, <1>12, <1>14 DEF SplitIInv, AllRecords, RecordInPlace
<1> QED
  BY <1>1, <1>10, <1>11, <1>13, <1>15, WriterAlone
     DEF SplitIInv, OutputStates, OutputContents

(* A record of an output in trouble is dropped.                            *)
LEMMA DropKeeps ==
  ASSUME SplitIInv, NEW o \in Outputs, ~ Sound(o),
         NEW now \in {"writing", "broken", "ended"},
         writer[o] \in {"writing", "broken"}, writer[o] = "broken" => now = "broken",
         main = "done" => writer[o] # "writing",
         outCh[o] # <<>>,
         outCh' = [outCh EXCEPT ![o] = Tail(@)],
         writer' = [writer EXCEPT ![o] = now],
         UNCHANGED <<program, damage, reader, recordCh, worker, written, main>>
  PROVE  SplitIInv'
<1> DEFINE rest == Tail(outCh[o])
<1>1. OutputInStep(o) /\ OutputInOrder(o)
  BY DEF SplitIInv, OutputStates, OutputContents
<1>2. /\ o \in DOMAIN outCh /\ outCh[o] \in Seq(ReadableRecords)
      /\ writer \in [Outputs -> {"none", "writing", "broken", "ended"}]
      /\ Distinct(outCh[o]) /\ ByFile(outCh[o])
      /\ main # "done"
  BY <1>1 DEF SplitIInv, Typed, OutputInStep, OutputInOrder
<1>3. /\ rest \in Seq(ReadableRecords) /\ Distinct(rest) /\ ByFile(rest)
      /\ \A r : Holds(rest, r) => Holds(outCh[o], r)
      /\ \A j \in DOMAIN rest : \E i \in DOMAIN outCh[o] : rest[j] = outCh[o][i]
  BY <1>2, TakeFirst
<1>4. /\ DOMAIN outCh' = DOMAIN outCh /\ outCh'[o] = rest
      /\ \A p \in DOMAIN outCh : p # o => outCh'[p] = outCh[p]
      /\ writer' \in [Outputs -> {"none", "writing", "broken", "ended"}]
      /\ writer'[o] = now
      /\ \A p \in Outputs : p # o => writer'[p] = writer[p]
  BY <1>2
<1> HIDE DEF rest
<1>5. /\ ReadableRecords' = ReadableRecords
      /\ \A r : Targets(r)' = Targets(r)
      /\ \A p : Sound(p)' <=> Sound(p)
  BY Given
<1>6. Typed'
  BY <1>3, <1>4, <1>5 DEF SplitIInv, Typed
<1>7. ASSUME NEW p \in Outputs PROVE OutputInStep(p)'
  <2>1. OutputInStep(p)
    BY DEF SplitIInv, OutputStates
  <2>2. CASE p = o
    BY <1>2, <1>4, <1>5, <2>1, <2>2 DEF OutputInStep
  <2>3. CASE p # o
    <3>1. /\ p \in DOMAIN outCh' <=> p \in DOMAIN outCh
          /\ p \in DOMAIN outCh => outCh'[p] = outCh[p]
          /\ writer'[p] = writer[p]
      BY <1>4, <2>3
    <3>2. writer[p] = "ended" => p \in DOMAIN outCh
      BY <2>1 DEF OutputInStep
    <3> QED
      BY <1>5, <2>1, <3>1, <3>2 DEF OutputInStep
  <2> QED
    BY <2>2, <2>3
<1>8. ASSUME NEW r, NEW p \in Outputs
      PROVE  /\ Delivered(r, p)' => Delivered(r, p)
             /\ p # o => (Delivered(r, p)' <=> Delivered(r, p))
  <2>1. CASE p = o
    BY <1>2, <1>3, <1>4, <2>1 DEF Delivered, InChannel
  <2>2. CASE p # o
    BY <1>4, <2>2 DEF Delivered, InChannel
  <2> QED
    BY <2>1, <2>2
<1>9. ASSUME NEW p \in Outputs PROVE OutputInOrder(p)'
  <2>1. OutputInOrder(p)
    BY DEF SplitIInv, OutputContents
  <2>2. \A r \in ReadableRecords : Delivered(r, p)' =>
          r[1] <= reader.file /\ p \in Targets(r)
    BY <1>8, <2>1 DEF OutputInOrder
  <2>3. CASE p = o
    <3>1. \A i \in DOMAIN written[o], j \in DOMAIN rest :
            written[o][i] # rest[j] /\ written[o][i][1] <= rest[j][1]
      BY <1>1, <1>2, <1>3 DEF OutputInOrder
    <3>2. /\ Distinct(outCh'[o]) /\ ByFile(outCh'[o])
          /\ \A i \in DOMAIN written[o], j \in DOMAIN outCh'[o] :
               /\ written[o][i] # outCh'[o][j]
               /\ written[o][i][1] <= outCh'[o][j][1]
      BY <1>3, <1>4, <3>1
    <3> QED
      BY <1>5, <2>1, <2>2, <2>3, <3>2 DEF OutputInOrder
  <2>4. CASE p # o
    BY <1>4, <1>5, <2>1, <2>2, <2>4 DEF OutputInOrder
  <2> QED
    BY <2>3, <2>4
<1>10. \A r, p : /\ Upstream(r, p)' <=> Upstream(r, p)
                 /\ Holds(recordCh, r)' <=> Holds(recordCh, r)
                 /\ \A w : Pending(w, r, p)' <=> Pending(w, r, p)
  BY DEF Upstream, Unread, Pending
<1>11. ASSUME NEW r \in ReadableRecords, NEW p \in Outputs PROVE RecordInPlace(r, p)'
  <2>1. RecordInPlace(r, p)
    BY DEF SplitIInv, AllRecords
  <2> QED
    BY <1>5, <1>8, <1>10, <2>1 DEF RecordInPlace
<1> QED
  BY <1>5, <1>6, <1>7, <1>9, <1>11, WriterAlone
     DEF SplitIInv, OutputStates, OutputContents, AllRecords

(* A writer is at its end.                                                 *)
LEMMA WriterEndKeeps ==
  ASSUME SplitIInv, NEW o \in Outputs, WriterEnds(o) PROVE SplitIInv'
<1>1. /\ UNCHANGED <<program, damage, reader, recordCh, worker, outCh, written, main>>
      /\ main = "closing" /\ writer[o] \in {"writing", "broken"} /\ outCh[o] = <<>>
      /\ writer' = [writer EXCEPT ![o] = "ended"]
  BY DEF WriterEnds, Drained
<1>2. writer \in [Outputs -> {"none", "writing", "broken", "ended"}]
  BY DEF SplitIInv, Typed
<1>3. ReadableRecords' = ReadableRecords /\ \A p : Sound(p)' <=> Sound(p)
  BY <1>1, Given
<1>4. Typed'
  BY <1>1, <1>2, <1>3 DEF SplitIInv, Typed
<1>5. ASSUME NEW p \in Outputs PROVE OutputInStep(p)'
  <2>1. OutputInStep(p)
    BY DEF SplitIInv, OutputStates
  <2>2. CASE p = o
    BY <1>1, <1>2, <1>3, <2>1, <2>2 DEF OutputInStep
  <2>3. CASE p # o
    BY <1>1, <1>2, <1>3, <2>1, <2>3 DEF OutputInStep
  <2> QED
    BY <2>2, <2>3
<1>6. OutputContents' /\ AllRecords'
  BY <1>1, NothingMoved DEF Unread, Pending, SplitIInv, Typed
<1> QED
  BY <1>1, <1>4, <1>5, <1>6, WriterAlone DEF SplitIInv, OutputStates

----------------------------------------------------------------------------
(* The end, and the invariant.                                             *)

(* All files are read, or all outputs are closed.                          *)
LEMMA CloseKeeps ==
  ASSUME SplitIInv, CloseAll \/ AllClosed PROVE SplitIInv'
<1>1. /\ UNCHANGED <<program, damage, reader, recordCh, worker, outCh, writer, written>>
      /\ \/ main = "files" /\ main' = "closing" /\ reader.file \notin Files
         \/ /\ main = "closing" /\ main' = "done"
            /\ \A o \in Outputs : writer[o] \in {"none", "ended"}
  BY DEF CloseAll, AllClosed, KeepOutputs
<1>2. ReadableRecords' = ReadableRecords /\ \A p : Sound(p)' <=> Sound(p)
  BY <1>1, Given
<1>3. Typed'
  BY <1>1, <1>2 DEF SplitIInv, Typed
<1>4. ReaderInStep'
  BY <1>1 DEF SplitIInv, ReaderInStep, WorkersEnded, Current, Records,
     RecordsOf, Files
<1>5. RecordChInStep' /\ AllWorkers'
  BY <1>1, WorkersRest DEF SplitIInv, RecordChInStep, Unread
<1>6. ASSUME NEW p \in Outputs PROVE OutputInStep(p)'
  <2>1. OutputInStep(p)
    BY DEF SplitIInv, OutputStates
  <2> QED
    BY <1>1, <1>2, <2>1 DEF OutputInStep
<1>7. OutputContents' /\ AllRecords'
  BY <1>1, NothingMoved DEF Unread, Pending, SplitIInv, Typed
<1> QED
  BY <1>3, <1>4, <1>5, <1>6, <1>7 DEF SplitIInv, OutputStates

(* At the start every record is still to be read.                          *)
LEMMA SplitInitIInv ==
  ASSUME SplitInit PROVE SplitIInv
<1>1. /\ program \in {"partition", "paths"}
      /\ damage.noOpen \subseteq Outputs /\ damage.noWrite \subseteq Outputs
      /\ reader = [file |-> 1, next |-> 1, state |-> "opening"]
      /\ recordCh = <<>> /\ main = "files"
      /\ worker = [w \in Workers |-> [Idle EXCEPT !.at = "ended"]]
      /\ written = [o \in Outputs |-> <<>>]
  BY DEF SplitInit
<1> DEFINE opened == IF program = "paths" THEN {} ELSE Outputs \ damage.noOpen
<1>2. /\ outCh = [o \in opened |-> <<>>]
      /\ writer = [o \in Outputs |-> IF o \in opened THEN "writing" ELSE "none"]
      /\ opened \subseteq Outputs
      /\ program = "partition" => opened = Outputs \ damage.noOpen
  BY <1>1 DEF SplitInit
<1> HIDE DEF opened
<1>3. \A w \in Workers : /\ worker[w] \in WorkerType
                         /\ worker[w].at = "ended" /\ worker[w].left = {}
  BY <1>1 DEF Idle, WorkerType
<1>4. reader \in [file : Nat \ {0}, next : Nat \ {0},
                  state : {"opening", "reading", "waiting", "failed"}]
  <2>1. 1 \in Nat \ {0}
    OBVIOUS
  <2> QED
    BY <1>1, <2>1
<1>5. /\ DOMAIN outCh = opened /\ \A o \in opened : outCh[o] = <<>>
      /\ \A o \in Outputs : written[o] = <<>>
      /\ worker \in [Workers -> WorkerType]
      /\ \A o \in Outputs : writer[o] = IF o \in opened THEN "writing" ELSE "none"
  BY <1>1, <1>2, <1>3
<1>6. Typed
  BY <1>1, <1>2, <1>4, <1>5, NothingYet DEF Typed
<1>7. ReaderInStep
  BY <1>1, <1>3 DEF ReaderInStep, WorkersEnded
<1>8. RecordChInStep
  BY <1>1, NothingYet DEF RecordChInStep
<1>9. AllWorkers
  BY <1>3 DEF AllWorkers, WorkerInStep
<1>10. ASSUME NEW o \in Outputs PROVE OutputInStep(o)
  BY <1>1, <1>2, <1>5 DEF OutputInStep
<1>11. ASSUME NEW r, NEW o \in Outputs PROVE ~ Delivered(r, o)
  BY <1>5, NothingYet DEF Delivered, InChannel
<1>12. ASSUME NEW o \in Outputs PROVE OutputInOrder(o)
  BY <1>5, <1>11, NothingYet DEF OutputInOrder
<1>13. ASSUME NEW r \in ReadableRecords, NEW o \in Outputs PROVE RecordInPlace(r, o)
  <2>1. Unread(r)
    BY <1>1, RecordParts DEF Unread
  <2> QED
    BY <1>1, <1>3, <1>11, <2>1, NothingYet DEF RecordInPlace, Upstream, Pending
<1> QED
  BY <1>6, <1>7, <1>8, <1>9, <1>10, <1>12, <1>13
     DEF SplitIInv, OutputStates, OutputContents, AllRecords

(* Every step keeps the invariant.                                         *)
LEMMA SplitNextIInv ==
  ASSUME SplitIInv, [SplitNext]_SplitVars PROVE SplitIInv'
<1>1. CASE MainStep
  BY <1>1, OpenKeeps, ReadRecordKeeps, StopKeeps, FileDoneKeeps,
     CloseKeeps DEF MainStep
<1>2. ASSUME NEW w \in Workers, WorkerStep(w) PROVE SplitIInv'
  BY <1>2, TakeRecordKeeps, LookKeeps, TargetKeeps, OutputOpenKeeps DEF WorkerStep
<1>3. ASSUME NEW o \in Outputs, WriterStep(o) PROVE SplitIInv'
  <2>1. OutputInStep(o)
    BY DEF SplitIInv, OutputStates
  <2>2. CASE WriteRecord(o)
    BY <2>2, WriteKeeps
  <2>3. CASE WriteFails(o)
    <3>1. ~ Sound(o) /\ main # "done"
      BY <2>1, <2>3 DEF WriteFails, Sound, OutputInStep
    <3>2. PICK now \in {"broken", "ended"} :
            now = IF program = "paths" THEN "ended" ELSE "broken"
      OBVIOUS
    <3> QED
      BY <2>3, <3>1, <3>2, DropKeeps DEF WriteFails
  <2>4. CASE WriteBroken(o)
    <3>1. ~ Sound(o) /\ main # "done"
      BY <2>1, <2>4 DEF WriteBroken, OutputInStep
    <3>2. writer' = [writer EXCEPT ![o] = "broken"]
      <4>1. writer \in [Outputs -> {"none", "writing", "broken", "ended"}]
        BY DEF SplitIInv, Typed
      <4> QED
        BY <2>4, <4>1 DEF WriteBroken
    <3> QED
      BY <2>4, <3>1, <3>2, DropKeeps DEF WriteBroken
  <2>5. CASE WriterEnds(o)
    BY <2>5, WriterEndKeeps
  <2> QED
    BY <1>3, <2>2, <2>3, <2>4, <2>5 DEF WriterStep
<1>4. CASE UNCHANGED SplitVars
  <2>1. UNCHANGED <<program, damage, reader, recordCh, worker, outCh, writer, written, main>>
    BY <1>4 DEF SplitVars
  <2>2. ReadableRecords' = ReadableRecords
    BY <2>1, Given
  <2>3. Typed'
    BY <2>1, <2>2 DEF SplitIInv, Typed
  <2>4. OutputStates'
    BY <2>1, OutputsRest
  <2>5. OutputContents' /\ AllRecords'
    BY <2>1, NothingMoved DEF Unread, Pending, SplitIInv, Typed
  <2> QED
    BY <2>1, <2>3, <2>4, <2>5, WriterAlone DEF SplitIInv
<1> QED
  BY <1>1, <1>2, <1>3, <1>4 DEF SplitNext

(* What partition_locations and locations_to_nearest_paths have written    *)
(* when they are done: in every output that could be opened and written    *)
(* the readable records that belong to it, all of them and once each, and  *)
(* in any output those of an earlier file first.                           *)
THEOREM AllRecordsWritten == SplitSpec => []NothingLost
<1>1. SplitIInv => NothingLost
  <2> SUFFICES ASSUME SplitIInv PROVE NothingLost
    OBVIOUS
  <2>1. EarlierFileFirst
    BY DEF SplitIInv, OutputContents, OutputInOrder, ByFile, EarlierFileFirst
  <2>2. ASSUME main = "done", NEW o \in Outputs, Sound(o)
        PROVE  /\ Range(written[o]) = {r \in ReadableRecords : o \in Targets(r)}
               /\ IsInjective(written[o])
    <3>1. OutputInOrder(o) /\ OutputInStep(o)
      BY DEF SplitIInv, OutputContents, OutputStates
    <3>2. /\ reader.file \notin Files /\ reader.file \in Nat \ {0}
          /\ recordCh = <<>> /\ \A w \in Workers : worker[w].left = {}
      BY <2>2 DEF SplitIInv, Typed, ReaderInStep, WorkersEnded, AllWorkers,
         WorkerInStep
    <3>3. written[o] \in Seq(ReadableRecords)
      BY DEF SplitIInv, Typed
    <3>4. \A r : ~ InChannel(r, o)
      BY <2>2, <3>1, NothingYet DEF OutputInStep, InChannel
    <3>5. ASSUME NEW r \in ReadableRecords PROVE ~ Upstream(r, o)
      <4>1. r[1] \in 1 .. Len(Contents) /\ Files = 1 .. Len(Contents)
            /\ Len(Contents) \in Nat
        BY RecordParts
      <4>2. ~ Unread(r)
        BY <3>2, <4>1 DEF Unread
      <4> QED
        BY <3>2, <4>2, NothingYet DEF Upstream, Pending
    <3>6. ASSUME NEW r \in ReadableRecords
          PROVE  Holds(written[o], r) <=> o \in Targets(r)
      <4>1. RecordInPlace(r, o)
        BY DEF SplitIInv, AllRecords
      <4> QED
        BY <2>2, <3>1, <3>4, <3>5, <4>1 DEF RecordInPlace, Delivered,
           OutputInOrder
    <3>7. Range(written[o]) = {r \in ReadableRecords : o \in Targets(r)}
      BY <3>3, <3>6 DEF Range, Holds
    <3>8. IsInjective(written[o])
      BY <3>1 DEF IsInjective, OutputInOrder, Distinct
    <3> QED
      BY <3>7, <3>8
  <2> QED
    BY <2>1, <2>2 DEF NothingLost
<1> QED
  BY <1>1, SplitInitIInv, SplitNextIInv, PTL DEF SplitSpec

----------------------------------------------------------------------------
(* PartitionTree: the leaves cover the globe without overlapping, queries  *)
(* find their files, and the index, written and read again, leads a        *)
(* location to the leaf that it led to before, for any samples and         *)
(* settings.                                                               *)

LEMMA SameRoute ==
  ASSUME NEW loc, DOMAIN tree' = DOMAIN tree,
         \A p \in DOMAIN tree : /\ tree'[p].dir = tree[p].dir
                                /\ tree'[p].cuts = tree[p].cuts
  PROVE  Route(loc)' = Route(loc)
<1> DEFINE Next1(p) == IF tree[p].dir = Leaf THEN p ELSE Append(p, Child(tree[p], loc))
<1>1. \A p \in DOMAIN tree : Child(tree[p], loc)' = Child(tree[p], loc)
  BY DEF Child
<1>2. \A f : (f = [p \in DOMAIN tree |-> IF tree[p].dir = Leaf THEN p ELSE f[Append(p, Child(tree[p], loc))]])
        <=> (f = [p \in DOMAIN tree' |-> IF tree'[p].dir = Leaf THEN p ELSE f[Append(p, Child(tree[p], loc)')]])
  BY <1>1, Zenon
<1> QED
  BY <1>2 DEF Route

(* Sequences of whatever it may be.                                        *)
IsSeq(s) == \E S : s \in Seq(S)

IsRect(r) == r = [w |-> r.w, e |-> r.e, s |-> r.s, n |-> r.n]

Directions == {SN, WE}

(* A call that is to be made is for a node that is not there yet, whose    *)
(* place is given by its path; the squares are known when they are cut.    *)
CallInv(c) ==
  /\ c.path \in Seq(Nat) /\ c.path \notin DOMAIN tree
  /\ c.level = Len(c.path)
  /\ IsRect(c.r)
  /\ c.how = "squares" => /\ squares.dir \in Directions
                          /\ squares.first \in Int /\ squares.second \in Int

(* Child k + 1 of a node begins at the node's cut k, whether it has been   *)
(* made or is still to be made.                                            *)
BeginsAt(q, d, v) ==
  \/ q \in DOMAIN tree /\ Lo(d, tree[q].r) = v
  \/ \E i \in DOMAIN todo : todo[i].path = q /\ Lo(d, todo[i].r) = v

NodeInv(p) ==
  LET node == tree[p]
  IN /\ node = Node(node.dir, node.r, node.level, node.cuts)
     /\ IsSeq(node.cuts)
     /\ \A k \in DOMAIN node.cuts : BeginsAt(Append(p, k + 1), node.dir, node.cuts[k])

(* The nodes and the calls make up a tree in which no place is used twice. *)
IsTree ==
  /\ DOMAIN tree \subseteq Seq(Nat)
  /\ \A p \in DOMAIN tree : p # <<>> => Front(p) \in DOMAIN tree
  /\ \A i \in DOMAIN todo : todo[i].path # <<>> => Front(todo[i].path) \in DOMAIN tree
  /\ \A i, j \in DOMAIN todo : todo[i].path = todo[j].path => i = j

Growing ==
  /\ tree = [p \in DOMAIN tree |-> tree[p]]
  /\ IsSeq(todo)
  /\ \A i \in DOMAIN todo : CallInv(todo[i])
  /\ IsTree
  /\ \A p \in DOMAIN tree : NodeInv(p)

TreeInv ==
  /\ phase \in {"create", "created"} => Growing
  /\ phase \in {"created", "read"} => todo = <<>>

(* What is true of two sequences put together.                             *)
LEMMA JoinedSeq ==
  ASSUME NEW s, IsSeq(s), NEW t, IsSeq(t)
  PROVE  /\ IsSeq(s \o t) /\ Len(s \o t) = Len(s) + Len(t)
         /\ Len(s) \in Nat /\ Len(t) \in Nat /\ Len(s \o t) \in Nat
         /\ DOMAIN s = 1 .. Len(s) /\ DOMAIN t = 1 .. Len(t)
         /\ DOMAIN (s \o t) = 1 .. Len(s) + Len(t)
         /\ \A i \in 1 .. Len(s) : (s \o t)[i] = s[i]
         /\ \A i \in 1 .. Len(t) : (s \o t)[Len(s) + i] = t[i]
<1>1. PICK S : s \in Seq(S)
  BY DEF IsSeq
<1>2. PICK T : t \in Seq(T)
  BY DEF IsSeq
<1>3. s \in Seq(S \cup T) /\ t \in Seq(S \cup T)
  BY <1>1, <1>2
<1> QED
  BY <1>3 DEF IsSeq

LEMMA SeqLength ==
  ASSUME NEW s, IsSeq(s)
  PROVE  Len(s) \in Nat /\ DOMAIN s = 1 .. Len(s)
<1>1. PICK S : s \in Seq(S)
  BY DEF IsSeq
<1> QED
  BY <1>1

LEMMA TailSeq ==
  ASSUME NEW s, IsSeq(s), s # <<>>
  PROVE  /\ IsSeq(Tail(s)) /\ Len(Tail(s)) = Len(s) - 1
         /\ Head(s) = s[1] /\ 1 \in DOMAIN s
         /\ Len(s) \in Nat \ {0} /\ DOMAIN s = 1 .. Len(s)
         /\ \A i \in 1 .. Len(s) - 1 : Tail(s)[i] = s[i + 1]
<1>1. PICK S : s \in Seq(S)
  BY DEF IsSeq
<1> QED
  BY <1>1 DEF IsSeq

LEMMA FunctionSeq ==
  ASSUME NEW n \in Nat, NEW s, s = [i \in 1 .. n |-> s[i]]
  PROVE  IsSeq(s) /\ Len(s) = n /\ DOMAIN s = 1 .. n
<1>1. s \in Seq({s[i] : i \in 1 .. n})
  OBVIOUS
<1>2. DOMAIN s = 1 .. n
  OBVIOUS
<1> QED
  BY <1>1, <1>2 DEF IsSeq

LEMMA FrontOfAppend ==
  ASSUME NEW p \in Seq(Nat), NEW k \in Nat
  PROVE  /\ Append(p, k) \in Seq(Nat) /\ Append(p, k) # <<>>
         /\ Append(p, k) # p /\ Front(Append(p, k)) = p
         /\ Len(Append(p, k)) = Len(p) + 1
         /\ \A q \in Seq(Nat), l \in Nat : Append(p, k) = Append(q, l) => p = q /\ k = l
<1>1. Append(p, k) \in Seq(Nat) /\ Append(p, k) # <<>> /\ Append(p, k) # p
      /\ Front(Append(p, k)) = p /\ Len(Append(p, k)) = Len(p) + 1
  BY DEF Front
<1>2. ASSUME NEW q \in Seq(Nat), NEW l \in Nat, Append(p, k) = Append(q, l)
      PROVE  p = q /\ k = l
  BY <1>2, AppendProperties, AppendInjective
<1> QED
  BY <1>1, <1>2

LEMMA SliceBegins ==
  ASSUME NEW d \in Directions, NEW r, IsRect(r), NEW lo, NEW hi
  PROVE  IsRect(Slice(d, r, lo, hi)) /\ Lo(d, Slice(d, r, lo, hi)) = lo
<1>1. r \in [w : {r.w}, e : {r.e}, s : {r.s}, n : {r.n}]
  BY DEF IsRect
<1>2. [r EXCEPT !.s = lo, !.n = hi] = [w |-> r.w, e |-> r.e, s |-> lo, n |-> hi]
  <2>1. [r EXCEPT !.s = lo] = [w |-> r.w, e |-> r.e, s |-> lo, n |-> r.n]
    BY <1>1
  <2>2. [[w |-> r.w, e |-> r.e, s |-> lo, n |-> r.n] EXCEPT !.n = hi]
          = [w |-> r.w, e |-> r.e, s |-> lo, n |-> hi]
    OBVIOUS
  <2> QED
    BY <2>1, <2>2, Zenon
<1>3. [r EXCEPT !.w = lo, !.e = hi] = [w |-> lo, e |-> hi, s |-> r.s, n |-> r.n]
  <2>1. [r EXCEPT !.w = lo] = [w |-> lo, e |-> r.e, s |-> r.s, n |-> r.n]
    BY <1>1
  <2>2. [[w |-> lo, e |-> r.e, s |-> r.s, n |-> r.n] EXCEPT !.e = hi]
          = [w |-> lo, e |-> hi, s |-> r.s, n |-> r.n]
    OBVIOUS
  <2> QED
    BY <2>1, <2>2, Zenon
<1> QED
  BY <1>2, <1>3 DEF Slice, IsRect, Lo

(* What a sequence holds when it is put between two ends.                  *)
LEMMA BetweenEnds ==
  ASSUME NEW cuts, IsSeq(cuts), NEW lo, NEW hi
  PROVE  /\ Len(cuts) \in Nat /\ DOMAIN cuts = 1 .. Len(cuts)
         /\ \A k \in 1 .. Len(cuts) : ((<<lo>> \o cuts) \o <<hi>>)[k + 1] = cuts[k]
<1>1. PICK S : cuts \in Seq(S)
  BY DEF IsSeq
<1> DEFINE T == S \cup {lo, hi}
<1>2. cuts \in Seq(T) /\ lo \in T /\ hi \in T
  BY <1>1
<1> HIDE DEF T
<1>3. <<lo>> \in Seq(T) /\ <<hi>> \in Seq(T) /\ Len(<<lo>>) = 1 /\ <<lo>>[1] = lo
  BY <1>2
<1>4. /\ <<lo>> \o cuts \in Seq(T) /\ Len(<<lo>> \o cuts) = 1 + Len(cuts)
      /\ \A k \in 1 .. Len(cuts) : (<<lo>> \o cuts)[k + 1] = cuts[k]
  BY <1>2, <1>3
<1>5. \A s \in Seq(T) : \A k \in 1 .. Len(s) : (s \o <<hi>>)[k] = s[k]
  BY <1>3
<1>6. Len(cuts) \in Nat /\ DOMAIN cuts = 1 .. Len(cuts)
  BY <1>2
<1>7. ASSUME NEW k \in 1 .. Len(cuts)
      PROVE  ((<<lo>> \o cuts) \o <<hi>>)[k + 1] = cuts[k]
  <2>1. k + 1 \in 1 .. Len(<<lo>> \o cuts)
    BY <1>4, <1>6
  <2> QED
    BY <1>4, <1>5, <2>1
<1> QED
  BY <1>6, <1>7

(* Each region but the first begins at a cut.                              *)
LEMMA RegionsBegin ==
  ASSUME NEW d \in Directions, NEW r, IsRect(r), NEW cuts, IsSeq(cuts)
  PROVE  /\ Len(cuts) \in Nat /\ DOMAIN cuts = 1 .. Len(cuts)
         /\ DOMAIN Regions(d, r, cuts) = 1 .. Len(cuts) + 1
         /\ \A k \in 1 .. Len(cuts) + 1 : IsRect(Regions(d, r, cuts)[k])
         /\ \A k \in 1 .. Len(cuts) : Lo(d, Regions(d, r, cuts)[k + 1]) = cuts[k]
<1> DEFINE ends == (<<Lo(d, r)>> \o cuts) \o <<Hi(d, r)>>
<1>1. Regions(d, r, cuts)
        = [k \in 1 .. Len(cuts) + 1 |-> Slice(d, r, ends[k], ends[k + 1])]
  BY DEF Regions
<1>2. /\ Len(cuts) \in Nat /\ DOMAIN cuts = 1 .. Len(cuts)
      /\ \A k \in 1 .. Len(cuts) : ends[k + 1] = cuts[k]
  BY BetweenEnds
<1> HIDE DEF ends
<1>3. \A lo, hi : IsRect(Slice(d, r, lo, hi)) /\ Lo(d, Slice(d, r, lo, hi)) = lo
  BY SliceBegins
<1> QED
  BY <1>1, <1>2, <1>3

(* What the call that is done changes: its node is there, and the calls    *)
(* for the children, kids, are in its place.                               *)
LEMMA MadeEffect ==
  ASSUME Growing, todo # <<>>,
         NEW d, NEW cuts, NEW kids, IsSeq(kids), Made(Head(todo), d, cuts, kids)
  PROVE  LET c == todo[1]
             n == Len(kids)
         IN /\ Head(todo) = c /\ 1 \in DOMAIN todo
            /\ Len(todo) \in Nat \ {0} /\ DOMAIN todo = 1 .. Len(todo)
            /\ IsSeq(todo') /\ n \in Nat /\ DOMAIN kids = 1 .. n
            /\ DOMAIN todo' = 1 .. n + (Len(todo) - 1)
            /\ \A i \in 1 .. n : todo'[i] = kids[i]
            /\ \A i \in DOMAIN todo' :
                 \/ i \in 1 .. n /\ todo'[i] = kids[i]
                 \/ i > n /\ i - n + 1 \in DOMAIN todo /\ i - n + 1 # 1
                    /\ todo'[i] = todo[i - n + 1]
            /\ \A i \in DOMAIN todo : i # 1 =>
                 /\ n + (i - 1) \in DOMAIN todo'
                 /\ todo'[n + (i - 1)] = todo[i]
            /\ c.path \in Seq(Nat) /\ c.path \notin DOMAIN tree
            /\ c.level = Len(c.path)
            /\ IsRect(c.r)
            /\ DOMAIN tree' = DOMAIN tree \cup {c.path}
            /\ tree' = [p \in DOMAIN tree' |-> tree'[p]]
            /\ tree'[c.path] = Node(d, c.r, c.level, cuts)
            /\ \A p \in DOMAIN tree : tree'[p] = tree[p]
<1> DEFINE c == todo[1]
           n == Len(kids)
           node == Node(d, c.r, c.level, cuts)
<1>1. /\ Head(todo) = c /\ 1 \in DOMAIN todo
      /\ Len(todo) \in Nat \ {0} /\ DOMAIN todo = 1 .. Len(todo)
      /\ IsSeq(Tail(todo)) /\ Len(Tail(todo)) = Len(todo) - 1
      /\ \A i \in 1 .. Len(todo) - 1 : Tail(todo)[i] = todo[i + 1]
  BY TailSeq DEF Growing
<1>2. /\ todo' = kids \o Tail(todo)
      /\ tree' = [p \in DOMAIN tree \cup {c.path} |->
                    IF p = c.path THEN node ELSE tree[p]]
  BY <1>1 DEF Made
<1>3. /\ IsSeq(todo') /\ n \in Nat /\ DOMAIN kids = 1 .. n
      /\ DOMAIN todo' = 1 .. n + (Len(todo) - 1)
      /\ \A i \in 1 .. n : todo'[i] = kids[i]
      /\ \A i \in 1 .. Len(todo) - 1 : todo'[n + i] = Tail(todo)[i]
  <2> DEFINE joined == kids \o Tail(todo)
  <2>1. /\ IsSeq(joined)
        /\ Len(kids) \in Nat /\ DOMAIN kids = 1 .. Len(kids)
        /\ DOMAIN joined = 1 .. Len(kids) + Len(Tail(todo))
        /\ \A i \in 1 .. Len(kids) : joined[i] = kids[i]
        /\ \A i \in 1 .. Len(Tail(todo)) : joined[Len(kids) + i] = Tail(todo)[i]
    BY <1>1, JoinedSeq
  <2>2. todo' = joined
    BY <1>2
  <2> HIDE DEF joined
  <2> QED
    BY <1>1, <2>1, <2>2
<1>4. \A i \in DOMAIN todo' :
        \/ i \in 1 .. n /\ todo'[i] = kids[i]
        \/ i > n /\ i - n + 1 \in DOMAIN todo /\ i - n + 1 # 1
           /\ todo'[i] = todo[i - n + 1]
  <2> SUFFICES ASSUME NEW i \in DOMAIN todo'
               PROVE  \/ i \in 1 .. n /\ todo'[i] = kids[i]
                      \/ i > n /\ i - n + 1 \in DOMAIN todo /\ i - n + 1 # 1
                         /\ todo'[i] = todo[i - n + 1]
    OBVIOUS
  <2>1. CASE i \in 1 .. n
    BY <1>3, <2>1
  <2>2. CASE i \notin 1 .. n
    <3>1. i > n /\ i - n \in 1 .. Len(todo) - 1 /\ i = n + (i - n)
      BY <1>1, <1>3, <2>2
    <3>2. todo'[i] = Tail(todo)[i - n]
      BY <1>3, <3>1
    <3> QED
      BY <1>1, <3>1, <3>2
  <2> QED
    BY <2>1, <2>2
<1>5. \A i \in DOMAIN todo : i # 1 =>
        /\ n + (i - 1) \in DOMAIN todo'
        /\ todo'[n + (i - 1)] = todo[i]
  <2> SUFFICES ASSUME NEW i \in DOMAIN todo, i # 1
               PROVE  /\ n + (i - 1) \in DOMAIN todo'
                      /\ todo'[n + (i - 1)] = todo[i]
    OBVIOUS
  <2>1. i - 1 \in 1 .. Len(todo) - 1 /\ (i - 1) + 1 = i
    BY <1>1
  <2> QED
    BY <1>1, <1>3, <2>1
<1>6. /\ c.path \in Seq(Nat) /\ c.path \notin DOMAIN tree
      /\ c.level = Len(c.path)
      /\ IsRect(c.r)
  BY <1>1 DEF Growing, CallInv
<1>7. /\ DOMAIN tree' = DOMAIN tree \cup {c.path}
      /\ tree' = [p \in DOMAIN tree' |-> tree'[p]]
      /\ tree'[c.path] = node
      /\ \A p \in DOMAIN tree : tree'[p] = tree[p]
  <2>1. tree' = [p \in DOMAIN tree \cup {c.path} |->
                   IF p = c.path THEN node ELSE tree[p]]
    BY <1>2
  <2> HIDE DEF node
  <2> QED
    BY <1>6, <2>1
<1> HIDE DEF node
<1> QED
  BY <1>1, <1>3, <1>4, <1>5, <1>6, <1>7, Zenon DEF node

(* A node that is made and the calls for its children, which begin at its  *)
(* cuts, leave the tree as it should be.                                   *)
LEMMA MadeGrowing ==
  ASSUME Growing, todo # <<>>, UNCHANGED squares,
         NEW d, NEW cuts, IsSeq(cuts), NEW kids, IsSeq(kids),
         Made(Head(todo), d, cuts, kids),
         \A k \in DOMAIN kids :
           /\ kids[k].path = Append(Head(todo).path, k)
           /\ kids[k].level = Head(todo).level + 1
           /\ IsRect(kids[k].r)
           /\ kids[k].how = "squares" => Head(todo).how = "squares",
         \A k \in DOMAIN cuts :
           k + 1 \in DOMAIN kids /\ Lo(d, kids[k + 1].r) = cuts[k]
  PROVE  Growing'
<1> DEFINE c == todo[1]
           n == Len(kids)
           node == Node(d, c.r, c.level, cuts)
<1>1. /\ Head(todo) = c /\ 1 \in DOMAIN todo
      /\ Len(todo) \in Nat \ {0} /\ DOMAIN todo = 1 .. Len(todo)
      /\ IsSeq(todo') /\ n \in Nat /\ DOMAIN kids = 1 .. n
      /\ DOMAIN todo' = 1 .. n + (Len(todo) - 1)
      /\ \A i \in 1 .. n : todo'[i] = kids[i]
      /\ \A i \in DOMAIN todo' :
           \/ i \in 1 .. n /\ todo'[i] = kids[i]
           \/ i > n /\ i - n + 1 \in DOMAIN todo /\ i - n + 1 # 1
              /\ todo'[i] = todo[i - n + 1]
      /\ \A i \in DOMAIN todo : i # 1 =>
           /\ n + (i - 1) \in DOMAIN todo'
           /\ todo'[n + (i - 1)] = todo[i]
      /\ c.path \in Seq(Nat) /\ c.path \notin DOMAIN tree
      /\ c.level = Len(c.path)
      /\ IsRect(c.r)
      /\ DOMAIN tree' = DOMAIN tree \cup {c.path}
      /\ tree' = [p \in DOMAIN tree' |-> tree'[p]]
      /\ tree'[c.path] = node
      /\ \A p \in DOMAIN tree : tree'[p] = tree[p]
  BY MadeEffect, Zenon
<1>8. \A k \in DOMAIN kids :
        /\ kids[k].path \in Seq(Nat) /\ kids[k].path # <<>>
        /\ Front(kids[k].path) = c.path
        /\ kids[k].path \notin DOMAIN tree'
        /\ Len(kids[k].path) = Len(c.path) + 1
        /\ \A i \in DOMAIN todo : todo[i].path # kids[k].path
  <2> SUFFICES ASSUME NEW k \in DOMAIN kids
               PROVE  /\ kids[k].path \in Seq(Nat) /\ kids[k].path # <<>>
                      /\ Front(kids[k].path) = c.path
                      /\ kids[k].path \notin DOMAIN tree'
                      /\ Len(kids[k].path) = Len(c.path) + 1
                      /\ \A i \in DOMAIN todo : todo[i].path # kids[k].path
    OBVIOUS
  <2>1. k \in Nat /\ kids[k].path = Append(c.path, k)
    BY <1>1
  <2>2. /\ kids[k].path \in Seq(Nat) /\ kids[k].path # <<>>
        /\ Front(kids[k].path) = c.path /\ kids[k].path # c.path
        /\ Len(kids[k].path) = Len(c.path) + 1
    <3>1. c.path \in Seq(Nat)
      BY <1>1
    <3> QED
      BY <2>1, <3>1, FrontOfAppend
  <2>3. kids[k].path \notin DOMAIN tree
    BY <1>1, <2>2 DEF Growing, IsTree
  <2>4. \A i \in DOMAIN todo : todo[i].path # kids[k].path
    BY <1>1, <2>2 DEF Growing, IsTree
  <2> QED
    BY <1>1, <2>2, <2>3, <2>4
<1> HIDE DEF c, n, node
<1>9. ASSUME NEW i \in DOMAIN todo'
      PROVE  CallInv(todo[i])'
  <2>1. CASE i \in 1 .. n /\ todo'[i] = kids[i]
    <3>1. i \in DOMAIN kids
      BY <1>1, <2>1
    <3>2. /\ kids[i].level = Len(kids[i].path)
          /\ IsRect(kids[i].r)
      BY <1>1, <1>8, <3>1
    <3>3. kids[i].how = "squares" => /\ squares.dir \in Directions
                                     /\ squares.first \in Int /\ squares.second \in Int
      <4>1. CallInv(c) /\ (kids[i].how = "squares" => c.how = "squares")
        BY <1>1, <3>1 DEF Growing
      <4> QED
        BY <4>1 DEF CallInv
    <3> QED
      BY <1>8, <2>1, <3>1, <3>2, <3>3 DEF CallInv
  <2>2. CASE /\ i - n + 1 \in DOMAIN todo /\ i - n + 1 # 1
             /\ todo'[i] = todo[i - n + 1]
    <3>1. CallInv(todo[i - n + 1])
      BY <2>2 DEF Growing
    <3>2. todo[i - n + 1].path # c.path
      BY <1>1, <2>2 DEF Growing, IsTree, c
    <3> QED
      BY <1>1, <2>2, <3>1, <3>2 DEF CallInv
  <2> QED
    BY <1>1, <2>1, <2>2
<1>10. IsTree'
  <2>1. DOMAIN tree' \subseteq Seq(Nat)
    BY <1>1 DEF Growing, IsTree
  <2>2. \A p \in DOMAIN tree' : p # <<>> => Front(p) \in DOMAIN tree'
    BY <1>1 DEF Growing, IsTree, c
  <2>3. ASSUME NEW i \in DOMAIN todo', todo'[i].path # <<>>
        PROVE  Front(todo'[i].path) \in DOMAIN tree'
    <3>1. CASE i \in 1 .. n /\ todo'[i] = kids[i]
      BY <1>1, <1>8, <3>1
    <3>2. CASE i - n + 1 \in DOMAIN todo /\ todo'[i] = todo[i - n + 1]
      BY <1>1, <2>3, <3>2 DEF Growing, IsTree
    <3> QED
      BY <1>1, <3>1, <3>2
  <2>4. ASSUME NEW i \in DOMAIN todo', NEW j \in DOMAIN todo',
               todo'[i].path = todo'[j].path
        PROVE  i = j
    <3>0. i \in Int /\ j \in Int /\ n \in Int
      BY <1>1
    <3>1. CASE i \in 1 .. n /\ todo'[i] = kids[i] /\ j \in 1 .. n /\ todo'[j] = kids[j]
      <4>1. Append(c.path, i) = Append(c.path, j)
        BY <1>1, <2>4, <3>1
      <4> QED
        BY <1>1, <3>1, <4>1, FrontOfAppend
    <3>2. CASE i \in 1 .. n /\ todo'[i] = kids[i]
               /\ j - n + 1 \in DOMAIN todo /\ todo'[j] = todo[j - n + 1]
      BY <1>1, <1>8, <2>4, <3>2
    <3>3. CASE j \in 1 .. n /\ todo'[j] = kids[j]
               /\ i - n + 1 \in DOMAIN todo /\ todo'[i] = todo[i - n + 1]
      BY <1>1, <1>8, <2>4, <3>3
    <3>4. CASE /\ i - n + 1 \in DOMAIN todo /\ todo'[i] = todo[i - n + 1]
               /\ j - n + 1 \in DOMAIN todo /\ todo'[j] = todo[j - n + 1]
      <4>1. i - n + 1 = j - n + 1
        BY <2>4, <3>4 DEF Growing, IsTree
      <4> QED
        BY <3>0, <4>1
    <3> QED
      BY <1>1, <3>1, <3>2, <3>3, <3>4
  <2> QED
    BY <2>1, <2>2, <2>3, <2>4 DEF IsTree
<1>11. ASSUME NEW p \in DOMAIN tree'
       PROVE  NodeInv(p)'
  <2>1. CASE p = c.path
    <3>1. /\ tree'[p] = node
          /\ node = Node(node.dir, node.r, node.level, node.cuts)
          /\ node.dir = d /\ node.cuts = cuts
      BY <1>1, <2>1 DEF node, Node
    <3>2. ASSUME NEW k \in DOMAIN cuts
          PROVE  BeginsAt(Append(p, k + 1), d, cuts[k])'
      <4>1. k + 1 \in 1 .. n /\ k + 1 \in DOMAIN kids /\ Lo(d, kids[k + 1].r) = cuts[k]
        BY <1>1, <3>2
      <4>2. kids[k + 1].path = Append(p, k + 1)
        BY <1>1, <2>1, <4>1
      <4>3. k + 1 \in DOMAIN todo' /\ todo'[k + 1] = kids[k + 1]
        BY <1>1, <4>1
      <4> QED
        BY <4>1, <4>2, <4>3 DEF BeginsAt
    <3> QED
      BY <3>1, <3>2 DEF NodeInv
  <2>2. CASE p \in DOMAIN tree
    <3>1. NodeInv(p) /\ tree'[p] = tree[p]
      BY <1>1, <2>2 DEF Growing
    <3>2. ASSUME NEW q, NEW e, NEW v, BeginsAt(q, e, v)
          PROVE  BeginsAt(q, e, v)'
      <4>1. CASE q \in DOMAIN tree /\ Lo(e, tree[q].r) = v
        BY <1>1, <4>1 DEF BeginsAt
      <4>2. CASE \E i \in DOMAIN todo : todo[i].path = q /\ Lo(e, todo[i].r) = v
        <5>1. PICK i \in DOMAIN todo : todo[i].path = q /\ Lo(e, todo[i].r) = v
          BY <4>2
        <5>2. CASE i = 1
          <6>1. q \in DOMAIN tree' /\ tree'[q].r = c.r
            BY <1>1, <5>1, <5>2 DEF c, node, Node
          <6> QED
            BY <5>1, <5>2, <6>1 DEF BeginsAt, c
        <5>3. CASE i # 1
          BY <1>1, <5>1, <5>3 DEF BeginsAt
        <5> QED
          BY <5>2, <5>3
      <4> QED
        BY <3>2, <4>1, <4>2 DEF BeginsAt
    <3> QED
      BY <3>1, <3>2 DEF NodeInv
  <2> QED
    BY <1>1, <2>1, <2>2
<1> QED
  BY <1>1, <1>9, <1>10, <1>11 DEF Growing

(* The calls for the regions between cuts are as MadeGrowing wants them.   *)
LEMMA CutGrowing ==
  ASSUME Growing, todo # <<>>, UNCHANGED squares,
         NEW d \in Directions, NEW cuts, IsSeq(cuts),
         NEW calls, IsSeq(calls), DOMAIN calls = 1 .. Len(cuts) + 1,
         \A k \in 1 .. Len(cuts) + 1 :
           /\ calls[k].path = Append(Head(todo).path, k)
           /\ calls[k].level = Head(todo).level + 1
           /\ calls[k].r = Regions(d, Head(todo).r, cuts)[k]
           /\ calls[k].how = "squares" => Head(todo).how = "squares",
         Made(Head(todo), d, cuts, calls)
  PROVE  Growing'
<1>1. IsRect(Head(todo).r)
  <2>1. Head(todo) = todo[1] /\ 1 \in DOMAIN todo
    BY TailSeq DEF Growing
  <2> QED
    BY <2>1 DEF Growing, CallInv
<1>2. /\ Len(cuts) \in Nat /\ DOMAIN cuts = 1 .. Len(cuts)
      /\ \A k \in 1 .. Len(cuts) + 1 : IsRect(calls[k].r)
      /\ \A k \in 1 .. Len(cuts) : Lo(d, Regions(d, Head(todo).r, cuts)[k + 1]) = cuts[k]
  BY <1>1, RegionsBegin
<1>4. \A k \in DOMAIN cuts :
        k + 1 \in DOMAIN calls /\ Lo(d, calls[k + 1].r) = cuts[k]
  <2> SUFFICES ASSUME NEW k \in DOMAIN cuts
               PROVE  k + 1 \in DOMAIN calls /\ Lo(d, calls[k + 1].r) = cuts[k]
    OBVIOUS
  <2>1. k \in 1 .. Len(cuts) /\ k + 1 \in 1 .. Len(cuts) + 1
    BY <1>2
  <2>2. calls[k + 1].r = Regions(d, Head(todo).r, cuts)[k + 1]
    BY <2>1
  <2> QED
    BY <1>2, <2>1, <2>2
<1>5. \A k \in DOMAIN calls :
        /\ calls[k].path = Append(Head(todo).path, k)
        /\ calls[k].level = Head(todo).level + 1
        /\ IsRect(calls[k].r)
        /\ calls[k].how = "squares" => Head(todo).how = "squares"
  BY <1>2
<1> QED
  BY <1>4, <1>5, MadeGrowing

LEMMA LeafGrowing == Growing /\ MakeLeaf => Growing'
<1> SUFFICES ASSUME Growing, MakeLeaf PROVE Growing'
  OBVIOUS
<1>1. todo # <<>> /\ UNCHANGED squares /\ Made(Head(todo), Leaf, <<>>, <<>>)
  BY DEF MakeLeaf
<1>2. IsSeq(<<>>) /\ DOMAIN <<>> = {}
  <2>1. <<>> \in Seq({})
    OBVIOUS
  <2> QED
    BY <2>1 DEF IsSeq
<1> QED
  BY <1>1, <1>2, MadeGrowing

LEMMA OutliersGrowing == Growing /\ CutOutliers => Growing'
<1> SUFFICES ASSUME Growing, CutOutliers PROVE Growing'
  OBVIOUS
<1> DEFINE c == Head(todo)
           locs == Sorted(c.how, c.locs)
           cuts == NearExtrema(c.how, locs)
           kids == Regions(c.how, c.r, cuts)
           inside == {loc \in c.locs : Coord(c.how, loc) \in cuts[1] .. cuts[2]}
           calls == << LeafCall(c, 1, kids[1]),
                       Call(IF c.level = 0 THEN Other(c.how) ELSE "choose",
                            Append(c.path, 2), c.level + 1, kids[2], inside),
                       LeafCall(c, 3, kids[3]) >>
<1>1. /\ todo # <<>> /\ UNCHANGED squares
      /\ c.how \in Directions
      /\ Made(c, c.how, cuts, calls)
  BY DEF CutOutliers, Directions
<1>2. IsSeq(cuts) /\ Len(cuts) = 2
  <2>1. \E x, y : cuts = <<x, y>>
    BY DEF NearExtrema
  <2>2. PICK x, y : cuts = <<x, y>>
    BY <2>1
  <2>3. <<x, y>> \in Seq({x, y}) /\ Len(<<x, y>>) = 2
    OBVIOUS
  <2> HIDE DEF cuts
  <2> QED
    BY <2>2, <2>3 DEF IsSeq
<1> HIDE DEF cuts, locs, inside, kids
<1>3. calls = [k \in 1 .. 3 |-> calls[k]]
  OBVIOUS
<1>4. ASSUME NEW k \in 1 .. 3
      PROVE  /\ calls[k].path = Append(c.path, k)
             /\ calls[k].level = c.level + 1
             /\ calls[k].r = kids[k]
             /\ calls[k].how # "squares"
  <2>1. CASE k = 1
    BY <2>1 DEF LeafCall, Call
  <2>2. CASE k = 2
    BY <2>2 DEF Call, Other, SN, WE
  <2>3. CASE k = 3
    BY <2>3 DEF LeafCall, Call
  <2> QED
    BY <2>1, <2>2, <2>3
<1> HIDE DEF calls
<1>5. 1 .. Len(cuts) + 1 = 1 .. 3
  BY <1>2
<1>6. IsSeq(calls) /\ DOMAIN calls = 1 .. Len(cuts) + 1
  BY <1>3, <1>5, FunctionSeq
<1> QED
  BY <1>1, <1>2, <1>4, <1>5, <1>6, CutGrowing DEF kids

LEMMA SamplesGrowing == Growing /\ CutSamples => Growing'
<1> SUFFICES ASSUME Growing, CutSamples PROVE Growing'
  OBVIOUS
<1> DEFINE c == Head(todo)
           d == Direction(c.r)
           locs == Sorted(d, c.locs)
           starts == PartStarts(locs)
           cuts == [k \in DOMAIN starts |-> Coord(d, locs[starts[k] + 1])]
           kids == Regions(d, c.r, cuts)
           parts == Split(locs, starts)
           calls == [k \in DOMAIN kids |->
              Call("choose", Append(c.path, k), c.level + 1, kids[k], parts[k])]
<1>1. /\ todo # <<>> /\ UNCHANGED squares
      /\ d # Leaf
      /\ Made(c, d, cuts, calls)
  BY DEF CutSamples
<1>2. d \in Directions
  BY <1>1 DEF Direction, Directions
<1>3. IsSeq(cuts)
  <2>1. DOMAIN starts = 1 .. CutsPerLevel
    BY DEF PartStarts
  <2>2. CutsPerLevel \in Nat
    BY PartitionAssumption
  <2> HIDE DEF starts, locs, d
  <2>3. cuts = [k \in 1 .. CutsPerLevel |-> cuts[k]]
    BY <2>1
  <2> HIDE DEF cuts
  <2> QED
    BY <2>2, <2>3, FunctionSeq
<1>4. IsRect(c.r)
  <2>1. c = todo[1] /\ 1 \in DOMAIN todo
    BY <1>1, TailSeq DEF Growing
  <2> QED
    BY <2>1 DEF Growing, CallInv
<1> HIDE DEF c, d, locs, starts, cuts, parts
<1>5. DOMAIN kids = 1 .. Len(cuts) + 1
  BY <1>2, <1>3, <1>4, RegionsBegin
<1> HIDE DEF kids
<1>6. /\ calls = [k \in 1 .. Len(cuts) + 1 |-> calls[k]]
      /\ \A k \in 1 .. Len(cuts) + 1 :
           /\ calls[k].path = Append(c.path, k)
           /\ calls[k].level = c.level + 1
           /\ calls[k].r = kids[k]
           /\ calls[k].how # "squares"
  BY <1>5 DEF Call
<1> HIDE DEF calls
<1>7. IsSeq(calls) /\ DOMAIN calls = 1 .. Len(cuts) + 1
  <2>1. Len(cuts) + 1 \in Nat
    BY <1>3, JoinedSeq
  <2> QED
    BY <1>6, <2>1, FunctionSeq
<1> QED
  BY <1>1, <1>2, <1>3, <1>6, <1>7, CutGrowing DEF kids, c

LEMMA SquaresGrowing == Growing /\ CutSquares => Growing'
<1> SUFFICES ASSUME Growing, CutSquares PROVE Growing'
  OBVIOUS
<1> DEFINE c == Head(todo)
           d == SquareDir(c)
           locs == Sorted(d, c.locs)
           cuts == EvenCuts(d, c.r, Cuts(c))
           kids == Regions(d, c.r, cuts)
           parts == Split(locs, [k \in DOMAIN cuts |-> IndexOf(d, locs, cuts[k])])
           calls == [k \in DOMAIN kids |->
              Call("squares", Append(c.path, k), c.level + 1, kids[k], parts[k])]
<1>1. /\ todo # <<>> /\ UNCHANGED squares
      /\ c.how = "squares"
      /\ IF Cuts(c) < 1 THEN Made(c, Leaf, <<>>, <<>>) ELSE Made(c, d, cuts, calls)
  BY DEF CutSquares
<1>2. CASE Cuts(c) < 1
  <2>1. IsSeq(<<>>) /\ DOMAIN <<>> = {}
    <3>1. <<>> \in Seq({})
      OBVIOUS
    <3> QED
      BY <3>1 DEF IsSeq
  <2> QED
    BY <1>1, <1>2, <2>1, MadeGrowing
<1>3. CASE ~ (Cuts(c) < 1)
  <2>1. c = todo[1] /\ 1 \in DOMAIN todo
    BY <1>1, TailSeq DEF Growing
  <2>2. /\ CallInv(c) /\ c.path \in Seq(Nat) /\ c.level = Len(c.path)
        /\ IsRect(c.r)
        /\ squares.dir \in Directions
        /\ squares.first \in Int /\ squares.second \in Int
    BY <1>1, <2>1 DEF Growing, CallInv
  <2>3. d \in Directions
    BY <2>2 DEF SquareDir, Other, Directions
  <2>4. Cuts(c) \in Int
    <3>1. ASSUME c.level # 0 PROVE Len(tree[Front(c.path)].cuts) \in Int
      <4>1. c.path # <<>>
        BY <2>2, <3>1
      <4>2. Front(c.path) \in DOMAIN tree
        BY <2>1, <4>1 DEF Growing, IsTree
      <4>3. IsSeq(tree[Front(c.path)].cuts)
        BY <4>2 DEF Growing, NodeInv
      <4> QED
        BY <4>3, JoinedSeq
    <3> HIDE DEF c
    <3>2. c.level % 2 = 1 => c.level # 0
      <4>1. \A n \in Nat : n % 2 = 1 => n # 0
        OBVIOUS
      <4>2. c.level \in Nat
        BY <2>2
      <4> QED
        BY <4>1, <4>2
    <3> QED
      BY <2>2, <3>1, <3>2 DEF Cuts
  <2>5. IsSeq(cuts)
    <3>1. Cuts(c) \in Nat
      BY <1>3, <2>4
    <3>2. cuts = [k \in 1 .. Cuts(c) |-> cuts[k]]
      BY DEF EvenCuts
    <3> HIDE DEF cuts
    <3> QED
      BY <3>1, <3>2, FunctionSeq
  <2>6. Made(c, d, cuts, calls)
    BY <1>1, <1>3
  <2> HIDE DEF c, d, locs, cuts, parts
  <2>7. DOMAIN kids = 1 .. Len(cuts) + 1
    BY <2>2, <2>3, <2>5, RegionsBegin
  <2> HIDE DEF kids
  <2>8. /\ calls = [k \in 1 .. Len(cuts) + 1 |-> calls[k]]
        /\ \A k \in 1 .. Len(cuts) + 1 :
             /\ calls[k].path = Append(c.path, k)
             /\ calls[k].level = c.level + 1
             /\ calls[k].r = kids[k]
    BY <2>7 DEF Call
  <2> HIDE DEF calls
  <2>9. IsSeq(calls) /\ DOMAIN calls = 1 .. Len(cuts) + 1
    <3>1. Len(cuts) + 1 \in Nat
      BY <2>5, JoinedSeq
    <3> QED
      BY <2>8, <3>1, FunctionSeq
  <2> QED
    BY <1>1, <2>3, <2>5, <2>6, <2>8, <2>9, CutGrowing DEF kids, c
<1> QED
  BY <1>2, <1>3

----------------------------------------------------------------------------
(* The greatest of a set of numbers with a bound.                          *)
LEMMA Smallest ==
  ASSUME NEW T \in SUBSET Nat, T # {}
  PROVE  \E n \in T : \A m \in T : n <= m
<1> DEFINE R == OpToRel(<, Nat)
<1>1. IsWellFoundedOn(R, Nat)
  BY NatLessThanWellFounded
<1>2. \A m, n \in Nat : m < n => <<m, n>> \in R
  BY DEF OpToRel
<1> HIDE DEF R
<1>3. PICK n \in T : \A m \in T : ~ (<<m, n>> \in R)
  BY <1>1, WFMin
<1>4. n \in Nat /\ \A m \in T : m \in Nat /\ ~ (m < n)
  BY <1>2, <1>3
<1>5. \A m \in T : n <= m
  BY <1>4
<1> QED
  BY <1>5

LEMMA GreatestOf ==
  ASSUME NEW T \in SUBSET Nat, T # {}, NEW n \in Nat, \A x \in T : x <= n
  PROVE  Max(T) \in T /\ \A x \in T : x <= Max(T)
<1> DEFINE bounds == {m \in Nat : \A x \in T : x <= m}
<1>1. PICK m \in bounds : \A k \in bounds : m <= k
  BY Smallest
<1>2. m \in T
  <2> SUFFICES ASSUME m \notin T PROVE FALSE
    OBVIOUS
  <2>1. m - 1 \in Nat /\ \A x \in T : x <= m - 1
    <3>1. \A x \in T : x < m
      BY <1>1
    <3>2. PICK x \in T : TRUE
      OBVIOUS
    <3> QED
      BY <1>1, <3>1, <3>2
  <2> QED
    BY <1>1, <2>1
<1>3. \E x \in T : \A y \in T : x >= y
  BY <1>1, <1>2
<1>4. Max(T) \in T /\ \A y \in T : Max(T) >= y
  BY <1>3 DEF Max
<1> QED
  BY <1>4

LEMMA GcdType ==
  ASSUME NEW a \in Int, NEW b \in Int
  PROVE  Gcd(a, b) \in Nat
<1> DEFINE T == {0} \cup {k \in 1 .. a + b : a % k = 0 /\ b % k = 0}
           n == IF a + b >= 0 THEN a + b ELSE 0
<1>1. T \in SUBSET Nat /\ T # {} /\ n \in Nat /\ \A x \in T : x <= n
  OBVIOUS
<1> HIDE DEF T, n
<1>2. Max(T) \in Nat
  BY <1>1, GreatestOf
<1> QED
  BY <1>2 DEF Gcd, T

(* The unit of the squares is positive.                                    *)
LEMMA UnitPositive ==
  ASSUME NEW h, NEW v, NEW c \in BestCandidates(h, v)
  PROVE  /\ c \in [sn : h .. (12 * h + 9) \div 10, we : v .. (12 * v + 9) \div 10]
         /\ c.sn \in Int /\ c.we \in Int
         /\ Gcd(c.sn, c.we) \in Nat \ {0}
<1> DEFINE T == Units(h, v)
           unit == Gcd(c.sn, c.we)
<1>1. T # {} /\ c \in Candidates(h, v, Max(T))
  BY DEF BestCandidates
<1>2. T \in SUBSET (Nat \ {0}) /\ \A x \in T : x <= 16 * MinSide
  <2>1. MinSide \in Nat \ {0}
    BY PartitionAssumption
  <2>2. ASSUME NEW k \in 0 .. 4
        PROVE  /\ (16 * MinSide) \div 2 ^ k \in Nat \ {0}
               /\ (16 * MinSide) \div 2 ^ k <= 16 * MinSide
    <3>1. CASE k = 0
      BY <2>1, <3>1
    <3>2. CASE k = 1
      BY <2>1, <3>2
    <3>3. CASE k = 2
      BY <2>1, <3>3
    <3>4. CASE k = 3
      BY <2>1, <3>4
    <3>5. CASE k = 4
      BY <2>1, <3>5
    <3> QED
      BY <3>1, <3>2, <3>3, <3>4, <3>5
  <2>3. \A x \in T : \E k \in 0 .. 4 : x = (16 * MinSide) \div 2 ^ k
    BY DEF Units
  <2> HIDE DEF T
  <2> QED
    BY <2>2, <2>3
<1>3. Max(T) \in Nat \ {0}
  <2>1. 16 * MinSide \in Nat
    BY PartitionAssumption
  <2> HIDE DEF T
  <2> QED
    BY <1>1, <1>2, <2>1, GreatestOf
<1>4. c.sn \in Int /\ c.we \in Int /\ unit >= Max(T)
  BY <1>1 DEF Candidates
<1>5. unit \in Nat
  BY <1>4, GcdType
<1> HIDE DEF unit, T
<1>6. unit \in Nat \ {0}
  BY <1>3, <1>4, <1>5
<1>7. c \in [sn : h .. (12 * h + 9) \div 10, we : v .. (12 * v + 9) \div 10]
  BY <1>1 DEF Candidates
<1> QED
  BY <1>4, <1>6, <1>7 DEF unit

(* The sides of the region of the squares are cut in whole parts.          *)
LEMMA PartsType ==
  ASSUME NEW h, NEW v, NEW c \in BestCandidates(h, v)
  PROVE  Parts(c).sn \in Int /\ Parts(c).we \in Int
<1> DEFINE unit == Gcd(c.sn, c.we)
<1>1. c.sn \in Int /\ c.we \in Int /\ unit \in Nat \ {0}
  BY UnitPositive
<1>2. /\ Parts(c).sn \in {1 * (c.sn \div unit), 2 * (c.sn \div unit)}
      /\ Parts(c).we \in {1 * (c.we \div unit), 2 * (c.we \div unit)}
  BY DEF Parts
<1> HIDE DEF unit
<1>3. c.sn \div unit \in Int /\ c.we \div unit \in Int
  BY <1>1
<1> QED
  BY <1>2, <1>3

----------------------------------------------------------------------------
(* The initial trees.                                                      *)

(* A call for the whole globe, or the region of the squares and the four   *)
(* leaves around it.                                                       *)
LEMMA SamplesInit ==
  ASSUME NEW samples, InitSamples(samples)
  PROVE  Growing
<1>1. PICK d, r : /\ d \in Directions
                  /\ todo = << Call(d, <<>>, 0, Globe, samples) >>
                  /\ tree = <<>>
  <2>1. \A b \in BOOLEAN : (IF b THEN WE ELSE SN) \in Directions
    BY DEF Directions
  <2> QED
    BY <2>1 DEF InitSamples, Directions
<1> DEFINE c == Call(d, <<>>, 0, Globe, samples)
<1>2. c.path = <<>> /\ c.level = 0 /\ c.r = Globe /\ c.how # "squares"
  BY <1>1 DEF Call, Directions, SN, WE
<1>3. IsSeq(todo) /\ DOMAIN todo = {1} /\ todo[1] = c
  <2>1. <<c>> \in Seq({c}) /\ DOMAIN <<c>> = {1} /\ <<c>>[1] = c
    OBVIOUS
  <2> QED
    BY <1>1, <2>1 DEF IsSeq
<1>4. DOMAIN tree = {} /\ tree = [p \in DOMAIN tree |-> tree[p]]
  BY <1>1
<1>5. IsRect(Globe)
  BY DEF IsRect, Globe
<1>6. <<>> \in Seq(Nat) /\ Len(<<>>) = 0
  OBVIOUS
<1> HIDE DEF c
<1> QED
  BY <1>2, <1>3, <1>4, <1>5, <1>6 DEF Growing, CallInv, IsTree

LEMMA ShortPaths ==
  ASSUME NEW x \in Nat, NEW y \in Nat
  PROVE  Append(<<>>, x) = <<x>> /\ Append(<<x>>, y) = <<x, y>>
<1> DEFINE s == Append(<<x>>, y)
           t == <<x, y>>
<1>1. s \in Seq(Nat) /\ Len(s) = 2 /\ s[1] = x /\ s[2] = y
  OBVIOUS
<1>2. t \in Seq(Nat) /\ Len(t) = 2 /\ t[1] = x /\ t[2] = y
  OBVIOUS
<1> HIDE DEF s, t
<1>3. s = t
  BY <1>1, <1>2, SeqEqual
<1> QED
  BY <1>3 DEF s, t

LEMMA TwoCuts ==
  ASSUME NEW d \in Directions, NEW r, IsRect(r),
         NEW cuts, IsSeq(cuts), Len(cuts) = 2
  PROVE  /\ IsRect(Regions(d, r, cuts)[1])
         /\ IsRect(Regions(d, r, cuts)[3])
         /\ Lo(d, Regions(d, r, cuts)[3]) = cuts[2]
<1> DEFINE rs == Regions(d, r, cuts)
<1>1. /\ \A k \in 1 .. Len(cuts) + 1 : IsRect(rs[k])
      /\ \A k \in 1 .. Len(cuts) : Lo(d, rs[k + 1]) = cuts[k]
  BY RegionsBegin
<1> HIDE DEF rs
<1>2. Len(cuts) + 1 = 3
  OBVIOUS
<1>3. IsRect(rs[1]) /\ IsRect(rs[3]) /\ Lo(d, rs[2 + 1]) = cuts[2]
  BY <1>1, <1>2
<1> QED
  BY <1>3 DEF rs

LEMMA SquaresInit ==
  ASSUME NEW samples, InitSquares(samples)
  PROVE  Growing
<1>1. PICK h, v, base : \E c \in BestCandidates(h, v) :
       LET tr == CenteredOn(base, c)
           p == Parts(c)
           way == IF p.sn >= p.we THEN SN ELSE WE
           belt == Slice(SN, Globe, tr.s, tr.n)
           caps == Regions(SN, Globe, <<tr.s, tr.n>>)
           sides == Regions(WE, belt, <<tr.w, tr.e>>)
       IN /\ tree = [path \in {<<>>, << 2 >>} |->
                       IF path = <<>> THEN Node(SN, Globe, 0, <<tr.s, tr.n>>)
                                      ELSE Node(WE, belt, 1, <<tr.w, tr.e>>)]
          /\ todo = << Call("leaf", << 1 >>, 1, caps[1], {}),
                       Call("leaf", << 3 >>, 1, caps[3], {}),
                       Call("leaf", <<2, 1>>, 2, sides[1], {}),
                       Call("squares", <<2, 2>>, 2, tr, samples),
                       Call("leaf", <<2, 3>>, 2, sides[3], {}) >>
          /\ squares = [dir |-> way,
                        first |-> (IF way = SN THEN p.sn ELSE p.we) - 1,
                        second |-> (IF way = SN THEN p.we ELSE p.sn) - 1]
  BY DEF InitSquares
<1>2. PICK c \in BestCandidates(h, v) :
       LET tr == CenteredOn(base, c)
           p == Parts(c)
           way == IF p.sn >= p.we THEN SN ELSE WE
           belt == Slice(SN, Globe, tr.s, tr.n)
           caps == Regions(SN, Globe, <<tr.s, tr.n>>)
           sides == Regions(WE, belt, <<tr.w, tr.e>>)
       IN /\ tree = [path \in {<<>>, << 2 >>} |->
                       IF path = <<>> THEN Node(SN, Globe, 0, <<tr.s, tr.n>>)
                                      ELSE Node(WE, belt, 1, <<tr.w, tr.e>>)]
          /\ todo = << Call("leaf", << 1 >>, 1, caps[1], {}),
                       Call("leaf", << 3 >>, 1, caps[3], {}),
                       Call("leaf", <<2, 1>>, 2, sides[1], {}),
                       Call("squares", <<2, 2>>, 2, tr, samples),
                       Call("leaf", <<2, 3>>, 2, sides[3], {}) >>
          /\ squares = [dir |-> way,
                        first |-> (IF way = SN THEN p.sn ELSE p.we) - 1,
                        second |-> (IF way = SN THEN p.we ELSE p.sn) - 1]
  BY <1>1
<1> DEFINE tr == CenteredOn(base, c)
           belt == Slice(SN, Globe, tr.s, tr.n)
           caps == Regions(SN, Globe, <<tr.s, tr.n>>)
           sides == Regions(WE, belt, <<tr.w, tr.e>>)
           root == Node(SN, Globe, 0, <<tr.s, tr.n>>)
           middle == Node(WE, belt, 1, <<tr.w, tr.e>>)
           c1 == Call("leaf", << 1 >>, 1, caps[1], {})
           c2 == Call("leaf", << 3 >>, 1, caps[3], {})
           c3 == Call("leaf", <<2, 1>>, 2, sides[1], {})
           c4 == Call("squares", <<2, 2>>, 2, tr, samples)
           c5 == Call("leaf", <<2, 3>>, 2, sides[3], {})
<1>3. /\ tree = [path \in {<<>>, << 2 >>} |-> IF path = <<>> THEN root ELSE middle]
      /\ todo = <<c1, c2, c3, c4, c5>>
  BY <1>2
<1>4. /\ squares.dir \in Directions
      /\ squares.first \in Int /\ squares.second \in Int
  <2> DEFINE p == Parts(c)
             d == IF p.sn >= p.we THEN SN ELSE WE
  <2>1. squares = [dir |-> d,
                   first |-> (IF d = SN THEN p.sn ELSE p.we) - 1,
                   second |-> (IF d = SN THEN p.we ELSE p.sn) - 1]
    BY <1>2
  <2>2. p.sn \in Int /\ p.we \in Int
    BY PartsType
  <2>3. d \in Directions
    BY DEF Directions
  <2> HIDE DEF p, d
  <2> QED
    BY <2>1, <2>2, <2>3
<1>5. IsRect(Globe) /\ IsRect(tr) /\ SN \in Directions /\ WE \in Directions /\ SN # WE
  BY DEF IsRect, Globe, CenteredOn, Directions, SN, WE
<1> HIDE DEF tr
<1>6. IsRect(belt) /\ Lo(SN, belt) = tr.s /\ Lo(WE, tr) = tr.w
  BY <1>5, SliceBegins DEF Lo
<1> HIDE DEF belt
<1>7. ASSUME NEW x, NEW y
      PROVE  /\ IsSeq(<<x, y>>) /\ Len(<<x, y>>) = 2
             /\ <<x, y>>[1] = x /\ <<x, y>>[2] = y
  <2>1. <<x, y>> \in Seq({x, y})
    OBVIOUS
  <2> QED
    BY <2>1 DEF IsSeq
<1>8. /\ IsRect(caps[1]) /\ IsRect(caps[3]) /\ Lo(SN, caps[3]) = tr.n
      /\ IsRect(sides[1]) /\ IsRect(sides[3]) /\ Lo(WE, sides[3]) = tr.e
  <2>1. \A cuts : IsSeq(cuts) /\ Len(cuts) = 2 =>
          /\ IsRect(Regions(SN, Globe, cuts)[1])
          /\ IsRect(Regions(SN, Globe, cuts)[3])
          /\ Lo(SN, Regions(SN, Globe, cuts)[3]) = cuts[2]
          /\ IsRect(Regions(WE, belt, cuts)[1])
          /\ IsRect(Regions(WE, belt, cuts)[3])
          /\ Lo(WE, Regions(WE, belt, cuts)[3]) = cuts[2]
    BY <1>5, <1>6, TwoCuts
  <2>2. /\ IsSeq(<<tr.s, tr.n>>) /\ Len(<<tr.s, tr.n>>) = 2 /\ <<tr.s, tr.n>>[2] = tr.n
        /\ IsSeq(<<tr.w, tr.e>>) /\ Len(<<tr.w, tr.e>>) = 2 /\ <<tr.w, tr.e>>[2] = tr.e
    BY <1>7
  <2> QED
    BY <2>1, <2>2, Zenon
<1> HIDE DEF caps, sides
<1>9. /\ c1.path = << 1 >> /\ c1.level = 1 /\ c1.r = caps[1] /\ c1.how = "leaf"
      /\ c2.path = << 3 >> /\ c2.level = 1 /\ c2.r = caps[3] /\ c2.how = "leaf"
      /\ c3.path = <<2, 1>> /\ c3.level = 2 /\ c3.r = sides[1] /\ c3.how = "leaf"
      /\ c4.path = <<2, 2>> /\ c4.level = 2 /\ c4.r = tr /\ c4.how = "squares"
      /\ c5.path = <<2, 3>> /\ c5.level = 2 /\ c5.r = sides[3] /\ c5.how = "leaf"
  BY DEF Call
<1>10. /\ root = Node(root.dir, root.r, root.level, root.cuts)
       /\ root.dir = SN /\ root.cuts = <<tr.s, tr.n>>
       /\ middle = Node(middle.dir, middle.r, middle.level, middle.cuts)
       /\ middle.dir = WE /\ middle.cuts = <<tr.w, tr.e>> /\ middle.r = belt
  BY DEF Node
<1> HIDE DEF c1, c2, c3, c4, c5, root, middle
<1>11. /\ IsSeq(todo) /\ DOMAIN todo = 1 .. 5
       /\ todo[1] = c1 /\ todo[2] = c2 /\ todo[3] = c3 /\ todo[4] = c4 /\ todo[5] = c5
  <2> DEFINE s == <<c1, c2, c3, c4, c5>>
  <2>1. /\ s \in Seq({c1, c2, c3, c4, c5}) /\ Len(s) = 5
        /\ s[1] = c1 /\ s[2] = c2 /\ s[3] = c3 /\ s[4] = c4 /\ s[5] = c5
    OBVIOUS
  <2>2. todo = s
    BY <1>3
  <2> HIDE DEF s
  <2> QED
    BY <2>1, <2>2 DEF IsSeq
<1>12. /\ tree = [p \in DOMAIN tree |-> tree[p]]
       /\ DOMAIN tree = {<<>>, << 2 >>} /\ tree[<<>>] = root /\ tree[<< 2 >>] = middle
  <2>1. << 2 >> # <<>>
    OBVIOUS
  <2> QED
    BY <1>3, <2>1
<1>13. \A i \in DOMAIN todo : CallInv(todo[i])
  <2>1. /\ << 1 >> \in Seq(Nat) /\ << 1 >> \notin {<<>>, << 2 >>} /\ Len(<< 1 >>) = 1
        /\ << 3 >> \in Seq(Nat) /\ << 3 >> \notin {<<>>, << 2 >>} /\ Len(<< 3 >>) = 1
    OBVIOUS
  <2>2. ASSUME NEW x \in Nat
        PROVE  <<2, x>> \in Seq(Nat) /\ <<2, x>> \notin {<<>>, << 2 >>} /\ Len(<<2, x>>) = 2
    OBVIOUS
  <2>3. CallInv(c1) /\ CallInv(c2)
    BY <1>8, <1>9, <1>12, <2>1 DEF CallInv
  <2>4. CallInv(c3) /\ CallInv(c4) /\ CallInv(c5)
    BY <1>4, <1>5, <1>8, <1>9, <1>12, <2>2 DEF CallInv
  <2> QED
    BY <1>11, <2>3, <2>4
<1>14. IsTree
  <2>1. /\ Front(<< 1 >>) = <<>> /\ Front(<< 3 >>) = <<>> /\ Front(<< 2 >>) = <<>>
        /\ Front(<<2, 1>>) = << 2 >> /\ Front(<<2, 2>>) = << 2 >> /\ Front(<<2, 3>>) = << 2 >>
    <3>1. \A p \in Seq(Nat), k \in Nat : Front(Append(p, k)) = p
      BY FrontOfAppend
    <3>2. <<>> \in Seq(Nat) /\ << 2 >> \in Seq(Nat)
      OBVIOUS
    <3>3. \A x, y \in Nat : Append(<<>>, x) = <<x>> /\ Append(<<x>>, y) = <<x, y>>
      BY ShortPaths
    <3>4. \A x \in Nat : Front(<<x>>) = <<>> /\ Front(<<2, x>>) = << 2 >>
      BY <3>1, <3>2, <3>3
    <3> QED
      BY <3>4
  <2>2. {<<>>, << 2 >>} \subseteq Seq(Nat)
    OBVIOUS
  <2>3. \A i, j \in 1 .. 5 : todo[i].path = todo[j].path => i = j
    BY <1>9, <1>11
  <2>4. \A i \in 1 .. 5 : Front(todo[i].path) \in {<<>>, << 2 >>}
    BY <1>9, <1>11, <2>1
  <2> QED
    BY <1>11, <1>12, <2>1, <2>2, <2>3, <2>4 DEF IsTree
<1>15. \A p \in DOMAIN tree : NodeInv(p)
  <2>1. /\ Append(<<>>, 2) = << 2 >> /\ Append(<<>>, 3) = << 3 >>
        /\ Append(<< 2 >>, 2) = <<2, 2>> /\ Append(<< 2 >>, 3) = <<2, 3>>
    BY ShortPaths
  <2>2. /\ BeginsAt(Append(<<>>, 1 + 1), SN, tr.s)
        /\ BeginsAt(Append(<<>>, 2 + 1), SN, tr.n)
        /\ BeginsAt(Append(<< 2 >>, 1 + 1), WE, tr.w)
        /\ BeginsAt(Append(<< 2 >>, 2 + 1), WE, tr.e)
    BY <1>6, <1>8, <1>9, <1>10, <1>11, <1>12, <2>1 DEF BeginsAt
  <2>3. ASSUME NEW x, NEW y, NEW d, NEW p,
               BeginsAt(Append(p, 1 + 1), d, x), BeginsAt(Append(p, 2 + 1), d, y)
        PROVE  \A k \in DOMAIN <<x, y>> : BeginsAt(Append(p, k + 1), d, <<x, y>>[k])
    <3>1. \A k \in DOMAIN <<x, y>> : k = 1 \/ k = 2
      OBVIOUS
    <3> QED
      BY <2>3, <3>1
  <2>4. /\ \A k \in DOMAIN root.cuts :
             BeginsAt(Append(<<>>, k + 1), root.dir, root.cuts[k])
        /\ \A k \in DOMAIN middle.cuts :
             BeginsAt(Append(<< 2 >>, k + 1), middle.dir, middle.cuts[k])
    BY <1>10, <2>2, <2>3
  <2>5. IsSeq(root.cuts) /\ IsSeq(middle.cuts)
    BY <1>7, <1>10
  <2>6. NodeInv(<<>>)
    BY <1>10, <1>12, <2>4, <2>5 DEF NodeInv
  <2>7. NodeInv(<< 2 >>)
    BY <1>10, <1>12, <2>4, <2>5 DEF NodeInv
  <2> QED
    BY <1>12, <2>6, <2>7
<1> QED
  BY <1>11, <1>12, <1>13, <1>14, <1>15 DEF Growing

----------------------------------------------------------------------------
(* The tree that is read back is the one that was saved.                   *)

LEMMA InitTree == Init => TreeInv
BY SamplesInit, SquaresInit DEF Init, TreeInv

(* A node's cuts are where its children begin.                             *)
LEMMA CutsDecoded ==
  ASSUME Growing, todo = <<>>, NEW p \in DOMAIN tree
  PROVE  DecodedCuts(p) = tree[p].cuts
<1> DEFINE cuts == tree[p].cuts
<1>1. PICK S : cuts \in Seq(S)
  BY DEF Growing, NodeInv, IsSeq
<1>2. ASSUME NEW k \in DOMAIN cuts
      PROVE  Lo(tree[p].dir, Kids(p)[k + 1].r) = cuts[k]
  <2>1. BeginsAt(Append(p, k + 1), tree[p].dir, cuts[k])
    BY DEF Growing, NodeInv
  <2>2. Lo(tree[p].dir, tree[Append(p, k + 1)].r) = cuts[k]
    BY <2>1 DEF BeginsAt
  <2>3. k + 1 \in 1 .. Len(cuts) + 1
    BY <1>1
  <2>4. Kids(p)[k + 1] = tree[Append(p, k + 1)]
    BY <2>3 DEF Kids
  <2> QED
    BY <2>2, <2>4
<1>3. cuts = [k \in DOMAIN cuts |-> cuts[k]]
  BY <1>1
<1> QED
  BY <1>2, <1>3 DEF DecodedCuts

LEMMA StepTree == TreeInv /\ [Next]_vars => TreeInv'
<1> SUFFICES ASSUME TreeInv, [Next]_vars PROVE TreeInv'
  OBVIOUS
<1>1. ASSUME todo # <<>>, UNCHANGED phase, Growing => Growing' PROVE TreeInv'
  BY <1>1 DEF TreeInv
<1>2. CASE MakeLeaf
  BY <1>1, <1>2, LeafGrowing DEF MakeLeaf
<1>3. CASE CutOutliers
  BY <1>1, <1>3, OutliersGrowing DEF CutOutliers
<1>4. CASE CutSamples
  BY <1>1, <1>4, SamplesGrowing DEF CutSamples
<1>5. CASE CutSquares
  BY <1>1, <1>5, SquaresGrowing DEF CutSquares
<1>6. CASE SaveIndex
  BY <1>6 DEF SaveIndex, TreeInv, Growing, CallInv, IsTree, NodeInv, BeginsAt
<1>7. CASE ReadIndex
  BY <1>7 DEF ReadIndex, TreeInv
<1>8. CASE UNCHANGED vars
  BY <1>8 DEF vars, TreeInv, Growing, CallInv, IsTree, NodeInv, BeginsAt
<1> QED
  BY <1>2, <1>3, <1>4, <1>5, <1>6, <1>7, <1>8 DEF Next

(* The partition index that is read back sends every location to the leaf  *)
(* that the one saved did, although cut points are not saved: a tree that  *)
(* was made, by samples or by squares, has each child begin at its cut.    *)
THEOREM RoutesKept == Spec => IndexKeepsRoutes
<1>1. Spec => []TreeInv
  BY InitTree, StepTree, PTL DEF Spec
<1>2. TreeInv /\ [Next]_vars
      => [phase = "created" => \A loc \in Locations : Route(loc)' = Route(loc)]_vars
  <2> SUFFICES ASSUME TreeInv, Next, phase = "created", NEW loc \in Locations
               PROVE  Route(loc)' = Route(loc)
    OBVIOUS
  <2>1. Growing /\ todo = <<>>
    BY DEF TreeInv
  <2>2. ReadIndex
    BY <2>1 DEF Next, MakeLeaf, CutOutliers, CutSamples, CutSquares, SaveIndex
  <2>3. tree' = [p \in DOMAIN tree |-> Node(tree[p].dir, tree[p].r, 0, tree[p].cuts)]
    BY <2>1, <2>2, CutsDecoded DEF ReadIndex
  <2> QED
    BY <2>3, SameRoute DEF Node
<1> QED
  BY <1>1, <1>2, PTL DEF Spec, IndexKeepsRoutes

----------------------------------------------------------------------------
(* That every location has one leaf: the tree and the calls that remain    *)
(* tile the globe at any time.                                             *)

(* Between the regions of the tree and the calls nothing is left out: the  *)
(* region of a path is that of its node, or of the call for it.            *)
HasRegion(q, r) ==
  \/ q \in DOMAIN tree /\ tree[q].r = r
  \/ \E i \in DOMAIN todo : todo[i].path = q /\ todo[i].r = r

IsRegion(r) == r \in Rects /\ r.w <= r.e /\ r.s <= r.n

(* Cuts of a region in their order; no part of it is cut inside out.       *)
Ordered(d, r, cuts) ==
  /\ cuts \in Seq(Int)
  /\ \A k \in DOMAIN cuts : Lo(d, r) <= cuts[k] /\ cuts[k] <= Hi(d, r)
  /\ \A j, k \in DOMAIN cuts : j <= k => cuts[j] <= cuts[k]

IsKid(q) ==
  /\ Front(q) \in DOMAIN tree /\ tree[Front(q)].dir # Leaf
  /\ Last(q) \in 1 .. Len(tree[Front(q)].cuts) + 1

NodeTiled(p) ==
  LET node == tree[p]
  IN /\ IsRegion(node.r)
     /\ \/ node.dir = Leaf /\ node.cuts = <<>>
        \/ /\ node.dir \in Directions
           /\ Ordered(node.dir, node.r, node.cuts)
           /\ \A k \in 1 .. Len(node.cuts) + 1 :
                HasRegion(Append(p, k), Regions(node.dir, node.r, node.cuts)[k])
     /\ p # <<>> => IsKid(p)

(* The samples that decide where a region is cut are from that region.     *)
SamplesInside(c) ==
  c.how \in {SN, WE, "choose"} =>
    c.locs \subseteq Locations /\ \A loc \in c.locs : Covers(c.r, loc)

CallTiled(c) ==
  /\ IsRegion(c.r)
  /\ c.path # <<>> => IsKid(c.path)
  /\ SamplesInside(c)

Tiled ==
  /\ DOMAIN tree \subseteq Seq(Nat)
  /\ HasRegion(<<>>, Globe)
  /\ \A p \in DOMAIN tree : NodeTiled(p)
  /\ \A i \in DOMAIN todo : CallTiled(todo[i])
  /\ \E n \in Nat : \A p \in DOMAIN tree : Len(p) <= n

(* What may become a leaf without being looked at is not a square, or it   *)
(* has no area.                                                            *)
SquareCall(c) ==
  \/ c.how = "leaf" /\ c.level <= 2
  \/ /\ c.how = "squares" /\ c.level >= 2
     /\ c.level <= 3 /\ squares.second < 1
          => Lo(Other(squares.dir), c.r) = Hi(Other(squares.dir), c.r)
     /\ c.level > 3 /\ c.level % 2 = 1 => Len(tree[Front(c.path)].cuts) >= 1

SquaresCut ==
  squares.dir # Leaf =>
    /\ squares.dir \in Directions
    /\ SquaresSmallEnough
    /\ \A i \in DOMAIN todo : SquareCall(todo[i])

----------------------------------------------------------------------------
(* The regions cover the globe and overlap along their borders only.       *)

LEMMA RegionFields ==
  ASSUME NEW r, IsRegion(r)
  PROVE  /\ IsRect(r)
         /\ r.w \in 0 .. MaxLon /\ r.e \in 0 .. MaxLon
         /\ r.s \in 0 .. MaxLat /\ r.n \in 0 .. MaxLat
         /\ r.w <= r.e /\ r.s <= r.n
BY DEF IsRegion, Rects, IsRect

LEMMA LimitsType == MaxLat \in Nat /\ MaxLon \in Nat
BY PartitionAssumption

LEMMA SliceFields ==
  ASSUME NEW d \in Directions, NEW r, IsRegion(r), NEW lo \in Int, NEW hi \in Int,
         Lo(d, r) <= lo, lo <= hi, hi <= Hi(d, r)
  PROVE  LET part == Slice(d, r, lo, hi)
         IN /\ IsRegion(part)
            /\ Lo(d, part) = lo /\ Hi(d, part) = hi
            /\ Lo(Other(d), part) = Lo(Other(d), r)
            /\ Hi(Other(d), part) = Hi(Other(d), r)
<1>1. /\ r.w \in 0 .. MaxLon /\ r.e \in 0 .. MaxLon /\ r.w <= r.e
      /\ r.s \in 0 .. MaxLat /\ r.n \in 0 .. MaxLat /\ r.s <= r.n
      /\ MaxLat \in Nat /\ MaxLon \in Nat
  BY RegionFields, LimitsType
<1>2. r \in [w : {r.w}, e : {r.e}, s : {r.s}, n : {r.n}]
  BY RegionFields DEF IsRect
<1>3. CASE d = SN
  <2>1. Slice(d, r, lo, hi) = [r EXCEPT !.s = lo, !.n = hi]
    BY <1>3 DEF Slice
  <2>2. [r EXCEPT !.s = lo] = [w |-> r.w, e |-> r.e, s |-> lo, n |-> r.n]
    BY <1>2
  <2>3. [[w |-> r.w, e |-> r.e, s |-> lo, n |-> r.n] EXCEPT !.n = hi]
          = [w |-> r.w, e |-> r.e, s |-> lo, n |-> hi]
    OBVIOUS
  <2>4. Slice(d, r, lo, hi) = [w |-> r.w, e |-> r.e, s |-> lo, n |-> hi]
    BY <2>1, <2>2, <2>3, Zenon
  <2>5. lo \in 0 .. MaxLat /\ hi \in 0 .. MaxLat
    BY <1>1, <1>3 DEF Lo, Hi
  <2> QED
    BY <1>1, <1>3, <2>4, <2>5 DEF IsRegion, Rects, Lo, Hi, Other, SN, WE
<1>4. CASE d = WE
  <2>1. Slice(d, r, lo, hi) = [r EXCEPT !.w = lo, !.e = hi]
    BY <1>4 DEF Slice, SN, WE
  <2>2. [r EXCEPT !.w = lo] = [w |-> lo, e |-> r.e, s |-> r.s, n |-> r.n]
    BY <1>2
  <2>3. [[w |-> lo, e |-> r.e, s |-> r.s, n |-> r.n] EXCEPT !.e = hi]
          = [w |-> lo, e |-> hi, s |-> r.s, n |-> r.n]
    OBVIOUS
  <2>4. Slice(d, r, lo, hi) = [w |-> lo, e |-> hi, s |-> r.s, n |-> r.n]
    BY <2>1, <2>2, <2>3, Zenon
  <2>5. lo \in 0 .. MaxLon /\ hi \in 0 .. MaxLon
    BY <1>1, <1>4 DEF Lo, Hi, SN, WE
  <2> QED
    BY <1>1, <1>4, <2>4, <2>5 DEF IsRegion, Rects, Lo, Hi, Other, SN, WE
<1> QED
  BY <1>3, <1>4 DEF Directions

LEMMA SidesType ==
  ASSUME NEW d \in Directions, NEW r, IsRegion(r)
  PROVE  /\ Other(d) \in Directions
         /\ Lo(d, r) \in Int /\ Hi(d, r) \in Int /\ Lo(d, r) <= Hi(d, r)
         /\ Lo(Other(d), r) \in Int /\ Hi(Other(d), r) \in Int
         /\ Lo(Other(d), r) <= Hi(Other(d), r)
BY RegionFields, LimitsType DEF Directions, Other, Lo, Hi, SN, WE

LEMMA EndsOf ==
  ASSUME NEW cuts \in Seq(Int), NEW lo \in Int, NEW hi \in Int
  PROVE  LET ends == (<<lo>> \o cuts) \o <<hi>>
         IN /\ ends[1] = lo /\ ends[Len(cuts) + 2] = hi
            /\ \A k \in 1 .. Len(cuts) : ends[k + 1] = cuts[k]
<1> DEFINE firsts == <<lo>> \o cuts
<1>1. <<lo>> \in Seq(Int) /\ Len(<<lo>>) = 1 /\ <<lo>>[1] = lo
      /\ <<hi>> \in Seq(Int) /\ Len(<<hi>>) = 1 /\ <<hi>>[1] = hi
      /\ Len(cuts) \in Nat
  OBVIOUS
<1>2. /\ firsts \in Seq(Int) /\ Len(firsts) = 1 + Len(cuts) /\ firsts[1] = lo
      /\ \A k \in 1 .. Len(cuts) : firsts[k + 1] = cuts[k]
  BY <1>1
<1> HIDE DEF firsts
<1>3. /\ (firsts \o <<hi>>)[1] = firsts[1]
      /\ (firsts \o <<hi>>)[Len(cuts) + 2] = hi
      /\ \A k \in 1 .. Len(cuts) : (firsts \o <<hi>>)[k + 1] = firsts[k + 1]
  BY <1>1, <1>2
<1> QED
  BY <1>2, <1>3 DEF firsts

(* The regions between cuts that are in order: each is a region, and it    *)
(* reaches from one cut to the next.                                       *)
LEMMA RegionsOf ==
  ASSUME NEW d \in Directions, NEW r, IsRegion(r), NEW cuts, Ordered(d, r, cuts)
  PROVE  /\ Len(cuts) \in Nat /\ DOMAIN cuts = 1 .. Len(cuts)
         /\ DOMAIN Regions(d, r, cuts) = 1 .. Len(cuts) + 1
         /\ \A k \in 1 .. Len(cuts) + 1 :
              LET part == Regions(d, r, cuts)[k]
              IN /\ IsRegion(part)
                 /\ Lo(d, part) = (IF k = 1 THEN Lo(d, r) ELSE cuts[k - 1])
                 /\ Hi(d, part) = (IF k = Len(cuts) + 1 THEN Hi(d, r) ELSE cuts[k])
                 /\ Lo(Other(d), part) = Lo(Other(d), r)
                 /\ Hi(Other(d), part) = Hi(Other(d), r)
<1> DEFINE ends == (<<Lo(d, r)>> \o cuts) \o <<Hi(d, r)>>
<1>1. /\ cuts \in Seq(Int) /\ Len(cuts) \in Nat /\ DOMAIN cuts = 1 .. Len(cuts)
      /\ Lo(d, r) \in Int /\ Hi(d, r) \in Int /\ Lo(d, r) <= Hi(d, r)
  BY SidesType DEF Ordered
<1>2. Regions(d, r, cuts) = [k \in 1 .. Len(cuts) + 1 |-> Slice(d, r, ends[k], ends[k + 1])]
  BY DEF Regions
<1>3. /\ ends[1] = Lo(d, r) /\ ends[Len(cuts) + 2] = Hi(d, r)
      /\ \A k \in 1 .. Len(cuts) : ends[k + 1] = cuts[k]
  BY <1>1, EndsOf
<1> HIDE DEF ends
<1>4. ASSUME NEW k \in 1 .. Len(cuts) + 1
      PROVE  /\ ends[k] = (IF k = 1 THEN Lo(d, r) ELSE cuts[k - 1])
             /\ ends[k + 1] = (IF k = Len(cuts) + 1 THEN Hi(d, r) ELSE cuts[k])
             /\ ends[k] \in Int /\ ends[k + 1] \in Int
             /\ Lo(d, r) <= ends[k] /\ ends[k] <= ends[k + 1] /\ ends[k + 1] <= Hi(d, r)
  <2>1. ends[k] = (IF k = 1 THEN Lo(d, r) ELSE cuts[k - 1])
    <3>1. CASE k = 1
      BY <1>3, <3>1
    <3>2. CASE k # 1
      <4>1. k - 1 \in 1 .. Len(cuts) /\ (k - 1) + 1 = k
        BY <1>1, <3>2
      <4> QED
        BY <1>3, <3>2, <4>1
    <3> QED
      BY <3>1, <3>2
  <2>2. ends[k + 1] = (IF k = Len(cuts) + 1 THEN Hi(d, r) ELSE cuts[k])
    <3>1. CASE k = Len(cuts) + 1
      <4>1. k + 1 = Len(cuts) + 2
        BY <1>1, <3>1
      <4> QED
        BY <1>3, <3>1, <4>1
    <3>2. CASE k # Len(cuts) + 1
      <4>1. k \in 1 .. Len(cuts)
        BY <1>1, <3>2
      <4> QED
        BY <1>3, <3>2, <4>1
    <3> QED
      BY <3>1, <3>2
  <2>3. /\ \A j \in 1 .. Len(cuts) : cuts[j] \in Int /\ Lo(d, r) <= cuts[j] /\ cuts[j] <= Hi(d, r)
        /\ k # 1 => k - 1 \in 1 .. Len(cuts)
        /\ k # Len(cuts) + 1 => k \in 1 .. Len(cuts)
        /\ k # 1 /\ k # Len(cuts) + 1 => cuts[k - 1] <= cuts[k]
    BY <1>1 DEF Ordered
  <2> QED
    BY <1>1, <2>1, <2>2, <2>3
<1>5. ASSUME NEW k \in 1 .. Len(cuts) + 1
      PROVE  LET part == Regions(d, r, cuts)[k]
             IN /\ IsRegion(part)
                /\ Lo(d, part) = ends[k] /\ Hi(d, part) = ends[k + 1]
                /\ Lo(Other(d), part) = Lo(Other(d), r)
                /\ Hi(Other(d), part) = Hi(Other(d), r)
  <2>1. Regions(d, r, cuts)[k] = Slice(d, r, ends[k], ends[k + 1])
    BY <1>2
  <2> QED
    BY <1>4, <2>1, SliceFields
<1> QED
  BY <1>1, <1>2, <1>4, <1>5

LEMMA LeastOf ==
  ASSUME NEW T \in SUBSET Nat, T # {}
  PROVE  Min(T) \in T /\ \A x \in T : Min(T) <= x
<1>1. \E x \in T : \A y \in T : x <= y
  BY Smallest
<1> QED
  BY <1>1 DEF Min

(* What is true at zero, and of a number's successor, is true of every     *)
(* number.                                                                 *)
LEMMA EveryNumber ==
  ASSUME NEW G, 0 \in G, \A n \in Nat : n \in G => n + 1 \in G
  PROVE  Nat \subseteq G
<1> SUFFICES ASSUME ~ (Nat \subseteq G) PROVE FALSE
  OBVIOUS
<1>1. PICK n \in Nat \ G : \A m \in Nat \ G : n <= m
  <2>1. Nat \ G # {} /\ Nat \ G \in SUBSET Nat
    OBVIOUS
  <2> QED
    BY <2>1, Smallest
<1>2. n - 1 \in Nat /\ n - 1 \in G
  <2>1. n - 1 \in Nat
    BY <1>1
  <2> QED
    BY <1>1, <2>1
<1>3. (n - 1) + 1 = n
  BY <1>1
<1> QED
  BY <1>1, <1>2, <1>3

LEMMA CoordTypes ==
  ASSUME NEW d \in Directions, NEW loc \in Locations
  PROVE  Coord(d, loc) \in Nat /\ Coord(Other(d), loc) \in Nat
BY LimitsType DEF Locations, Coord, Directions, Other, SN, WE

(* A region holds a location if it does in both directions.                *)
LEMMA CoversAlong ==
  ASSUME NEW d \in Directions, NEW r, IsRegion(r), NEW loc \in Locations
  PROVE  /\ Covers(r, loc)
              <=> /\ Lo(d, r) <= Coord(d, loc) /\ Coord(d, loc) <= Hi(d, r)
                  /\ Lo(Other(d), r) <= Coord(Other(d), loc)
                  /\ Coord(Other(d), loc) <= Hi(Other(d), r)
         /\ Inside(r, loc)
              <=> /\ Lo(d, r) < Coord(d, loc) /\ Coord(d, loc) < Hi(d, r)
                  /\ Lo(Other(d), r) < Coord(Other(d), loc)
                  /\ Coord(Other(d), loc) < Hi(Other(d), r)
<1>1. /\ r.w \in Int /\ r.e \in Int /\ r.s \in Int /\ r.n \in Int
      /\ loc.lat \in Int /\ loc.lon \in Int
  BY RegionFields, LimitsType DEF Locations
<1>2. CASE d = SN
  BY <1>1, <1>2 DEF Covers, Inside, Lo, Hi, Coord, Other, SN, WE
<1>3. CASE d = WE
  BY <1>1, <1>3 DEF Covers, Inside, Lo, Hi, Coord, Other, SN, WE
<1> QED
  BY <1>2, <1>3 DEF Directions

(* The child to which a location goes is one of the children; its region   *)
(* holds the location if the node's does.                                  *)
LEMMA ChildCovers ==
  ASSUME NEW node, node.dir \in Directions, IsRegion(node.r),
         Ordered(node.dir, node.r, node.cuts), NEW loc \in Locations
  PROVE  LET k == Child(node, loc)
         IN /\ k \in 1 .. Len(node.cuts) + 1
            /\ Covers(node.r, loc) => Covers(Regions(node.dir, node.r, node.cuts)[k], loc)
<1> DEFINE d == node.dir
           r == node.r
           cuts == node.cuts
           x == Coord(d, loc)
           beyond == {k \in DOMAIN cuts : x < cuts[k]}
           k == Child(node, loc)
<1>1. /\ Len(cuts) \in Nat /\ DOMAIN cuts = 1 .. Len(cuts)
      /\ x \in Nat
      /\ \A j \in DOMAIN cuts : cuts[j] \in Int
  BY RegionsOf, CoordTypes DEF Ordered
<1>2. k = (IF beyond = {} THEN Len(cuts) + 1 ELSE Min(beyond))
  BY DEF Child
<1>3. beyond # {} => Min(beyond) \in beyond /\ \A j \in beyond : Min(beyond) <= j
  <2>1. beyond \in SUBSET Nat
    BY <1>1
  <2> HIDE DEF beyond
  <2> QED
    BY <2>1, LeastOf
<1> HIDE DEF k
<1>4. k \in 1 .. Len(cuts) + 1
  BY <1>1, <1>2, <1>3
<1>5. /\ k # 1 => cuts[k - 1] <= x
      /\ k # Len(cuts) + 1 => x < cuts[k]
  <2>1. CASE beyond = {}
    <3>1. k = Len(cuts) + 1
      BY <1>2, <2>1
    <3>2. k # 1 => k - 1 \in DOMAIN cuts /\ k - 1 \notin beyond
      BY <1>1, <2>1, <3>1
    <3> QED
      BY <1>1, <3>1, <3>2
  <2>2. CASE beyond # {}
    <3>1. k \in beyond /\ \A j \in beyond : k <= j
      BY <1>2, <1>3, <2>2
    <3>2. k # 1 => k - 1 \in DOMAIN cuts /\ k - 1 \notin beyond
      BY <1>1, <3>1
    <3> QED
      BY <1>1, <3>1, <3>2
  <2> QED
    BY <2>1, <2>2
<1>6. ASSUME Covers(r, loc)
      PROVE  Covers(Regions(d, r, cuts)[k], loc)
  <2> DEFINE part == Regions(d, r, cuts)[k]
  <2>1. /\ IsRegion(part)
        /\ Lo(d, part) = (IF k = 1 THEN Lo(d, r) ELSE cuts[k - 1])
        /\ Hi(d, part) = (IF k = Len(cuts) + 1 THEN Hi(d, r) ELSE cuts[k])
        /\ Lo(Other(d), part) = Lo(Other(d), r)
        /\ Hi(Other(d), part) = Hi(Other(d), r)
    BY <1>4, RegionsOf
  <2> HIDE DEF part
  <2>2. /\ Lo(d, r) <= x /\ x <= Hi(d, r)
        /\ Lo(Other(d), r) <= Coord(Other(d), loc)
        /\ Coord(Other(d), loc) <= Hi(Other(d), r)
    BY <1>6, CoversAlong
  <2>3. Lo(d, part) <= x /\ x <= Hi(d, part)
    <3>1. k # Len(cuts) + 1 => x <= cuts[k]
      BY <1>1, <1>4, <1>5
    <3> QED
      BY <1>5, <2>1, <2>2, <3>1
  <2>4. Covers(part, loc)
    BY <2>1, <2>2, <2>3, CoversAlong
  <2> QED
    BY <2>4 DEF part
<1> QED
  BY <1>4, <1>6 DEF k

(* A child's region is within the node's; and what is inside a child's     *)
(* region goes to that child.                                              *)
LEMMA ChildInside ==
  ASSUME NEW node, node.dir \in Directions, IsRegion(node.r),
         Ordered(node.dir, node.r, node.cuts), NEW loc \in Locations,
         NEW k \in 1 .. Len(node.cuts) + 1
  PROVE  LET part == Regions(node.dir, node.r, node.cuts)[k]
         IN /\ Covers(part, loc) => Covers(node.r, loc)
            /\ Inside(part, loc) => Inside(node.r, loc) /\ Child(node, loc) = k
<1> DEFINE d == node.dir
           r == node.r
           cuts == node.cuts
           x == Coord(d, loc)
           beyond == {j \in DOMAIN cuts : x < cuts[j]}
           part == Regions(d, r, cuts)[k]
<1>1. /\ Len(cuts) \in Nat /\ DOMAIN cuts = 1 .. Len(cuts)
      /\ x \in Nat
      /\ Lo(d, r) \in Int /\ Hi(d, r) \in Int
      /\ \A j \in DOMAIN cuts : cuts[j] \in Int /\ Lo(d, r) <= cuts[j] /\ cuts[j] <= Hi(d, r)
      /\ \A i, j \in DOMAIN cuts : i <= j => cuts[i] <= cuts[j]
  <2>1. Len(cuts) \in Nat /\ DOMAIN cuts = 1 .. Len(cuts)
    BY RegionsOf
  <2>2. x \in Nat /\ Lo(d, r) \in Int /\ Hi(d, r) \in Int
    BY CoordTypes, SidesType
  <2> QED
    BY <2>1, <2>2 DEF Ordered
<1>2. /\ IsRegion(part)
      /\ Lo(d, part) = (IF k = 1 THEN Lo(d, r) ELSE cuts[k - 1])
      /\ Hi(d, part) = (IF k = Len(cuts) + 1 THEN Hi(d, r) ELSE cuts[k])
      /\ Lo(Other(d), part) = Lo(Other(d), r)
      /\ Hi(Other(d), part) = Hi(Other(d), r)
  BY RegionsOf
<1> HIDE DEF part
<1>3. /\ k # 1 => k - 1 \in DOMAIN cuts
      /\ k # Len(cuts) + 1 => k \in DOMAIN cuts
  BY <1>1
<1>4. Lo(d, r) <= Lo(d, part) /\ Hi(d, part) <= Hi(d, r)
      /\ Lo(d, part) \in Int /\ Hi(d, part) \in Int
  BY <1>1, <1>2, <1>3
<1>5. ASSUME Covers(part, loc) PROVE Covers(r, loc)
  <2>1. /\ Lo(d, part) <= x /\ x <= Hi(d, part)
        /\ Lo(Other(d), part) <= Coord(Other(d), loc)
        /\ Coord(Other(d), loc) <= Hi(Other(d), part)
    BY <1>2, <1>5, CoversAlong
  <2>2. Lo(d, r) <= x /\ x <= Hi(d, r)
    BY <1>1, <1>4, <2>1
  <2> QED
    BY <1>2, <2>1, <2>2, CoversAlong
<1>6. ASSUME Inside(part, loc) PROVE Inside(r, loc) /\ Child(node, loc) = k
  <2>1. /\ Lo(d, part) < x /\ x < Hi(d, part)
        /\ Lo(Other(d), part) < Coord(Other(d), loc)
        /\ Coord(Other(d), loc) < Hi(Other(d), part)
    BY <1>2, <1>6, CoversAlong
  <2>2. Lo(d, r) < x /\ x < Hi(d, r)
    BY <1>1, <1>4, <2>1
  <2>3. Inside(r, loc)
    BY <1>2, <2>1, <2>2, CoversAlong
  <2>4. \A j \in beyond : k <= j
    <3> SUFFICES ASSUME NEW j \in DOMAIN cuts, x < cuts[j], ~ (k <= j) PROVE FALSE
      OBVIOUS
    <3>1. k # 1 /\ j <= k - 1 /\ k - 1 \in DOMAIN cuts
      BY <1>1, <1>3
    <3>2. cuts[j] <= cuts[k - 1] /\ cuts[k - 1] < x
      BY <1>1, <1>2, <2>1, <3>1
    <3> QED
      BY <1>1, <3>1, <3>2
  <2>5. k # Len(cuts) + 1 => k \in beyond
    BY <1>2, <1>3, <2>1
  <2>6. Child(node, loc) = (IF beyond = {} THEN Len(cuts) + 1 ELSE Min(beyond))
    BY DEF Child
  <2>7. beyond \in SUBSET Nat
    BY <1>1
  <2>8. k = Len(cuts) + 1 => beyond = {}
    BY <1>1, <2>4
  <2>9. beyond # {} => Min(beyond) \in beyond /\ \A j \in beyond : Min(beyond) <= j
    <3> HIDE DEF beyond
    <3> QED
      BY <2>7, LeastOf
  <2> HIDE DEF beyond
  <2>10. Child(node, loc) = k
    <3>1. CASE k = Len(cuts) + 1
      BY <2>6, <2>8, <3>1
    <3>2. CASE k # Len(cuts) + 1
      <4>1. Min(beyond) \in beyond /\ Min(beyond) <= k /\ k <= Min(beyond)
        BY <2>4, <2>5, <2>9, <3>2
      <4>2. Min(beyond) = k
        <5>1. \A j \in beyond : j \in Nat
          BY <2>7
        <5>2. k \in Nat
          BY <1>1
        <5>3. Min(beyond) \in Nat
          BY <4>1, <5>1
        <5> QED
          BY <4>1, <5>2, <5>3
      <4> QED
        BY <2>5, <2>6, <3>2, <4>2
    <3> QED
      BY <3>1, <3>2
  <2> QED
    BY <2>3, <2>10
<1> QED
  BY <1>5, <1>6 DEF part

(* From every place of a tree of bounded depth a way on leads to an end:   *)
(* the function that follows it exists.                                    *)
Follows(f, T, ends, step) == f = [p \in T |-> IF p \in ends THEN p ELSE f[step[p]]]

LEMMA FollowedToTheEnd ==
  ASSUME NEW T, T \subseteq Seq(Nat), NEW b \in Nat, \A p \in T : Len(p) <= b,
         NEW ends, NEW step,
         \A p \in T : p \notin ends => step[p] \in T /\ Len(step[p]) = Len(p) + 1
  PROVE  \E f : Follows(f, T, ends, step)
<1> DEFINE Deep(n) == {p \in T : Len(p) + n >= b}
           FollowsDeep(f, n) == Follows(f, Deep(n), ends, step)
           G == {n \in Nat : \E f : FollowsDeep(f, n)}
<1>1. \A p \in T : Len(p) \in Nat
  BY LenProperties
<1>2. 0 \in G
  <2> DEFINE f == [p \in Deep(0) |-> p]
  <2>1. \A p \in Deep(0) : p \in ends
    BY <1>1
  <2>2. f = [p \in Deep(0) |-> IF p \in ends THEN p ELSE f[step[p]]]
    BY <2>1
  <2>3. FollowsDeep(f, 0)
    BY <2>2, Zenon DEF Follows
  <2> HIDE DEF FollowsDeep, f
  <2> QED
    BY <2>3
<1>3. ASSUME NEW n \in Nat, n \in G PROVE n + 1 \in G
  <2>1. PICK f : FollowsDeep(f, n)
    BY <1>3
  <2> DEFINE g == [p \in Deep(n + 1) |-> IF p \in ends THEN p ELSE f[step[p]]]
  <2>2. \A q \in Deep(n) : f[q] = (IF q \in ends THEN q ELSE f[step[q]])
    BY <2>1 DEF Follows
  <2>3. \A q \in Deep(n) : q \in Deep(n + 1)
    BY <1>1
  <2>4. \A p \in Deep(n + 1) : p \notin ends => step[p] \in Deep(n)
    BY <1>1
  <2> HIDE DEF Deep
  <2>5. \A q \in Deep(n) : g[q] = f[q]
    BY <2>2, <2>3
  <2>6. \A p \in Deep(n + 1) :
          (IF p \in ends THEN p ELSE f[step[p]]) = (IF p \in ends THEN p ELSE g[step[p]])
    BY <2>4, <2>5
  <2>7. g = [p \in Deep(n + 1) |-> IF p \in ends THEN p ELSE g[step[p]]]
    <3> DEFINE h == [p \in Deep(n + 1) |-> IF p \in ends THEN p ELSE g[step[p]]]
    <3>1. DOMAIN g = Deep(n + 1) /\ DOMAIN h = Deep(n + 1)
      OBVIOUS
    <3>2. \A p \in Deep(n + 1) : g[p] = h[p]
      BY <2>6
    <3> QED
      BY <2>6, Zenon
  <2>8. FollowsDeep(g, n + 1)
    BY <2>7, Zenon DEF Follows
  <2> HIDE DEF FollowsDeep, g
  <2> QED
    BY <2>8
<1>4. b \in G
  <2> HIDE DEF G
  <2> QED
    BY <1>2, <1>3, EveryNumber
<1>5. Deep(b) = T
  BY <1>1
<1> HIDE DEF Deep
<1>6. PICK f : FollowsDeep(f, b)
  BY <1>4
<1> QED
  BY <1>5, <1>6, Zenon

(* What is true of a place if it is true of the next one, or if there is   *)
(* none, is true of all.                                                   *)
LEMMA UpFromTheEnds ==
  ASSUME NEW T, T \subseteq Seq(Nat), NEW b \in Nat, \A p \in T : Len(p) <= b,
         NEW G, \A p \in T : \/ p \in G
                             \/ \E q \in T : Len(q) = Len(p) + 1 /\ (q \in G => p \in G)
  PROVE  T \subseteq G
<1> SUFFICES ASSUME ~ (T \subseteq G) PROVE FALSE
  OBVIOUS
<1> DEFINE S == {n \in Nat : \E p \in T \ G : n = b - Len(p)}
<1>1. \A p \in T : Len(p) \in Nat /\ b - Len(p) \in Nat
  BY LenProperties
<1>2. S # {} /\ S \in SUBSET Nat
  <2>1. PICK p \in T \ G : TRUE
    OBVIOUS
  <2>2. b - Len(p) \in S
    BY <1>1, <2>1
  <2> QED
    BY <2>2
<1> HIDE DEF S
<1>3. PICK n \in S : \A m \in S : n <= m
  BY <1>2, Smallest
<1>4. PICK p \in T \ G : n = b - Len(p)
  BY <1>3 DEF S
<1>5. PICK q \in T : Len(q) = Len(p) + 1 /\ q \notin G
  BY <1>4
<1>6. b - Len(q) \in S
  BY <1>1, <1>5 DEF S
<1> QED
  BY <1>1, <1>3, <1>4, <1>5, <1>6

(* What is true of the place before, if it is true of a place, is true of  *)
(* every place on the way from the root.                                   *)
LEMMA DownToTheRoot ==
  ASSUME NEW q \in Seq(Nat), NEW G, q \in G,
         \A p \in Seq(Nat) : p \in G /\ p # <<>> => Front(p) \in G
  PROVE  \A k \in 0 .. Len(q) : SubSeq(q, 1, k) \in G
<1> DEFINE S == {n \in Nat : n <= Len(q) => SubSeq(q, 1, Len(q) - n) \in G}
<1>1. Len(q) \in Nat
  BY LenProperties
<1>2. 0 \in S
  <2>1. SubSeq(q, 1, Len(q)) = q
    BY SubSeqFull
  <2>2. Len(q) - 0 = Len(q)
    BY <1>1
  <2> QED
    BY <2>1, <2>2
<1>3. ASSUME NEW n \in Nat, n \in S PROVE n + 1 \in S
  <2> SUFFICES ASSUME n + 1 <= Len(q) PROVE SubSeq(q, 1, Len(q) - (n + 1)) \in G
    OBVIOUS
  <2> DEFINE p == SubSeq(q, 1, Len(q) - n)
             o == SubSeq(q, 1, Len(q) - (n + 1))
  <2>1. Len(q) - n \in 1 .. Len(q) /\ Len(q) - (n + 1) \in 0 .. Len(q)
    BY <1>1
  <2>2. /\ p \in Seq(Nat) /\ Len(p) = Len(q) - n /\ \A i \in 1 .. Len(q) - n : p[i] = q[i]
        /\ o \in Seq(Nat) /\ Len(o) = Len(q) - (n + 1)
        /\ \A i \in 1 .. Len(q) - (n + 1) : o[i] = q[i]
    BY <1>1, <2>1, SubSeqProperties
  <2>3. p \in G
    BY <1>1, <1>3
  <2> HIDE DEF p, o
  <2>4. p # <<>>
    BY <2>1, <2>2
  <2>5. Front(p) = SubSeq(p, 1, Len(p) - 1)
    BY DEF Front
  <2>6. /\ Front(p) \in Seq(Nat) /\ Len(Front(p)) = Len(p) - 1
        /\ \A i \in 1 .. Len(p) - 1 : Front(p)[i] = p[i]
    <3> DEFINE m == Len(p) - 1
    <3>1. m \in Nat /\ 1 <= m + 1
      BY <1>1, <2>1, <2>2
    <3>2. \A i \in 1 .. m : p[i] \in Nat
      <4>1. p \in [1 .. Len(p) -> Nat] /\ Len(p) \in Nat
        BY <2>2, LenProperties
      <4>2. \A i \in 1 .. m : i \in 1 .. Len(p)
        BY <4>1
      <4> QED
        BY <4>1, <4>2
    <3>3. /\ SubSeq(p, 1, m) \in Seq(Nat)
          /\ Len(SubSeq(p, 1, m)) = (IF 1 <= m THEN m - 1 + 1 ELSE 0)
          /\ \A i \in 1 .. m - 1 + 1 : SubSeq(p, 1, m)[i] = p[1 + i - 1]
      <4> HIDE DEF m
      <4> QED
        BY <3>1, <3>2, SubSeqProperties
    <3>4. Front(p) = SubSeq(p, 1, m)
      BY <2>5
    <3> HIDE DEF m
    <3>5. \A i \in 1 .. m : i \in 1 .. m - 1 + 1 /\ 1 + i - 1 = i
      BY <3>1
    <3>6. Len(Front(p)) = m /\ \A i \in 1 .. m : Front(p)[i] = p[i]
      BY <3>1, <3>3, <3>4, <3>5
    <3> QED
      BY <3>3, <3>4, <3>6 DEF m
  <2>7. Front(p) = o
    <3>1. Len(Front(p)) = Len(o)
      BY <1>1, <2>2, <2>6
    <3>2. \A i \in 1 .. Len(o) : Front(p)[i] = o[i]
      BY <1>1, <2>2, <2>6
    <3> QED
      BY <2>2, <2>6, <3>1, <3>2, SeqEqual
  <2>8. o \in G
    BY <2>2, <2>3, <2>4, <2>7
  <2> QED
    BY <2>8 DEF o
<1>4. Nat \subseteq S
  <2> HIDE DEF S
  <2> QED
    BY <1>2, <1>3, EveryNumber
<1>5. ASSUME NEW k \in 0 .. Len(q) PROVE SubSeq(q, 1, k) \in G
  <2>1. Len(q) - k \in Nat /\ Len(q) - k <= Len(q) /\ Len(q) - (Len(q) - k) = k
    BY <1>1
  <2> QED
    BY <1>4, <2>1
<1> QED
  BY <1>5

LEMMA FrontAndLast ==
  ASSUME NEW p \in Seq(Nat), p # <<>>
  PROVE  /\ Front(p) \in Seq(Nat) /\ Last(p) \in Nat
         /\ Append(Front(p), Last(p)) = p
         /\ Len(p) = Len(Front(p)) + 1
<1>1. Len(p) \in Nat /\ Len(p) # 0 /\ \A i \in 1 .. Len(p) : p[i] \in Nat
  BY EmptySeq
<1> DEFINE m == Len(p) - 1
<1>2. m \in Nat /\ m + 1 = Len(p) /\ m + 1 \in 1 .. Len(p)
      /\ \A i \in 1 .. m : i \in 1 .. Len(p)
  BY <1>1
<1>3. Front(p) = SubSeq(p, 1, m) /\ Last(p) = p[m + 1]
  BY <1>2 DEF Front, Last
<1> HIDE DEF m
<1>4. /\ SubSeq(p, 1, m) \in Seq(Nat) /\ Len(SubSeq(p, 1, m)) = m
      /\ \A i \in 1 .. m : SubSeq(p, 1, m)[i] = p[i]
  <2>1. \A i \in 1 .. m : p[i] \in Nat
    BY <1>1, <1>2
  <2>2. /\ SubSeq(p, 1, m) \in Seq(Nat)
        /\ Len(SubSeq(p, 1, m)) = (IF 1 <= m THEN m - 1 + 1 ELSE 0)
        /\ \A i \in 1 .. m - 1 + 1 : SubSeq(p, 1, m)[i] = p[1 + i - 1]
    BY <1>2, <2>1, SubSeqProperties
  <2>3. \A i \in 1 .. m : i \in 1 .. m - 1 + 1 /\ 1 + i - 1 = i
    BY <1>2
  <2>4. (IF 1 <= m THEN m - 1 + 1 ELSE 0) = m
    BY <1>2
  <2>5. ASSUME NEW i \in 1 .. m PROVE SubSeq(p, 1, m)[i] = p[i]
    <3>1. i \in 1 .. m - 1 + 1 /\ 1 + i - 1 = i
      BY <2>3
    <3>2. SubSeq(p, 1, m)[i] = p[1 + i - 1]
      BY <2>2, <3>1
    <3> QED
      BY <3>1, <3>2
  <2> QED
    BY <2>2, <2>4, <2>5
<1> DEFINE f == Front(p)
           l == Last(p)
<1>5. /\ f \in Seq(Nat) /\ Len(f) = m /\ \A i \in 1 .. m : f[i] = p[i]
      /\ l \in Nat /\ l = p[m + 1]
  BY <1>1, <1>2, <1>3, <1>4
<1> HIDE DEF f, l
<1>6. /\ Append(f, l) \in Seq(Nat) /\ Len(Append(f, l)) = m + 1
      /\ \A i \in 1 .. m + 1 : Append(f, l)[i] = p[i]
  <2>1. /\ Append(f, l) \in Seq(Nat) /\ Len(Append(f, l)) = m + 1
        /\ \A i \in 1 .. m : Append(f, l)[i] = f[i]
        /\ Append(f, l)[m + 1] = l
    BY <1>5, AppendProperties
  <2>2. \A i \in 1 .. m + 1 : i \in 1 .. m \/ i = m + 1
    BY <1>2
  <2> QED
    BY <1>5, <2>1, <2>2
<1>7. Append(f, l) = p
  BY <1>2, <1>6, SeqEqual
<1> QED
  BY <1>2, <1>5, <1>7 DEF f, l

(* When no call is left, the children of a node are there, and every node  *)
(* but the root is such a child.                                           *)
LEMMA FinishedTree ==
  ASSUME Tiled, todo = <<>>
  PROVE  /\ DOMAIN tree \subseteq Seq(Nat)
         /\ <<>> \in DOMAIN tree /\ tree[<<>>].r = Globe
         /\ \E b \in Nat : \A p \in DOMAIN tree : Len(p) <= b
         /\ \A p \in DOMAIN tree :
              /\ IsRegion(tree[p].r)
              /\ tree[p].dir # Leaf =>
                   /\ tree[p].dir \in Directions
                   /\ Ordered(tree[p].dir, tree[p].r, tree[p].cuts)
                   /\ \A k \in 1 .. Len(tree[p].cuts) + 1 :
                        /\ Append(p, k) \in DOMAIN tree
                        /\ tree[Append(p, k)].r
                             = Regions(tree[p].dir, tree[p].r, tree[p].cuts)[k]
<1>1. \A q, r : HasRegion(q, r) => q \in DOMAIN tree /\ tree[q].r = r
  <2>1. DOMAIN todo = {}
    OBVIOUS
  <2> QED
    BY <2>1 DEF HasRegion
<1>2. ASSUME NEW p \in DOMAIN tree
      PROVE  /\ IsRegion(tree[p].r)
             /\ tree[p].dir # Leaf =>
                  /\ tree[p].dir \in Directions
                  /\ Ordered(tree[p].dir, tree[p].r, tree[p].cuts)
                  /\ \A k \in 1 .. Len(tree[p].cuts) + 1 :
                       HasRegion(Append(p, k),
                                 Regions(tree[p].dir, tree[p].r, tree[p].cuts)[k])
  BY DEF Tiled, NodeTiled
<1>3. HasRegion(<<>>, Globe)
  BY DEF Tiled
<1>4. DOMAIN tree \subseteq Seq(Nat) /\ \E b \in Nat : \A p \in DOMAIN tree : Len(p) <= b
  BY DEF Tiled
<1> QED
  BY <1>1, <1>2, <1>3, <1>4

LEMMA NotTheRoot ==
  ASSUME Tiled, todo = <<>>, NEW p \in DOMAIN tree, p # <<>>
  PROVE  LET o == Front(p)
             k == Last(p)
         IN /\ o \in DOMAIN tree /\ tree[o].dir # Leaf
            /\ k \in 1 .. Len(tree[o].cuts) + 1 /\ p = Append(o, k)
            /\ tree[p].r = Regions(tree[o].dir, tree[o].r, tree[o].cuts)[k]
<1>1. p \in Seq(Nat) /\ IsKid(p)
  BY DEF Tiled, NodeTiled
<1>2. p = Append(Front(p), Last(p))
  BY <1>1, FrontAndLast
<1>3. /\ Front(p) \in DOMAIN tree /\ tree[Front(p)].dir # Leaf
      /\ Last(p) \in 1 .. Len(tree[Front(p)].cuts) + 1
  BY <1>1 DEF IsKid
<1>4. tree[Append(Front(p), Last(p))].r
        = Regions(tree[Front(p)].dir, tree[Front(p)].r, tree[Front(p)].cuts)[Last(p)]
  BY <1>3, FinishedTree
<1> QED
  BY <1>2, <1>3, <1>4, Zenon

(* A location's route: to a leaf whose region holds it, through regions    *)
(* that do, and to no other leaf that has it inside.                       *)
LEMMA RouteFound ==
  ASSUME Tiled, todo = <<>>, NEW loc \in Locations
  PROVE  LET q == Route(loc)
         IN /\ q \in Leaves /\ q \in Seq(Nat)
            /\ \A k \in 0 .. Len(q) :
                 /\ SubSeq(q, 1, k) \in DOMAIN tree
                 /\ Covers(tree[SubSeq(q, 1, k)].r, loc)
            /\ \A p \in Leaves : Inside(tree[p].r, loc) => p = q
<1> DEFINE T == DOMAIN tree
           child(p) == Child(tree[p], loc)
           step == [p \in T |-> Append(p, child(p))]
           node(p) == tree[p]
<1>1. PICK b \in Nat : \A p \in T : Len(p) <= b
  BY FinishedTree
<1>2. T \subseteq Seq(Nat)
  BY FinishedTree
<1>3. ASSUME NEW p \in T, p \notin Leaves
      PROVE  /\ child(p) \in Nat /\ step[p] = Append(p, child(p))
             /\ step[p] \in T /\ Len(step[p]) = Len(p) + 1
             /\ Covers(tree[p].r, loc) => Covers(tree[step[p]].r, loc)
  <2>1. tree[p].dir # Leaf
    BY <1>3 DEF Leaves
  <2>2. /\ tree[p].dir \in Directions /\ IsRegion(tree[p].r)
        /\ Ordered(tree[p].dir, tree[p].r, tree[p].cuts)
        /\ \A k \in 1 .. Len(tree[p].cuts) + 1 :
             /\ Append(p, k) \in T
             /\ tree[Append(p, k)].r = Regions(tree[p].dir, tree[p].r, tree[p].cuts)[k]
    BY <2>1, FinishedTree
  <2>3. /\ child(p) \in 1 .. Len(tree[p].cuts) + 1
        /\ Covers(tree[p].r, loc)
             => Covers(Regions(tree[p].dir, tree[p].r, tree[p].cuts)[child(p)], loc)
    BY <2>2, ChildCovers
  <2>4. step[p] = Append(p, child(p))
    OBVIOUS
  <2> HIDE DEF step, child
  <2>5. child(p) \in Nat
    <3>1. Len(tree[p].cuts) \in Nat
      BY <2>2, RegionsOf
    <3> QED
      BY <2>3, <3>1
  <2>6. Len(step[p]) = Len(p) + 1
    BY <1>2, <2>4, <2>5, FrontOfAppend
  <2> QED
    BY <2>2, <2>3, <2>4, <2>5, <2>6
<1>4. PICK f : /\ f = [p \in T |-> IF tree[p].dir = Leaf THEN p
                                   ELSE f[Append(p, Child(tree[p], loc))]]
               /\ Route(loc) = f[<<>>]
  <2>1. \A p \in T : p \notin Leaves => step[p] \in T /\ Len(step[p]) = Len(p) + 1
    BY <1>3
  <2>2. PICK f : f = [p \in T |-> IF p \in Leaves THEN p ELSE f[step[p]]]
    <3> DEFINE ends == Leaves
    <3>1. \A p \in T : p \notin ends => step[p] \in T /\ Len(step[p]) = Len(p) + 1
      BY <2>1
    <3>2. T \subseteq Seq(Nat) /\ b \in Nat /\ \A p \in T : Len(p) <= b
      BY <1>1, <1>2
    <3> HIDE DEF step, T, ends
    <3>3. \E f : Follows(f, T, ends, step)
      BY <3>1, <3>2, FollowedToTheEnd
    <3> QED
      BY <3>3, Zenon DEF Follows, ends
  <2>3. ASSUME NEW p \in T
        PROVE  (IF p \in Leaves THEN p ELSE f[step[p]])
                 = (IF tree[p].dir = Leaf THEN p ELSE f[Append(p, Child(tree[p], loc))])
    BY Zenon DEF Leaves
  <2> HIDE DEF step
  <2>4. f = [p \in T |-> IF tree[p].dir = Leaf THEN p
                         ELSE f[Append(p, Child(tree[p], loc))]]
    BY <2>2, <2>3, Zenon
  <2> QED
    BY <2>4, Zenon DEF Route
<1> HIDE DEF child
<1>5. \A p \in T : f[p] = (IF p \in Leaves THEN p ELSE f[step[p]])
  <2> SUFFICES ASSUME NEW p \in T
               PROVE  f[p] = (IF p \in Leaves THEN p ELSE f[step[p]])
    OBVIOUS
  <2>1. f[p] = (IF tree[p].dir = Leaf THEN p ELSE f[Append(p, Child(tree[p], loc))])
    BY <1>4, Zenon
  <2> QED
    BY <2>1, Zenon DEF Leaves, child
<1>6. <<>> \in T /\ tree[<<>>].r = Globe /\ Covers(Globe, loc)
  <2>1. Covers(Globe, loc)
    BY DEF Covers, Globe, Locations
  <2> QED
    BY <2>1, FinishedTree
<1> HIDE DEF step
<1>7. f[<<>>] \in Leaves /\ Covers(tree[f[<<>>]].r, loc)
  <2> DEFINE G == {p \in T : Covers(tree[p].r, loc)
                     => f[p] \in Leaves /\ Covers(tree[f[p]].r, loc)}
  <2>1. ASSUME NEW p \in T
        PROVE  \/ p \in G
               \/ \E q \in T : Len(q) = Len(p) + 1 /\ (q \in G => p \in G)
    <3>1. CASE p \in Leaves
      <4>1. f[p] = p
        BY <1>5, <3>1
      <4> QED
        BY <3>1, <4>1
    <3>2. CASE p \notin Leaves
      <4>1. f[p] = f[step[p]]
        BY <1>5, <3>2
      <4>2. /\ step[p] \in T /\ Len(step[p]) = Len(p) + 1
            /\ Covers(tree[p].r, loc) => Covers(tree[step[p]].r, loc)
        BY <1>3, <3>2
      <4>3. step[p] \in G => p \in G
        BY <4>1, <4>2
      <4> QED
        BY <4>2, <4>3
    <3> QED
      BY <3>1, <3>2
  <2>2. T \subseteq G
    <3> HIDE DEF G, T
    <3> QED
      BY <1>1, <1>2, <2>1, UpFromTheEnds
  <2> QED
    BY <1>6, <2>2
<1>8. ASSUME NEW q \in Leaves, Covers(tree[q].r, loc), NEW k \in 0 .. Len(q)
      PROVE  SubSeq(q, 1, k) \in T /\ Covers(tree[SubSeq(q, 1, k)].r, loc)
  <2> DEFINE G == {p \in T : Covers(tree[p].r, loc)}
  <2>1. q \in G /\ q \in Seq(Nat)
    BY <1>2, <1>8 DEF Leaves
  <2>2. ASSUME NEW p \in G, p # <<>> PROVE Front(p) \in G
    <3>1. /\ Front(p) \in T /\ tree[Front(p)].dir # Leaf
          /\ Last(p) \in 1 .. Len(tree[Front(p)].cuts) + 1
          /\ tree[p].r = Regions(tree[Front(p)].dir, tree[Front(p)].r,
                                 tree[Front(p)].cuts)[Last(p)]
      BY <2>2, NotTheRoot
    <3>2. /\ tree[Front(p)].dir \in Directions /\ IsRegion(tree[Front(p)].r)
          /\ Ordered(tree[Front(p)].dir, tree[Front(p)].r, tree[Front(p)].cuts)
      BY <3>1, FinishedTree
    <3>3. Covers(tree[p].r, loc) => Covers(tree[Front(p)].r, loc)
      BY <3>1, <3>2, ChildInside
    <3> QED
      BY <2>2, <3>1, <3>3
  <2>3. \A i \in 0 .. Len(q) : SubSeq(q, 1, i) \in G
    <3> HIDE DEF G
    <3> QED
      BY <2>1, <2>2, DownToTheRoot
  <2> QED
    BY <2>3
<1>9. ASSUME NEW q \in Leaves, Inside(tree[q].r, loc)
      PROVE  q = f[<<>>]
  <2> DEFINE G == {p \in T : Inside(tree[p].r, loc) /\ f[p] = q}
  <2>1. q \in G /\ q \in Seq(Nat)
    BY <1>2, <1>5, <1>9 DEF Leaves
  <2>2. ASSUME NEW p \in G, p # <<>> PROVE Front(p) \in G
    <3>1. /\ Front(p) \in T /\ tree[Front(p)].dir # Leaf
          /\ Last(p) \in 1 .. Len(tree[Front(p)].cuts) + 1
          /\ p = Append(Front(p), Last(p))
          /\ tree[p].r = Regions(tree[Front(p)].dir, tree[Front(p)].r,
                                 tree[Front(p)].cuts)[Last(p)]
      BY <2>2, NotTheRoot
    <3>2. /\ tree[Front(p)].dir \in Directions /\ IsRegion(tree[Front(p)].r)
          /\ Ordered(tree[Front(p)].dir, tree[Front(p)].r, tree[Front(p)].cuts)
      BY <3>1, FinishedTree
    <3>3. Inside(tree[p].r, loc)
            => Inside(tree[Front(p)].r, loc) /\ Child(tree[Front(p)], loc) = Last(p)
      BY <3>1, <3>2, ChildInside
    <3>4. Inside(tree[Front(p)].r, loc) /\ Child(tree[Front(p)], loc) = Last(p)
      BY <2>2, <3>3
    <3>5. Front(p) \notin Leaves
      BY <3>1 DEF Leaves
    <3>6. step[Front(p)] = p
      <4>1. step[Front(p)] = Append(Front(p), child(Front(p)))
        BY <3>1 DEF step
      <4> QED
        BY <3>1, <3>4, <4>1 DEF child
    <3>7. f[Front(p)] = f[p]
      BY <1>5, <3>1, <3>5, <3>6
    <3> QED
      BY <2>2, <3>1, <3>4, <3>7
  <2>3. \A i \in 0 .. Len(q) : SubSeq(q, 1, i) \in G
    <3> HIDE DEF G
    <3> QED
      BY <2>1, <2>2, DownToTheRoot
  <2>4. SubSeq(q, 1, 0) = <<>> /\ 0 \in 0 .. Len(q)
    BY <2>1, LenProperties
  <2> QED
    BY <2>3, <2>4
<1>10. f[<<>>] \in Seq(Nat)
  BY <1>2, <1>7 DEF Leaves
<1> QED
  BY <1>4, <1>7, <1>8, <1>9, <1>10

(* What the two invariants say of the leaves.                              *)
LEMMA LeavesFromTiled ==
  ASSUME Tiled, todo = <<>>
  PROVE  /\ \A loc \in Locations :
              /\ Covers(tree[Route(loc)].r, loc)
              /\ \A p \in Leaves : Inside(tree[p].r, loc) => p = Route(loc)
         /\ QueryFindsFiles
<1>1. ASSUME NEW loc \in Locations
      PROVE  /\ Covers(tree[Route(loc)].r, loc)
             /\ \A p \in Leaves : Inside(tree[p].r, loc) => p = Route(loc)
  <2> DEFINE q == Route(loc)
  <2>1. /\ q \in Seq(Nat)
        /\ \A k \in 0 .. Len(q) : Covers(tree[SubSeq(q, 1, k)].r, loc)
        /\ \A p \in Leaves : Inside(tree[p].r, loc) => p = q
    BY RouteFound
  <2> HIDE DEF q
  <2>2. Len(q) \in 0 .. Len(q) /\ SubSeq(q, 1, Len(q)) = q
    BY <2>1, SubSeqFull
  <2>3. Covers(tree[q].r, loc)
    BY <2>1, <2>2
  <2> QED
    BY <2>1, <2>3 DEF q
<1>2. ASSUME NEW x \in 0 .. MaxLon - 1, NEW y \in 0 .. MaxLat - 1,
             NEW loc \in Corners([w |-> x, e |-> x + 1, s |-> y, n |-> y + 1])
      PROVE  FileName(Route(loc))
               \in FileNamesForRegion([w |-> x, e |-> x + 1, s |-> y, n |-> y + 1])
  <2> DEFINE q == [w |-> x, e |-> x + 1, s |-> y, n |-> y + 1]
             l == Route(loc)
  <2>1. /\ loc = [lat |-> loc.lat, lon |-> loc.lon]
        /\ loc.lat \in {y, y + 1} /\ loc.lon \in {x, x + 1}
    BY DEF Corners
  <2>2. x \in Nat /\ y \in Nat /\ x + 1 <= MaxLon /\ y + 1 <= MaxLat
        /\ x + 1 \in Nat /\ y + 1 \in Nat
    BY LimitsType
  <2>3. loc \in Locations
    <3>1. loc.lat \in 0 .. MaxLat /\ loc.lon \in 0 .. MaxLon
      BY <2>1, <2>2, LimitsType
    <3> QED
      BY <2>1, <3>1 DEF Locations
  <2>4. /\ l \in Leaves
        /\ \A k \in 0 .. Len(l) : /\ SubSeq(l, 1, k) \in DOMAIN tree
                                  /\ Covers(tree[SubSeq(l, 1, k)].r, loc)
    BY <2>3, RouteFound
  <2>5. \A r : IsRegion(r) /\ Covers(r, loc) => Meets(q, r)
    <3> SUFFICES ASSUME NEW r, IsRegion(r), Covers(r, loc) PROVE Meets(q, r)
      OBVIOUS
    <3>1. r.w \in Int /\ r.e \in Int /\ r.s \in Int /\ r.n \in Int
      BY RegionFields, LimitsType
    <3>2. /\ r.s <= loc.lat /\ loc.lat <= r.n
          /\ r.w <= loc.lon /\ loc.lon <= r.e
      BY <2>1, <2>2, <3>1 DEF Covers
    <3>3. q.w = x /\ q.e = x + 1 /\ q.s = y /\ q.n = y + 1
      OBVIOUS
    <3> HIDE DEF q
    <3> QED
      BY <2>1, <2>2, <3>1, <3>2, <3>3 DEF Meets
  <2> HIDE DEF q, l
  <2>6. \A k \in 0 .. Len(l) : Meets(q, tree[SubSeq(l, 1, k)].r)
    BY <2>4, <2>5, FinishedTree
  <2>7. FileName(l) \in FileNamesForRegion(q)
    BY <2>4, <2>6 DEF FileNamesForRegion
  <2> QED
    BY <2>7 DEF q, l
<1> QED
  BY <1>1, <1>2 DEF QueryFindsFiles

LEMMA LastOfAppend ==
  ASSUME NEW p \in Seq(Nat), NEW k \in Nat
  PROVE  Last(Append(p, k)) = k
<1>1. Append(p, k) \in Seq(Nat) /\ Append(p, k) # <<>> /\ Front(Append(p, k)) = p
  BY FrontOfAppend
<1>2. /\ Last(Append(p, k)) \in Nat
      /\ Append(Front(Append(p, k)), Last(Append(p, k))) = Append(p, k)
  BY <1>1, FrontAndLast
<1>3. \A l \in Nat : Append(p, k) = Append(p, l) => k = l
  BY FrontOfAppend
<1>4. Append(p, k) = Append(p, Last(Append(p, k)))
  BY <1>1, <1>2, Zenon
<1> QED
  BY <1>2, <1>3, <1>4

(* A node that is made and the calls for the regions between its cuts      *)
(* leave nothing of the globe out.                                         *)
LEMMA MadeTiled ==
  ASSUME Growing, Tiled, todo # <<>>,
         NEW d, NEW cuts, NEW kids, IsSeq(kids), Made(Head(todo), d, cuts, kids),
         \/ d = Leaf /\ cuts = <<>> /\ DOMAIN kids = {}
         \/ /\ d \in Directions /\ Ordered(d, Head(todo).r, cuts)
            /\ DOMAIN kids = 1 .. Len(cuts) + 1
            /\ \A k \in DOMAIN kids :
                 /\ kids[k].path = Append(Head(todo).path, k)
                 /\ kids[k].r = Regions(d, Head(todo).r, cuts)[k]
                 /\ SamplesInside(kids[k])
  PROVE  Tiled'
<1>0. PICK c : c = todo[1]
  OBVIOUS
<1> DEFINE n == Len(kids)
<1>1. /\ Head(todo) = c /\ 1 \in DOMAIN todo
      /\ Len(todo) \in Nat \ {0} /\ DOMAIN todo = 1 .. Len(todo)
      /\ n \in Nat /\ DOMAIN kids = 1 .. n
      /\ DOMAIN todo' = 1 .. n + (Len(todo) - 1)
      /\ \A i \in 1 .. n : todo'[i] = kids[i]
      /\ \A i \in DOMAIN todo' :
           \/ i \in 1 .. n /\ todo'[i] = kids[i]
           \/ i > n /\ i - n + 1 \in DOMAIN todo /\ i - n + 1 # 1
              /\ todo'[i] = todo[i - n + 1]
      /\ \A i \in DOMAIN todo : i # 1 =>
           /\ n + (i - 1) \in DOMAIN todo'
           /\ todo'[n + (i - 1)] = todo[i]
      /\ c.path \in Seq(Nat) /\ c.path \notin DOMAIN tree
      /\ c.level = Len(c.path)
      /\ DOMAIN tree' = DOMAIN tree \cup {c.path}
      /\ \A p \in DOMAIN tree : tree'[p] = tree[p]
      /\ tree'[c.path] = Node(d, c.r, c.level, cuts)
  <2>1. /\ Head(todo) = c /\ 1 \in DOMAIN todo
        /\ Len(todo) \in Nat \ {0} /\ DOMAIN todo = 1 .. Len(todo)
    BY <1>0, MadeEffect
  <2>2. /\ n \in Nat /\ DOMAIN kids = 1 .. n
        /\ DOMAIN todo' = 1 .. n + (Len(todo) - 1)
        /\ \A i \in 1 .. n : todo'[i] = kids[i]
    BY <1>0, MadeEffect
  <2>3. \A i \in DOMAIN todo' :
          \/ i \in 1 .. n /\ todo'[i] = kids[i]
          \/ i > n /\ i - n + 1 \in DOMAIN todo /\ i - n + 1 # 1
             /\ todo'[i] = todo[i - n + 1]
    BY <1>0, MadeEffect
  <2>4. \A i \in DOMAIN todo : i # 1 =>
          /\ n + (i - 1) \in DOMAIN todo'
          /\ todo'[n + (i - 1)] = todo[i]
    BY <1>0, MadeEffect
  <2>5. /\ c.path \in Seq(Nat) /\ c.path \notin DOMAIN tree
        /\ c.level = Len(c.path)
    BY <1>0, MadeEffect
  <2>6. /\ DOMAIN tree' = DOMAIN tree \cup {c.path}
        /\ \A p \in DOMAIN tree : tree'[p] = tree[p]
    BY <1>0, MadeEffect
  <2>7. tree'[c.path] = Node(d, c.r, c.level, cuts)
    BY <1>0, MadeEffect
  <2> QED
    BY <2>1, <2>2, <2>3, <2>4, <2>5, <2>6, <2>7, Zenon
<1>2. /\ tree'[c.path].dir = d /\ tree'[c.path].r = c.r /\ tree'[c.path].cuts = cuts
      /\ CallTiled(c)
  <2>1. CallTiled(c)
    BY <1>0, <1>1 DEF Tiled
  <2>2. tree'[c.path] = Node(d, c.r, c.level, cuts)
    BY <1>1
  <2> QED
    BY <2>1, <2>2 DEF Node
<1> HIDE DEF n
<1>3. \/ d = Leaf /\ cuts = <<>> /\ DOMAIN kids = {}
      \/ /\ d \in Directions /\ d # Leaf /\ Ordered(d, c.r, cuts)
         /\ DOMAIN kids = 1 .. Len(cuts) + 1
         /\ \A k \in DOMAIN kids :
              /\ kids[k].path = Append(c.path, k)
              /\ kids[k].r = Regions(d, c.r, cuts)[k]
              /\ SamplesInside(kids[k])
  BY <1>1 DEF Directions, Leaf, SN, WE
<1>4. ASSUME NEW q, NEW r, HasRegion(q, r) PROVE HasRegion(q, r)'
  <2>1. CASE q \in DOMAIN tree /\ tree[q].r = r
    BY <1>1, <2>1 DEF HasRegion
  <2>2. CASE \E i \in DOMAIN todo : todo[i].path = q /\ todo[i].r = r
    <3>1. PICK i \in DOMAIN todo : todo[i].path = q /\ todo[i].r = r
      BY <2>2
    <3>2. CASE i = 1
      BY <1>0, <1>1, <1>2, <3>1, <3>2 DEF HasRegion
    <3>3. CASE i # 1
      BY <1>1, <3>1, <3>3 DEF HasRegion
    <3> QED
      BY <3>2, <3>3
  <2> QED
    BY <1>4, <2>1, <2>2 DEF HasRegion
<1>5. ASSUME NEW q, IsKid(q) PROVE IsKid(q)'
  BY <1>1, <1>5 DEF IsKid
<1>6. ASSUME NEW p \in DOMAIN tree PROVE NodeTiled(p)'
  <2>1. NodeTiled(p) /\ tree'[p] = tree[p]
    BY <1>1 DEF Tiled
  <2> QED
    BY <1>4, <1>5, <2>1 DEF NodeTiled
<1>7. NodeTiled(c.path)'
  <2>1. IsRegion(c.r) /\ (c.path # <<>> => IsKid(c.path)')
    BY <1>2, <1>5 DEF CallTiled
  <2>2. \/ d = Leaf /\ cuts = <<>>
        \/ /\ d \in Directions /\ Ordered(d, c.r, cuts)
           /\ \A k \in 1 .. Len(cuts) + 1 :
                HasRegion(Append(c.path, k), Regions(d, c.r, cuts)[k])'
    <3>1. CASE d # Leaf
      <4>1. ASSUME NEW k \in 1 .. Len(cuts) + 1
            PROVE  HasRegion(Append(c.path, k), Regions(d, c.r, cuts)[k])'
        <5>1. k \in DOMAIN kids /\ k \in DOMAIN todo' /\ todo'[k] = kids[k]
          BY <1>1, <1>3, <3>1
        <5>2. kids[k].path = Append(c.path, k) /\ kids[k].r = Regions(d, c.r, cuts)[k]
          BY <1>3, <3>1, <5>1
        <5> QED
          BY <5>1, <5>2 DEF HasRegion
      <4> QED
        BY <1>3, <3>1, <4>1
    <3> QED
      BY <1>3, <3>1
  <2> QED
    BY <1>2, <2>1, <2>2 DEF NodeTiled
<1>8. ASSUME NEW i \in DOMAIN todo' PROVE CallTiled(todo[i])'
  <2>1. CASE i \in 1 .. n /\ todo'[i] = kids[i]
    <3>1. /\ d \in Directions /\ d # Leaf /\ Ordered(d, c.r, cuts)
          /\ i \in 1 .. Len(cuts) + 1
          /\ kids[i].path = Append(c.path, i)
          /\ kids[i].r = Regions(d, c.r, cuts)[i]
          /\ SamplesInside(kids[i])
      BY <1>1, <1>3, <2>1
    <3>2. IsRegion(kids[i].r)
      BY <1>2, <3>1, RegionsOf DEF CallTiled
    <3>3. i \in Nat
      BY <1>1, <2>1
    <3>4. Front(kids[i].path) = c.path /\ Last(kids[i].path) = i
      BY <1>1, <3>1, <3>3, FrontOfAppend, LastOfAppend
    <3>5. IsKid(kids[i].path)'
      BY <1>1, <1>2, <3>1, <3>4 DEF IsKid
    <3> QED
      BY <2>1, <3>1, <3>2, <3>5 DEF CallTiled, SamplesInside
  <2>2. CASE i - n + 1 \in DOMAIN todo /\ todo'[i] = todo[i - n + 1]
    <3>1. CallTiled(todo[i - n + 1])
      BY <2>2 DEF Tiled
    <3> QED
      BY <1>5, <2>2, <3>1 DEF CallTiled, SamplesInside
  <2> QED
    BY <1>1, <2>1, <2>2
<1>9. \E b \in Nat : \A p \in DOMAIN tree' : Len(p) <= b
  <2>1. PICK b \in Nat : \A p \in DOMAIN tree : Len(p) <= b
    BY DEF Tiled
  <2>2. Len(c.path) \in Nat /\ \A p \in DOMAIN tree : Len(p) \in Nat
    BY <1>1, LenProperties DEF Tiled
  <2>3. b + Len(c.path) \in Nat /\ \A p \in DOMAIN tree' : Len(p) <= b + Len(c.path)
    BY <1>1, <2>1, <2>2
  <2> QED
    BY <2>3
<1>10. HasRegion(<<>>, Globe)' /\ DOMAIN tree' \subseteq Seq(Nat)
  <2>1. HasRegion(<<>>, Globe) /\ DOMAIN tree \subseteq Seq(Nat)
    BY DEF Tiled
  <2>2. HasRegion(<<>>, Globe)'
    BY <1>4, <2>1 DEF Globe
  <2> QED
    BY <1>1, <2>1, <2>2
<1>11. /\ \A p \in DOMAIN tree' : NodeTiled(p)'
       /\ \A i \in DOMAIN todo' : CallTiled(todo[i])'
  BY <1>1, <1>6, <1>7, <1>8
<1> QED
  BY <1>9, <1>10, <1>11 DEF Tiled

(* The same, for what is known of the squares.                             *)
LEMMA MadeSquares ==
  ASSUME Growing, SquaresCut, todo # <<>>, UNCHANGED squares, squares.dir # Leaf,
         NEW d, NEW cuts, NEW kids, IsSeq(kids), Made(Head(todo), d, cuts, kids),
         d = Leaf /\ Head(todo).level > 2 => Area(Head(todo).r) <= MaxSide * MaxSide,
         \A k \in DOMAIN kids :
           /\ kids[k].path = Append(Head(todo).path, k)
           /\ kids[k].how = "squares" /\ kids[k].level >= 2
           /\ kids[k].level <= 3 /\ squares.second < 1
                => Lo(Other(squares.dir), kids[k].r) = Hi(Other(squares.dir), kids[k].r)
           /\ kids[k].level > 3 /\ kids[k].level % 2 = 1 => Len(cuts) >= 1
  PROVE  SquaresCut'
<1>0. PICK c : c = todo[1]
  OBVIOUS
<1> DEFINE n == Len(kids)
<1>1. /\ Head(todo) = c /\ 1 \in DOMAIN todo
      /\ Len(todo) \in Nat \ {0} /\ DOMAIN todo = 1 .. Len(todo)
      /\ n \in Nat /\ DOMAIN kids = 1 .. n
      /\ DOMAIN todo' = 1 .. n + (Len(todo) - 1)
      /\ \A i \in 1 .. n : todo'[i] = kids[i]
      /\ \A i \in DOMAIN todo' :
           \/ i \in 1 .. n /\ todo'[i] = kids[i]
           \/ i > n /\ i - n + 1 \in DOMAIN todo /\ i - n + 1 # 1
              /\ todo'[i] = todo[i - n + 1]
      /\ \A i \in DOMAIN todo : i # 1 =>
           /\ n + (i - 1) \in DOMAIN todo'
           /\ todo'[n + (i - 1)] = todo[i]
      /\ c.path \in Seq(Nat) /\ c.path \notin DOMAIN tree
      /\ c.level = Len(c.path)
      /\ DOMAIN tree' = DOMAIN tree \cup {c.path}
      /\ \A p \in DOMAIN tree : tree'[p] = tree[p]
      /\ tree'[c.path] = Node(d, c.r, c.level, cuts)
  <2>1. /\ Head(todo) = c /\ 1 \in DOMAIN todo
        /\ Len(todo) \in Nat \ {0} /\ DOMAIN todo = 1 .. Len(todo)
    BY <1>0, MadeEffect
  <2>2. /\ n \in Nat /\ DOMAIN kids = 1 .. n
        /\ DOMAIN todo' = 1 .. n + (Len(todo) - 1)
        /\ \A i \in 1 .. n : todo'[i] = kids[i]
    BY <1>0, MadeEffect
  <2>3. \A i \in DOMAIN todo' :
          \/ i \in 1 .. n /\ todo'[i] = kids[i]
          \/ i > n /\ i - n + 1 \in DOMAIN todo /\ i - n + 1 # 1
             /\ todo'[i] = todo[i - n + 1]
    BY <1>0, MadeEffect
  <2>4. \A i \in DOMAIN todo : i # 1 =>
          /\ n + (i - 1) \in DOMAIN todo'
          /\ todo'[n + (i - 1)] = todo[i]
    BY <1>0, MadeEffect
  <2>5. /\ c.path \in Seq(Nat) /\ c.path \notin DOMAIN tree
        /\ c.level = Len(c.path)
    BY <1>0, MadeEffect
  <2>6. /\ DOMAIN tree' = DOMAIN tree \cup {c.path}
        /\ \A p \in DOMAIN tree : tree'[p] = tree[p]
    BY <1>0, MadeEffect
  <2>7. tree'[c.path] = Node(d, c.r, c.level, cuts)
    BY <1>0, MadeEffect
  <2> QED
    BY <2>1, <2>2, <2>3, <2>4, <2>5, <2>6, <2>7, Zenon
<1>2. tree'[c.path].dir = d /\ tree'[c.path].r = c.r /\ tree'[c.path].cuts = cuts
  BY <1>1 DEF Node
<1> HIDE DEF n
<1>3. SquaresSmallEnough'
  <2> SUFFICES ASSUME NEW p \in DOMAIN tree', tree'[p].dir = Leaf, Len(p) > 2
               PROVE  Area(tree'[p].r) <= MaxSide * MaxSide
    BY DEF SquaresSmallEnough, Leaves
  <2>1. CASE p = c.path
    BY <1>1, <1>2, <2>1
  <2>2. CASE p \in DOMAIN tree
    BY <1>1, <2>2 DEF SquaresCut, SquaresSmallEnough, Leaves
  <2> QED
    BY <1>1, <2>1, <2>2
<1>4. ASSUME NEW i \in DOMAIN todo' PROVE SquareCall(todo[i])'
  <2>1. CASE i \in 1 .. n /\ todo'[i] = kids[i]
    <3>1. /\ kids[i].path = Append(c.path, i)
          /\ kids[i].how = "squares" /\ kids[i].level >= 2
          /\ kids[i].level <= 3 /\ squares.second < 1
               => Lo(Other(squares.dir), kids[i].r) = Hi(Other(squares.dir), kids[i].r)
          /\ kids[i].level > 3 /\ kids[i].level % 2 = 1 => Len(cuts) >= 1
      BY <1>1, <2>1
    <3>2. i \in Nat
      BY <1>1, <2>1
    <3>3. Front(kids[i].path) = c.path
      BY <1>1, <3>1, <3>2, FrontOfAppend
    <3> QED
      BY <1>2, <2>1, <3>1, <3>3 DEF SquareCall
  <2>2. CASE i - n + 1 \in DOMAIN todo /\ todo'[i] = todo[i - n + 1]
    <3> DEFINE o == todo[i - n + 1]
    <3>1. SquareCall(o) /\ CallInv(o) /\ (o.path # <<>> => Front(o.path) \in DOMAIN tree)
      BY <2>2 DEF SquaresCut, Growing, IsTree
    <3>2. /\ o.level = Len(o.path) /\ o.path \in Seq(Nat)
          /\ todo'[i] = o
      BY <2>2, <3>1 DEF CallInv
    <3> HIDE DEF o
    <3>3. o.level > 3 => tree'[Front(o.path)] = tree[Front(o.path)]
      <4>1. o.level > 3 => o.path # <<>>
        BY <3>2
      <4> QED
        BY <1>1, <3>1, <4>1
    <3> QED
      BY <3>1, <3>2, <3>3 DEF SquareCall
  <2> QED
    BY <1>1, <2>1, <2>2
<1> QED
  BY <1>3, <1>4 DEF SquaresCut

LEMMA DivBounds ==
  ASSUME NEW a \in Int, NEW m \in Nat \ {0}
  PROVE  /\ a \div m \in Int
         /\ m * (a \div m) <= a /\ a < m * (a \div m) + m
         /\ a >= 0 => a \div m >= 0
<1>1. a \div m \in Int /\ a % m \in 0 .. m - 1 /\ a = m * (a \div m) + (a % m)
  OBVIOUS
<1>2. m * (a \div m) \in Int
  BY <1>1
<1>3. ASSUME a >= 0 PROVE a \div m >= 0
  BY <1>3
<1> QED
  BY <1>1, <1>2, <1>3

LEMMA TimesGrows ==
  ASSUME NEW s \in Nat, NEW j \in Nat, NEW k \in Nat, j <= k
  PROVE  j * s \in Nat /\ k * s \in Nat /\ j * s <= k * s
<1>1. k * s = j * s + (k - j) * s
  OBVIOUS
<1>2. j * s \in Nat /\ k * s \in Nat /\ (k - j) * s \in Nat
  OBVIOUS
<1> QED
  BY <1>1, <1>2

(* Cuts at equal distances, rounded down, stay inside.                     *)
LEMMA EvenCutsOrdered ==
  ASSUME NEW d \in Directions, NEW r, IsRegion(r), NEW n \in Nat
  PROVE  Ordered(d, r, EvenCuts(d, r, n)) /\ Len(EvenCuts(d, r, n)) = n
<1> DEFINE lo == Lo(d, r)
           hi == Hi(d, r)
           step == (hi - lo) \div (n + 1)
           cuts == EvenCuts(d, r, n)
<1>1. lo \in Int /\ hi \in Int /\ lo <= hi
  BY SidesType
<1>2. cuts = [k \in 1 .. n |-> lo + k * step]
  BY DEF EvenCuts
<1> HIDE DEF lo, hi, cuts
<1>3. step \in Nat /\ (n + 1) * step <= hi - lo
  <2>1. hi - lo \in Int /\ hi - lo >= 0 /\ n + 1 \in Nat \ {0}
    BY <1>1
  <2> QED
    BY <2>1, DivBounds
<1> HIDE DEF step
<1>4. \A k \in 1 .. n : k * step \in Nat /\ k * step <= hi - lo
  <2> SUFFICES ASSUME NEW k \in 1 .. n PROVE k * step \in Nat /\ k * step <= hi - lo
    OBVIOUS
  <2>1. k * step \in Nat /\ (n + 1) * step \in Nat /\ k * step <= (n + 1) * step
    BY <1>3, TimesGrows
  <2> QED
    BY <1>1, <1>3, <2>1
<1>5. \A j, k \in 1 .. n : j <= k => j * step <= k * step
  BY <1>3, TimesGrows
<1>6. /\ cuts \in Seq(Int) /\ DOMAIN cuts = 1 .. n /\ Len(cuts) = n
      /\ \A k \in 1 .. n : cuts[k] = lo + k * step
  <2>1. \A k \in 1 .. n : lo + k * step \in Int
    BY <1>1, <1>4
  <2>2. cuts \in [1 .. n -> Int]
    BY <1>2, <2>1
  <2>3. cuts \in Seq(Int)
    BY <2>2
  <2>4. \A k \in 1 .. n : cuts[k] = lo + k * step
    BY <1>2
  <2> QED
    BY <2>2, <2>3, <2>4
<1>7. \A k \in 1 .. n : lo <= cuts[k] /\ cuts[k] <= hi
  BY <1>1, <1>4, <1>6
<1>8. \A j, k \in 1 .. n : j <= k => cuts[j] <= cuts[k]
  <2> SUFFICES ASSUME NEW j \in 1 .. n, NEW k \in 1 .. n, j <= k
               PROVE  cuts[j] <= cuts[k]
    OBVIOUS
  <2>1. j * step \in Nat /\ k * step \in Nat /\ j * step <= k * step
    BY <1>4, <1>5
  <2> QED
    BY <1>1, <1>6, <2>1
<1>9. Ordered(d, r, cuts)
  BY <1>6, <1>7, <1>8 DEF Ordered, lo, hi
<1> QED
  BY <1>6, <1>9 DEF cuts

LEMMA LeafTiled == Growing /\ Tiled /\ MakeLeaf => Tiled'
<1> SUFFICES ASSUME Growing, Tiled, MakeLeaf PROVE Tiled'
  OBVIOUS
<1>1. todo # <<>> /\ Made(Head(todo), Leaf, <<>>, <<>>)
  BY DEF MakeLeaf
<1>2. IsSeq(<<>>) /\ DOMAIN <<>> = {}
  <2>1. <<>> \in Seq({})
    OBVIOUS
  <2> QED
    BY <2>1 DEF IsSeq
<1> QED
  BY <1>1, <1>2, MadeTiled

LEMMA LeafSquares == Growing /\ SquaresCut /\ MakeLeaf => SquaresCut'
<1> SUFFICES ASSUME Growing, SquaresCut, MakeLeaf PROVE SquaresCut'
  OBVIOUS
<1>1. /\ todo # <<>> /\ Made(Head(todo), Leaf, <<>>, <<>>) /\ UNCHANGED squares
      /\ Head(todo).how \in {"leaf", SN, WE, "choose"}
  BY DEF MakeLeaf
<1>2. IsSeq(<<>>) /\ DOMAIN <<>> = {}
  <2>1. <<>> \in Seq({})
    OBVIOUS
  <2> QED
    BY <2>1 DEF IsSeq
<1>3. CASE squares.dir = Leaf
  BY <1>1, <1>3 DEF SquaresCut
<1>4. CASE squares.dir # Leaf
  <2>1. Head(todo) = todo[1] /\ 1 \in DOMAIN todo
    BY <1>1, TailSeq DEF Growing
  <2>2. SquareCall(Head(todo))
    BY <1>4, <2>1 DEF SquaresCut
  <2>3. Head(todo).level <= 2 /\ Head(todo).level = Len(Head(todo).path)
        /\ Head(todo).path \in Seq(Nat)
    BY <1>1, <2>1, <2>2 DEF SquareCall, SN, WE, Growing, CallInv
  <2>4. ~ (Head(todo).level > 2)
    BY <2>3
  <2> QED
    BY <1>1, <1>2, <1>4, <2>4, MadeSquares
<1> QED
  BY <1>3, <1>4

(* The cuts of a square: which there are, how many, and in their order.    *)
LEMMA SquareCuts ==
  ASSUME Growing, Tiled, todo # <<>>, Head(todo).how = "squares",
         ~ (Cuts(Head(todo)) < 1)
  PROVE  LET c == Head(todo)
             d == SquareDir(c)
             cuts == EvenCuts(d, c.r, Cuts(c))
         IN /\ d \in Directions /\ IsRegion(c.r)
            /\ Ordered(d, c.r, cuts) /\ Len(cuts) = Cuts(c)
            /\ Len(cuts) \in Nat \ {0}
            /\ DOMAIN Regions(d, c.r, cuts) = 1 .. Len(cuts) + 1
<1> DEFINE c == Head(todo)
           d == SquareDir(c)
           cuts == EvenCuts(d, c.r, Cuts(c))
<1>1. c = todo[1] /\ 1 \in DOMAIN todo
  BY TailSeq DEF Growing
<1>2. /\ c.path \in Seq(Nat) /\ c.level = Len(c.path)
      /\ squares.dir \in Directions
      /\ squares.first \in Int /\ squares.second \in Int
      /\ IsRegion(c.r)
  BY <1>1 DEF Growing, CallInv, Tiled, CallTiled
<1>3. d \in Directions
  BY <1>2 DEF SquareDir, Other, Directions
<1>4. Cuts(c) \in Int
  <2>1. ASSUME c.level # 0 PROVE Len(tree[Front(c.path)].cuts) \in Int
    <3>1. c.path # <<>>
      BY <1>2, <2>1
    <3>2. Front(c.path) \in DOMAIN tree
      BY <1>1, <3>1 DEF Growing, IsTree
    <3>3. IsSeq(tree[Front(c.path)].cuts)
      BY <3>2 DEF Growing, NodeInv
    <3> QED
      BY <3>3, SeqLength
  <2> HIDE DEF c
  <2>2. c.level % 2 = 1 => c.level # 0
    <3>1. \A n \in Nat : n % 2 = 1 => n # 0
      OBVIOUS
    <3>2. c.level \in Nat
      BY <1>2
    <3> QED
      BY <3>1, <3>2
  <2> QED
    BY <1>2, <2>1, <2>2 DEF Cuts
<1>5. Cuts(c) \in Nat \ {0}
  BY <1>4
<1> HIDE DEF c, d
<1>6. Ordered(d, c.r, cuts) /\ Len(cuts) = Cuts(c)
  BY <1>2, <1>3, <1>5, EvenCutsOrdered
<1> HIDE DEF cuts
<1>7. DOMAIN Regions(d, c.r, cuts) = 1 .. Len(cuts) + 1
  BY <1>2, <1>3, <1>6, RegionsOf
<1> QED
  BY <1>2, <1>3, <1>5, <1>6, <1>7 DEF c, d, cuts

LEMMA SquaresTiled ==
  Growing /\ Tiled /\ SquaresCut /\ CutSquares => Tiled' /\ SquaresCut'
<1> SUFFICES ASSUME Growing, Tiled, SquaresCut, CutSquares PROVE Tiled' /\ SquaresCut'
  OBVIOUS
<1> DEFINE c == Head(todo)
           d == SquareDir(c)
           locs == Sorted(d, c.locs)
           cuts == EvenCuts(d, c.r, Cuts(c))
           kids == Regions(d, c.r, cuts)
           parts == Split(locs, [k \in DOMAIN cuts |-> IndexOf(d, locs, cuts[k])])
           calls == [k \in DOMAIN kids |->
              Call("squares", Append(c.path, k), c.level + 1, kids[k], parts[k])]
<1>1. /\ todo # <<>> /\ UNCHANGED squares
      /\ c.how = "squares"
      /\ IF Cuts(c) < 1 THEN Made(c, Leaf, <<>>, <<>>) ELSE Made(c, d, cuts, calls)
  BY DEF CutSquares
<1>2. /\ c = todo[1] /\ 1 \in DOMAIN todo
      /\ c.path \in Seq(Nat) /\ c.level = Len(c.path)
      /\ squares.dir \in Directions
      /\ IsRegion(c.r)
  <2>1. c = todo[1] /\ 1 \in DOMAIN todo
    BY <1>1, TailSeq DEF Growing
  <2>2. CallInv(c) /\ CallTiled(c)
    BY <2>1 DEF Growing, Tiled
  <2> QED
    BY <1>1, <2>1, <2>2 DEF CallInv, CallTiled
<1>3. /\ squares.dir # Leaf
      /\ c.level \in Nat /\ c.level >= 2
      /\ c.level <= 3 /\ squares.second < 1
           => Lo(Other(squares.dir), c.r) = Hi(Other(squares.dir), c.r)
      /\ c.level > 3 /\ c.level % 2 = 1 => Len(tree[Front(c.path)].cuts) >= 1
  <2>1. squares.dir # Leaf
    BY <1>2 DEF Directions, Leaf, SN, WE
  <2>2. SquareCall(c)
    BY <1>2, <2>1 DEF SquaresCut
  <2> QED
    BY <1>1, <1>2, <2>1, <2>2 DEF SquareCall
<1>4. CASE Cuts(c) < 1
  <2>1. IsSeq(<<>>) /\ DOMAIN <<>> = {}
    <3>1. <<>> \in Seq({})
      OBVIOUS
    <3> QED
      BY <3>1 DEF IsSeq
  <2>2. Made(c, Leaf, <<>>, <<>>)
    BY <1>1, <1>4
  <2>3. ASSUME c.level > 2 PROVE Area(c.r) <= MaxSide * MaxSide
    <3>0. MaxSide * MaxSide \in Nat
      BY PartitionAssumption
    <3>1. CASE c.level = 3
      <4>1. squares.second < 1
        BY <1>4, <3>1 DEF Cuts
      <4>2. Lo(Other(squares.dir), c.r) = Hi(Other(squares.dir), c.r)
        BY <1>3, <3>1, <4>1
      <4>3. c.r.n \in Int /\ c.r.s \in Int /\ c.r.e \in Int /\ c.r.w \in Int
        BY <1>2, RegionFields, LimitsType
      <4>4. Height(c.r) = 0 \/ Width(c.r) = 0
        BY <1>2, <4>2, <4>3 DEF Directions, Other, Lo, Hi, Height, Width, SN, WE
      <4>5. Height(c.r) \in Int /\ Width(c.r) \in Int
        BY <4>3 DEF Height, Width
      <4>6. Area(c.r) = 0
        BY <4>4, <4>5 DEF Area
      <4> QED
        BY <3>0, <4>6
    <3>2. CASE c.level # 3
      <4>1. c.level > 3 /\ c.level # 2
        BY <1>3, <2>3, <3>2
      <4>2. c.level % 2 # 1
        <5> SUFFICES ASSUME c.level % 2 = 1 PROVE FALSE
          OBVIOUS
        <5>1. Cuts(c) = Len(tree[Front(c.path)].cuts) /\ Cuts(c) >= 1
          BY <1>3, <3>2, <4>1 DEF Cuts
        <5>2. Cuts(c) \in Int
          <6>1. c.path # <<>>
            BY <1>2, <4>1
          <6>2. IsSeq(tree[Front(c.path)].cuts)
            BY <1>2, <6>1 DEF Growing, IsTree, NodeInv
          <6> QED
            BY <5>1, <6>2, SeqLength
        <5> QED
          BY <1>4, <5>1, <5>2
      <4>3. ~ TooLarge(c)
        BY <1>4, <3>2, <4>1, <4>2 DEF Cuts
      <4>4. Area(c.r) \in Int
        <5>1. c.r.n \in Int /\ c.r.s \in Int /\ c.r.e \in Int /\ c.r.w \in Int
          BY <1>2, RegionFields, LimitsType
        <5> QED
          BY <5>1 DEF Area, Height, Width
      <4> QED
        BY <3>0, <4>3, <4>4 DEF TooLarge
    <3> QED
      BY <3>1, <3>2
  <2>4. Tiled'
    BY <1>1, <2>1, <2>2, MadeTiled
  <2>5. SquaresCut'
    BY <1>1, <1>3, <2>1, <2>2, <2>3, MadeSquares
  <2> QED
    BY <2>4, <2>5
<1>5. CASE ~ (Cuts(c) < 1)
  <2>1. Made(c, d, cuts, calls)
    BY <1>1, <1>5
  <2>2. /\ d \in Directions /\ Ordered(d, c.r, cuts)
        /\ Len(cuts) \in Nat \ {0} /\ Len(cuts) = Cuts(c)
        /\ DOMAIN kids = 1 .. Len(cuts) + 1
    BY <1>1, <1>5, SquareCuts
  <2>3. d = (IF c.level % 2 = 0 THEN squares.dir ELSE Other(squares.dir))
    BY DEF SquareDir
  <2> HIDE DEF c, d, locs, cuts, parts
  <2>4. \A k \in 1 .. Len(cuts) + 1 :
          /\ Lo(Other(d), kids[k]) = Lo(Other(d), c.r)
          /\ Hi(Other(d), kids[k]) = Hi(Other(d), c.r)
    <3>1. IsRegion(c.r) /\ d \in Directions /\ Ordered(d, c.r, cuts)
      BY <1>2, <2>2
    <3>2. \A k \in 1 .. Len(cuts) + 1 :
            /\ Lo(Other(d), Regions(d, c.r, cuts)[k]) = Lo(Other(d), c.r)
            /\ Hi(Other(d), Regions(d, c.r, cuts)[k]) = Hi(Other(d), c.r)
      BY <3>1, RegionsOf
    <3> QED
      BY <3>2
  <2> HIDE DEF kids
  <2>5. /\ calls = [k \in 1 .. Len(cuts) + 1 |-> calls[k]]
        /\ \A k \in 1 .. Len(cuts) + 1 :
             /\ calls[k].path = Append(c.path, k)
             /\ calls[k].level = c.level + 1
             /\ calls[k].r = kids[k]
             /\ calls[k].how = "squares"
             /\ SamplesInside(calls[k])
    BY <2>2 DEF Call, SamplesInside, SN, WE
  <2> HIDE DEF calls
  <2>6. IsSeq(calls) /\ DOMAIN calls = 1 .. Len(cuts) + 1
    <3>1. Len(cuts) + 1 \in Nat
      BY <2>2
    <3> QED
      BY <2>5, <3>1, FunctionSeq
  <2>7. Tiled'
    <3>1. \A k \in DOMAIN calls :
            /\ calls[k].path = Append(Head(todo).path, k)
            /\ calls[k].r = Regions(d, Head(todo).r, cuts)[k]
            /\ SamplesInside(calls[k])
      BY <2>5, <2>6 DEF kids, c
    <3>2. Ordered(d, Head(todo).r, cuts) /\ Made(Head(todo), d, cuts, calls)
      BY <2>1, <2>2 DEF c
    <3> QED
      BY <1>1, <2>2, <2>6, <3>1, <3>2, MadeTiled
  <2>8. SquaresCut'
    <3>1. ASSUME NEW k \in DOMAIN calls
          PROVE  /\ calls[k].path = Append(c.path, k)
                 /\ calls[k].how = "squares" /\ calls[k].level >= 2
                 /\ calls[k].level <= 3 /\ squares.second < 1
                      => Lo(Other(squares.dir), calls[k].r) = Hi(Other(squares.dir), calls[k].r)
                 /\ calls[k].level > 3 /\ calls[k].level % 2 = 1 => Len(cuts) >= 1
      <4>1. /\ calls[k].path = Append(c.path, k) /\ calls[k].how = "squares"
            /\ calls[k].level = c.level + 1 /\ calls[k].r = kids[k]
            /\ k \in 1 .. Len(cuts) + 1
        BY <2>5, <2>6
      <4>2. ASSUME calls[k].level <= 3, squares.second < 1
            PROVE  Lo(Other(squares.dir), calls[k].r) = Hi(Other(squares.dir), calls[k].r)
        <5>1. c.level = 2
          BY <1>3, <4>1, <4>2
        <5>2. d = squares.dir
          BY <2>3, <5>1
        <5>3. Lo(Other(squares.dir), c.r) = Hi(Other(squares.dir), c.r)
          BY <1>3, <4>2, <5>1
        <5> QED
          BY <2>4, <4>1, <5>2, <5>3
      <4> QED
        BY <1>3, <2>2, <4>1, <4>2
    <3>2. d # Leaf
      BY <2>2 DEF Directions, Leaf, SN, WE
    <3>3. /\ Made(Head(todo), d, cuts, calls)
          /\ \A k \in DOMAIN calls :
              /\ calls[k].path = Append(Head(todo).path, k)
              /\ calls[k].how = "squares" /\ calls[k].level >= 2
              /\ calls[k].level <= 3 /\ squares.second < 1
                   => Lo(Other(squares.dir), calls[k].r) = Hi(Other(squares.dir), calls[k].r)
              /\ calls[k].level > 3 /\ calls[k].level % 2 = 1 => Len(cuts) >= 1
      BY <2>1, <3>1 DEF c
    <3> QED
      BY <1>1, <1>3, <2>6, <3>2, <3>3, MadeSquares
  <2> QED
    BY <2>7, <2>8
<1> QED
  BY <1>4, <1>5

----------------------------------------------------------------------------
(* Cuts that the samples decide.                                           *)

LEMMA FiniteSamples ==
  ASSUME NEW S \in SUBSET Locations
  PROVE  IsFiniteSet(S) /\ Cardinality(S) \in Nat
<1> DEFINE T == (0 .. MaxLat) \X (0 .. MaxLon)
           f == [x \in Locations |-> <<x.lat, x.lon>>]
<1>1. IsFiniteSet(T)
  <2>1. IsFiniteSet(0 .. MaxLat) /\ IsFiniteSet(0 .. MaxLon)
    BY LimitsType, FS_Interval
  <2> QED
    BY <2>1, FS_Product
<1>2. f \in Injection(Locations, T)
  <2>1. \A x \in Locations : x = [lat |-> x.lat, lon |-> x.lon] /\ <<x.lat, x.lon>> \in T
    BY DEF Locations
  <2>2. f \in [Locations -> T]
    BY <2>1
  <2>3. \A x, y \in Locations : f[x] = f[y] => x = y
    <3> SUFFICES ASSUME NEW x \in Locations, NEW y \in Locations, f[x] = f[y] PROVE x = y
      OBVIOUS
    <3>1. x.lat = y.lat /\ x.lon = y.lon
      OBVIOUS
    <3>2. [lat |-> x.lat, lon |-> x.lon] = [lat |-> y.lat, lon |-> y.lon]
      BY <3>1
    <3> QED
      BY <2>1, <3>2
  <2> HIDE DEF f, T
  <2> QED
    BY <2>2, <2>3 DEF Injection, IsInjective
<1> HIDE DEF T, f
<1>3. IsFiniteSet(Locations)
  BY <1>1, <1>2, FS_Injection
<1> QED
  BY <1>3, FS_Subset, FS_CardinalityType

LEMMA BeforeOrders ==
  ASSUME NEW d \in Directions
  PROVE  /\ \A x, y \in Locations : x # y => Before(d, x, y) \/ Before(d, y, x)
         /\ \A x \in Locations : ~ Before(d, x, x)
         /\ \A x, y, z \in Locations : Before(d, x, y) /\ Before(d, y, z) => Before(d, x, z)
         /\ \A x, y \in Locations : Coord(d, x) < Coord(d, y) => Before(d, x, y)
<1>1. \A x \in Locations : /\ Coord(d, x) \in Nat /\ Coord(Other(d), x) \in Nat
                           /\ x = [lat |-> x.lat, lon |-> x.lon]
  BY CoordTypes DEF Locations
<1>2. ASSUME NEW x \in Locations, NEW y \in Locations, x # y
      PROVE  Coord(d, x) # Coord(d, y) \/ Coord(Other(d), x) # Coord(Other(d), y)
  <2>1. x.lat # y.lat \/ x.lon # y.lon
    BY <1>1, <1>2
  <2> QED
    BY <2>1 DEF Coord, Other, Directions, SN, WE
<1>3. ASSUME NEW x \in Locations, NEW y \in Locations, x # y
      PROVE  Before(d, x, y) \/ Before(d, y, x)
  BY <1>1, <1>2, <1>3 DEF Before
<1>4. ASSUME NEW x \in Locations PROVE ~ Before(d, x, x)
  BY <1>1 DEF Before
<1>5. ASSUME NEW x \in Locations, NEW y \in Locations, NEW z \in Locations,
             Before(d, x, y), Before(d, y, z)
      PROVE  Before(d, x, z)
  BY <1>1, <1>5 DEF Before
<1>6. ASSUME NEW x \in Locations, NEW y \in Locations, Coord(d, x) < Coord(d, y)
      PROVE  Before(d, x, y)
  BY <1>1, <1>6 DEF Before
<1> QED
  BY <1>3, <1>4, <1>5, <1>6

(* Each of the samples has a place in their order, and each place one of   *)
(* them: the coordinates do not decrease from place to place.              *)
LEMMA SortedSamples ==
  ASSUME NEW d \in Directions, NEW S \in SUBSET Locations
  PROVE  LET sorted == Sorted(d, S)
             n == Cardinality(S)
         IN /\ n \in Nat /\ sorted \in [1 .. n -> S]
            /\ sorted \in Seq(Locations) /\ Len(sorted) = n
            /\ \A i, j \in 1 .. n : i <= j => Coord(d, sorted[i]) <= Coord(d, sorted[j])
<1> DEFINE n == Cardinality(S)
           Lower(x) == {y \in S : Before(d, y, x)}
           rank == [x \in S |-> Cardinality(Lower(x))]
           sorted == Sorted(d, S)
<1>1. IsFiniteSet(S) /\ n \in Nat
  BY FiniteSamples
<1>2. \A x \in S : IsFiniteSet(Lower(x)) /\ Cardinality(Lower(x)) \in Nat
  BY FiniteSamples
<1>3. ASSUME NEW x \in S, NEW y \in S, Before(d, x, y) PROVE rank[x] < rank[y]
  <2>1. /\ Lower(x) \in SUBSET Lower(y) /\ x \in Lower(y) /\ x \notin Lower(x)
    BY <1>3, BeforeOrders
  <2>2. rank[x] = Cardinality(Lower(x)) /\ rank[y] = Cardinality(Lower(y))
    OBVIOUS
  <2>3. /\ Cardinality(Lower(x)) <= Cardinality(Lower(y))
        /\ Cardinality(Lower(y)) # Cardinality(Lower(x))
    <3> DEFINE A == Lower(x)
               B == Lower(y)
    <3>1. IsFiniteSet(B) /\ A \in SUBSET B /\ A # B
      BY <1>2, <2>1
    <3> HIDE DEF A, B
    <3>2. Cardinality(A) <= Cardinality(B) /\ Cardinality(B) # Cardinality(A)
      BY <3>1, FS_Subset
    <3> QED
      BY <3>2 DEF A, B
  <2> QED
    BY <1>2, <2>2, <2>3
<1>4. \A x \in S : rank[x] \in 0 .. n - 1
  <2> SUFFICES ASSUME NEW x \in S PROVE rank[x] \in 0 .. n - 1
    OBVIOUS
  <2> DEFINE A == Lower(x)
  <2>1. A \in SUBSET S /\ x \notin A
    BY BeforeOrders
  <2>2. rank[x] = Cardinality(A) /\ Cardinality(A) \in Nat
    BY <1>2
  <2> HIDE DEF A
  <2>3. Cardinality(A) <= n /\ n # Cardinality(A)
    BY <1>1, <2>1, FS_Subset
  <2> QED
    BY <1>1, <2>2, <2>3
<1>5. rank \in Injection(S, 0 .. n - 1)
  <2>1. rank \in [S -> 0 .. n - 1]
    BY <1>4
  <2>2. \A x, y \in S : rank[x] = rank[y] => x = y
    <3> SUFFICES ASSUME NEW x \in S, NEW y \in S, x # y PROVE rank[x] # rank[y]
      BY Zenon
    <3>1. Before(d, x, y) \/ Before(d, y, x)
      BY BeforeOrders
    <3>2. rank[x] < rank[y] \/ rank[y] < rank[x]
      BY <1>3, <3>1
    <3> QED
      BY <1>1, <1>4, <3>2
  <2> HIDE DEF rank
  <2> QED
    BY <2>1, <2>2 DEF Injection, IsInjective
<1>6. \A i \in 1 .. n : \E x \in S : Cardinality(Lower(x)) = i - 1
  <2>1. IsFiniteSet(0 .. n - 1) /\ Cardinality(0 .. n - 1) = n
    <3>1. 0 \in Int /\ n - 1 \in Int
      BY <1>1
    <3>2. /\ IsFiniteSet(0 .. n - 1)
          /\ Cardinality(0 .. n - 1) = (IF 0 > n - 1 THEN 0 ELSE (n - 1) - 0 + 1)
      BY <3>1, FS_Interval
    <3> QED
      BY <1>1, <3>2
  <2>2. rank \in Surjection(S, 0 .. n - 1)
    <3> HIDE DEF rank
    <3> QED
      BY <1>5, <2>1, FS_Injection
  <2>3. \A t \in 0 .. n - 1 : \E x \in S : rank[x] = t
    <3> HIDE DEF rank
    <3> QED
      BY <2>2 DEF Surjection
  <2>4. \A i \in 1 .. n : i - 1 \in 0 .. n - 1
    BY <1>1
  <2>5. \A x \in S : rank[x] = Cardinality(Lower(x))
    OBVIOUS
  <2> HIDE DEF rank, Lower
  <2> QED
    BY <2>3, <2>4, <2>5
<1>7. \A i \in 1 .. n : sorted[i] \in S /\ rank[sorted[i]] = i - 1
  <2> SUFFICES ASSUME NEW i \in 1 .. n PROVE sorted[i] \in S /\ rank[sorted[i]] = i - 1
    OBVIOUS
  <2>1. sorted[i] = CHOOSE x \in S : Cardinality({y \in S : Before(d, y, x)}) = i - 1
    BY DEF Sorted
  <2>2. \E x \in S : Cardinality({y \in S : Before(d, y, x)}) = i - 1
    BY <1>6
  <2>3. /\ sorted[i] \in S
        /\ Cardinality({y \in S : Before(d, y, sorted[i])}) = i - 1
    <3> HIDE DEF sorted
    <3> QED
      BY <2>1, <2>2, Zenon
  <2> QED
    BY <2>3
<1>8. sorted = [i \in 1 .. n |-> sorted[i]]
  <2> DEFINE F(i) == CHOOSE x \in S : Cardinality({y \in S : Before(d, y, x)}) = i - 1
             g == [i \in 1 .. n |-> F(i)]
  <2>1. sorted = g
    BY Zenon DEF Sorted
  <2> HIDE DEF F, sorted
  <2>2. g = [i \in 1 .. n |-> g[i]]
    OBVIOUS
  <2> HIDE DEF g
  <2> QED
    BY <2>1, <2>2, Zenon
<1> HIDE DEF sorted, rank
<1>9. sorted \in [1 .. n -> S] /\ sorted \in Seq(Locations) /\ Len(sorted) = n
  <2>1. sorted \in [1 .. n -> S]
    BY <1>7, <1>8
  <2>2. sorted \in [1 .. n -> Locations]
    BY <2>1
  <2> QED
    BY <1>1, <2>1, <2>2
<1>10. ASSUME NEW i \in 1 .. n, NEW j \in 1 .. n, i <= j
       PROVE  Coord(d, sorted[i]) <= Coord(d, sorted[j])
  <2>1. sorted[i] \in S /\ sorted[j] \in S /\ rank[sorted[i]] = i - 1 /\ rank[sorted[j]] = j - 1
    BY <1>7
  <2>2. Coord(d, sorted[i]) \in Nat /\ Coord(d, sorted[j]) \in Nat
    BY <2>1, CoordTypes
  <2>3. ~ (Coord(d, sorted[j]) < Coord(d, sorted[i]))
    <3> SUFFICES ASSUME Coord(d, sorted[j]) < Coord(d, sorted[i]) PROVE FALSE
      OBVIOUS
    <3>1. Before(d, sorted[j], sorted[i])
      BY <2>1, BeforeOrders
    <3>2. j - 1 < i - 1
      BY <1>3, <2>1, <3>1
    <3> QED
      BY <1>10, <3>2
  <2> QED
    BY <2>2, <2>3
<1> QED
  BY <1>1, <1>9, <1>10 DEF sorted

(* A function that is given by its first value and by the step from each   *)
(* value to the next.                                                      *)
GoesBy(f, V, base, n, step) ==
  /\ f \in [0 .. n -> V]
  /\ f[0] = base
  /\ \A k \in 1 .. n : f[k] = step[<<k, f[k - 1]>>]

LEMMA StepByStep ==
  ASSUME NEW V, NEW base \in V, NEW n \in Nat, NEW step \in [(1 .. n) \X V -> V]
  PROVE  \E f : GoesBy(f, V, base, n, step)
<1> DEFINE Steps(f, m) == GoesBy(f, V, base, m, step)
           G == {m \in Nat : m <= n => \E f : Steps(f, m)}
<1>1. 0 \in G
  <2> DEFINE f == [k \in 0 .. 0 |-> base]
  <2>1. Steps(f, 0)
    BY DEF GoesBy
  <2> HIDE DEF f, Steps
  <2> QED
    BY <2>1
<1>2. ASSUME NEW m \in Nat, m \in G PROVE m + 1 \in G
  <2> SUFFICES ASSUME m + 1 <= n PROVE \E f : Steps(f, m + 1)
    OBVIOUS
  <2>1. PICK f : Steps(f, m)
    <3> HIDE DEF Steps
    <3> QED
      BY <1>2
  <2> DEFINE new == step[<<m + 1, f[m]>>]
             g == [k \in 0 .. m + 1 |-> IF k = m + 1 THEN new ELSE f[k]]
  <2>2. f \in [0 .. m -> V] /\ new \in V
    BY <2>1 DEF GoesBy
  <2> HIDE DEF new
  <2>3. g \in [0 .. m + 1 -> V]
    BY <2>2
  <2>4. g[0] = base /\ g[m + 1] = new /\ \A k \in 0 .. m : g[k] = f[k]
    BY <2>1 DEF GoesBy
  <2> HIDE DEF g
  <2>5. ASSUME NEW k \in 1 .. m + 1 PROVE g[k] = step[<<k, g[k - 1]>>]
    <3>1. CASE k = m + 1
      <4>1. k - 1 = m /\ m \in 0 .. m
        BY <3>1
      <4>2. g[k - 1] = f[m]
        BY <2>4, <4>1
      <4> QED
        BY <2>4, <3>1, <4>2 DEF new
    <3>2. CASE k # m + 1
      <4>1. k \in 1 .. m /\ k \in 0 .. m /\ k - 1 \in 0 .. m
        BY <3>2
      <4>2. g[k] = f[k] /\ g[k - 1] = f[k - 1]
        BY <2>4, <4>1
      <4> QED
        BY <2>1, <4>1, <4>2 DEF GoesBy
    <3> QED
      BY <3>1, <3>2
  <2>6. Steps(g, m + 1)
    BY <2>3, <2>4, <2>5 DEF GoesBy
  <2> HIDE DEF Steps
  <2> QED
    BY <2>6
<1>3. n \in G
  <2> HIDE DEF G
  <2> QED
    BY <1>1, <1>2, EveryNumber
<1>4. PICK f : Steps(f, n)
  <2> HIDE DEF Steps
  <2> QED
    BY <1>3
<1> QED
  BY <1>4

(* What does not decrease from one number to the next does not decrease.   *)
LEMMA NotDecreasing ==
  ASSUME NEW n \in Nat, NEW f \in [0 .. n -> Int],
         \A k \in 1 .. n : f[k - 1] <= f[k]
  PROVE  \A j, k \in 0 .. n : j <= k => f[j] <= f[k]
<1> SUFFICES ASSUME NEW j \in 0 .. n PROVE \A k \in 0 .. n : j <= k => f[j] <= f[k]
  OBVIOUS
<1> DEFINE G == {m \in Nat : j + m <= n => f[j] <= f[j + m]}
<1>1. 0 \in G
  <2>1. j + 0 = j /\ f[j] \in Int
    OBVIOUS
  <2> QED
    BY <2>1
<1>2. ASSUME NEW m \in Nat, m \in G PROVE m + 1 \in G
  <2> SUFFICES ASSUME j + (m + 1) <= n PROVE f[j] <= f[j + (m + 1)]
    OBVIOUS
  <2>1. f[j] <= f[j + m]
    BY <1>2
  <2>2. j + (m + 1) \in 1 .. n /\ (j + (m + 1)) - 1 = j + m /\ j + m \in 0 .. n
        /\ j + (m + 1) \in 0 .. n
    OBVIOUS
  <2>3. f[j + m] <= f[j + (m + 1)]
    BY <2>2
  <2>4. f[j] \in Int /\ f[j + m] \in Int /\ f[j + (m + 1)] \in Int
    BY <2>2
  <2> QED
    BY <2>1, <2>3, <2>4
<1>3. Nat \subseteq G
  <2> HIDE DEF G
  <2> QED
    BY <1>1, <1>2, EveryNumber
<1>4. ASSUME NEW k \in 0 .. n, j <= k PROVE f[j] <= f[k]
  <2>1. k - j \in Nat /\ j + (k - j) = k
    BY <1>4
  <2>2. k - j \in G
    BY <1>3, <2>1
  <2> QED
    BY <2>1, <2>2
<1> QED
  BY <1>4

(* The parts into which the samples are cut begin at places that there are,*)
(* in their order.                                                         *)
LEMMA PartsBegin ==
  ASSUME NEW locs, Len(locs) \in Nat \ {0}
  PROVE  LET starts == PartStarts(locs)
         IN /\ starts \in [1 .. CutsPerLevel -> 0 .. Len(locs) - 1]
            /\ \A j, k \in 1 .. CutsPerLevel : j <= k => starts[j] <= starts[k]
<1> DEFINE N == Len(locs)
           C == CutsPerLevel
           More(k, v) == v + (N - v) \div (C + 2 - k)
           IsStart(f) == f = [k \in 0 .. C |-> IF k = 0 THEN 0 ELSE More(k, f[k - 1])]
           step == [t \in (1 .. C) \X (0 .. N - 1) |-> More(t[1], t[2])]
<1>1. C \in Nat /\ N \in Nat \ {0}
  BY PartitionAssumption
<1>2. ASSUME NEW k \in 1 .. C, NEW v \in 0 .. N - 1
      PROVE  More(k, v) \in 0 .. N - 1 /\ v <= More(k, v)
  <2> DEFINE m == C + 2 - k
             a == N - v
  <2>1. m \in Nat \ {0} /\ m >= 2 /\ a \in Nat \ {0}
    BY <1>1
  <2>2. More(k, v) = v + a \div m
    OBVIOUS
  <2> HIDE DEF m
  <2>3. a \div m \in Nat /\ m * (a \div m) <= a
    BY <2>1, DivBounds
  <2>4. 2 * (a \div m) <= m * (a \div m)
    <3>1. 2 * (a \div m) \in Nat /\ m * (a \div m) \in Nat
          /\ 2 * (a \div m) <= m * (a \div m)
      BY <2>1, <2>3, TimesGrows
    <3> QED
      BY <3>1
  <2>5. a \div m <= a - 1
    <3> DEFINE q == a \div m
               p == m * q
    <3>1. q \in Nat /\ p \in Int
      BY <2>1, <2>3
    <3>2. 2 * q <= p /\ p <= a
      BY <2>3, <2>4
    <3> HIDE DEF q, p
    <3>3. q <= a - 1
      BY <2>1, <3>1, <3>2
    <3> QED
      BY <3>3 DEF q
  <2> QED
    BY <1>1, <2>2, <2>3, <2>5
<1> HIDE DEF More
<1>3. \E f : IsStart(f)
  <2>1. step \in [(1 .. C) \X (0 .. N - 1) -> 0 .. N - 1] /\ 0 \in 0 .. N - 1
    BY <1>1, <1>2
  <2>2. \A k \in 1 .. C, v \in 0 .. N - 1 : step[<<k, v>>] = More(k, v)
    OBVIOUS
  <2> HIDE DEF step
  <2>3. PICK f \in [0 .. C -> 0 .. N - 1] :
          f[0] = 0 /\ \A k \in 1 .. C : f[k] = step[<<k, f[k - 1]>>]
    <3> DEFINE V == 0 .. N - 1
    <3>1. 0 \in V /\ C \in Nat /\ step \in [(1 .. C) \X V -> V]
      BY <1>1, <2>1
    <3> HIDE DEF V, C
    <3>2. \E f : GoesBy(f, V, 0, C, step)
      BY <3>1, StepByStep
    <3> QED
      BY <3>2 DEF V, GoesBy
  <2> DEFINE h == [k \in 0 .. C |-> IF k = 0 THEN 0 ELSE More(k, f[k - 1])]
  <2>4. ASSUME NEW k \in 0 .. C PROVE f[k] = h[k]
    <3>1. CASE k = 0
      BY <2>3, <3>1
    <3>2. CASE k # 0
      <4>1. k \in 1 .. C /\ k - 1 \in 0 .. C
        BY <1>1, <3>2
      <4>2. f[k] = step[<<k, f[k - 1]>>] /\ f[k - 1] \in 0 .. N - 1
        BY <2>3, <4>1
      <4> QED
        BY <2>2, <3>2, <4>1, <4>2
    <3> QED
      BY <3>1, <3>2
  <2>5. DOMAIN h = 0 .. C /\ h = [k \in 0 .. C |-> h[k]] /\ f = [k \in 0 .. C |-> f[k]]
    OBVIOUS
  <2>6. f = h
    <3> HIDE DEF h
    <3> QED
      BY <2>4, <2>5
  <2> QED
    BY <2>6, Zenon
<1>4. PICK f : IsStart(f) /\ PartStarts(locs) = [k \in 1 .. C |-> f[k]]
  BY <1>3, Zenon DEF PartStarts, More
<1>5. f[0] = 0 /\ \A k \in 1 .. C : f[k] = More(k, f[k - 1])
  <2>1. \A k \in 0 .. C : f[k] = (IF k = 0 THEN 0 ELSE More(k, f[k - 1]))
    BY <1>4, Zenon
  <2> HIDE DEF IsStart
  <2>2. \A k \in 1 .. C : k \in 0 .. C /\ k # 0
    BY <1>1
  <2> QED
    BY <1>1, <2>1, <2>2
<1>6. DOMAIN f = 0 .. C /\ f = [k \in DOMAIN f |-> f[k]]
  <2> DEFINE h == [k \in 0 .. C |-> IF k = 0 THEN 0 ELSE More(k, f[k - 1])]
  <2>1. f = h
    BY <1>4, Zenon
  <2>2. DOMAIN h = 0 .. C /\ h = [k \in DOMAIN h |-> h[k]]
    OBVIOUS
  <2> HIDE DEF h
  <2> QED
    BY <2>1, <2>2
<1> HIDE DEF IsStart
<1>7. \A k \in 0 .. C : f[k] \in 0 .. N - 1
  <2> DEFINE G == {k \in Nat : k <= C => f[k] \in 0 .. N - 1}
  <2>1. 0 \in G
    BY <1>1, <1>5
  <2>2. ASSUME NEW k \in Nat, k \in G PROVE k + 1 \in G
    <3> SUFFICES ASSUME k + 1 <= C PROVE f[k + 1] \in 0 .. N - 1
      OBVIOUS
    <3>1. f[k] \in 0 .. N - 1 /\ k + 1 \in 1 .. C /\ (k + 1) - 1 = k
      BY <1>1, <2>2
    <3>2. f[k + 1] = More(k + 1, f[k])
      BY <1>5, <3>1
    <3> QED
      BY <1>2, <3>1, <3>2
  <2>3. Nat \subseteq G
    <3> HIDE DEF G
    <3> QED
      BY <2>1, <2>2, EveryNumber
  <2> QED
    BY <1>1, <2>3
<1>8. f \in [0 .. C -> Int] /\ \A k \in 1 .. C : f[k - 1] <= f[k]
  <2>1. f \in [0 .. C -> Int]
    BY <1>1, <1>6, <1>7
  <2>2. ASSUME NEW k \in 1 .. C PROVE f[k - 1] <= f[k]
    <3>1. k - 1 \in 0 .. C
      BY <1>1
    <3>2. f[k - 1] \in 0 .. N - 1 /\ f[k] = More(k, f[k - 1])
      BY <1>5, <1>7, <3>1
    <3> QED
      BY <1>2, <3>2
  <2> QED
    BY <2>1, <2>2
<1>9. \A j, k \in 0 .. C : j <= k => f[j] <= f[k]
  <2> HIDE DEF C
  <2> QED
    BY <1>1, <1>8, NotDecreasing
<1>10. \A k \in 1 .. C : k \in 0 .. C
  BY <1>1
<1> DEFINE starts == PartStarts(locs)
<1>11. starts = [k \in 1 .. C |-> f[k]]
  BY <1>4
<1> HIDE DEF starts
<1>12. starts \in [1 .. C -> 0 .. N - 1]
  BY <1>7, <1>10, <1>11
<1>13. \A j, k \in 1 .. C : j <= k => starts[j] <= starts[k]
  BY <1>9, <1>10, <1>11
<1> QED
  BY <1>12, <1>13 DEF starts

(* The mean of coordinates is between the bounds of all of them.           *)
LEMMA MeanBetween ==
  ASSUME NEW d \in Directions, NEW s \in Seq(Locations), Len(s) # 0,
         NEW a \in Int, NEW b \in Int,
         \A i \in 1 .. Len(s) : a <= Coord(d, s[i]) /\ Coord(d, s[i]) <= b
  PROVE  Mean(d, s) \in Int /\ a <= Mean(d, s) /\ Mean(d, s) <= b
<1> DEFINE n == Len(s)
           IsSum(f) == f = [k \in 0 .. n |-> IF k = 0 THEN 0 ELSE f[k - 1] + Coord(d, s[k])]
           step == [t \in (1 .. n) \X Int |-> t[2] + Coord(d, s[t[1]])]
<1>1. n \in Nat \ {0} /\ \A i \in 1 .. n : s[i] \in Locations /\ Coord(d, s[i]) \in Nat
  <2>1. n \in Nat /\ \A i \in 1 .. n : s[i] \in Locations
    BY LenProperties
  <2> QED
    BY <2>1, CoordTypes
<1>2. \E f : IsSum(f)
  <2>1. step \in [(1 .. n) \X Int -> Int] /\ 0 \in Int
    BY <1>1
  <2>2. \A k \in 1 .. n, v \in Int : step[<<k, v>>] = v + Coord(d, s[k])
    OBVIOUS
  <2> HIDE DEF step, n
  <2>3. PICK f : GoesBy(f, Int, 0, n, step)
    BY <1>1, <2>1, StepByStep
  <2>4. f \in [0 .. n -> Int] /\ f[0] = 0 /\ \A k \in 1 .. n : f[k] = step[<<k, f[k - 1]>>]
    BY <2>3 DEF GoesBy
  <2> DEFINE h == [k \in 0 .. n |-> IF k = 0 THEN 0 ELSE f[k - 1] + Coord(d, s[k])]
  <2>5. ASSUME NEW k \in 0 .. n PROVE f[k] = h[k]
    <3>1. CASE k = 0
      BY <2>4, <3>1
    <3>2. CASE k # 0
      <4>1. k \in 1 .. n /\ k - 1 \in 0 .. n
        BY <1>1, <3>2
      <4>2. f[k] = step[<<k, f[k - 1]>>] /\ f[k - 1] \in Int
        BY <2>4, <4>1
      <4> QED
        BY <2>2, <3>2, <4>1, <4>2
    <3> QED
      BY <3>1, <3>2
  <2>6. h = [k \in 0 .. n |-> h[k]]
    OBVIOUS
  <2>7. f = [k \in 0 .. n |-> f[k]]
    BY <2>4
  <2>8. f = h
    <3> HIDE DEF h
    <3> QED
      BY <2>5, <2>6, <2>7
  <2> QED
    BY <2>8, Zenon
<1>3. PICK f : IsSum(f) /\ Mean(d, s) = f[n] \div n
  BY <1>2, Zenon DEF Mean
<1>4. f[0] = 0 /\ \A k \in 1 .. n : f[k] = f[k - 1] + Coord(d, s[k])
  <2>1. \A k \in 0 .. n : f[k] = (IF k = 0 THEN 0 ELSE f[k - 1] + Coord(d, s[k]))
    BY <1>3, Zenon
  <2> HIDE DEF IsSum
  <2>2. \A k \in 1 .. n : k \in 0 .. n /\ k # 0
    BY <1>1
  <2> QED
    BY <1>1, <2>1, <2>2
<1> HIDE DEF IsSum
<1>5. f[n] \in Int /\ n * a <= f[n] /\ f[n] <= n * b
  <2> DEFINE G == {k \in Nat : k <= n => f[k] \in Int /\ k * a <= f[k] /\ f[k] <= k * b}
  <2>1. 0 \in G
    <3>1. 0 * a = 0 /\ 0 * b = 0
      OBVIOUS
    <3> QED
      BY <1>4, <3>1
  <2>2. ASSUME NEW k \in Nat, k \in G PROVE k + 1 \in G
    <3> SUFFICES ASSUME k + 1 <= n
                 PROVE  /\ f[k + 1] \in Int
                        /\ (k + 1) * a <= f[k + 1] /\ f[k + 1] <= (k + 1) * b
      OBVIOUS
    <3> DEFINE x == Coord(d, s[k + 1])
    <3>1. k + 1 \in 1 .. n /\ (k + 1) - 1 = k
      BY <1>1
    <3>2. f[k + 1] = f[k] + x
      BY <1>4, <3>1
    <3>3. x \in Nat /\ a <= x /\ x <= b
      BY <1>1, <3>1
    <3>4. f[k] \in Int /\ k * a <= f[k] /\ f[k] <= k * b
      BY <1>1, <2>2, <3>1
    <3> HIDE DEF x
    <3>5. (k + 1) * a = k * a + a /\ (k + 1) * b = k * b + b
          /\ k * a \in Int /\ k * b \in Int
      OBVIOUS
    <3> QED
      BY <3>2, <3>3, <3>4, <3>5
  <2>3. n \in G
    <3> HIDE DEF G, n
    <3> QED
      BY <1>1, <2>1, <2>2, EveryNumber
  <2> QED
    BY <1>1, <2>3
<1> DEFINE v == f[n]
           q == v \div n
<1> HIDE DEF n, v
<1>6. v \in Int /\ n * a <= v /\ v <= n * b
  BY <1>5 DEF v
<1>7. q \in Int /\ n * q <= v /\ v < n * q + n
  BY <1>1, <1>6, DivBounds
<1> HIDE DEF q
<1>8. a <= q
  <2> SUFFICES ASSUME q + 1 <= a PROVE FALSE
    BY <1>7
  <2>1. a - (q + 1) \in Nat
    BY <1>7
  <2>2. n * a = n * (a - (q + 1)) + (n * q + n) /\ n * (a - (q + 1)) \in Nat
        /\ n * q \in Int
    BY <1>1, <1>7, <2>1
  <2> QED
    BY <1>1, <1>6, <1>7, <2>2
<1>9. q <= b
  <2> SUFFICES ASSUME b + 1 <= q PROVE FALSE
    BY <1>7
  <2>1. q - (b + 1) \in Nat
    BY <1>7
  <2>2. n * q = n * (q - (b + 1)) + (n * b + n) /\ n * (q - (b + 1)) \in Nat
        /\ n * b \in Int
    BY <1>1, <1>7, <2>1
  <2> QED
    BY <1>1, <1>6, <1>7, <2>2
<1> QED
  BY <1>3, <1>7, <1>8, <1>9 DEF q, v, n

(* With enough samples those near one end come before those near the other.*)
LEMMA ExtremaOrdered ==
  ASSUME NEW d \in Directions, NEW S \in SUBSET Locations,
         EnoughForExtrema(S)
  PROVE  LET ends == NearExtrema(d, Sorted(d, S))
         IN /\ ends = <<ends[1], ends[2]>>
            /\ ends[1] \in Int /\ ends[2] \in Int /\ ends[1] <= ends[2]
            /\ \A a, b \in Int :
                 (\A x \in S : a <= Coord(d, x) /\ Coord(d, x) <= b)
                   => a <= ends[1] /\ ends[2] <= b
<1> DEFINE n == Cardinality(S)
           locs == Sorted(d, S)
           li == LowIndex(Len(locs))
           half == li \div 2
           high == Len(locs) - li
           low == SubSeq(locs, half + 1, li)
           top == SubSeq(locs, high + 1, high + half)
           ends == NearExtrema(d, locs)
<1>1. /\ n \in Nat /\ locs \in [1 .. n -> S] /\ locs \in Seq(Locations) /\ Len(locs) = n
      /\ \A i, j \in 1 .. n : i <= j => Coord(d, locs[i]) <= Coord(d, locs[j])
  BY SortedSamples
<1>2. li \in Nat /\ li > 1 /\ n >= 2 * li
  <2>1. Reached(n) # {}
    BY DEF EnoughForExtrema
  <2>2. Reached(n) \in SUBSET Nat /\ \A m \in Reached(n) : m <= n
    BY PartitionAssumption DEF Reached
  <2> DEFINE t == Max(Reached(n))
  <2>3. t \in Reached(n)
    BY <1>1, <2>1, <2>2, GreatestOf
  <2>4. t \in DOMAIN LowIndices /\ t \in Nat /\ t <= n
    BY <2>2, <2>3 DEF Reached
  <2>5. li = LowIndices[t]
    BY <1>1 DEF LowIndex
  <2> HIDE DEF t, li, n
  <2>6. li \in 2 .. t \div 2
    BY <2>4, <2>5, PartitionAssumption
  <2> QED
    BY <1>1, <2>4, <2>6
<1> HIDE DEF li
<1>3. half \in Nat \ {0} /\ half + 1 <= li
  BY <1>2
<1>4. high \in Nat /\ li <= high /\ high + half <= n /\ high = n - li
  BY <1>1, <1>2, <1>3
<1>5. ends = <<Mean(d, low), Mean(d, top)>>
  BY DEF NearExtrema, li
<1> HIDE DEF n, locs, half
<1>6. /\ low \in Seq(Locations) /\ Len(low) = li - half
      /\ \A i \in 1 .. Len(low) : low[i] = locs[half + i] /\ half + i \in 1 .. li
  <2>1. \A i \in half + 1 .. li : locs[i] \in Locations
    BY <1>1, <1>2, <1>3
  <2>2. /\ low \in Seq(Locations)
        /\ Len(low) = (IF half + 1 <= li THEN li - (half + 1) + 1 ELSE 0)
        /\ \A i \in 1 .. li - (half + 1) + 1 : low[i] = locs[(half + 1) + i - 1]
    <3>1. half + 1 \in Int /\ li \in Int
      BY <1>2, <1>3
    <3> QED
      BY <2>1, <3>1, SubSeqProperties
  <2> HIDE DEF low
  <2>3. Len(low) = li - half /\ li - (half + 1) + 1 = li - half
    BY <1>2, <1>3, <2>2
  <2>4. \A i \in 1 .. li - half : (half + 1) + i - 1 = half + i /\ half + i \in 1 .. li
    BY <1>2, <1>3
  <2> QED
    BY <2>2, <2>3, <2>4
<1>7. /\ top \in Seq(Locations) /\ Len(top) = half
      /\ \A i \in 1 .. Len(top) : top[i] = locs[high + i] /\ high + i \in high + 1 .. n
  <2> HIDE DEF high
  <2>1. \A i \in high + 1 .. high + half : locs[i] \in Locations
    BY <1>1, <1>3, <1>4
  <2>2. /\ top \in Seq(Locations)
        /\ Len(top) = (IF high + 1 <= high + half THEN (high + half) - (high + 1) + 1 ELSE 0)
        /\ \A i \in 1 .. (high + half) - (high + 1) + 1 : top[i] = locs[(high + 1) + i - 1]
    <3>1. high + 1 \in Int /\ high + half \in Int
      BY <1>3, <1>4
    <3> QED
      BY <2>1, <3>1, SubSeqProperties
  <2> HIDE DEF top
  <2>3. Len(top) = half /\ (high + half) - (high + 1) + 1 = half
    BY <1>3, <1>4, <2>2
  <2>4. \A i \in 1 .. half : (high + 1) + i - 1 = high + i /\ high + i \in high + 1 .. n
    BY <1>1, <1>3, <1>4
  <2> QED
    BY <2>2, <2>3, <2>4
<1> HIDE DEF low, top, high
<1>8. Len(low) # 0 /\ Len(top) # 0
  BY <1>2, <1>3, <1>6, <1>7
<1>9. ASSUME NEW a \in Int, NEW b \in Int,
             \A x \in S : a <= Coord(d, x) /\ Coord(d, x) <= b
      PROVE  a <= Mean(d, low) /\ Mean(d, top) <= b
  <2>1. \A i \in 1 .. Len(low) : low[i] \in S
    BY <1>1, <1>2, <1>6
  <2>2. \A i \in 1 .. Len(top) : top[i] \in S
    BY <1>1, <1>4, <1>7
  <2>3. a <= Mean(d, low)
    BY <1>6, <1>8, <1>9, <2>1, MeanBetween
  <2>4. Mean(d, top) <= b
    BY <1>7, <1>8, <1>9, <2>2, MeanBetween
  <2> QED
    BY <2>3, <2>4
<1>10. Mean(d, low) \in Int /\ Mean(d, top) \in Int /\ Mean(d, low) <= Mean(d, top)
  <2> DEFINE m == Coord(d, locs[li])
             z == Coord(d, locs[n])
             o == Coord(d, locs[1])
  <2>1. li \in 1 .. n /\ n \in 1 .. n /\ 1 \in 1 .. n
    BY <1>1, <1>2
  <2>2. m \in Int /\ z \in Int /\ o \in Int
    BY <1>1, <2>1, CoordTypes
  <2>3. \A i \in 1 .. Len(low) : o <= Coord(d, low[i]) /\ Coord(d, low[i]) <= m
    <3> SUFFICES ASSUME NEW i \in 1 .. Len(low)
                 PROVE  o <= Coord(d, low[i]) /\ Coord(d, low[i]) <= m
      OBVIOUS
    <3>1. low[i] = locs[half + i] /\ half + i \in 1 .. li
      BY <1>6
    <3>2. half + i \in 1 .. n /\ 1 <= half + i /\ half + i <= li
      BY <1>1, <1>2, <3>1
    <3> QED
      BY <1>1, <2>1, <3>1, <3>2
  <2>4. \A i \in 1 .. Len(top) : m <= Coord(d, top[i]) /\ Coord(d, top[i]) <= z
    <3> SUFFICES ASSUME NEW i \in 1 .. Len(top)
                 PROVE  m <= Coord(d, top[i]) /\ Coord(d, top[i]) <= z
      OBVIOUS
    <3>1. top[i] = locs[high + i] /\ high + i \in high + 1 .. n
      BY <1>7
    <3>2. high + i \in 1 .. n /\ li <= high + i /\ high + i <= n
      BY <1>1, <1>2, <1>4, <3>1
    <3> QED
      BY <1>1, <2>1, <3>1, <3>2
  <2> HIDE DEF m, z, o
  <2>5. Mean(d, low) \in Int /\ Mean(d, low) <= m
    BY <1>6, <1>8, <2>2, <2>3, MeanBetween
  <2>6. Mean(d, top) \in Int /\ m <= Mean(d, top)
    BY <1>7, <1>8, <2>2, <2>4, MeanBetween
  <2> QED
    BY <2>2, <2>5, <2>6
<1> HIDE DEF ends
<1>11. ends = <<ends[1], ends[2]>> /\ ends[1] = Mean(d, low) /\ ends[2] = Mean(d, top)
  BY <1>5
<1> QED
  BY <1>9, <1>10, <1>11 DEF ends, locs

(* Where the squares are used, nothing else is cut.                        *)
LEMMA NoSquares ==
  ASSUME Growing, SquaresCut, todo # <<>>, UNCHANGED squares,
         Head(todo).how \in {SN, WE, "choose"}
  PROVE  SquaresCut'
<1>1. Head(todo) = todo[1] /\ 1 \in DOMAIN todo
  BY TailSeq DEF Growing
<1>2. squares.dir = Leaf
  BY <1>1 DEF SquaresCut, SquareCall, SN, WE
<1> QED
  BY <1>2 DEF SquaresCut

(* The call in hand, and what its samples are.                             *)
LEMMA CallInHand ==
  ASSUME Growing, Tiled, todo # <<>>, Head(todo).how \in {SN, WE, "choose"}
  PROVE  /\ IsRegion(Head(todo).r)
         /\ Head(todo).locs \in SUBSET Locations
         /\ Cardinality(Head(todo).locs) \in Nat
         /\ \A d \in Directions : \A loc \in Head(todo).locs :
              /\ Lo(d, Head(todo).r) <= Coord(d, loc)
              /\ Coord(d, loc) <= Hi(d, Head(todo).r)
<1>1. Head(todo) = todo[1] /\ 1 \in DOMAIN todo
  BY TailSeq DEF Growing
<1>2. CallTiled(Head(todo))
  BY <1>1 DEF Tiled
<1>3. /\ IsRegion(Head(todo).r)
      /\ Head(todo).locs \in SUBSET Locations
      /\ \A loc \in Head(todo).locs : Covers(Head(todo).r, loc)
  BY <1>2 DEF CallTiled, SamplesInside
<1>4. Cardinality(Head(todo).locs) \in Nat
  BY <1>3, FiniteSamples
<1> QED
  BY <1>3, <1>4, CoversAlong

LEMMA OutliersTiled ==
  Growing /\ Tiled /\ SquaresCut /\ CutOutliers => Tiled' /\ SquaresCut'
<1> SUFFICES ASSUME Growing, Tiled, SquaresCut, CutOutliers
             PROVE  Tiled' /\ SquaresCut'
  OBVIOUS
<1> DEFINE c == Head(todo)
           d == c.how
           locs == Sorted(c.how, c.locs)
           cuts == NearExtrema(c.how, locs)
           kids == Regions(c.how, c.r, cuts)
           inside == {loc \in c.locs : Coord(c.how, loc) \in cuts[1] .. cuts[2]}
           calls == << LeafCall(c, 1, kids[1]),
                       Call(IF c.level = 0 THEN Other(c.how) ELSE "choose",
                            Append(c.path, 2), c.level + 1, kids[2], inside),
                       LeafCall(c, 3, kids[3]) >>
<1>1. /\ todo # <<>> /\ UNCHANGED squares
      /\ d \in Directions /\ d \in {SN, WE, "choose"}
      /\ EnoughForExtrema(c.locs)
      /\ Made(c, d, cuts, calls)
  BY DEF CutOutliers, Directions
<1>2. /\ IsRegion(c.r) /\ c.locs \in SUBSET Locations
      /\ \A loc \in c.locs : Lo(d, c.r) <= Coord(d, loc) /\ Coord(d, loc) <= Hi(d, c.r)
      /\ \A e \in Directions : \A loc \in c.locs :
           Lo(e, c.r) <= Coord(e, loc) /\ Coord(e, loc) <= Hi(e, c.r)
  BY <1>1, CallInHand
<1>3. /\ Lo(d, c.r) \in Int /\ Hi(d, c.r) \in Int
      /\ Other(d) \in Directions
  BY <1>1, <1>2, SidesType
<1>4. /\ cuts = <<cuts[1], cuts[2]>>
      /\ cuts[1] \in Int /\ cuts[2] \in Int /\ cuts[1] <= cuts[2]
      /\ Lo(d, c.r) <= cuts[1] /\ cuts[2] <= Hi(d, c.r)
  <2> DEFINE S == c.locs
             lo == Lo(d, c.r)
             hi == Hi(d, c.r)
  <2>1. S \in SUBSET Locations /\ EnoughForExtrema(S) /\ d \in Directions
        /\ lo \in Int /\ hi \in Int
        /\ \A x \in S : lo <= Coord(d, x) /\ Coord(d, x) <= hi
    BY <1>1, <1>2, <1>3
  <2>2. cuts = NearExtrema(d, Sorted(d, S))
    OBVIOUS
  <2> HIDE DEF S, lo, hi, d, c, cuts
  <2>3. /\ cuts = <<cuts[1], cuts[2]>>
        /\ cuts[1] \in Int /\ cuts[2] \in Int /\ cuts[1] <= cuts[2]
        /\ \A a, b \in Int :
             (\A x \in S : a <= Coord(d, x) /\ Coord(d, x) <= b)
               => a <= cuts[1] /\ cuts[2] <= b
    BY <2>1, <2>2, ExtremaOrdered
  <2>4. lo <= cuts[1] /\ cuts[2] <= hi
    BY <2>1, <2>3
  <2> QED
    BY <2>3, <2>4 DEF lo, hi
<1> HIDE DEF c, d, locs, cuts
<1>5. /\ cuts \in Seq(Int) /\ Len(cuts) = 2 /\ DOMAIN cuts = 1 .. 2
      /\ Ordered(d, c.r, cuts)
  <2>1. \A x, y \in Int : <<x, y>> \in Seq(Int) /\ Len(<<x, y>>) = 2
    OBVIOUS
  <2>2. cuts \in Seq(Int) /\ Len(cuts) = 2
    BY <1>4, <2>1, Zenon
  <2>3. DOMAIN cuts = 1 .. 2
    BY <2>2
  <2>4. \A k \in 1 .. 2 : k = 1 \/ k = 2
    OBVIOUS
  <2>5. \A k \in 1 .. 2 : Lo(d, c.r) <= cuts[k] /\ cuts[k] <= Hi(d, c.r)
    BY <1>3, <1>4, <2>4
  <2>6. \A j, k \in 1 .. 2 : j <= k => cuts[j] <= cuts[k]
    BY <1>4, <2>4
  <2> QED
    BY <2>2, <2>3, <2>5, <2>6 DEF Ordered
<1>6. /\ IsRegion(kids[2])
      /\ Lo(d, kids[2]) = cuts[1] /\ Hi(d, kids[2]) = cuts[2]
      /\ Lo(Other(d), kids[2]) = Lo(Other(d), c.r)
      /\ Hi(Other(d), kids[2]) = Hi(Other(d), c.r)
  <2> DEFINE rs == Regions(d, c.r, cuts)
  <2>1. \A k \in 1 .. Len(cuts) + 1 :
          /\ IsRegion(rs[k])
          /\ Lo(d, rs[k]) = (IF k = 1 THEN Lo(d, c.r) ELSE cuts[k - 1])
          /\ Hi(d, rs[k]) = (IF k = Len(cuts) + 1 THEN Hi(d, c.r) ELSE cuts[k])
          /\ Lo(Other(d), rs[k]) = Lo(Other(d), c.r)
          /\ Hi(Other(d), rs[k]) = Hi(Other(d), c.r)
    <3>1. d \in Directions /\ IsRegion(c.r) /\ Ordered(d, c.r, cuts)
      BY <1>1, <1>2, <1>5
    <3>2. \A k \in 1 .. Len(cuts) + 1 :
            /\ IsRegion(Regions(d, c.r, cuts)[k])
            /\ Lo(d, Regions(d, c.r, cuts)[k]) = (IF k = 1 THEN Lo(d, c.r) ELSE cuts[k - 1])
            /\ Hi(d, Regions(d, c.r, cuts)[k]) = (IF k = Len(cuts) + 1 THEN Hi(d, c.r) ELSE cuts[k])
            /\ Lo(Other(d), Regions(d, c.r, cuts)[k]) = Lo(Other(d), c.r)
            /\ Hi(Other(d), Regions(d, c.r, cuts)[k]) = Hi(Other(d), c.r)
      BY <3>1, RegionsOf
    <3> QED
      BY <3>2
  <2> HIDE DEF rs
  <2>2. 2 \in 1 .. Len(cuts) + 1 /\ 2 # 1 /\ 2 # Len(cuts) + 1 /\ 2 - 1 = 1
    BY <1>5
  <2>3. /\ IsRegion(rs[2])
        /\ Lo(d, rs[2]) = cuts[2 - 1] /\ Hi(d, rs[2]) = cuts[2]
        /\ Lo(Other(d), rs[2]) = Lo(Other(d), c.r)
        /\ Hi(Other(d), rs[2]) = Hi(Other(d), c.r)
    BY <2>1, <2>2
  <2> QED
    BY <2>2, <2>3 DEF rs, d
<1> HIDE DEF kids
<1>7. inside \subseteq Locations /\ \A loc \in inside : Covers(kids[2], loc)
  <2> SUFFICES ASSUME NEW loc \in inside PROVE loc \in Locations /\ Covers(kids[2], loc)
    OBVIOUS
  <2>1. loc \in c.locs /\ loc \in Locations /\ Coord(d, loc) \in cuts[1] .. cuts[2]
    BY <1>2 DEF d
  <2>2. /\ Lo(Other(d), c.r) <= Coord(Other(d), loc)
        /\ Coord(Other(d), loc) <= Hi(Other(d), c.r)
    BY <1>2, <1>3, <2>1
  <2>3. cuts[1] <= Coord(d, loc) /\ Coord(d, loc) <= cuts[2]
    BY <1>4, <2>1
  <2> QED
    BY <1>1, <1>6, <2>1, <2>2, <2>3, CoversAlong
<1> HIDE DEF inside
<1>8. calls = [k \in 1 .. 3 |-> calls[k]]
  OBVIOUS
<1>9. ASSUME NEW k \in 1 .. 3
      PROVE  /\ calls[k].path = Append(c.path, k)
             /\ calls[k].r = kids[k]
             /\ SamplesInside(calls[k])
  <2>1. CASE k = 1
    BY <2>1 DEF LeafCall, Call, SamplesInside, SN, WE
  <2>2. CASE k = 2
    BY <1>7, <2>2 DEF Call, SamplesInside
  <2>3. CASE k = 3
    BY <2>3 DEF LeafCall, Call, SamplesInside, SN, WE
  <2> QED
    BY <2>1, <2>2, <2>3
<1> HIDE DEF calls
<1>10. 1 .. Len(cuts) + 1 = 1 .. 3
  BY <1>5
<1>11. IsSeq(calls) /\ DOMAIN calls = 1 .. Len(cuts) + 1
  BY <1>8, <1>10, FunctionSeq
<1>12. Tiled'
  <2>1. \A k \in DOMAIN calls :
          /\ calls[k].path = Append(Head(todo).path, k)
          /\ calls[k].r = Regions(d, Head(todo).r, cuts)[k]
          /\ SamplesInside(calls[k])
    BY <1>9, <1>10, <1>11 DEF kids, c, d
  <2>2. Ordered(d, Head(todo).r, cuts) /\ Made(Head(todo), d, cuts, calls)
    BY <1>1, <1>5 DEF c
  <2> QED
    BY <1>1, <1>11, <2>1, <2>2, MadeTiled
<1>13. SquaresCut'
  BY <1>1, NoSquares DEF c, d
<1> QED
  BY <1>12, <1>13

(* Parts of the samples are in the regions between the cuts that they      *)
(* decide.                                                                 *)
LEMMA SamplesTiled ==
  Growing /\ Tiled /\ SquaresCut /\ CutSamples => Tiled' /\ SquaresCut'
<1> SUFFICES ASSUME Growing, Tiled, SquaresCut, CutSamples
             PROVE  Tiled' /\ SquaresCut'
  OBVIOUS
<1> DEFINE c == Head(todo)
           d == Direction(c.r)
           locs == Sorted(d, c.locs)
           n == Cardinality(c.locs)
           starts == PartStarts(locs)
           cuts == [k \in DOMAIN starts |-> Coord(d, locs[starts[k] + 1])]
           kids == Regions(d, c.r, cuts)
           ends == (<< 0 >> \o starts) \o <<Len(locs)>>
           parts == Split(locs, starts)
           calls == [k \in DOMAIN kids |->
              Call("choose", Append(c.path, k), c.level + 1, kids[k], parts[k])]
           C == CutsPerLevel
<1>1. /\ todo # <<>> /\ UNCHANGED squares
      /\ c.how \in {SN, WE, "choose"} /\ d # Leaf
      /\ Enough(c.locs)
      /\ Made(c, d, cuts, calls)
  BY DEF CutSamples
<1>2. d \in Directions
  BY <1>1 DEF Direction, Directions
<1>3. /\ IsRegion(c.r) /\ c.locs \in SUBSET Locations /\ n \in Nat
      /\ \A loc \in c.locs : Lo(d, c.r) <= Coord(d, loc) /\ Coord(d, loc) <= Hi(d, c.r)
      /\ \A loc \in c.locs : /\ Lo(Other(d), c.r) <= Coord(Other(d), loc)
                             /\ Coord(Other(d), loc) <= Hi(Other(d), c.r)
  <2>1. /\ IsRegion(c.r) /\ c.locs \in SUBSET Locations /\ n \in Nat
        /\ \A e \in Directions : \A loc \in c.locs :
             Lo(e, c.r) <= Coord(e, loc) /\ Coord(e, loc) <= Hi(e, c.r)
    BY <1>1, CallInHand
  <2>2. Other(d) \in Directions
    BY <1>2, <2>1, SidesType
  <2> HIDE DEF c, d, n
  <2> QED
    BY <1>2, <2>1, <2>2
<1>4. C \in Nat \ {0} /\ n # 0
  <2>1. CutsPerLevel \in Nat \ {0} /\ PerCut \in Nat \ {0}
    BY PartitionAssumption
  <2>2. CutsPerLevel * PerCut \in Nat \ {0}
    BY <2>1
  <2>3. n >= CutsPerLevel * PerCut
    BY <1>1 DEF Enough
  <2> QED
    BY <1>3, <2>1, <2>2, <2>3
<1>5. /\ locs \in [1 .. n -> c.locs] /\ Len(locs) = n
      /\ \A i, j \in 1 .. n : i <= j => Coord(d, locs[i]) <= Coord(d, locs[j])
  BY <1>2, <1>3, SortedSamples
<1>6. /\ starts \in [1 .. C -> 0 .. n - 1]
      /\ \A j, k \in 1 .. C : j <= k => starts[j] <= starts[k]
  BY <1>3, <1>4, <1>5, PartsBegin
<1> HIDE DEF c, d, n, locs, starts, C
<1>7. \A k \in 1 .. C : /\ starts[k] + 1 \in 1 .. n /\ locs[starts[k] + 1] \in c.locs
                        /\ cuts[k] = Coord(d, locs[starts[k] + 1])
                        /\ cuts[k] \in Int
  <2> SUFFICES ASSUME NEW k \in 1 .. C
               PROVE  /\ starts[k] + 1 \in 1 .. n /\ locs[starts[k] + 1] \in c.locs
                      /\ cuts[k] = Coord(d, locs[starts[k] + 1])
                      /\ cuts[k] \in Int
    OBVIOUS
  <2>1. starts[k] + 1 \in 1 .. n
    BY <1>3, <1>6
  <2>2. locs[starts[k] + 1] \in c.locs
    BY <1>5, <2>1
  <2>3. cuts[k] = Coord(d, locs[starts[k] + 1])
    BY <1>6
  <2>4. cuts[k] \in Int
    BY <1>2, <1>3, <2>2, <2>3, CoordTypes
  <2> QED
    BY <2>1, <2>2, <2>3, <2>4
<1>8. DOMAIN cuts = 1 .. C /\ cuts = [k \in 1 .. C |-> cuts[k]]
  BY <1>6
<1> HIDE DEF cuts
<1>9. cuts \in Seq(Int) /\ Len(cuts) = C
  <2>1. cuts \in [1 .. C -> Int]
    BY <1>7, <1>8
  <2> QED
    BY <1>4, <2>1
<1>10. Ordered(d, c.r, cuts)
  <2>1. \A k \in 1 .. C : Lo(d, c.r) <= cuts[k] /\ cuts[k] <= Hi(d, c.r)
    BY <1>3, <1>7
  <2>2. \A j, k \in 1 .. C : j <= k => cuts[j] <= cuts[k]
    <3> SUFFICES ASSUME NEW j \in 1 .. C, NEW k \in 1 .. C, j <= k
                 PROVE  cuts[j] <= cuts[k]
      OBVIOUS
    <3>1. starts[j] + 1 <= starts[k] + 1
      <4>1. starts[j] <= starts[k] /\ starts[j] \in Int /\ starts[k] \in Int
        BY <1>3, <1>6
      <4> QED
        BY <4>1
    <3> QED
      BY <1>5, <1>7, <3>1
  <2> QED
    BY <1>8, <1>9, <2>1, <2>2 DEF Ordered
<1>11. /\ DOMAIN kids = 1 .. C + 1
       /\ \A k \in 1 .. C + 1 :
            /\ IsRegion(kids[k])
            /\ Lo(d, kids[k]) = (IF k = 1 THEN Lo(d, c.r) ELSE cuts[k - 1])
            /\ Hi(d, kids[k]) = (IF k = C + 1 THEN Hi(d, c.r) ELSE cuts[k])
            /\ Lo(Other(d), kids[k]) = Lo(Other(d), c.r)
            /\ Hi(Other(d), kids[k]) = Hi(Other(d), c.r)
  <2>1. /\ DOMAIN kids = 1 .. Len(cuts) + 1
        /\ \A k \in 1 .. Len(cuts) + 1 :
            /\ IsRegion(kids[k])
            /\ Lo(d, kids[k]) = (IF k = 1 THEN Lo(d, c.r) ELSE cuts[k - 1])
            /\ Hi(d, kids[k]) = (IF k = Len(cuts) + 1 THEN Hi(d, c.r) ELSE cuts[k])
            /\ Lo(Other(d), kids[k]) = Lo(Other(d), c.r)
            /\ Hi(Other(d), kids[k]) = Hi(Other(d), c.r)
    BY <1>2, <1>3, <1>10, RegionsOf
  <2> HIDE DEF kids
  <2> QED
    BY <1>9, <2>1
<1>12. /\ ends[1] = 0 /\ ends[C + 2] = n
       /\ \A k \in 1 .. C : ends[k + 1] = starts[k]
       /\ parts = [k \in 1 .. C + 1 |-> {locs[i] : i \in ends[k] + 1 .. ends[k + 1]}]
  <2>1. starts \in Seq(Int) /\ Len(starts) = C
    <3>1. starts \in [1 .. C -> Int]
      BY <1>3, <1>6
    <3> QED
      BY <1>4, <3>1
  <2>2. /\ ends[1] = 0 /\ ends[Len(starts) + 2] = Len(locs)
        /\ \A k \in 1 .. Len(starts) : ends[k + 1] = starts[k]
    <3>1. 0 \in Int /\ Len(locs) \in Int
      BY <1>3, <1>5
    <3> QED
      BY <2>1, <3>1, EndsOf
  <2>3. parts = [k \in 1 .. Len(starts) + 1 |-> {locs[i] : i \in ends[k] + 1 .. ends[k + 1]}]
    BY DEF Split
  <2> HIDE DEF ends, parts
  <2> QED
    BY <1>5, <2>1, <2>2, <2>3
<1> HIDE DEF ends, parts, kids
<1>13. ASSUME NEW k \in 1 .. C + 1
       PROVE  /\ k # 1 => k - 1 \in 1 .. C /\ ends[k] = starts[k - 1]
              /\ k = 1 => ends[k] = 0
              /\ k # C + 1 => k \in 1 .. C /\ ends[k + 1] = starts[k]
              /\ k = C + 1 => ends[k + 1] = n
  <2>1. k # 1 => k - 1 \in 1 .. C /\ (k - 1) + 1 = k
    BY <1>4
  <2>2. k # C + 1 => k \in 1 .. C
    BY <1>4
  <2>3. k = C + 1 => k + 1 = C + 2
    BY <1>4
  <2> QED
    BY <1>12, <2>1, <2>2, <2>3
<1>14. ASSUME NEW k \in 1 .. C + 1
       PROVE  parts[k] \subseteq Locations /\ \A loc \in parts[k] : Covers(kids[k], loc)
  <2> SUFFICES ASSUME NEW loc \in parts[k]
               PROVE  loc \in Locations /\ Covers(kids[k], loc)
    OBVIOUS
  <2>1. PICK i \in ends[k] + 1 .. ends[k + 1] : loc = locs[i]
    BY <1>12
  <2>2. /\ i \in 1 .. n
        /\ k # 1 => starts[k - 1] + 1 <= i
        /\ k # C + 1 => i <= starts[k] + 1
    <3>1. ends[k] \in Nat /\ ends[k + 1] \in Int /\ ends[k + 1] <= n
      <4>1. /\ k # 1 => starts[k - 1] \in 0 .. n - 1
            /\ k # C + 1 => starts[k] \in 0 .. n - 1
        BY <1>6, <1>13
      <4> QED
        BY <1>3, <1>13, <4>1
    <3>2. i \in Int /\ ends[k] + 1 <= i /\ i <= ends[k + 1]
      BY <2>1, <3>1
    <3> QED
      BY <1>3, <1>13, <3>1, <3>2
  <2>3. loc \in c.locs /\ loc \in Locations
    BY <1>3, <1>5, <2>1, <2>2
  <2>4. Lo(d, kids[k]) <= Coord(d, loc)
    <3>1. CASE k = 1
      BY <1>3, <1>11, <2>3, <3>1
    <3>2. CASE k # 1
      <4>1. k - 1 \in 1 .. C /\ starts[k - 1] + 1 \in 1 .. n
        BY <1>7, <1>13, <3>2
      <4>2. cuts[k - 1] <= Coord(d, loc)
        BY <1>5, <1>7, <2>1, <2>2, <3>2, <4>1
      <4> QED
        BY <1>11, <3>2, <4>2
    <3> QED
      BY <3>1, <3>2
  <2>5. Coord(d, loc) <= Hi(d, kids[k])
    <3>1. CASE k = C + 1
      BY <1>3, <1>11, <2>3, <3>1
    <3>2. CASE k # C + 1
      <4>1. k \in 1 .. C /\ starts[k] + 1 \in 1 .. n
        BY <1>7, <1>13, <3>2
      <4>2. Coord(d, loc) <= cuts[k]
        BY <1>5, <1>7, <2>1, <2>2, <3>2, <4>1
      <4> QED
        BY <1>11, <3>2, <4>2
    <3> QED
      BY <3>1, <3>2
  <2>6. /\ Lo(Other(d), kids[k]) <= Coord(Other(d), loc)
        /\ Coord(Other(d), loc) <= Hi(Other(d), kids[k])
    BY <1>3, <1>11, <2>3
  <2> QED
    BY <1>2, <1>11, <2>3, <2>4, <2>5, <2>6, CoversAlong
<1>15. /\ calls = [k \in 1 .. C + 1 |-> calls[k]]
       /\ \A k \in 1 .. C + 1 :
            /\ calls[k].path = Append(c.path, k)
            /\ calls[k].r = kids[k]
            /\ calls[k].locs = parts[k]
  BY <1>11 DEF Call
<1> HIDE DEF calls
<1>16. IsSeq(calls) /\ DOMAIN calls = 1 .. C + 1
  <2>1. C + 1 \in Nat
    BY <1>4
  <2> QED
    BY <1>15, <2>1, FunctionSeq
<1>17. \A k \in 1 .. C + 1 : SamplesInside(calls[k])
  BY <1>14, <1>15 DEF SamplesInside
<1>18. Tiled'
  <2>1. \A k \in DOMAIN calls :
          /\ calls[k].path = Append(Head(todo).path, k)
          /\ calls[k].r = Regions(d, Head(todo).r, cuts)[k]
          /\ SamplesInside(calls[k])
    BY <1>15, <1>16, <1>17 DEF kids, c
  <2>2. Ordered(d, Head(todo).r, cuts) /\ Made(Head(todo), d, cuts, calls)
        /\ DOMAIN calls = 1 .. Len(cuts) + 1
    BY <1>1, <1>9, <1>10, <1>16 DEF c
  <2> QED
    BY <1>1, <1>2, <1>16, <2>1, <2>2, MadeTiled
<1>19. SquaresCut'
  BY <1>1, NoSquares DEF c
<1> QED
  BY <1>18, <1>19

----------------------------------------------------------------------------
(* The first calls.                                                        *)

LEMMA SampleSet ==
  ASSUME NEW S \in SampleSets
  PROVE  S \in SUBSET Locations /\ EnoughForExtrema(S)
<1>1. EnoughForExtrema(S)
  BY DEF SampleSets
<1>2. S \in SUBSET [lat : SampleLats, lon : SampleLons]
  BY DEF SampleSets, kSubset
<1>3. [lat : SampleLats, lon : SampleLons] \subseteq Locations
  BY PartitionAssumption DEF Locations
<1> QED
  BY <1>1, <1>2, <1>3

LEMMA GlobeRegion ==
  /\ IsRegion(Globe)
  /\ \A loc \in Locations : Covers(Globe, loc)
<1>1. IsRegion(Globe)
  BY LimitsType DEF Globe, IsRegion, Rects
<1>2. \A loc \in Locations : Covers(Globe, loc)
  BY DEF Globe, Locations, Covers
<1> QED
  BY <1>1, <1>2

LEMMA SamplesTiledFirst ==
  ASSUME NEW S \in SampleSets, InitSamples(S)
  PROVE  Tiled /\ SquaresCut
<1>1. PICK d : /\ todo = << Call(d, <<>>, 0, Globe, S) >>
               /\ tree = <<>> /\ squares.dir = Leaf
  BY DEF InitSamples
<1> DEFINE c == Call(d, <<>>, 0, Globe, S)
<1>2. c.path = <<>> /\ c.r = Globe /\ c.locs = S
  BY DEF Call
<1>3. DOMAIN todo = {1} /\ todo[1] = c
  <2>1. DOMAIN <<c>> = {1} /\ <<c>>[1] = c
    OBVIOUS
  <2> QED
    BY <1>1, <2>1
<1>4. DOMAIN tree = {}
  BY <1>1
<1> HIDE DEF c
<1>5. CallTiled(c)
  BY <1>2, SampleSet, GlobeRegion DEF CallTiled, SamplesInside
<1>6. HasRegion(<<>>, Globe)
  BY <1>2, <1>3 DEF HasRegion
<1>7. \E n \in Nat : \A p \in DOMAIN tree : Len(p) <= n
  <2>1. 0 \in Nat /\ \A p \in DOMAIN tree : Len(p) <= 0
    BY <1>4
  <2> QED
    BY <2>1
<1> QED
  BY <1>1, <1>3, <1>4, <1>5, <1>6, <1>7 DEF Tiled, SquaresCut

(* A side of the region of the squares that is not empty is cut in two at  *)
(* least.                                                                  *)
LEMMA UnitDivides ==
  ASSUME NEW a \in Nat, NEW b \in Nat, Gcd(a, b) # 0
  PROVE  a % Gcd(a, b) = 0 /\ b % Gcd(a, b) = 0
<1> DEFINE T == {0} \cup {k \in 1 .. a + b : a % k = 0 /\ b % k = 0}
<1>1. T \in SUBSET Nat /\ T # {} /\ a + b \in Nat /\ \A x \in T : x <= a + b
  OBVIOUS
<1>2. Gcd(a, b) = Max(T)
  BY DEF Gcd
<1>3. \A x \in T : x # 0 => a % x = 0 /\ b % x = 0
  OBVIOUS
<1> HIDE DEF T
<1>4. Max(T) \in T
  BY <1>1, GreatestOf
<1> QED
  BY <1>2, <1>3, <1>4

LEMMA TwoParts ==
  ASSUME NEW a \in Nat, NEW u \in Nat \ {0}, a % u = 0, a # 0
  PROVE  2 * (a \div u) >= 2 /\ (a # u => a \div u >= 2)
<1> DEFINE q == a \div u
<1>1. q \in Int /\ a = u * q + (a % u)
  OBVIOUS
<1> HIDE DEF q
<1>2. a = u * q
  BY <1>1
<1>3. q >= 1
  <2> SUFFICES ASSUME q <= 0 PROVE FALSE
    BY <1>1
  <2>1. u * q <= 0
    BY <1>1
  <2> QED
    BY <1>2, <2>1
<1>4. ASSUME a # u PROVE q # 1
  BY <1>2, <1>4
<1> QED
  BY <1>1, <1>3, <1>4 DEF q

LEMMA PartsEnough ==
  ASSUME NEW h \in Nat, NEW v \in Nat, NEW c \in BestCandidates(h, v)
  PROVE  /\ c.sn \in Nat /\ c.we \in Nat
         /\ c.sn # 0 => Parts(c).sn >= 2
         /\ c.we # 0 => Parts(c).we >= 2
<1> DEFINE unit == Gcd(c.sn, c.we)
           twice == IF c.sn = unit \/ c.we = unit THEN 2 ELSE 1
<1>1. /\ c \in [sn : h .. (12 * h + 9) \div 10, we : v .. (12 * v + 9) \div 10]
      /\ unit \in Nat \ {0}
  BY UnitPositive
<1>2. c.sn \in Nat /\ c.we \in Nat
  BY <1>1
<1>3. c.sn % unit = 0 /\ c.we % unit = 0
  BY <1>1, <1>2, UnitDivides
<1>4. Parts(c).sn = twice * (c.sn \div unit) /\ Parts(c).we = twice * (c.we \div unit)
  BY DEF Parts
<1> HIDE DEF unit
<1>5. \A a \in Nat : a % unit = 0 /\ a # 0 /\ (a = c.sn \/ a = c.we)
        => twice * (a \div unit) >= 2
  <2> SUFFICES ASSUME NEW a \in Nat, a % unit = 0, a # 0, a = c.sn \/ a = c.we
               PROVE  twice * (a \div unit) >= 2
    OBVIOUS
  <2>1. a \div unit \in Int /\ 2 * (a \div unit) >= 2 /\ (a # unit => a \div unit >= 2)
    BY <1>1, TwoParts
  <2>2. CASE twice = 2
    BY <2>1, <2>2
  <2>3. CASE twice = 1
    <3>1. a # unit
      BY <2>3
    <3>2. 1 * (a \div unit) = a \div unit
      BY <2>1
    <3> QED
      BY <2>1, <2>3, <3>1, <3>2
  <2> QED
    BY <2>2, <2>3
<1> QED
  BY <1>2, <1>3, <1>4, <1>5

LEMMA ThreeRegions ==
  ASSUME NEW d \in Directions, NEW r, IsRegion(r), NEW x \in Int, NEW y \in Int,
         Lo(d, r) <= x, x <= y, y <= Hi(d, r)
  PROVE  /\ Ordered(d, r, <<x, y>>) /\ Len(<<x, y>>) = 2
         /\ \A k \in 1 .. 3 : IsRegion(Regions(d, r, <<x, y>>)[k])
         /\ Regions(d, r, <<x, y>>)[2] = Slice(d, r, x, y)
<1> DEFINE cuts == <<x, y>>
           ends == (<<Lo(d, r)>> \o cuts) \o <<Hi(d, r)>>
<1>1. /\ cuts \in Seq(Int) /\ Len(cuts) = 2 /\ DOMAIN cuts = 1 .. 2
      /\ cuts[1] = x /\ cuts[2] = y
  OBVIOUS
<1>2. Lo(d, r) \in Int /\ Hi(d, r) \in Int
  BY SidesType
<1>3. Regions(d, r, cuts)
        = [k \in 1 .. Len(cuts) + 1 |-> Slice(d, r, ends[k], ends[k + 1])]
  BY DEF Regions
<1> HIDE DEF cuts
<1>4. \A k \in 1 .. 2 : k = 1 \/ k = 2
  OBVIOUS
<1>5. Ordered(d, r, cuts)
  BY <1>1, <1>2, <1>4 DEF Ordered
<1>6. \A k \in 1 .. 3 : IsRegion(Regions(d, r, cuts)[k])
  <2>1. \A k \in 1 .. Len(cuts) + 1 : IsRegion(Regions(d, r, cuts)[k])
    BY <1>5, RegionsOf
  <2>2. Len(cuts) + 1 = 3
    BY <1>1
  <2> QED
    BY <2>1, <2>2
<1>7. ends[2] = cuts[1] /\ ends[3] = cuts[2]
  <2>1. \A k \in 1 .. Len(cuts) : ends[k + 1] = cuts[k]
    <3>1. IsSeq(cuts)
      BY <1>1 DEF IsSeq
    <3> QED
      BY <3>1, BetweenEnds
  <2> HIDE DEF ends
  <2>2. 1 \in 1 .. Len(cuts) /\ 2 \in 1 .. Len(cuts) /\ 1 + 1 = 2 /\ 2 + 1 = 3
    BY <1>1
  <2> QED
    BY <2>1, <2>2
<1> HIDE DEF ends
<1>8. Regions(d, r, cuts)[2] = Slice(d, r, x, y)
  <2>1. 2 \in 1 .. Len(cuts) + 1 /\ 2 + 1 = 3
    BY <1>1
  <2> QED
    BY <1>1, <1>3, <1>7, <2>1
<1> QED
  BY <1>1, <1>5, <1>6, <1>8 DEF cuts

(* The region of the squares is the middle of the belt, which is the       *)
(* middle of the globe.                                                    *)
LEMMA MiddleOfGlobe ==
  ASSUME NEW tr, IsRegion(tr)
  PROVE  LET belt == Slice(SN, Globe, tr.s, tr.n)
             caps == Regions(SN, Globe, <<tr.s, tr.n>>)
             sides == Regions(WE, belt, <<tr.w, tr.e>>)
         IN /\ IsRegion(belt)
            /\ Ordered(SN, Globe, <<tr.s, tr.n>>)
            /\ Ordered(WE, belt, <<tr.w, tr.e>>)
            /\ \A k \in 1 .. 3 : IsRegion(caps[k]) /\ IsRegion(sides[k])
            /\ caps[2] = belt /\ sides[2] = tr
<1>1. /\ tr = [w |-> tr.w, e |-> tr.e, s |-> tr.s, n |-> tr.n]
      /\ tr.w \in 0 .. MaxLon /\ tr.e \in 0 .. MaxLon /\ tr.w <= tr.e
      /\ tr.s \in 0 .. MaxLat /\ tr.n \in 0 .. MaxLat /\ tr.s <= tr.n
      /\ MaxLat \in Nat /\ MaxLon \in Nat
  BY RegionFields, LimitsType DEF IsRect
<1>2. /\ IsRegion(Globe) /\ SN \in Directions /\ WE \in Directions
      /\ Other(SN) = WE /\ Other(WE) = SN
  BY GlobeRegion DEF Directions, Other, SN, WE
<1>3. /\ Lo(SN, Globe) = 0 /\ Hi(SN, Globe) = MaxLat
      /\ Lo(WE, Globe) = 0 /\ Hi(WE, Globe) = MaxLon
  BY DEF Lo, Hi, Globe, SN, WE
<1> DEFINE belt == Slice(SN, Globe, tr.s, tr.n)
<1>4. /\ IsRegion(belt) /\ Lo(SN, belt) = tr.s /\ Hi(SN, belt) = tr.n
      /\ Lo(WE, belt) = 0 /\ Hi(WE, belt) = MaxLon
  <2>1. /\ tr.s \in Int /\ tr.n \in Int
        /\ Lo(SN, Globe) <= tr.s /\ tr.s <= tr.n /\ tr.n <= Hi(SN, Globe)
    BY <1>1, <1>3
  <2>2. /\ IsRegion(belt) /\ Lo(SN, belt) = tr.s /\ Hi(SN, belt) = tr.n
        /\ Lo(Other(SN), belt) = Lo(Other(SN), Globe)
        /\ Hi(Other(SN), belt) = Hi(Other(SN), Globe)
    BY <1>2, <2>1, SliceFields
  <2> QED
    BY <1>2, <1>3, <2>2
<1>5. /\ Ordered(SN, Globe, <<tr.s, tr.n>>)
      /\ \A k \in 1 .. 3 : IsRegion(Regions(SN, Globe, <<tr.s, tr.n>>)[k])
      /\ Regions(SN, Globe, <<tr.s, tr.n>>)[2] = belt
  <2>1. /\ tr.s \in Int /\ tr.n \in Int
        /\ Lo(SN, Globe) <= tr.s /\ tr.s <= tr.n /\ tr.n <= Hi(SN, Globe)
    BY <1>1, <1>3
  <2> QED
    BY <1>2, <2>1, ThreeRegions
<1> HIDE DEF belt
<1>6. /\ Ordered(WE, belt, <<tr.w, tr.e>>)
      /\ \A k \in 1 .. 3 : IsRegion(Regions(WE, belt, <<tr.w, tr.e>>)[k])
      /\ Regions(WE, belt, <<tr.w, tr.e>>)[2] = Slice(WE, belt, tr.w, tr.e)
  <2>1. /\ tr.w \in Int /\ tr.e \in Int
        /\ Lo(WE, belt) <= tr.w /\ tr.w <= tr.e /\ tr.e <= Hi(WE, belt)
    BY <1>1, <1>4
  <2> QED
    BY <1>2, <1>4, <2>1, ThreeRegions
<1>7. Slice(WE, belt, tr.w, tr.e) = tr
  <2> DEFINE part == Slice(WE, belt, tr.w, tr.e)
  <2>1. /\ tr.w \in Int /\ tr.e \in Int
        /\ Lo(WE, belt) <= tr.w /\ tr.w <= tr.e /\ tr.e <= Hi(WE, belt)
    BY <1>1, <1>4
  <2>2. /\ IsRegion(part) /\ Lo(WE, part) = tr.w /\ Hi(WE, part) = tr.e
        /\ Lo(Other(WE), part) = Lo(Other(WE), belt)
        /\ Hi(Other(WE), part) = Hi(Other(WE), belt)
    BY <1>2, <1>4, <2>1, SliceFields
  <2> HIDE DEF part
  <2>3. part.w = tr.w /\ part.e = tr.e /\ part.s = tr.s /\ part.n = tr.n
    BY <1>2, <1>4, <2>2 DEF Lo, Hi, SN, WE
  <2>4. part = [w |-> part.w, e |-> part.e, s |-> part.s, n |-> part.n]
    BY <2>2, RegionFields DEF IsRect
  <2>5. part = tr
    BY <1>1, <2>3, <2>4, Zenon
  <2> QED
    BY <2>5 DEF part
<1> QED
  BY <1>4, <1>5, <1>6, <1>7 DEF belt

LEMMA SurroundedTiled ==
  ASSUME NEW tr, IsRegion(tr), NEW samples,
         LET belt == Slice(SN, Globe, tr.s, tr.n)
             caps == Regions(SN, Globe, <<tr.s, tr.n>>)
             sides == Regions(WE, belt, <<tr.w, tr.e>>)
         IN /\ tree = [path \in {<<>>, << 2 >>} |->
                         IF path = <<>> THEN Node(SN, Globe, 0, <<tr.s, tr.n>>)
                                        ELSE Node(WE, belt, 1, <<tr.w, tr.e>>)]
            /\ todo = << Call("leaf", << 1 >>, 1, caps[1], {}),
                         Call("leaf", << 3 >>, 1, caps[3], {}),
                         Call("leaf", <<2, 1>>, 2, sides[1], {}),
                         Call("squares", <<2, 2>>, 2, tr, samples),
                         Call("leaf", <<2, 3>>, 2, sides[3], {}) >>
  PROVE  /\ Tiled
         /\ Leaves = {}
         /\ DOMAIN todo = 1 .. 5
         /\ \A i \in DOMAIN todo :
              \/ todo[i].how = "leaf" /\ todo[i].level <= 2
              \/ todo[i].how = "squares" /\ todo[i].level = 2 /\ todo[i].r = tr
<1> DEFINE belt == Slice(SN, Globe, tr.s, tr.n)
           caps == Regions(SN, Globe, <<tr.s, tr.n>>)
           sides == Regions(WE, belt, <<tr.w, tr.e>>)
           snCuts == <<tr.s, tr.n>>
           weCuts == <<tr.w, tr.e>>
           root == Node(SN, Globe, 0, snCuts)
           middle == Node(WE, belt, 1, weCuts)
           c1 == Call("leaf", << 1 >>, 1, caps[1], {})
           c2 == Call("leaf", << 3 >>, 1, caps[3], {})
           c3 == Call("leaf", <<2, 1>>, 2, sides[1], {})
           c4 == Call("squares", <<2, 2>>, 2, tr, samples)
           c5 == Call("leaf", <<2, 3>>, 2, sides[3], {})
<1>1. /\ tree = [path \in {<<>>, << 2 >>} |-> IF path = <<>> THEN root ELSE middle]
      /\ todo = <<c1, c2, c3, c4, c5>>
  OBVIOUS
<1>2. /\ IsRegion(belt)
      /\ Ordered(SN, Globe, snCuts) /\ Ordered(WE, belt, weCuts)
      /\ \A k \in 1 .. 3 : IsRegion(caps[k]) /\ IsRegion(sides[k])
      /\ caps[2] = belt /\ sides[2] = tr
  BY MiddleOfGlobe
<1>3. IsRegion(Globe) /\ SN \in Directions /\ WE \in Directions /\ SN # Leaf /\ WE # Leaf
  BY GlobeRegion DEF Directions, SN, WE, Leaf
<1>4. Len(snCuts) = 2 /\ Len(weCuts) = 2
  OBVIOUS
<1>5. /\ c1.path = << 1 >> /\ c1.level = 1 /\ c1.r = caps[1] /\ c1.how = "leaf"
      /\ c2.path = << 3 >> /\ c2.level = 1 /\ c2.r = caps[3] /\ c2.how = "leaf"
      /\ c3.path = <<2, 1>> /\ c3.level = 2 /\ c3.r = sides[1] /\ c3.how = "leaf"
      /\ c4.path = <<2, 2>> /\ c4.level = 2 /\ c4.r = tr /\ c4.how = "squares"
      /\ c5.path = <<2, 3>> /\ c5.level = 2 /\ c5.r = sides[3] /\ c5.how = "leaf"
  BY DEF Call
<1>6. /\ root.dir = SN /\ root.r = Globe /\ root.cuts = snCuts
      /\ middle.dir = WE /\ middle.r = belt /\ middle.cuts = weCuts
  BY DEF Node
<1>7. /\ caps = Regions(SN, Globe, snCuts) /\ sides = Regions(WE, belt, weCuts)
  OBVIOUS
<1> HIDE DEF belt, caps, sides, snCuts, weCuts, c1, c2, c3, c4, c5, root, middle
<1>8. /\ DOMAIN todo = 1 .. 5
      /\ todo[1] = c1 /\ todo[2] = c2 /\ todo[3] = c3 /\ todo[4] = c4 /\ todo[5] = c5
  <2> DEFINE s == <<c1, c2, c3, c4, c5>>
  <2>1. /\ DOMAIN s = 1 .. 5
        /\ s[1] = c1 /\ s[2] = c2 /\ s[3] = c3 /\ s[4] = c4 /\ s[5] = c5
    OBVIOUS
  <2> HIDE DEF s
  <2>2. todo = s
    BY <1>1 DEF s
  <2> QED
    BY <2>1, <2>2
<1>9. DOMAIN tree = {<<>>, << 2 >>} /\ tree[<<>>] = root /\ tree[<< 2 >>] = middle
  <2>1. << 2 >> # <<>>
    OBVIOUS
  <2> QED
    BY <1>1, <2>1
<1>10. \A i \in DOMAIN todo : i = 1 \/ i = 2 \/ i = 3 \/ i = 4 \/ i = 5
  BY <1>8
<1>11. /\ \A x \in Nat : Append(<<>>, x) = <<x>> /\ Append(<< 2 >>, x) = <<2, x>>
       /\ \A x \in Nat : Front(<<x>>) = <<>> /\ Front(<<2, x>>) = << 2 >>
       /\ \A x \in Nat : Last(<<x>>) = x /\ Last(<<2, x>>) = x
       /\ \A x \in Nat : <<x>> # <<>> /\ <<2, x>> # <<>>
  <2>1. \A x \in Nat : Append(<<>>, x) = <<x>> /\ Append(<< 2 >>, x) = <<2, x>>
    BY ShortPaths
  <2>2. \A p \in Seq(Nat), k \in Nat : Front(Append(p, k)) = p
    BY FrontOfAppend
  <2>3. <<>> \in Seq(Nat) /\ << 2 >> \in Seq(Nat)
    OBVIOUS
  <2>4. \A x \in Nat : Front(<<x>>) = <<>> /\ Front(<<2, x>>) = << 2 >>
    BY <2>1, <2>2, <2>3
  <2>5. \A x \in Nat : Last(<<x>>) = x /\ Last(<<2, x>>) = x
    BY DEF Last
  <2>6. \A x \in Nat : <<x>> # <<>> /\ <<2, x>> # <<>>
    OBVIOUS
  <2> QED
    BY <2>1, <2>4, <2>5, <2>6
<1>12. ASSUME NEW x \in 1 .. 3
       PROVE  IsKid(<<x>>) /\ IsKid(<<2, x>>)
  <2>1. /\ Front(<<x>>) = <<>> /\ Front(<<2, x>>) = << 2 >>
        /\ Last(<<x>>) = x /\ Last(<<2, x>>) = x
    BY <1>11
  <2> QED
    BY <1>3, <1>4, <1>6, <1>9, <2>1 DEF IsKid
<1>13. CallTiled(c1) /\ CallTiled(c2) /\ CallTiled(c3) /\ CallTiled(c4) /\ CallTiled(c5)
  BY <1>2, <1>5, <1>12 DEF CallTiled, SamplesInside, SN, WE
<1>14. /\ HasRegion(<< 1 >>, caps[1]) /\ HasRegion(<< 2 >>, caps[2]) /\ HasRegion(<< 3 >>, caps[3])
       /\ HasRegion(<<2, 1>>, sides[1]) /\ HasRegion(<<2, 2>>, sides[2])
       /\ HasRegion(<<2, 3>>, sides[3])
       /\ HasRegion(<<>>, Globe)
  <2>1. \A i \in 1 .. 5 : HasRegion(todo[i].path, todo[i].r)
    BY <1>8 DEF HasRegion
  <2>2. \A q \in {<<>>, << 2 >>} : HasRegion(q, tree[q].r)
    BY <1>9 DEF HasRegion
  <2>3. /\ HasRegion(c1.path, c1.r) /\ HasRegion(c2.path, c2.r) /\ HasRegion(c3.path, c3.r)
        /\ HasRegion(c4.path, c4.r) /\ HasRegion(c5.path, c5.r)
    BY <1>8, <2>1
  <2>4. HasRegion(<<>>, root.r) /\ HasRegion(<< 2 >>, middle.r)
    BY <1>9, <2>2
  <2> QED
    BY <1>2, <1>5, <1>6, <2>3, <2>4, Zenon
<1>15. \A k \in 1 .. 2 + 1 : k \in Nat /\ (k = 1 \/ k = 2 \/ k = 3)
  OBVIOUS
<1>16. NodeTiled(<<>>)
  <2>1. \A k \in 1 .. 2 + 1 : HasRegion(Append(<<>>, k), caps[k])
    BY <1>11, <1>14, <1>15
  <2>2. \A k \in 1 .. Len(root.cuts) + 1 :
          HasRegion(Append(<<>>, k), Regions(root.dir, root.r, root.cuts)[k])
    BY <1>4, <1>6, <1>7, <2>1
  <2>3. /\ IsRegion(root.r) /\ root.dir \in Directions
        /\ Ordered(root.dir, root.r, root.cuts)
    BY <1>2, <1>3, <1>6, Zenon
  <2> QED
    BY <1>9, <2>2, <2>3 DEF NodeTiled
<1>17. ASSUME NEW p, p = << 2 >> PROVE NodeTiled(p)
  <2>1. \A k \in 1 .. 2 + 1 : HasRegion(Append(<< 2 >>, k), sides[k])
    BY <1>11, <1>14, <1>15
  <2>2. \A k \in 1 .. 2 + 1 : HasRegion(Append(p, k), sides[k])
    BY <1>17, <2>1
  <2>3. \A k \in 1 .. Len(middle.cuts) + 1 :
          HasRegion(Append(p, k), Regions(middle.dir, middle.r, middle.cuts)[k])
    BY <1>4, <1>6, <1>7, <2>2
  <2>4. /\ IsRegion(middle.r) /\ middle.dir \in Directions
        /\ Ordered(middle.dir, middle.r, middle.cuts)
    BY <1>2, <1>3, <1>6, Zenon
  <2>5. IsKid(<< 2 >>) /\ tree[<< 2 >>] = middle
    BY <1>9, <1>12
  <2>6. IsKid(p) /\ tree[p] = middle
    BY <1>17, <2>5
  <2> QED
    BY <2>3, <2>4, <2>6 DEF NodeTiled
<1>18. \A p \in DOMAIN tree : p \in Seq(Nat) /\ Len(p) <= 1
  <2>1. <<>> \in Seq(Nat) /\ Len(<<>>) <= 1 /\ << 2 >> \in Seq(Nat) /\ Len(<< 2 >>) <= 1
    OBVIOUS
  <2> QED
    BY <1>9, <2>1, Zenon
<1>19. Tiled
  <2>1. \A p \in DOMAIN tree : NodeTiled(p)
    BY <1>9, <1>16, <1>17
  <2> QED
    BY <1>8, <1>10, <1>13, <1>14, <1>18, <2>1 DEF Tiled
<1>20. Leaves = {}
  BY <1>3, <1>6, <1>9 DEF Leaves
<1> QED
  BY <1>5, <1>8, <1>10, <1>19, <1>20

LEMMA SquaresTiledFirst ==
  ASSUME NEW S \in SampleSets, InitSquares(S)
  PROVE  Tiled /\ SquaresCut
<1> DEFINE sn == NearExtrema(SN, Sorted(SN, S))
           we == NearExtrema(WE, Sorted(WE, S))
           base == [s |-> sn[1], n |-> sn[2], w |-> we[1], e |-> we[2]]
<1>1. Height(base) \in Nat /\ Width(base) \in Nat
  <2>1. /\ S \in SUBSET Locations /\ EnoughForExtrema(S)
        /\ SN \in Directions /\ WE \in Directions
    BY SampleSet DEF Directions
  <2>2. /\ sn[1] \in Int /\ sn[2] \in Int /\ sn[1] <= sn[2]
        /\ we[1] \in Int /\ we[2] \in Int /\ we[1] <= we[2]
    BY <2>1, ExtremaOrdered
  <2>3. Height(base) = sn[2] - sn[1] /\ Width(base) = we[2] - we[1]
    BY DEF Height, Width
  <2> HIDE DEF sn, we, base
  <2> QED
    BY <2>2, <2>3
<1>2. PICK c \in BestCandidates(Height(base), Width(base)) :
       LET tr == CenteredOn(base, c)
           p == Parts(c)
           way == IF p.sn >= p.we THEN SN ELSE WE
           belt == Slice(SN, Globe, tr.s, tr.n)
           caps == Regions(SN, Globe, <<tr.s, tr.n>>)
           sides == Regions(WE, belt, <<tr.w, tr.e>>)
       IN /\ tr \in Rects
          /\ tree = [path \in {<<>>, << 2 >>} |->
                       IF path = <<>> THEN Node(SN, Globe, 0, <<tr.s, tr.n>>)
                                      ELSE Node(WE, belt, 1, <<tr.w, tr.e>>)]
          /\ todo = << Call("leaf", << 1 >>, 1, caps[1], {}),
                       Call("leaf", << 3 >>, 1, caps[3], {}),
                       Call("leaf", <<2, 1>>, 2, sides[1], {}),
                       Call("squares", <<2, 2>>, 2, tr, S),
                       Call("leaf", <<2, 3>>, 2, sides[3], {}) >>
          /\ squares = [dir |-> way,
                        first |-> (IF way = SN THEN p.sn ELSE p.we) - 1,
                        second |-> (IF way = SN THEN p.we ELSE p.sn) - 1]
  BY DEF InitSquares
<1> HIDE DEF base
<1> DEFINE tr == CenteredOn(base, c)
           p == Parts(c)
           way == IF p.sn >= p.we THEN SN ELSE WE
<1>3. /\ c.sn \in Nat /\ c.we \in Nat
      /\ c.sn # 0 => p.sn >= 2
      /\ c.we # 0 => p.we >= 2
      /\ p.sn \in Int /\ p.we \in Int
  BY <1>1, PartsEnough, PartsType
<1>4. tr \in Rects
  BY <1>2
<1>5. tr.n = tr.s + c.sn /\ tr.e = tr.w + c.we
  BY DEF CenteredOn
<1>6. squares = [dir |-> way,
                 first |-> (IF way = SN THEN p.sn ELSE p.we) - 1,
                 second |-> (IF way = SN THEN p.we ELSE p.sn) - 1]
  BY <1>2
<1>7. LET belt == Slice(SN, Globe, tr.s, tr.n)
          caps == Regions(SN, Globe, <<tr.s, tr.n>>)
          sides == Regions(WE, belt, <<tr.w, tr.e>>)
      IN /\ tree = [path \in {<<>>, << 2 >>} |->
                      IF path = <<>> THEN Node(SN, Globe, 0, <<tr.s, tr.n>>)
                                     ELSE Node(WE, belt, 1, <<tr.w, tr.e>>)]
         /\ todo = << Call("leaf", << 1 >>, 1, caps[1], {}),
                      Call("leaf", << 3 >>, 1, caps[3], {}),
                      Call("leaf", <<2, 1>>, 2, sides[1], {}),
                      Call("squares", <<2, 2>>, 2, tr, S),
                      Call("leaf", <<2, 3>>, 2, sides[3], {}) >>
  BY <1>2
<1> HIDE DEF tr, p
<1>8. IsRegion(tr)
  <2>1. /\ tr.w \in 0 .. MaxLon /\ tr.e \in 0 .. MaxLon
        /\ tr.s \in 0 .. MaxLat /\ tr.n \in 0 .. MaxLat
    BY <1>4 DEF Rects
  <2> QED
    BY <1>3, <1>4, <1>5, <2>1, LimitsType DEF IsRegion
<1>9. /\ Tiled
      /\ Leaves = {}
      /\ \A i \in DOMAIN todo :
           \/ todo[i].how = "leaf" /\ todo[i].level <= 2
           \/ todo[i].how = "squares" /\ todo[i].level = 2 /\ todo[i].r = tr
  BY <1>7, <1>8, SurroundedTiled
<1>10. squares.dir \in Directions
  BY <1>6 DEF Directions
<1>11. squares.second < 1 => Lo(Other(squares.dir), tr) = Hi(Other(squares.dir), tr)
  <2>1. tr.s \in Int /\ tr.w \in Int
    BY <1>8, RegionFields, LimitsType
  <2>2. CASE way = SN
    <3>1. squares.dir = SN /\ squares.second = p.we - 1
      BY <1>6, <2>2
    <3>2. Lo(Other(SN), tr) = tr.w /\ Hi(Other(SN), tr) = tr.e
      BY DEF Other, Lo, Hi, SN, WE
    <3> QED
      BY <1>3, <1>5, <2>1, <3>1, <3>2
  <2>3. CASE way = WE
    <3>1. squares.dir = WE /\ squares.second = p.sn - 1
      BY <1>6, <2>3 DEF SN, WE
    <3>2. Lo(Other(WE), tr) = tr.s /\ Hi(Other(WE), tr) = tr.n
      BY DEF Other, Lo, Hi, SN, WE
    <3> QED
      BY <1>3, <1>5, <2>1, <3>1, <3>2
  <2> QED
    BY <2>2, <2>3
<1>12. \A i \in DOMAIN todo : SquareCall(todo[i])
  BY <1>9, <1>11 DEF SquareCall
<1>13. SquaresSmallEnough
  BY <1>9 DEF SquaresSmallEnough
<1> QED
  BY <1>9, <1>10, <1>12, <1>13 DEF SquaresCut

----------------------------------------------------------------------------
(* At any time the finished nodes and the calls that remain fit together.  *)

TileInv ==
  /\ phase \in {"create", "created", "read"}
  /\ TreeInv /\ Tiled /\ SquaresCut

LEMMA InitTiled == Init => Tiled /\ SquaresCut
BY SamplesTiledFirst, SquaresTiledFirst DEF Init

(* Of a finished tree, only the regions, the directions and the cuts       *)
(* matter: levels are not read back.                                       *)
LEMMA TiledKept ==
  ASSUME Tiled, SquaresCut, todo = <<>>, UNCHANGED <<todo, squares>>,
         DOMAIN tree' = DOMAIN tree,
         \A p \in DOMAIN tree : /\ tree'[p].dir = tree[p].dir
                                /\ tree'[p].r = tree[p].r
                                /\ tree'[p].cuts = tree[p].cuts
  PROVE  Tiled' /\ SquaresCut'
<1>1. \A q, r : HasRegion(q, r)' <=> HasRegion(q, r)
  BY DEF HasRegion
<1>2. \A q : IsKid(q)' <=> IsKid(q)
  BY DEF IsKid
<1>3. \A p \in DOMAIN tree : NodeTiled(p)'
  <2> SUFFICES ASSUME NEW p \in DOMAIN tree PROVE NodeTiled(p)'
    OBVIOUS
  <2>1. NodeTiled(p)
    BY DEF Tiled
  <2> QED
    BY <1>1, <1>2, <2>1 DEF NodeTiled
<1>4. DOMAIN todo = {} /\ todo' = todo
  OBVIOUS
<1>5. Tiled'
  BY <1>1, <1>3, <1>4 DEF Tiled
<1>6. SquaresCut'
  <2>1. CASE squares.dir = Leaf
    BY <2>1 DEF SquaresCut
  <2>2. CASE squares.dir # Leaf
    BY <1>4, <2>2 DEF SquaresCut, SquaresSmallEnough, Leaves
  <2> QED
    BY <2>1, <2>2
<1> QED
  BY <1>5, <1>6

LEMMA StepTiled ==
  TileInv /\ [Next]_vars => Tiled' /\ SquaresCut'
<1> SUFFICES ASSUME TileInv, [Next]_vars PROVE Tiled' /\ SquaresCut'
  OBVIOUS
<1>1. TreeInv /\ Tiled /\ SquaresCut
  BY DEF TileInv
<1>2. CASE Next /\ todo # <<>> /\ ~ ReadIndex
  <2>1. Growing
    BY <1>1, <1>2 DEF TileInv, TreeInv
  <2>2. CASE MakeLeaf
    BY <1>1, <2>1, <2>2, LeafTiled, LeafSquares
  <2>3. CASE CutOutliers
    BY <1>1, <2>1, <2>3, OutliersTiled
  <2>4. CASE CutSamples
    BY <1>1, <2>1, <2>4, SamplesTiled
  <2>5. CASE CutSquares
    BY <1>1, <2>1, <2>5, SquaresTiled
  <2> QED
    BY <1>2, <2>2, <2>3, <2>4, <2>5 DEF Next, SaveIndex
<1>3. CASE SaveIndex \/ UNCHANGED vars
  <2>1. UNCHANGED <<tree, todo, squares>>
    BY <1>3 DEF SaveIndex, vars
  <2>2. \A q, r : HasRegion(q, r)' <=> HasRegion(q, r)
    BY <2>1 DEF HasRegion
  <2>3. Tiled'
    BY <1>1, <2>1, <2>2 DEF Tiled, NodeTiled, CallTiled, IsKid
  <2>4. SquaresCut'
    BY <1>1, <2>1 DEF SquaresCut, SquareCall, SquaresSmallEnough, Leaves
  <2> QED
    BY <2>3, <2>4
<1>4. CASE ReadIndex
  <2>1. Growing /\ todo = <<>>
    BY <1>1, <1>4 DEF TreeInv, ReadIndex
  <2>2. tree' = [p \in DOMAIN tree |-> Node(tree[p].dir, tree[p].r, 0, DecodedCuts(p))]
        /\ UNCHANGED <<todo, squares>>
    BY <1>4 DEF ReadIndex
  <2>3. \A p \in DOMAIN tree : DecodedCuts(p) = tree[p].cuts
    BY <2>1, CutsDecoded
  <2>4. /\ DOMAIN tree' = DOMAIN tree
        /\ \A p \in DOMAIN tree : /\ tree'[p].dir = tree[p].dir
                                  /\ tree'[p].r = tree[p].r
                                  /\ tree'[p].cuts = tree[p].cuts
    BY <2>2, <2>3 DEF Node
  <2> QED
    BY <1>1, <2>1, <2>2, <2>4, TiledKept
<1> QED
  BY <1>2, <1>3, <1>4 DEF Next, MakeLeaf, CutOutliers, CutSamples, CutSquares

LEMMA CompleteTiled == TileInv => LeavesTileGlobe /\ QueryFindsFiles
<1> SUFFICES ASSUME TileInv PROVE LeavesTileGlobe /\ QueryFindsFiles
  OBVIOUS
<1>1. CASE ~ Complete
  BY <1>1 DEF LeavesTileGlobe, QueryFindsFiles
<1>2. CASE Complete
  <2>1. todo = <<>> /\ Tiled /\ SquaresCut
    BY <1>2 DEF TileInv, TreeInv, Complete
  <2>2. SquaresSmallEnough
    BY <2>1 DEF SquaresCut, SquaresSmallEnough
  <2> QED
    BY <2>1, <2>2, LeavesFromTiled DEF LeavesTileGlobe
<1> QED
  BY <1>1, <1>2

LEMMA TreesTiled == Spec => []TileInv
<1>1. Init => TileInv
  BY InitTree, InitTiled DEF TileInv, Init
<1>2. TileInv /\ [Next]_vars => TileInv'
  <2> SUFFICES ASSUME TileInv, [Next]_vars PROVE TileInv'
    OBVIOUS
  <2>1. phase' \in {"create", "created", "read"}
    BY DEF TileInv, Next, MakeLeaf, CutOutliers, CutSamples, CutSquares,
           SaveIndex, ReadIndex, vars
  <2> QED
    BY <2>1, StepTree, StepTiled DEF TileInv
<1> QED
  BY <1>1, <1>2, PTL DEF Spec

(* Once the regions are made, and when their index has been read back,     *)
(* every location of the globe goes to a leaf whose region holds it, and   *)
(* is inside no other leaf's, however the samples fell and whether they or *)
(* squares decided the cuts; and no square is left too large.              *)
THEOREM LeavesTile == Spec => []LeavesTileGlobe
BY TreesTiled, CompleteTiled, PTL

(* A query for a region is told of the file of every location in it.       *)
THEOREM FilesFound == Spec => []QueryFindsFiles
BY TreesTiled, CompleteTiled, PTL
=============================================================================
