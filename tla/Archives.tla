------------------------------ MODULE Archives ------------------------------
(***************************************************************************)
(* The daily archives: csvArchiver (nblocations/csv_archiver.go), which    *)
(* writes vehicle locations as gzipped CSV, and VLRArchiver over           *)
(* DatedTarArchiver (nblocations/vlr_archiver.go, util/tar_archiver.go),   *)
(* which writes responses as gzipped tar; the files under them, opened by  *)
(* util/path.go's OpenUniqueFile and written by CsvWriteCloser and         *)
(* TarWriter.                                                              *)
(*                                                                         *)
(* Time is a number, a day is DayLength of them.  An entry is what is      *)
(* given to an archiver, a location or a response.  The disk may stop      *)
(* working for a while; the process may be killed, and is then restarted.  *)
(***************************************************************************)
EXTENDS Integers, Sequences, FiniteSets, SequencesExt, FiniteSetsExt

CONSTANTS
  DayLength,    (* moments in a day, the first of which is midnight        *)
  LastTime,     (* bound: times are 0 .. LastTime                          *)
  MaxSuffix,    (* names tried for a file, 1000 in the code                *)
  MaxEntries,   (* bound: entries given to the archivers                   *)
  MaxCrashes,   (* bound: crashes                                          *)
  MaxFaults     (* bound: times that the disk stops working                *)

ASSUME ArchivesAssumption ==
  /\ {DayLength, MaxSuffix} \subseteq Nat \ {0}
  /\ {LastTime, MaxEntries, MaxCrashes, MaxFaults} \subseteq Nat

Csv == "csv"
Vlr == "vlr"
Kinds == {Csv, Vlr}

Times == 0 .. LastTime
Day(t) == t \div DayLength
Days == 0 .. Day(LastTime)

(* An entry: its number, its time and the run of the process it came in.   *)
Entries == [id : Nat, t : Times, run : Nat]

(* A file: which archiver's, its day and the suffix of its name; for the   *)
(* name without a suffix it is 0.                                          *)
Names == [kind : Kinds, day : Days, suffix : 0 .. MaxSuffix - 1]

CONSTANT Closed  (* nil: no file is open *)

ASSUME ClosedAssumption == Closed \notin Names

VARIABLES
  files,    (* the files on disk: what each of them holds                  *)
  written,  (* history: the entries that were accepted for each of them    *)
  flushed,  (* history: how many of those had been flushed without error   *)
  current,  (* the file that each archiver has open                        *)
  buffer,   (* the entries it has accepted, not yet in the file            *)
  broken,   (* has its writer met an error?  The writers keep the first.   *)
  splitAt,  (* nextArchiveTime of csvArchiver                              *)
  working,  (* does the disk work?                                         *)
  given,    (* entries given so far                                        *)
  crashes,
  faults

archiverVars == <<current, buffer, broken, splitAt>>
fileVars == <<files, written, flushed>>
boundVars == <<given, crashes, faults>>
vars == <<fileVars, archiverVars, working, boundVars>>

Init ==
  /\ files = <<>> /\ written = <<>> /\ flushed = <<>>
  /\ current = [k \in Kinds |-> Closed]
  /\ buffer = [k \in Kinds |-> <<>>]
  /\ broken = [k \in Kinds |-> FALSE]
  /\ splitAt = 0
  /\ working = TRUE
  /\ given = 0 /\ crashes = 0 /\ faults = 0

----------------------------------------------------------------------------
(* OpenUniqueFile tries the names in order, the next one after any error.  *)

NamesFor(k, d) == {n \in Names : n.kind = k /\ n.day = d}
FreeNames(k, d) == NamesFor(k, d) \ DOMAIN files

(* Any name that does not exist.  (X_Y is X with the fault Y seeded;       *)
(* PROJECT.json says which property it must break.)                        *)
UniqueFile_AnyFree(k, d) == FreeNames(k, d)

(* What it opens when the only errors are of names that exist: the first   *)
(* that does not, unless there is none.  A set of at most one name.        *)
UniqueFile(k, d) ==
  {n \in FreeNames(k, d) : \A m \in FreeNames(k, d) : n.suffix <= m.suffix}

(* The disk stops working for some of the names tried, or it works again   *)
(* before they are all tried.                                              *)
Trouble ==
  IF working
  THEN faults < MaxFaults /\ faults' = faults + 1 /\ UNCHANGED working
  ELSE working' = TRUE /\ UNCHANGED faults

(* What closing the current file of k leaves in it: a writer that is not   *)
(* broken writes the rest out, if the disk works.                          *)
AfterClose(k) ==
  IF current[k] # Closed /\ ~ broken[k] /\ working
  THEN [f |-> [files EXCEPT ![current[k]] = @ \o buffer[k]],
        n |-> [flushed EXCEPT ![current[k]] = Len(written[current[k]])]]
  ELSE [f |-> files, n |-> flushed]

(* A new file, or what is known of it, beside the others.                  *)
Created(f, name, value) ==
  [n \in DOMAIN f \union {name} |-> IF n = name THEN value ELSE f[n]]

(* An entry is written through to the buffers of a new file, or of the     *)
(* current one.  If the file cannot be opened, the current one has been    *)
(* closed all the same, and its error is dropped or covered by this one.   *)
StartFile(k, name, e) ==
  /\ files' = Created(AfterClose(k).f, name, <<>>)
  /\ flushed' = Created(AfterClose(k).n, name, 0)
  /\ written' = Created(written, name, <<e>>)
  /\ current' = [current EXCEPT ![k] = name]
  /\ buffer' = [buffer EXCEPT ![k] = <<e>>]
  /\ broken' = [broken EXCEPT ![k] = FALSE]

CannotStart(k) ==
  /\ files' = AfterClose(k).f /\ flushed' = AfterClose(k).n
  /\ current' = [current EXCEPT ![k] = Closed]
  /\ buffer' = [buffer EXCEPT ![k] = <<>>]
  /\ broken' = [broken EXCEPT ![k] = FALSE]
  /\ UNCHANGED written

(* A writer that is broken returns its error.                              *)
WriteOn(k, e) ==
  /\ IF broken[k]
     THEN UNCHANGED <<buffer, written>>
     ELSE /\ buffer' = [buffer EXCEPT ![k] = Append(@, e)]
          /\ written' = [written EXCEPT ![current[k]] = Append(@, e)]
  /\ UNCHANGED <<files, flushed, current, broken, working, faults>>

(* The file is closed and another is opened.  After trouble that may be    *)
(* any name that does not exist, those before it having failed, or none.   *)
Switch(k, d, e) ==
  \/ /\ IF working /\ UniqueFile(k, d) # {}
        THEN \E name \in UniqueFile(k, d) : StartFile(k, name, e)
        ELSE CannotStart(k)
     /\ UNCHANGED <<working, faults>>
  \/ /\ Trouble
     /\ \/ \E name \in FreeNames(k, d) : StartFile(k, name, e)
        \/ CannotStart(k)

NewEntry(t) == [id |-> given, t |-> t, run |-> crashes]

Given ==
  /\ given < MaxEntries
  /\ given' = given + 1
  /\ UNCHANGED crashes

(* A day later, at the same time of day.                                   *)
NextArchiveSplitPoint_SameTime(t) == t + DayLength

----------------------------------------------------------------------------
(* csvArchiver.                                                            *)

NextArchiveSplitPoint(t) == (Day(t) + 1) * DayLength

ShouldSplit(t) == current[Csv] = Closed \/ splitAt < t

WriteLocation(t) ==
  /\ Given
  /\ IF ShouldSplit(t)
     THEN /\ Switch(Csv, Day(t), NewEntry(t))
          /\ splitAt' = IF current'[Csv] = Closed THEN splitAt
                                                  ELSE NextArchiveSplitPoint(t)
     ELSE WriteOn(Csv, NewEntry(t)) /\ UNCHANGED splitAt

----------------------------------------------------------------------------
(* VLRArchiver.                                                            *)

(* The time that a response is filed under: half way between the request   *)
(* and the result, if the clock was not set back between them.             *)
FiledAt(request, result) ==
  IF request < result THEN request + (result - request) \div 2 ELSE request

(* The writer kept when it cannot be closed.                               *)
OtherFragment_KeptIfBroken(d) ==
  current[Vlr] = Closed \/ (current[Vlr].day # d /\ ~ broken[Vlr])

(* GetTarWriter: is the file that is open for another day, or none open?   *)
OtherFragment(d) == current[Vlr] = Closed \/ current[Vlr].day # d

AddResponse(request, result) ==
  LET t == FiledAt(request, result)
  IN /\ Given
     /\ IF OtherFragment(Day(t))
        THEN Switch(Vlr, Day(t), NewEntry(t))
        ELSE WriteOn(Vlr, NewEntry(t))
     /\ UNCHANGED splitAt

(* A write that fails is not remembered.                                   *)
Spill_Forgets(k) ==
  /\ current[k] # Closed
  /\ \E n \in 1 .. Len(buffer[k]) :
       /\ buffer' = [buffer EXCEPT ![k] = SubSeq(@, n + 1, Len(@))]
       /\ files' = IF working
                   THEN [files EXCEPT ![current[k]] = @ \o SubSeq(buffer[k], 1, n)]
                   ELSE files
  /\ UNCHANGED <<written, flushed, current, broken, splitAt, working, boundVars>>

----------------------------------------------------------------------------
(* What is buffered reaches the file when the buffers and the compressor   *)
(* have enough of it; if the disk does not work, the writer is broken.     *)

Spill(k) ==
  /\ current[k] # Closed /\ ~ broken[k]
  /\ \E n \in 1 .. Len(buffer[k]) :
       IF working
       THEN /\ files' = [files EXCEPT ![current[k]] = @ \o SubSeq(buffer[k], 1, n)]
            /\ buffer' = [buffer EXCEPT ![k] = SubSeq(@, n + 1, Len(@))]
            /\ UNCHANGED broken
       ELSE /\ broken' = [broken EXCEPT ![k] = TRUE]
            /\ UNCHANGED <<files, buffer>>
  /\ UNCHANGED <<written, flushed, current, splitAt, working, boundVars>>

(* Flush, which writes everything out.                                     *)
Flush(k) ==
  /\ current[k] # Closed /\ ~ broken[k]
  /\ IF working
     THEN /\ files' = [files EXCEPT ![current[k]] = @ \o buffer[k]]
          /\ flushed' = [flushed EXCEPT ![current[k]] = Len(written[current[k]])]
          /\ buffer' = [buffer EXCEPT ![k] = <<>>]
          /\ UNCHANGED broken
     ELSE /\ broken' = [broken EXCEPT ![k] = TRUE]
          /\ UNCHANGED <<files, flushed, buffer>>
  /\ UNCHANGED <<written, current, splitAt, working, boundVars>>

(* Close, at the end of a run.  A later entry would open a new file.       *)
Close(k) ==
  /\ current[k] # Closed
  /\ CannotStart(k)
  /\ UNCHANGED <<splitAt, working, boundVars>>

----------------------------------------------------------------------------
(* The environment.                                                        *)

DiskFails ==
  /\ working /\ faults < MaxFaults
  /\ working' = FALSE
  /\ faults' = faults + 1
  /\ UNCHANGED <<fileVars, archiverVars, given, crashes>>

DiskRecovers ==
  /\ ~ working
  /\ working' = TRUE
  /\ UNCHANGED <<fileVars, archiverVars, boundVars>>

(* What was buffered is gone; the archivers of the new run have nothing    *)
(* open.                                                                   *)
Crash ==
  /\ crashes < MaxCrashes
  /\ crashes' = crashes + 1
  /\ current' = [k \in Kinds |-> Closed]
  /\ buffer' = [k \in Kinds |-> <<>>]
  /\ broken' = [k \in Kinds |-> FALSE]
  /\ splitAt' = 0
  /\ UNCHANGED <<fileVars, working, given, faults>>

Next ==
  \/ \E t \in Times : WriteLocation(t)
  \/ \E t, u \in Times : AddResponse(t, u)
  \/ \E k \in Kinds : Spill(k) \/ Flush(k) \/ Close(k)
  \/ DiskFails
  \/ DiskRecovers
  \/ Crash

Spec == Init /\ [][Next]_vars

----------------------------------------------------------------------------
(* Properties.                                                             *)

(* Every variable keeps its type; an archiver writes to a file there is.   *)
TypeOK ==
  /\ DOMAIN files \subseteq Names
  /\ DOMAIN written = DOMAIN files /\ DOMAIN flushed = DOMAIN files
  /\ \A n \in DOMAIN files :
       /\ files[n] \in Seq(Entries) /\ written[n] \in Seq(Entries)
       /\ flushed[n] \in Nat
  /\ current \in [Kinds -> DOMAIN files \union {Closed}]
  /\ buffer \in [Kinds -> Seq(Entries)]
  /\ broken \in [Kinds -> BOOLEAN]
  /\ splitAt \in Nat /\ working \in BOOLEAN
  /\ {given, crashes, faults} \subseteq Nat

(* Everything is filed under its day.  A response always is; a location is *)
(* unless it is late (its archive was closed by one of a later day) or     *)
(* from the very midnight that ends the day: an archive has no location    *)
(* from after that midnight, and begins with one of its own day.           *)
FiledByDay ==
  /\ TypeOK
  /\ \A n \in DOMAIN written :
       IF n.kind = Vlr
       THEN \A e \in Range(written[n]) : Day(e.t) = n.day
       ELSE /\ Day(written[n][1].t) = n.day
            /\ \A e \in Range(written[n]) : e.t <= (n.day + 1) * DayLength

(* Everything in file n was accepted before everything in file m.          *)
Before(n, m) ==
  \A e \in Range(written[n]), f \in Range(written[m]) :
    e.id < f.id /\ e.run <= f.run

(* After a restart the archivers of the new run leave the files of the old *)
(* one alone, however they ended: a file is written by one run only, and   *)
(* of an archiver's files one is finished before the other is begun.       *)
(* Among those of a day the names are in that order if the disk has always *)
(* worked; after trouble in OpenUniqueFile, which takes any error for a    *)
(* name that exists, a name was skipped that a later file may take.        *)
OneRunPerFile ==
  \A n, m \in DOMAIN written : n.kind = m.kind =>
    IF n = m
    THEN \A e, f \in Range(written[n]) : e.run = f.run
    ELSE /\ Before(n, m) \/ Before(m, n)
         /\ faults = 0 /\ n.day = m.day /\ n.suffix < m.suffix => Before(n, m)

(* Whatever fails, and whenever the process is killed, a file holds what   *)
(* was accepted for it up to some point, which is not before the last      *)
(* flush or close that succeeded.                                          *)
FlushedKept ==
  \A n \in DOMAIN files :
    /\ IsPrefix(files[n], written[n])
    /\ flushed[n] <= Len(files[n])

(* The trouble of one day does not reach the next: when the disk works, to *)
(* the end of the step, an entry that begins a new day is accepted, even   *)
(* if the writer of the day before was broken or could not be opened or    *)
(* closed.                                                                 *)
NewDayAccepted ==
  [][\A k \in Kinds, d \in Days :
       (/\ given' # given /\ working /\ faults' = faults
        /\ NamesFor(k, d) \intersect DOMAIN files = {}
        /\ IF k = Csv THEN \E t \in Times : Day(t) = d /\ ShouldSplit(t) /\ WriteLocation(t)
                      ELSE \E t, u \in Times : Day(FiledAt(t, u)) = d /\ AddResponse(t, u))
       => \E n \in NamesFor(k, d) : n \in DOMAIN files' /\ Len(written'[n]) = 1]_vars
============================================================================
