--------------------------- MODULE ArchivesProofs ---------------------------
(***************************************************************************)
(* Proofs about Archives, for days of any length, any number of names and  *)
(* any numbers of entries, crashes and faults of the disk.                 *)
(***************************************************************************)
EXTENDS Archives, SequenceTheorems, TLAPS

(* What an archiver has open is its own, holds with the buffer all that    *)
(* was accepted for it, by the present run, after all in its other files;  *)
(* while the disk has not failed it has the last name of its day.          *)
KeepsOpen(k) ==
  /\ current[k].kind = k
  /\ ~ broken[k] => files[current[k]] \o buffer[k] = written[current[k]]
  /\ \A e \in Range(written[current[k]]) : e.run = crashes
  /\ \A m \in DOMAIN files : m.kind = k /\ m # current[k] => Before(m, current[k])
  /\ faults = 0 =>
       \A m \in DOMAIN files :
         m.kind = k /\ m.day = current[k].day => m.suffix <= current[k].suffix

OpenFiles == \A k \in Kinds : current[k] # Closed => KeepsOpen(k)

(* nextArchiveTime is the midnight that ends the day of the open archive.  *)
SplitAtMidnight ==
  current[Csv] # Closed => splitAt = (current[Csv].day + 1) * DayLength

(* While the disk has not failed the names of a day are taken in order.    *)
NoGaps ==
  faults = 0 => \A n \in DOMAIN files, m \in Names :
    m.kind = n.kind /\ m.day = n.day /\ m.suffix < n.suffix => m \in DOMAIN files

(* Every file is begun with an entry; entries are numbered as they come.   *)
Numbered ==
  \A n \in DOMAIN written :
    /\ written[n] # <<>>
    /\ \A e \in Range(written[n]) : e.id < given /\ e.run <= crashes

(* The inductive invariant.                                                *)
IInv ==
  /\ TypeOK /\ OpenFiles /\ SplitAtMidnight /\ NoGaps /\ Numbered
  /\ FiledByDay /\ OneRunPerFile /\ FlushedKept

(* The disk does not work only after it failed.                            *)
FailedOnce == ~ working => faults > 0

----------------------------------------------------------------------------
(* Lemmas about sequences.                                                 *)

(* A prefix is what begins a sequence, element by element.                 *)
LEMMA PrefixByElement ==
  ASSUME NEW S, NEW s \in Seq(S), NEW t \in Seq(S)
  PROVE  IsPrefix(s, t) <=>
           Len(s) <= Len(t) /\ \A i \in 1 .. Len(s) : s[i] = t[i]
<1>1. ASSUME Len(s) <= Len(t)
      PROVE  /\ SubSeq(s, 1, Len(s)) = s
             /\ SubSeq(t, 1, Len(s)) \in Seq(S)
             /\ Len(SubSeq(t, 1, Len(s))) = Len(s)
             /\ \A i \in 1 .. Len(s) : SubSeq(t, 1, Len(s))[i] = t[i]
  BY <1>1
<1>2. ASSUME Len(s) <= Len(t), \A i \in 1 .. Len(s) : s[i] = t[i]
      PROVE  s = SubSeq(t, 1, Len(s))
  BY <1>1, <1>2, SeqEqual
<1> QED
  BY <1>1, <1>2 DEF IsPrefix

(* The first of two sequences put together is a prefix.                    *)
LEMMA PrefixOfConcat ==
  ASSUME NEW S, NEW s \in Seq(S), NEW t \in Seq(S)
  PROVE  IsPrefix(s, s \o t)
<1>1. s \o t \in Seq(S) /\ Len(s) <= Len(s \o t)
      /\ \A i \in 1 .. Len(s) : s[i] = (s \o t)[i]
  OBVIOUS
<1> QED
  BY <1>1, PrefixByElement

(* A prefix remains one when the sequence grows.                           *)
LEMMA PrefixOfAppend ==
  ASSUME NEW S, NEW s \in Seq(S), NEW t \in Seq(S), NEW e \in S,
         IsPrefix(s, t)
  PROVE  IsPrefix(s, Append(t, e))
<1>1. /\ Append(t, e) \in Seq(S) /\ Len(Append(t, e)) = Len(t) + 1
      /\ \A i \in 1 .. Len(t) : Append(t, e)[i] = t[i]
  OBVIOUS
<1>2. Len(s) <= Len(t) /\ \A i \in 1 .. Len(s) : s[i] = t[i]
  BY PrefixByElement
<1>3. Len(s) <= Len(Append(t, e))
      /\ \A i \in 1 .. Len(s) : s[i] = Append(t, e)[i]
  BY <1>1, <1>2
<1> QED
  BY <1>1, <1>3, PrefixByElement

(* The elements of a sequence, of one that grew and of one with one.       *)
LEMMA Elements ==
  ASSUME NEW S, NEW s \in Seq(S), NEW e \in S
  PROVE  /\ \A x : x \in Range(s) <=> \E i \in 1 .. Len(s) : s[i] = x
         /\ Range(s) \subseteq S
         /\ Range(Append(s, e)) = Range(s) \union {e}
<1>1. \A x : x \in Range(s) <=> \E i \in 1 .. Len(s) : s[i] = x
  BY DEF Range
<1>2. Range(s) \subseteq S
  BY DEF Range
<1>3. /\ Append(s, e) \in Seq(S) /\ Len(Append(s, e)) = Len(s) + 1
      /\ \A i \in 1 .. Len(s) : Append(s, e)[i] = s[i]
      /\ Append(s, e)[Len(s) + 1] = e
      /\ DOMAIN Append(s, e) = 1 .. Len(s) + 1
  OBVIOUS
<1>4. Range(Append(s, e)) = Range(s) \union {e}
  BY <1>1, <1>3 DEF Range
<1> QED
  BY <1>1, <1>2, <1>4

(* A sequence of one element.                                              *)
LEMMA One ==
  ASSUME NEW S, NEW e \in S
  PROVE  /\ <<e>> \in Seq(S) /\ Range(<<e>>) = {e} /\ <<e>>[1] = e
         /\ <<e>> # <<>> /\ <<>> \in Seq(S) /\ Len(<<>>) = 0
         /\ IsPrefix(<<>>, <<e>>)
<1>1. <<e>> \in Seq(S) /\ <<e>>[1] = e /\ <<e>> # <<>> /\ <<>> \in Seq(S)
      /\ Len(<<>>) = 0 /\ Len(<<e>>) = 1
  OBVIOUS
<1>2. Range(<<e>>) = {e}
  BY DEF Range
<1>3. IsPrefix(<<>>, <<e>>)
  <2>1. <<>> \o <<e>> = <<e>>
    BY <1>1, ConcatEmptySeq
  <2> QED
    BY <1>1, <2>1, PrefixOfConcat
<1> QED
  BY <1>1, <1>2, <1>3

(* Something is appended to the second of two sequences put together.      *)
LEMMA ConcatAppend ==
  ASSUME NEW S, NEW s \in Seq(S), NEW b \in Seq(S), NEW e \in S
  PROVE  s \o Append(b, e) = Append(s \o b, e)
<1>1. <<e>> \in Seq(S) /\ s \o b \in Seq(S)
  OBVIOUS
<1>2. Append(b, e) = b \o <<e>> /\ Append(s \o b, e) = (s \o b) \o <<e>>
  BY <1>1, AppendIsConcat
<1>3. (s \o b) \o <<e>> = s \o (b \o <<e>>)
  BY <1>1, ConcatAssociative
<1> QED
  BY <1>2, <1>3

(* What is split and put together again is what it was.                    *)
LEMMA SplitAndJoin ==
  ASSUME NEW S, NEW s \in Seq(S), NEW b \in Seq(S), NEW n \in 1 .. Len(b)
  PROVE  /\ SubSeq(b, 1, n) \in Seq(S) /\ SubSeq(b, n + 1, Len(b)) \in Seq(S)
         /\ (s \o SubSeq(b, 1, n)) \o SubSeq(b, n + 1, Len(b)) = s \o b
<1> DEFINE head == SubSeq(b, 1, n)
           rest == SubSeq(b, n + 1, Len(b))
<1>1. head \in Seq(S) /\ rest \in Seq(S)
  OBVIOUS
<1>2. head \o rest = b
  BY ConcatAdjacentSubSeq, SubSeqFull
<1> HIDE DEF head, rest
<1>3. (s \o head) \o rest = s \o (head \o rest)
  BY SMTT(30), <1>1, ConcatAssociative
<1> QED
  BY <1>1, <1>2, <1>3 DEF head, rest

----------------------------------------------------------------------------
(* Lemmas about the files.                                                 *)

(* A name is its archiver, its day and its suffix.                         *)
LEMMA NameByParts ==
  ASSUME NEW n \in Names, NEW m \in Names,
         n.kind = m.kind, n.day = m.day, n.suffix = m.suffix
  PROVE  n = m
BY DEF Names

(* Closing the current file of an archiver leaves a prefix of what was     *)
(* accepted in each file, and touches no other file.                       *)
LEMMA AfterCloseKept ==
  ASSUME IInv, NEW k \in Kinds
  PROVE  LET f == AfterClose(k).f
             n == AfterClose(k).n
         IN  /\ DOMAIN f = DOMAIN files /\ DOMAIN n = DOMAIN files
             /\ \A m \in DOMAIN files :
                  /\ f[m] \in Seq(Entries) /\ n[m] \in Nat
                  /\ IsPrefix(f[m], written[m]) /\ n[m] <= Len(f[m])
                  /\ m # current[k] => f[m] = files[m]
<1> DEFINE cur == current[k]
<1>1. ASSUME NEW m \in DOMAIN files
      PROVE  /\ files[m] \in Seq(Entries) /\ flushed[m] \in Nat
             /\ written[m] \in Seq(Entries)
             /\ IsPrefix(files[m], written[m]) /\ flushed[m] <= Len(files[m])
  BY DEF IInv, TypeOK, FlushedKept
<1>2. CASE cur # Closed /\ ~ broken[k] /\ working
  <2>1. cur \in DOMAIN files /\ DOMAIN flushed = DOMAIN files
    BY <1>2 DEF IInv, TypeOK
  <2>2. files[cur] \o buffer[k] = written[cur]
    BY <1>2 DEF IInv, OpenFiles, KeepsOpen
  <2>3. /\ AfterClose(k).f = [files EXCEPT ![cur] = written[cur]]
        /\ AfterClose(k).n = [flushed EXCEPT ![cur] = Len(written[cur])]
    BY <1>2, <2>2 DEF AfterClose
  <2>4. /\ written[cur] \in Seq(Entries) /\ Len(written[cur]) \in Nat
        /\ IsPrefix(written[cur], written[cur])
    BY <1>1, <2>1, PrefixByElement
  <2> HIDE DEF cur
  <2> QED
    BY <1>1, <2>1, <2>3, <2>4 DEF cur
<1>3. CASE ~ (cur # Closed /\ ~ broken[k] /\ working)
  <2>1. AfterClose(k).f = files /\ AfterClose(k).n = flushed
    BY <1>3 DEF AfterClose
  <2> QED
    BY <1>1, <2>1 DEF IInv, TypeOK
<1> QED
  BY <1>2, <1>3

(* What the invariant says of one archiver's open file.                    *)
LEMMA OpenFile ==
  ASSUME IInv, NEW k \in Kinds, current[k] # Closed
  PROVE  /\ current[k] \in DOMAIN files /\ current[k] \in Names
         /\ current[k].kind = k
         /\ \A j \in Kinds : j # k => current[j] # current[k]
         /\ files[current[k]] \in Seq(Entries)
         /\ written[current[k]] \in Seq(Entries)
         /\ buffer[k] \in Seq(Entries)
<1>1. current[k] \in DOMAIN files
  BY DEF IInv, TypeOK
<1> QED
  BY <1>1 DEF IInv, TypeOK, OpenFiles, KeepsOpen

(* The day a moment is in, and the midnight that ends it.                  *)
LEMMA DayEnds ==
  ASSUME NEW t \in Times
  PROVE  /\ Day(t) \in Days
         /\ t <= (Day(t) + 1) * DayLength
         /\ (Day(t) + 1) * DayLength \in Nat
<1>1. DayLength \in Nat \ {0} /\ LastTime \in Nat /\ t \in Nat /\ t <= LastTime
  BY ArchivesAssumption DEF Times
<1> DEFINE q == t \div DayLength
           r == LastTime \div DayLength
<1>2. q \in Nat /\ r \in Nat
  BY <1>1
<1>3. q * DayLength <= t /\ t <= (q + 1) * DayLength
      /\ LastTime < (r + 1) * DayLength
  BY <1>1
<1> HIDE DEF q, r
<1>4. q <= r
  <2>1. SUFFICES ASSUME q >= r + 1 PROVE FALSE
    BY <1>2
  <2>2. q * DayLength >= (r + 1) * DayLength
    BY <1>1, <1>2, <2>1
  <2>3. q * DayLength \in Nat /\ (r + 1) * DayLength \in Nat
    BY <1>1, <1>2
  <2> QED
    BY <1>1, <1>3, <2>2, <2>3
<1>5. (q + 1) * DayLength \in Nat
  BY <1>1, <1>2
<1> QED
  BY <1>2, <1>3, <1>4, <1>5 DEF Day, Days, q, r

----------------------------------------------------------------------------
(* What the archivers' operations have in common.                          *)

(* Everything the invariant says of the files of a day, for one file.      *)
Filed(n, w) ==
  IF n.kind = Vlr
  THEN \A e \in Range(w) : Day(e.t) = n.day
  ELSE /\ Day(w[1].t) = n.day
       /\ \A e \in Range(w) : e.t <= (n.day + 1) * DayLength

(* A new file, begun with an entry of its day, keeps the invariant.        *)
LEMMA Started ==
  ASSUME IInv, NEW k \in Kinds, NEW t \in Times,
         NEW name \in FreeNames(k, Day(t)),
         StartFile(k, name, NewEntry(t)), Given,
         working' \in BOOLEAN, faults' \in {faults, faults + 1},
         faults' = 0 => name \in UniqueFile(k, Day(t)),
         splitAt' = IF k = Csv THEN NextArchiveSplitPoint(t) ELSE splitAt
  PROVE  IInv'
<1> DEFINE e == NewEntry(t)
           f == AfterClose(k).f
           n == AfterClose(k).n
<1>1. /\ name \in Names /\ name.kind = k /\ name.day = Day(t)
      /\ name \notin DOMAIN files
      /\ faults' = 0 =>
           /\ faults = 0
           /\ \A m \in Names : m.kind = k /\ m.day = Day(t)
                                /\ m.suffix < name.suffix => m \in DOMAIN files
  <2>1. name \in Names /\ name.kind = k /\ name.day = Day(t) /\ name \notin DOMAIN files
    BY DEF FreeNames, NamesFor
  <2>2. faults' = 0 => faults = 0
    BY DEF IInv, TypeOK
  <2>3. ASSUME faults' = 0, NEW m \in Names, m.kind = k, m.day = Day(t),
               m.suffix < name.suffix
        PROVE  m \in DOMAIN files
    <3>1. \A o \in FreeNames(k, Day(t)) : name.suffix <= o.suffix
      BY <2>3 DEF UniqueFile
    <3>2. m.suffix \in Nat /\ name.suffix \in Nat
      BY <2>1, ArchivesAssumption DEF Names
    <3> QED
      BY <2>3, <3>1, <3>2 DEF FreeNames, NamesFor
  <2> QED
    BY <2>1, <2>2, <2>3
<1>2. /\ e \in Entries /\ e.id = given /\ e.run = crashes /\ e.t = t
      /\ given \in Nat /\ given' = given + 1 /\ crashes' = crashes
      /\ crashes \in Nat
  BY DEF NewEntry, Entries, IInv, TypeOK, Given
<1>3. /\ DOMAIN f = DOMAIN files /\ DOMAIN n = DOMAIN files
      /\ \A m \in DOMAIN files :
           /\ f[m] \in Seq(Entries) /\ n[m] \in Nat
           /\ IsPrefix(f[m], written[m]) /\ n[m] <= Len(f[m])
           /\ m # current[k] => f[m] = files[m]
  BY AfterCloseKept
<1> HIDE DEF e, f, n
<1>4. /\ files' = Created(f, name, <<>>) /\ flushed' = Created(n, name, 0)
      /\ written' = Created(written, name, <<e>>)
      /\ current' = [current EXCEPT ![k] = name]
      /\ buffer' = [buffer EXCEPT ![k] = <<e>>]
      /\ broken' = [broken EXCEPT ![k] = FALSE]
  BY DEF StartFile, e, f, n
<1>5. /\ DOMAIN files' = DOMAIN files \union {name}
      /\ DOMAIN flushed' = DOMAIN files \union {name}
      /\ DOMAIN written' = DOMAIN files \union {name}
      /\ \A m \in DOMAIN files :
           files'[m] = f[m] /\ flushed'[m] = n[m] /\ written'[m] = written[m]
      /\ files'[name] = <<>> /\ flushed'[name] = 0 /\ written'[name] = <<e>>
  BY <1>1, <1>3, <1>4 DEF Created, IInv, TypeOK
<1>6. \A m \in DOMAIN files : written[m] \in Seq(Entries)
  BY DEF IInv, TypeOK
<1>7. /\ <<e>> \in Seq(Entries) /\ Range(<<e>>) = {e} /\ <<e>>[1] = e
      /\ <<e>> # <<>> /\ <<>> \in Seq(Entries) /\ Len(<<>>) = 0
      /\ IsPrefix(<<>>, <<e>>)
  BY <1>2, One
<1>8. TypeOK'
  <2>1. /\ DOMAIN files' \subseteq Names
        /\ \A m \in DOMAIN files' :
             /\ files'[m] \in Seq(Entries) /\ written'[m] \in Seq(Entries)
             /\ flushed'[m] \in Nat
    <3>1. DOMAIN files \subseteq Names
      BY DEF IInv, TypeOK
    <3>2. ASSUME NEW m \in DOMAIN files
          PROVE  /\ files'[m] \in Seq(Entries) /\ written'[m] \in Seq(Entries)
                 /\ flushed'[m] \in Nat
      BY <1>3, <1>5, <1>6
    <3>3. /\ files'[name] \in Seq(Entries) /\ written'[name] \in Seq(Entries)
          /\ flushed'[name] \in Nat
      BY <1>5, <1>7
    <3> QED
      BY <1>1, <1>5, <3>1, <3>2, <3>3
  <2>2. current' \in [Kinds -> DOMAIN files' \union {Closed}]
    BY <1>4, <1>5 DEF IInv, TypeOK
  <2>3. buffer' \in [Kinds -> Seq(Entries)]
    BY <1>4, <1>7 DEF IInv, TypeOK
  <2>4. broken' \in [Kinds -> BOOLEAN]
    BY <1>4 DEF IInv, TypeOK
  <2>5. splitAt' \in Nat
    BY DayEnds DEF NextArchiveSplitPoint, IInv, TypeOK
  <2>6. working' \in BOOLEAN /\ {given', crashes', faults'} \subseteq Nat
    BY <1>2 DEF IInv, TypeOK
  <2> QED
    BY <1>5, <2>1, <2>2, <2>3, <2>4, <2>5, <2>6 DEF TypeOK
<1>16. \A m \in DOMAIN files : \A x \in Range(written'[m]), y \in Range(written'[name]) :
         x.id < y.id /\ x.run <= y.run
  BY <1>2, <1>5, <1>7 DEF IInv, TypeOK, Numbered
<1>9. OpenFiles'
  <2>1. ASSUME NEW j \in Kinds, j # k, current'[j] # Closed
        PROVE  KeepsOpen(j)'
    <3>1. /\ current'[j] = current[j] /\ buffer'[j] = buffer[j]
          /\ broken'[j] = broken[j]
      BY <1>4, <2>1 DEF IInv, TypeOK
    <3>2. /\ current[j] \in DOMAIN files /\ current[j].kind = j
          /\ current[j] # current[k] /\ KeepsOpen(j)
      BY <2>1, <3>1, OpenFile DEF IInv, OpenFiles
    <3>3. files'[current[j]] = files[current[j]]
          /\ written'[current[j]] = written[current[j]]
      BY <1>3, <1>5, <3>2
    <3>4. \A m \in DOMAIN files' : m.kind = j => m \in DOMAIN files
      BY <1>1, <1>5, <2>1
    <3>5. \A m \in DOMAIN files : Before(m, current[j]) <=> Before(m, current[j])'
      BY <1>5, <3>1, <3>3 DEF Before
    <3> QED
      BY <1>1, <1>2, <1>5, <2>1, <3>1, <3>2, <3>3, <3>4, <3>5 DEF KeepsOpen
  <2>2. KeepsOpen(k)'
    <3>1. current'[k] = name /\ buffer'[k] = <<e>> /\ ~ broken'[k]
      BY <1>4 DEF IInv, TypeOK
    <3>2. files'[name] \o buffer'[k] = written'[name]
      BY <1>5, <1>7, <3>1, ConcatEmptySeq
    <3>3. faults' = 0 => \A m \in DOMAIN files' :
             m.kind = k /\ m.day = name.day => m.suffix <= name.suffix
      <4> SUFFICES ASSUME faults' = 0, NEW m \in DOMAIN files, m.kind = k,
                          m.day = name.day, ~ (m.suffix <= name.suffix)
                   PROVE  FALSE
        BY <1>1, <1>5 DEF Names
      <4>1. m \in Names
        BY DEF IInv, TypeOK
      <4>2. name.suffix < m.suffix
        BY <1>1, <4>1 DEF Names
      <4> QED
        BY <1>1, <4>2 DEF IInv, NoGaps
    <3>4. \A m \in DOMAIN files' : m # name => Before(m, name)'
      BY <1>5, <1>16 DEF Before
    <3> QED
      BY <1>1, <1>2, <1>5, <1>7, <3>1, <3>2, <3>3, <3>4 DEF KeepsOpen
  <2> QED
    BY <2>1, <2>2 DEF OpenFiles
<1>10. SplitAtMidnight'
  <2>1. CASE k = Csv
    BY <1>1, <1>4, <2>1 DEF SplitAtMidnight, NextArchiveSplitPoint, IInv, TypeOK
  <2>2. CASE k # Csv
    BY <1>4, <2>2 DEF SplitAtMidnight, IInv, TypeOK, Kinds
  <2> QED
    BY <2>1, <2>2
<1>11. NoGaps'
  BY <1>1, <1>5 DEF NoGaps, IInv
<1>12. Numbered'
  <2>1. ASSUME NEW m \in DOMAIN files
        PROVE  /\ written[m] # <<>>
               /\ \A x \in Range(written[m]) :
                    x \in Entries /\ x.id < given /\ x.run <= crashes
    BY <1>6, Elements DEF IInv, TypeOK, Numbered
  <2>2. ASSUME NEW m \in DOMAIN files
        PROVE  \A x \in Range(written[m]) : x.id < given' /\ x.run <= crashes'
    BY <1>2, <2>1 DEF Entries
  <2>3. written'[name] # <<>>
        /\ \A x \in Range(written'[name]) : x.id < given' /\ x.run <= crashes'
    BY <1>2, <1>5, <1>7
  <2>4. \A m \in DOMAIN files :
          /\ written'[m] # <<>>
          /\ \A x \in Range(written'[m]) : x.id < given' /\ x.run <= crashes'
    BY <1>5, <2>1, <2>2
  <2> QED
    BY <1>5, <2>3, <2>4 DEF Numbered
<1>13. FiledByDay'
  <2>1. \A m \in DOMAIN files : Filed(m, written[m])
    BY DEF IInv, FiledByDay, TypeOK, Filed
  <2>2. Filed(name, <<e>>)
    BY <1>1, <1>2, <1>7, DayEnds DEF Filed
  <2> QED
    BY <1>5, <1>8, <2>1, <2>2 DEF FiledByDay, Filed
<1>14. OneRunPerFile'
  <2> SUFFICES ASSUME NEW m \in DOMAIN written', NEW l \in DOMAIN written',
                      m.kind = l.kind
               PROVE  IF m = l
                      THEN \A x, y \in Range(written'[m]) : x.run = y.run
                      ELSE /\ Before(m, l)' \/ Before(l, m)'
                           /\ faults' = 0 /\ m.day = l.day /\ m.suffix < l.suffix
                                => Before(m, l)'
    BY DEF OneRunPerFile
  <2>1. CASE m = name /\ l = name
    BY <1>5, <1>7, <2>1
  <2>2. CASE m # name /\ l = name
    BY <1>5, <1>16, <2>2 DEF Before, IInv, TypeOK
  <2>3. CASE m = name /\ l # name
    <3>1. l \in DOMAIN files /\ Before(l, m)'
      BY <1>5, <1>16, <2>3 DEF Before, IInv, TypeOK
    <3>2. ASSUME faults' = 0, m.day = l.day, m.suffix < l.suffix
          PROVE  FALSE
      BY <1>1, <2>3, <3>1, <3>2 DEF IInv, NoGaps
    <3> QED
      BY <2>3, <3>1, <3>2
  <2>4. CASE m # name /\ l # name
    <3>1. m \in DOMAIN written /\ l \in DOMAIN written
          /\ written'[m] = written[m] /\ written'[l] = written[l]
      BY <1>5, <2>4 DEF IInv, TypeOK
    <3> QED
      BY <1>1, <3>1 DEF IInv, OneRunPerFile, Before
  <2> QED
    BY <2>1, <2>2, <2>3, <2>4
<1>15. FlushedKept'
  BY <1>3, <1>5, <1>7 DEF FlushedKept
<1> QED
  BY <1>8, <1>9, <1>10, <1>11, <1>12, <1>13, <1>14, <1>15 DEF IInv

(* Closing a file, to open none, keeps the invariant.                      *)
LEMMA NotStarted ==
  ASSUME IInv, NEW k \in Kinds, CannotStart(k),
         given' \in {given, given + 1}, working' \in BOOLEAN,
         faults' \in {faults, faults + 1}, UNCHANGED <<splitAt, crashes>>
  PROVE  IInv'
<1> DEFINE f == AfterClose(k).f
           n == AfterClose(k).n
<1>1. /\ DOMAIN f = DOMAIN files /\ DOMAIN n = DOMAIN files
      /\ \A m \in DOMAIN files :
           /\ f[m] \in Seq(Entries) /\ n[m] \in Nat
           /\ IsPrefix(f[m], written[m]) /\ n[m] <= Len(f[m])
           /\ m # current[k] => f[m] = files[m]
  BY AfterCloseKept
<1>2. /\ files' = f /\ flushed' = n /\ written' = written
      /\ current' = [current EXCEPT ![k] = Closed]
      /\ buffer' = [buffer EXCEPT ![k] = <<>>]
      /\ broken' = [broken EXCEPT ![k] = FALSE]
  BY DEF CannotStart
<1> HIDE DEF f, n
<1>3. /\ given \in Nat /\ given' \in Nat /\ given <= given'
      /\ faults' \in Nat /\ (faults' = 0 => faults = 0)
  BY DEF IInv, TypeOK
<1>4. TypeOK'
  <2>1. buffer' \in [Kinds -> Seq(Entries)]
    BY <1>2 DEF IInv, TypeOK
  <2>2. broken' \in [Kinds -> BOOLEAN]
    BY <1>2 DEF IInv, TypeOK
  <2>3. current' \in [Kinds -> DOMAIN files' \union {Closed}]
    BY <1>1, <1>2 DEF IInv, TypeOK
  <2> QED
    BY <1>1, <1>2, <1>3, <2>1, <2>2, <2>3 DEF IInv, TypeOK
<1>5. OpenFiles'
  <2> SUFFICES ASSUME NEW j \in Kinds, current'[j] # Closed
               PROVE  KeepsOpen(j)'
    BY DEF OpenFiles
  <2>1. j # k /\ current'[j] = current[j] /\ buffer'[j] = buffer[j]
        /\ broken'[j] = broken[j]
    BY <1>2 DEF IInv, TypeOK
  <2>2. /\ current[j] \in DOMAIN files /\ current[j] # current[k]
        /\ KeepsOpen(j)
    BY <2>1, OpenFile DEF IInv, OpenFiles
  <2>3. files'[current[j]] = files[current[j]]
    BY <1>1, <1>2, <2>2
  <2> QED
    BY <1>1, <1>2, <1>3, <2>1, <2>2, <2>3 DEF KeepsOpen, Before
<1>6. SplitAtMidnight'
  BY <1>2 DEF SplitAtMidnight, IInv, TypeOK, Kinds
<1>7. NoGaps' /\ OneRunPerFile'
  BY <1>1, <1>2, <1>3 DEF NoGaps, OneRunPerFile, Before, IInv
<1>8. Numbered'
  <2> SUFFICES ASSUME NEW m \in DOMAIN written, NEW x \in Range(written[m])
               PROVE  x.id < given'
    BY <1>2 DEF IInv, Numbered
  <2>1. x \in Entries /\ x.id < given
    BY Elements DEF IInv, TypeOK, Numbered
  <2> QED
    BY <1>3, <2>1 DEF Entries
<1>9. FiledByDay'
  BY <1>2, <1>4 DEF IInv, FiledByDay
<1>10. FlushedKept'
  BY <1>1, <1>2 DEF FlushedKept
<1> QED
  BY <1>4, <1>5, <1>6, <1>7, <1>8, <1>9, <1>10 DEF IInv

(* An entry that is written to the open file, which is for its day, keeps  *)
(* the invariant.                                                          *)
LEMMA WrittenOn ==
  ASSUME IInv, NEW k \in Kinds, NEW t \in Times,
         current[k] # Closed, WriteOn(k, NewEntry(t)), Given,
         UNCHANGED splitAt,
         IF k = Vlr THEN Day(t) = current[k].day ELSE t <= splitAt
  PROVE  IInv'
<1> DEFINE e == NewEntry(t)
           cur == current[k]
           w == IF broken[k] THEN written[cur] ELSE Append(written[cur], e)
<1>1. /\ e \in Entries /\ e.id = given /\ e.run = crashes /\ e.t = t
      /\ given \in Nat /\ given' = given + 1 /\ crashes' = crashes
      /\ crashes \in Nat
  BY DEF NewEntry, Entries, IInv, TypeOK, Given
<1>2. /\ cur \in DOMAIN files /\ cur \in Names /\ cur.kind = k
      /\ \A j \in Kinds : j # k => current[j] # cur
      /\ files[cur] \in Seq(Entries) /\ written[cur] \in Seq(Entries)
      /\ buffer[k] \in Seq(Entries) /\ DOMAIN written = DOMAIN files
      /\ KeepsOpen(k)
  BY OpenFile DEF IInv, TypeOK, OpenFiles
<1> HIDE DEF e
<1>3. /\ UNCHANGED <<files, flushed, current, broken, splitAt, working, faults>>
      /\ written'[cur] = w /\ DOMAIN written' = DOMAIN files
      /\ \A m \in DOMAIN files : m # cur => written'[m] = written[m]
      /\ buffer' = [buffer EXCEPT ![k] = IF broken[k] THEN @ ELSE Append(@, e)]
  <2>1. CASE broken[k]
    BY <1>2, <2>1 DEF WriteOn, e, IInv, TypeOK
  <2>2. CASE ~ broken[k]
    BY <1>2, <2>2 DEF WriteOn, e, IInv, TypeOK
  <2> QED
    BY <2>1, <2>2
<1>4. /\ w \in Seq(Entries) /\ w # <<>> /\ w[1] = written[cur][1]
      /\ Range(w) \subseteq Range(written[cur]) \union {e}
      /\ \A s \in Seq(Entries) : IsPrefix(s, written[cur]) => IsPrefix(s, w)
  <2>1. written[cur] # <<>>
    BY <1>2 DEF IInv, Numbered
  <2>2. CASE broken[k]
    BY <1>2, <2>1, <2>2
  <2>3. CASE ~ broken[k]
    <3>1. w = Append(written[cur], e)
      BY <2>3
    <3>2. /\ Append(written[cur], e) \in Seq(Entries)
          /\ Append(written[cur], e) # <<>>
          /\ Append(written[cur], e)[1] = written[cur][1]
      BY <1>1, <1>2, <2>1
    <3>3. Range(Append(written[cur], e)) = Range(written[cur]) \union {e}
      BY <1>1, <1>2, Elements
    <3>4. \A s \in Seq(Entries) : IsPrefix(s, written[cur]) =>
             IsPrefix(s, Append(written[cur], e))
      BY <1>1, <1>2, PrefixOfAppend
    <3> QED
      BY <3>1, <3>2, <3>3, <3>4
  <2> QED
    BY <2>2, <2>3
<1>5. /\ written'[cur] = w /\ DOMAIN written' = DOMAIN files
      /\ \A m \in DOMAIN files : m # cur => written'[m] = written[m]
  BY <1>3
<1>6. \A m \in DOMAIN files : written[m] \in Seq(Entries)
  BY DEF IInv, TypeOK
<1>7. TypeOK'
  <2>1. \A m \in DOMAIN files : written'[m] \in Seq(Entries)
    BY <1>4, <1>5, <1>6
  <2>2. buffer' \in [Kinds -> Seq(Entries)]
    BY <1>1, <1>2, <1>3 DEF IInv, TypeOK
  <2> QED
    BY <1>1, <1>3, <1>5, <2>1, <2>2 DEF IInv, TypeOK
<1>14. ASSUME NEW m \in DOMAIN files, m.kind = k, m # cur
       PROVE  Before(m, cur)'
  <2>1. Before(m, cur) /\ written'[m] = written[m]
    BY <1>2, <1>5, <1>14 DEF KeepsOpen
  <2>2. \A x \in Range(written[m]) : x.id < e.id /\ x.run <= e.run
    BY <1>1, <1>2 DEF IInv, Numbered
  <2>3. \A y \in Range(written'[cur]) : y \in Range(written[cur]) \/ y = e
    BY <1>4, <1>5
  <2>4. \A x \in Range(written'[m]), y \in Range(written'[cur]) :
          x.id < y.id /\ x.run <= y.run
    BY <2>1, <2>2, <2>3 DEF Before
  <2>5. current'[k] = cur
    BY <1>3
  <2> QED
    BY <2>4, <2>5 DEF Before
<1>8. OpenFiles'
  <2>1. ASSUME NEW j \in Kinds, j # k, current'[j] # Closed
        PROVE  KeepsOpen(j)'
    <3>1. current'[j] = current[j] /\ current[j] # cur /\ KeepsOpen(j)
          /\ current[j] \in DOMAIN files /\ buffer'[j] = buffer[j]
      BY <1>2, <1>3, <2>1, OpenFile DEF IInv, OpenFiles, TypeOK
    <3>2. \A m \in DOMAIN files : m.kind = j => m # cur
      BY <1>2, <2>1
    <3>3. \A m \in DOMAIN files :
            m.kind = j => (Before(m, current[j]) <=> Before(m, current[j])')
      BY <1>5, <3>1, <3>2 DEF Before
    <3> QED
      BY <1>1, <1>3, <1>5, <3>1, <3>3 DEF KeepsOpen
  <2>2. KeepsOpen(k)'
    <3>1. \A x \in Range(w) : x.run = crashes
      BY <1>1, <1>2, <1>4 DEF KeepsOpen
    <3>2. ASSUME ~ broken[k]
          PROVE  files[cur] \o buffer'[k] = w
      <4>1. buffer'[k] = Append(buffer[k], e) /\ w = Append(written[cur], e)
        BY <1>3, <3>2 DEF IInv, TypeOK
      <4>2. files[cur] \o buffer[k] = written[cur]
        BY <1>2, <3>2 DEF KeepsOpen
      <4>3. files[cur] \o Append(buffer[k], e) = Append(files[cur] \o buffer[k], e)
        <5>1. \A s, b \in Seq(Entries) : s \o Append(b, e) = Append(s \o b, e)
          BY <1>1, ConcatAppend
        <5> QED
          BY <1>2, <5>1
      <4> QED
        BY <4>1, <4>2, <4>3
    <3>3. \A m \in DOMAIN files : m.kind = k /\ m # cur => Before(m, cur)'
      BY <1>5, <1>14
    <3> QED
      BY <1>1, <1>2, <1>3, <1>5, <3>1, <3>2, <3>3 DEF KeepsOpen
  <2> QED
    BY <2>1, <2>2 DEF OpenFiles
<1>9. SplitAtMidnight' /\ NoGaps'
  BY <1>3 DEF SplitAtMidnight, NoGaps, IInv
<1>10. Numbered'
  <2>1. ASSUME NEW m \in DOMAIN files, NEW x \in Range(written[m])
        PROVE  x.id < given' /\ x.run <= crashes'
    <3>1. x \in Entries /\ x.id < given /\ x.run <= crashes
      BY <1>6, Elements DEF IInv, TypeOK, Numbered
    <3> QED
      BY <1>1, <3>1 DEF Entries
  <2>2. e.id < given' /\ e.run <= crashes'
    BY <1>1
  <2>3. \A m \in DOMAIN files : written'[m] # <<>>
    BY <1>2, <1>4, <1>5 DEF IInv, Numbered
  <2>4. \A m \in DOMAIN files : \A x \in Range(written'[m]) :
          x \in Range(written[m]) \/ x = e
    BY <1>4, <1>5
  <2> QED
    BY <1>5, <2>1, <2>2, <2>3, <2>4 DEF Numbered
<1>11. FiledByDay'
  <2>1. \A m \in DOMAIN files : Filed(m, written[m])
    BY DEF IInv, FiledByDay, TypeOK, Filed
  <2>2. CASE k = Vlr
    BY <1>1, <1>2, <1>4, <1>5, <1>7, <2>1, <2>2 DEF FiledByDay, Filed
  <2>3. CASE k # Vlr
    <3>1. splitAt = (cur.day + 1) * DayLength
      BY <2>3 DEF IInv, SplitAtMidnight, Kinds
    <3>2. Filed(cur, w)
      BY <1>1, <1>2, <1>4, <2>1, <2>3, <3>1 DEF Filed
    <3> QED
      BY <1>5, <1>7, <2>1, <3>2 DEF FiledByDay, Filed
  <2> QED
    BY <2>2, <2>3
<1>12. OneRunPerFile'
  <2> SUFFICES ASSUME NEW m \in DOMAIN files, NEW l \in DOMAIN files,
                      m.kind = l.kind
               PROVE  IF m = l
                      THEN \A x, y \in Range(written'[m]) : x.run = y.run
                      ELSE /\ Before(m, l)' \/ Before(l, m)'
                           /\ faults' = 0 /\ m.day = l.day /\ m.suffix < l.suffix
                                => Before(m, l)'
    BY <1>5 DEF OneRunPerFile
  <2>1. faults' = faults
    BY <1>3
  <2>2. CASE m # cur /\ l # cur
    <3>1. written'[m] = written[m] /\ written'[l] = written[l]
      BY <1>5, <2>2
    <3> QED
      BY <1>2, <2>1, <3>1 DEF IInv, OneRunPerFile, Before
  <2>3. CASE m = cur /\ l = cur
    BY <1>1, <1>2, <1>4, <1>5, <2>3 DEF KeepsOpen
  <2>4. CASE m # cur /\ l = cur
    BY <1>2, <1>3, <1>14, <2>4 DEF Before
  <2>5. CASE m = cur /\ l # cur
    <3>1. Before(l, m)'
      BY <1>2, <1>3, <1>14, <2>5 DEF Before
    <3>2. ASSUME faults = 0, m.day = l.day, m.suffix < l.suffix PROVE FALSE
      <4>1. l.suffix <= m.suffix
        BY <1>2, <2>5, <3>2 DEF KeepsOpen
      <4>2. l \in Names /\ m \in Names
        BY DEF IInv, TypeOK
      <4>3. l.suffix \in Nat /\ m.suffix \in Nat
        BY <4>2, ArchivesAssumption DEF Names
      <4> QED
        BY <3>2, <4>1, <4>3
    <3> QED
      BY <2>1, <2>5, <3>1, <3>2
  <2> QED
    BY <2>2, <2>3, <2>4, <2>5
<1>13. FlushedKept'
  BY <1>3, <1>4, <1>5 DEF FlushedKept, IInv, TypeOK
<1> QED
  BY <1>7, <1>8, <1>9, <1>10, <1>11, <1>12, <1>13 DEF IInv

(* Writing a part of what is buffered to a file keeps the invariant.       *)
LEMMA WrittenOut ==
  ASSUME IInv, NEW k \in Kinds, current[k] # Closed, ~ broken[k],
         NEW part \in Seq(Entries), NEW rest \in Seq(Entries), NEW kept \in Nat,
         (files[current[k]] \o part) \o rest = written[current[k]],
         kept = flushed[current[k]] \/ (rest = <<>> /\ kept = Len(written[current[k]])),
         DOMAIN files' = DOMAIN files, DOMAIN flushed' = DOMAIN files,
         files'[current[k]] = files[current[k]] \o part,
         flushed'[current[k]] = kept,
         \A m \in DOMAIN files :
           m # current[k] => files'[m] = files[m] /\ flushed'[m] = flushed[m],
         buffer' = [buffer EXCEPT ![k] = rest],
         UNCHANGED <<written, current, broken, splitAt, working, boundVars>>
  PROVE  IInv'
<1> DEFINE cur == current[k]
           grown == files[cur] \o part
<1>1. /\ cur \in DOMAIN files /\ cur.kind = k
      /\ \A j \in Kinds : j # k => current[j] # cur
      /\ files[cur] \in Seq(Entries) /\ written[cur] \in Seq(Entries)
      /\ KeepsOpen(k)
  BY OpenFile DEF IInv, OpenFiles
<1>2. grown \in Seq(Entries) /\ grown \o rest = written[cur]
  BY <1>1
<1>3. IsPrefix(grown, written[cur])
  BY <1>2, PrefixOfConcat
<1>4. kept <= Len(grown)
  <2>1. Len(files[cur]) <= Len(grown) /\ Len(files[cur]) \in Nat
        /\ Len(grown) \in Nat
    BY <1>1
  <2>2. flushed[cur] \in Nat /\ flushed[cur] <= Len(files[cur])
    BY <1>1 DEF IInv, TypeOK, FlushedKept
  <2>3. rest = <<>> => grown = written[cur]
    BY <1>2, ConcatEmptySeq
  <2> QED
    BY <2>1, <2>2, <2>3
<1>5. /\ files'[cur] = grown /\ flushed'[cur] = kept
      /\ DOMAIN files' = DOMAIN files /\ DOMAIN flushed' = DOMAIN files
      /\ \A m \in DOMAIN files :
           m # cur => files'[m] = files[m] /\ flushed'[m] = flushed[m]
  OBVIOUS
<1> HIDE DEF grown
<1>6. TypeOK'
  <2>1. \A m \in DOMAIN files : files'[m] \in Seq(Entries) /\ flushed'[m] \in Nat
    BY <1>2, <1>5 DEF IInv, TypeOK
  <2>2. buffer' \in [Kinds -> Seq(Entries)]
    BY DEF IInv, TypeOK
  <2> QED
    BY <1>5, <2>1, <2>2 DEF IInv, TypeOK, boundVars
<1>7. OpenFiles'
  <2>1. ASSUME NEW j \in Kinds, j # k, current[j] # Closed
        PROVE  KeepsOpen(j)'
    <3>1. current[j] # cur /\ KeepsOpen(j) /\ buffer'[j] = buffer[j]
          /\ current[j] \in DOMAIN files
      BY <1>1, <2>1, OpenFile DEF IInv, OpenFiles, TypeOK
    <3> QED
      BY <1>5, <3>1 DEF KeepsOpen, Before, boundVars
  <2>2. KeepsOpen(k)'
    <3>1. buffer'[k] = rest
      BY DEF IInv, TypeOK
    <3> QED
      BY <1>1, <1>2, <1>5, <3>1 DEF KeepsOpen, Before, boundVars
  <2> QED
    BY <2>1, <2>2 DEF OpenFiles
<1>8. SplitAtMidnight' /\ NoGaps' /\ Numbered' /\ OneRunPerFile'
  BY <1>5 DEF SplitAtMidnight, NoGaps, Numbered, OneRunPerFile, Before, IInv, boundVars
<1>9. FiledByDay'
  BY <1>6 DEF IInv, FiledByDay
<1>10. FlushedKept'
  BY <1>3, <1>4, <1>5 DEF IInv, FlushedKept
<1> QED
  BY <1>6, <1>7, <1>8, <1>9, <1>10 DEF IInv

(* A writer that breaks: the file stays as it is.                          *)
LEMMA Broken ==
  ASSUME IInv, NEW k \in Kinds,
         broken' = [broken EXCEPT ![k] = TRUE],
         UNCHANGED <<fileVars, current, buffer, splitAt, working, boundVars>>
  PROVE  IInv'
<1> USE DEF fileVars, boundVars, IInv
<1>1. TypeOK'
  BY DEF TypeOK
<1>2. OpenFiles'
  <2>1. ASSUME NEW j \in Kinds, current[j] # Closed PROVE KeepsOpen(j)'
    <3>1. broken'[j] = broken[j] \/ broken'[j] = TRUE
      BY DEF TypeOK
    <3> QED
      BY <2>1, <3>1 DEF OpenFiles, KeepsOpen, Before
  <2> QED
    BY <2>1 DEF OpenFiles
<1> QED
  BY <1>1, <1>2
     DEF SplitAtMidnight, NoGaps, Numbered, FiledByDay, OneRunPerFile, Before,
         FlushedKept

(* What opening another file comes to: a new file, of the first free name  *)
(* if the disk has not failed, or none.                                    *)
LEMMA Switched ==
  ASSUME IInv, FailedOnce, NEW k \in Kinds, NEW d, NEW e, Switch(k, d, e)
  PROVE  /\ working' \in BOOLEAN /\ faults' \in {faults, faults + 1}
         /\ \/ CannotStart(k)
            \/ \E name \in FreeNames(k, d) :
                 /\ StartFile(k, name, e)
                 /\ faults' = 0 => name \in UniqueFile(k, d)
<1>1. working \in BOOLEAN /\ faults \in Nat
  BY DEF IInv, TypeOK
<1>2. CASE UNCHANGED <<working, faults>> /\ CannotStart(k)
  BY <1>1, <1>2
<1>3. CASE /\ UNCHANGED <<working, faults>>
           /\ \E name \in UniqueFile(k, d) : StartFile(k, name, e)
  BY <1>1, <1>3 DEF UniqueFile
<1>4. CASE Trouble /\ CannotStart(k)
  BY <1>1, <1>4 DEF Trouble
<1>5. ASSUME Trouble, NEW name \in FreeNames(k, d), StartFile(k, name, e)
      PROVE  /\ working' \in BOOLEAN /\ faults' \in {faults, faults + 1}
             /\ faults' = 0 => name \in UniqueFile(k, d)
  <2>1. working' \in BOOLEAN /\ faults' \in {faults, faults + 1}
    BY <1>1, <1>5 DEF Trouble
  <2>2. faults' # 0
    BY <1>1, <1>5 DEF Trouble, FailedOnce
  <2> QED
    BY <2>1, <2>2
<1> QED
  BY <1>2, <1>3, <1>4, <1>5 DEF Switch

(* The time a response is filed under is between the two it was given.     *)
LEMMA FiledInTime ==
  ASSUME NEW t \in Times, NEW u \in Times
  PROVE  FiledAt(t, u) \in Times
BY ArchivesAssumption DEF FiledAt, Times

----------------------------------------------------------------------------
(* Nothing is open, no file is written.                                    *)
LEMMA InitIInv == Init => IInv
<1> SUFFICES ASSUME Init PROVE IInv
  OBVIOUS
<1> USE DEF Init
<1>1. TypeOK
  BY DEF TypeOK
<1>2. OpenFiles /\ SplitAtMidnight
  BY DEF OpenFiles, SplitAtMidnight, Kinds
<1>3. NoGaps /\ Numbered /\ FiledByDay /\ OneRunPerFile /\ FlushedKept
  BY <1>1 DEF NoGaps, Numbered, FiledByDay, OneRunPerFile, FlushedKept
<1> QED
  BY <1>1, <1>2, <1>3 DEF IInv

(* Every step of an archiver, of a writer, of the disk and of the process  *)
(* keeps the invariant.                                                    *)
LEMMA NextIInv == IInv /\ FailedOnce /\ [Next]_vars => IInv'
<1> SUFFICES ASSUME IInv, FailedOnce, [Next]_vars PROVE IInv'
  OBVIOUS
<1>1. ASSUME NEW t \in Times, WriteLocation(t) PROVE IInv'
  <2> Csv \in Kinds
    BY DEF Kinds
  <2>1. CASE ShouldSplit(t)
    <3>1. /\ Switch(Csv, Day(t), NewEntry(t)) /\ Given
          /\ splitAt' = IF current'[Csv] = Closed THEN splitAt
                                                  ELSE NextArchiveSplitPoint(t)
      BY <1>1, <2>1 DEF WriteLocation
    <3>2. CASE CannotStart(Csv)
      <4>1. current'[Csv] = Closed
        BY <3>2 DEF CannotStart, IInv, TypeOK
      <4> QED
        BY <3>1, <3>2, <4>1, Switched, NotStarted DEF Given, IInv, TypeOK
    <3>3. ASSUME NEW name \in FreeNames(Csv, Day(t)),
                 StartFile(Csv, name, NewEntry(t)),
                 faults' = 0 => name \in UniqueFile(Csv, Day(t))
          PROVE  IInv'
      <4>1. current'[Csv] = name /\ name # Closed
        BY <3>3, ClosedAssumption
           DEF StartFile, FreeNames, NamesFor, IInv, TypeOK
      <4> QED
        BY <3>1, <3>3, <4>1, Switched, Started
    <3> QED
      BY <3>1, <3>2, <3>3, Switched
  <2>2. CASE ~ ShouldSplit(t)
    <3>1. /\ Given /\ WriteOn(Csv, NewEntry(t)) /\ UNCHANGED splitAt
      BY <1>1, <2>2 DEF WriteLocation
    <3>2. current[Csv] # Closed /\ t <= splitAt /\ Csv # Vlr
      BY <2>2 DEF ShouldSplit, Times, IInv, TypeOK, Csv, Vlr
    <3> QED
      BY <3>1, <3>2, WrittenOn
  <2> QED
    BY <2>1, <2>2
<1>2. ASSUME NEW request \in Times, NEW result \in Times,
             AddResponse(request, result)
      PROVE  IInv'
  <2> DEFINE t == FiledAt(request, result)
  <2>1. t \in Times /\ Vlr \in Kinds /\ Vlr # Csv /\ Given /\ UNCHANGED splitAt
    BY <1>2, FiledInTime DEF Kinds, Vlr, Csv, AddResponse
  <2>2. \/ OtherFragment(Day(t)) /\ Switch(Vlr, Day(t), NewEntry(t))
        \/ ~ OtherFragment(Day(t)) /\ WriteOn(Vlr, NewEntry(t))
    BY <1>2 DEF AddResponse
  <2> HIDE DEF t
  <2>3. ASSUME Switch(Vlr, Day(t), NewEntry(t)) PROVE IInv'
    <3>1. ASSUME NEW name \in FreeNames(Vlr, Day(t)),
                 StartFile(Vlr, name, NewEntry(t)),
                 faults' = 0 => name \in UniqueFile(Vlr, Day(t))
          PROVE  IInv'
      BY <2>1, <2>3, <3>1, Switched, Started
    <3>2. ASSUME CannotStart(Vlr) PROVE IInv'
      BY <2>1, <2>3, <3>2, Switched, NotStarted DEF Given, IInv, TypeOK
    <3> QED
      BY <2>1, <2>3, <3>1, <3>2, Switched
  <2>5. ASSUME ~ OtherFragment(Day(t)), WriteOn(Vlr, NewEntry(t)) PROVE IInv'
    BY <2>1, <2>5, WrittenOn DEF OtherFragment
  <2> QED
    BY <2>2, <2>3, <2>5
<1>3. ASSUME NEW k \in Kinds, Spill(k) PROVE IInv'
  <2>1. current[k] # Closed /\ ~ broken[k]
        /\ UNCHANGED <<written, flushed, current, splitAt, working, boundVars>>
    BY <1>3 DEF Spill
  <2>2. PICK n \in 1 .. Len(buffer[k]) :
          IF working
          THEN /\ files' = [files EXCEPT ![current[k]] = @ \o SubSeq(buffer[k], 1, n)]
               /\ buffer' = [buffer EXCEPT ![k] = SubSeq(@, n + 1, Len(@))]
               /\ UNCHANGED broken
          ELSE /\ broken' = [broken EXCEPT ![k] = TRUE]
               /\ UNCHANGED <<files, buffer>>
    BY <1>3 DEF Spill
  <2>3. CASE ~ working
    BY <2>1, <2>2, <2>3, Broken DEF fileVars
  <2>4. CASE working
    <3> DEFINE part == SubSeq(buffer[k], 1, n)
               rest == SubSeq(buffer[k], n + 1, Len(buffer[k]))
    <3>1. /\ current[k] \in DOMAIN files /\ files[current[k]] \in Seq(Entries)
          /\ buffer[k] \in Seq(Entries)
      BY <2>1, OpenFile
    <3>2. /\ part \in Seq(Entries) /\ rest \in Seq(Entries)
          /\ (files[current[k]] \o part) \o rest = files[current[k]] \o buffer[k]
      BY ZenonT(30), <3>1, SplitAndJoin
    <3>3. files[current[k]] \o buffer[k] = written[current[k]]
      BY <2>1 DEF IInv, OpenFiles, KeepsOpen
    <3>4. /\ files' = [files EXCEPT ![current[k]] = @ \o part]
          /\ buffer' = [buffer EXCEPT ![k] = rest]
          /\ UNCHANGED broken
      BY <2>2, <2>4, <3>1 DEF IInv, TypeOK
    <3> HIDE DEF part, rest
    <3>5. /\ DOMAIN files' = DOMAIN files
          /\ files'[current[k]] = files[current[k]] \o part
          /\ \A m \in DOMAIN files : m # current[k] => files'[m] = files[m]
      BY <3>1, <3>4
    <3>6. flushed[current[k]] \in Nat /\ DOMAIN flushed = DOMAIN files
      BY <3>1 DEF IInv, TypeOK
    <3> QED
      BY <2>1, <3>2, <3>3, <3>4, <3>5, <3>6, WrittenOut
  <2> QED
    BY <2>3, <2>4
<1>4. ASSUME NEW k \in Kinds, Flush(k) PROVE IInv'
  <2>1. current[k] # Closed /\ ~ broken[k]
        /\ UNCHANGED <<written, current, splitAt, working, boundVars>>
    BY <1>4 DEF Flush
  <2>2. CASE ~ working
    BY <1>4, <2>1, <2>2, Broken DEF fileVars, Flush
  <2>3. CASE working
    <3> DEFINE cur == current[k]
    <3>1. /\ cur \in DOMAIN files /\ files[cur] \in Seq(Entries)
          /\ buffer[k] \in Seq(Entries) /\ written[cur] \in Seq(Entries)
          /\ DOMAIN flushed = DOMAIN files
      BY <2>1, OpenFile DEF IInv, TypeOK
    <3>2. files[cur] \o buffer[k] = written[cur]
      BY <2>1 DEF IInv, OpenFiles, KeepsOpen
    <3>3. /\ <<>> \in Seq(Entries) /\ Len(written[cur]) \in Nat
          /\ (files[cur] \o buffer[k]) \o <<>> = written[cur]
      BY <3>1, <3>2, ConcatEmptySeq
    <3>4. /\ files' = [files EXCEPT ![cur] = @ \o buffer[k]]
          /\ flushed' = [flushed EXCEPT ![cur] = Len(written[cur])]
          /\ buffer' = [buffer EXCEPT ![k] = <<>>]
          /\ UNCHANGED broken
      BY <1>4, <2>3 DEF Flush
    <3>5. /\ DOMAIN files' = DOMAIN files /\ DOMAIN flushed' = DOMAIN files
          /\ files'[cur] = files[cur] \o buffer[k]
          /\ flushed'[cur] = Len(written[cur])
          /\ \A m \in DOMAIN files :
               m # cur => files'[m] = files[m] /\ flushed'[m] = flushed[m]
      BY <3>1, <3>4
    <3> QED
      BY <2>1, <3>1, <3>3, <3>4, <3>5, WrittenOut
  <2> QED
    BY <2>2, <2>3
<1>5. ASSUME NEW k \in Kinds, Close(k) PROVE IInv'
  BY <1>5, NotStarted DEF Close, boundVars, IInv, TypeOK
<1>6. ASSUME UNCHANGED <<fileVars, archiverVars, given, crashes>>,
             working' \in BOOLEAN, faults' \in {faults, faults + 1}
      PROVE  IInv'
  <2> faults' \in Nat /\ (faults' = 0 => faults = 0)
    BY <1>6 DEF IInv, TypeOK
  <2>1. TypeOK'
    BY <1>6 DEF IInv, TypeOK, fileVars, archiverVars
  <2>2. OpenFiles'
    BY <1>6 DEF IInv, OpenFiles, KeepsOpen, Before, fileVars, archiverVars
  <2>3. SplitAtMidnight' /\ NoGaps' /\ Numbered' /\ OneRunPerFile' /\ FlushedKept'
    BY <1>6 DEF IInv, SplitAtMidnight, NoGaps, Numbered, OneRunPerFile,
       Before, FlushedKept, fileVars, archiverVars
  <2>4. FiledByDay'
    BY <1>6, <2>1 DEF IInv, FiledByDay, fileVars
  <2> QED
    BY <2>1, <2>2, <2>3, <2>4 DEF IInv
<1>7. ASSUME DiskFails \/ DiskRecovers \/ UNCHANGED vars PROVE IInv'
  <2>1. working \in BOOLEAN /\ faults \in Nat
    BY DEF IInv, TypeOK
  <2>2. CASE DiskFails
    <3>1. faults' = faults + 1
      BY <2>1, <2>2 DEF DiskFails
    <3>2. working' \in BOOLEAN
      BY <2>2 DEF DiskFails
    <3> QED
      BY <1>6, <2>2, <3>1, <3>2 DEF DiskFails
  <2>3. CASE DiskRecovers
    BY <1>6, <2>1, <2>3 DEF DiskRecovers, boundVars
  <2>4. CASE UNCHANGED vars
    BY <1>6, <2>1, <2>4 DEF vars, boundVars
  <2> QED
    BY <1>7, <2>2, <2>3, <2>4
<1>8. ASSUME Crash PROVE IInv'
  <2>1. /\ UNCHANGED fileVars /\ given' = given /\ crashes' = crashes + 1
        /\ crashes \in Nat /\ given \in Nat /\ crashes' \in Nat
        /\ current' = [k \in Kinds |-> Closed]
        /\ buffer' = [k \in Kinds |-> <<>>]
        /\ broken' = [k \in Kinds |-> FALSE]
        /\ splitAt' = 0 /\ working' = working /\ faults' = faults
    BY <1>8 DEF Crash, IInv, TypeOK
  <2>2. TypeOK'
    BY <2>1 DEF IInv, TypeOK, fileVars
  <2>3. OpenFiles' /\ SplitAtMidnight'
    BY <2>1 DEF OpenFiles, SplitAtMidnight, Kinds
  <2>4. Numbered'
    <3> SUFFICES ASSUME NEW m \in DOMAIN written, NEW x \in Range(written[m])
                 PROVE  x.run <= crashes'
      BY <2>1 DEF IInv, Numbered, fileVars
    <3>1. x \in Entries /\ x.run <= crashes
      BY Elements DEF IInv, TypeOK, Numbered
    <3> QED
      BY <2>1, <3>1 DEF Entries
  <2>5. NoGaps' /\ OneRunPerFile' /\ FlushedKept'
    BY <2>1 DEF IInv, NoGaps, OneRunPerFile, Before, FlushedKept, fileVars
  <2>6. FiledByDay'
    BY <2>1, <2>2 DEF IInv, FiledByDay, fileVars
  <2> QED
    BY <2>2, <2>3, <2>4, <2>5, <2>6 DEF IInv
<1> QED
  BY <1>1, <1>2, <1>3, <1>4, <1>5, <1>7, <1>8 DEF Next

(* The disk fails only as counted.                                         *)
LEMMA NextFailedOnce == IInv /\ FailedOnce /\ [Next]_vars => FailedOnce'
<1> SUFFICES ASSUME IInv, FailedOnce, [Next]_vars PROVE FailedOnce'
  OBVIOUS
<1>1. working \in BOOLEAN /\ faults \in Nat
  BY DEF IInv, TypeOK
<1>2. CASE UNCHANGED <<working, faults>>
  BY <1>2 DEF FailedOnce
<1>3. CASE Trouble \/ DiskFails \/ DiskRecovers
  BY <1>1, <1>3 DEF Trouble, DiskFails, DiskRecovers, FailedOnce
<1>4. ASSUME NEW k, NEW d, NEW e, Switch(k, d, e)
      PROVE  UNCHANGED <<working, faults>> \/ Trouble
  BY <1>4 DEF Switch
<1>5. ASSUME NEW k, NEW e, WriteOn(k, e) PROVE UNCHANGED <<working, faults>>
  BY <1>5 DEF WriteOn
<1>6. ASSUME NEW t \in Times, WriteLocation(t) PROVE FailedOnce'
  BY <1>2, <1>3, <1>4, <1>5, <1>6 DEF WriteLocation
<1>7. ASSUME NEW t \in Times, NEW u \in Times, AddResponse(t, u) PROVE FailedOnce'
  BY <1>2, <1>3, <1>4, <1>5, <1>7 DEF AddResponse
<1>8. ASSUME NEW k \in Kinds, Spill(k) \/ Flush(k) \/ Close(k) PROVE FailedOnce'
  BY <1>2, <1>8 DEF Spill, Flush, Close, boundVars
<1>9. CASE Crash \/ UNCHANGED vars
  BY <1>2, <1>9 DEF Crash, vars, boundVars
<1> QED
  BY <1>3, <1>6, <1>7, <1>8, <1>9 DEF Next

(* The inductive invariant holds throughout.                               *)
LEMMA Invariance == Spec => []IInv
<1>1. Init => FailedOnce
  BY DEF Init, FailedOnce
<1> QED
  BY <1>1, InitIInv, NextIInv, NextFailedOnce, PTL DEF Spec

(* Responses are in files of their own day.  A file of locations begins    *)
(* with one of its day and has none from after the midnight that ends it:  *)
(* a location from that very midnight may be in the file of the day before *)
(* its own, and one that is late in the file of a day after it.  That is   *)
(* so in whatever order csvArchiver and VLRArchiver are given their times, *)
(* and for days of any length.                                             *)
THEOREM EverythingFiled == Spec => []FiledByDay
BY Invariance, PTL DEF IInv

(* OpenUniqueFile keeps the runs of the process apart: no run writes to a  *)
(* file of another, and an archiver's files do not interleave, whichever   *)
(* names were skipped for errors of the disk; without such errors a day's  *)
(* files are named in the order of writing.                                *)
THEOREM RunsApart == Spec => []OneRunPerFile
BY Invariance, PTL DEF IInv

(* A file holds a prefix of what was accepted for it, no shorter than what *)
(* had been flushed, after any faults of the disk and any crashes.         *)
THEOREM NothingFlushedIsLost == Spec => []FlushedKept
BY Invariance, PTL DEF IInv

(* An entry that begins a day has a file of its own if the disk works,     *)
(* in whatever state the archiver's writer of the day before is.           *)
THEOREM NewDayBegins == Spec => NewDayAccepted
<1> DEFINE Begins(k, d) ==
      /\ given' # given /\ working /\ faults' = faults
      /\ NamesFor(k, d) \intersect DOMAIN files = {}
      /\ IF k = Csv
         THEN \E t \in Times : Day(t) = d /\ ShouldSplit(t) /\ WriteLocation(t)
         ELSE \E t, u \in Times : Day(FiledAt(t, u)) = d /\ AddResponse(t, u)
    Begun(k, d) == \E n \in NamesFor(k, d) : n \in DOMAIN files' /\ Len(written'[n]) = 1
<1>1. ASSUME IInv, NEW k \in Kinds, NEW d \in Days, Begins(k, d)
      PROVE  Begun(k, d)
  <2>1. UniqueFile(k, d) # {}
    <3> DEFINE name == [kind |-> k, day |-> d, suffix |-> 0]
    <3>1. name \in FreeNames(k, d)
      BY <1>1, ArchivesAssumption DEF FreeNames, NamesFor, Names
    <3>2. \A m \in FreeNames(k, d) : name.suffix <= m.suffix
      BY DEF FreeNames, NamesFor, Names
    <3>3. name \in UniqueFile(k, d)
      BY <3>1, <3>2 DEF UniqueFile
    <3> QED
      BY <3>3
  <2>2. ASSUME NEW e, Switch(k, d, e) PROVE Begun(k, d)
    <3>1. ~ Trouble
      <4>1. faults \in Nat /\ working /\ faults' = faults
        BY <1>1 DEF IInv, TypeOK
      <4>2. faults' # faults + 1
        BY <4>1
      <4> QED
        BY Zenon, <4>1, <4>2 DEF Trouble
    <3>2. PICK name \in UniqueFile(k, d) : StartFile(k, name, e)
      BY <1>1, <2>1, <2>2, <3>1 DEF Switch
    <3>3. name \in NamesFor(k, d)
      BY DEF UniqueFile, FreeNames
    <3>4. name \in DOMAIN files' /\ written'[name] = <<e>>
      BY <3>2 DEF StartFile, Created
    <3> QED
      BY <3>3, <3>4
  <2>3. CASE k = Csv
    <3>1. PICK t \in Times : Day(t) = d /\ ShouldSplit(t) /\ WriteLocation(t)
      BY <1>1, <2>3
    <3> QED
      BY <2>2, <2>3, <3>1 DEF WriteLocation
  <2>4. CASE k # Csv
    <3>1. k = Vlr
      BY <2>4 DEF Kinds
    <3>2. PICK t \in Times, u \in Times :
            Day(FiledAt(t, u)) = d /\ AddResponse(t, u)
      BY <1>1, <2>4
    <3>3. OtherFragment(d)
      <4> SUFFICES ASSUME current[Vlr] # Closed, current[Vlr].day = d
                   PROVE  FALSE
        BY DEF OtherFragment
      <4>1. current[Vlr] \in NamesFor(k, d) \intersect DOMAIN files
        BY <3>1, OpenFile, <1>1 DEF NamesFor
      <4> QED
        BY <1>1, <4>1
    <3> QED
      BY <2>2, <3>1, <3>2, <3>3 DEF AddResponse
  <2> QED
    BY <2>3, <2>4
<1>2. IInv /\ [Next]_vars =>
        [\A k \in Kinds, d \in Days : Begins(k, d) => Begun(k, d)]_vars
  BY <1>1
<1> QED
  BY <1>2, Invariance, PTL DEF Spec, NewDayAccepted
============================================================================
